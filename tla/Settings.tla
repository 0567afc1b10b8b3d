------------------------------- MODULE Settings -------------------------------
(***************************************************************************)
(* Runtime settings of one scope (insight-core settings.rs; insight-api    *)
(* routes/org_settings.rs, admin_settings.rs, preferences.rs).             *)
(*                                                                         *)
(* The row holds a sparse blob of overrides; each process keeps the        *)
(* resolved values for CACHE_TTL.  A patch reads the row, merges, and      *)
(* writes the whole blob in a later transaction.  The three scopes differ  *)
(* in their keys and clamps only.  A key of the defaults holds an object;  *)
(* keys outside the defaults never get past whitelist_patch.               *)
(***************************************************************************)
EXTENDS Naturals, FiniteSets

CONSTANTS
  Keys, Subkeys,  \* top-level keys, and the members of their objects
  Null,           \* null in a patch
  Patches,        \* what admins send: key -> Null or member -> number or Null
  Processes,      \* api and worker
  Requests,       \* requests in flight
  CacheTtl,       \* CACHE_TTL, in ticks
  Highest,        \* the upper clamp
  MaxPatches      \* bound on the writes

ASSUME SettingsAssumption ==
  /\ CacheTtl \in Nat /\ Highest \in Nat /\ MaxPatches \in Nat
  /\ \A patch \in Patches :
       /\ DOMAIN patch \subseteq Keys
       /\ \A k \in DOMAIN patch : patch[k] = Null \/ DOMAIN patch[k] \subseteq Subkeys

VARIABLES
  overrides,  \* the stored blob
  cache,      \* by process: NoEntry, or resolved values and their age
  request,    \* handlers between two calls
  writes      \* the writes so far

svars == <<overrides, cache, request, writes>>

Empty == [k \in {} |-> Null]
NoEntry == [age |-> CacheTtl, values |-> Empty]
IdleRequest == [pc |-> "idle", process |-> Null, blob |-> Empty, patch |-> Empty,
                overtaken |-> FALSE]

-----------------------------------------------------------------------------
(* Blobs *)

\* apply_patch: null removes a key, objects merge, anything else replaces.
Merged(object, patch) ==
  [s \in {s \in DOMAIN object \cup DOMAIN patch : s \in DOMAIN patch => patch[s] # Null} |->
     IF s \in DOMAIN patch THEN patch[s] ELSE object[s]]

\* Objects merge with objects; a new one comes with the nulls it has inside.
Patched(blob, patch) ==
  [k \in {k \in DOMAIN blob \cup DOMAIN patch : k \in DOMAIN patch => patch[k] # Null} |->
     IF k \notin DOMAIN patch THEN blob[k]
     ELSE IF k \in DOMAIN blob THEN Merged(blob[k], patch[k]) ELSE patch[k]]

Default == [s \in Subkeys |-> 0]

Clamp(n) == IF n # Null /\ n > Highest THEN Highest ELSE n

\* Mutant of Resolved: the defaults of keys that have no override are left out.
ResolvedStored(blob) == [k \in DOMAIN blob |-> [s \in DOMAIN blob[k] |-> Clamp(blob[k][s])]]

\* merge_and_clamp: a stored key fully replaces the default object.
Resolved(blob) ==
  [k \in Keys |-> IF k \in DOMAIN blob THEN [s \in DOMAIN blob[k] |-> Clamp(blob[k][s])]
                  ELSE Default]

-----------------------------------------------------------------------------
(* Requests *)

RequestAt(r, pc) == request[r].pc = pc
SetRequest(r, state) == request' = [request EXCEPT ![r] = state]

SettingsInit ==
  /\ overrides = Empty
  /\ cache = [p \in Processes |-> NoEntry]
  /\ request = [r \in Requests |-> IdleRequest]
  /\ writes = 0

\* Mutant of Fresh: an entry stays until a write of this process removes it.
FreshUntilWritten(p) == cache[p] # NoEntry

\* cache_get
Fresh(p) == cache[p].age < CacheTtl

\* resolve_*: a miss reads the row ...
ResolveMiss(r) ==
  /\ RequestAt(r, "idle")
  /\ \E p \in Processes :
       /\ ~Fresh(p)
       /\ SetRequest(r, [pc |-> "put", process |-> p, blob |-> overrides, patch |-> Empty,
                      overtaken |-> FALSE])
  /\ UNCHANGED <<overrides, cache, writes>>

\* ... and caches it, whatever was written and invalidated meanwhile.
CachePut(r) ==
  /\ RequestAt(r, "put")
  /\ cache' = [cache EXCEPT ![request[r].process] =
                 [age |-> 0, values |-> Resolved(request[r].blob)]]
  /\ SetRequest(r, IdleRequest)
  /\ UNCHANGED <<overrides, writes>>

\* Mutant of PatchRead: it starts from the blob of the last write it saw.
PatchReadCached(r) ==
  /\ RequestAt(r, "idle")
  /\ \E p \in Processes, patch \in Patches :
       /\ Fresh(p)
       /\ SetRequest(r, [pc |-> "write", process |-> p, blob |-> cache[p].values, patch |-> patch,
                      overtaken |-> FALSE])
  /\ UNCHANGED <<overrides, cache, writes>>

\* patch_system, patch_org, patch_user: the row is read past the cache.
PatchRead(r) ==
  /\ RequestAt(r, "idle")
  /\ \E p \in Processes, patch \in Patches :
       SetRequest(r, [pc |-> "write", process |-> p, blob |-> overrides, patch |-> patch,
                   overtaken |-> FALSE])
  /\ UNCHANGED <<overrides, cache, writes>>

Write(r, p, blob) ==
  /\ writes < MaxPatches
  /\ writes' = writes + 1
  /\ overrides' = blob
  /\ request' = [q \in Requests |->
       IF q = r THEN [IdleRequest EXCEPT !.pc = "invalidate", !.process = p]
       ELSE [request[q] EXCEPT !.overtaken = RequestAt(q, "write")]]
  /\ UNCHANGED cache

PatchWrite(r) ==
  /\ RequestAt(r, "write")
  /\ Write(r, request[r].process, Patched(request[r].blob, request[r].patch))

\* set_user_prefs_raw: the body is the whole blob, here an empty one.
ReplaceBlob(r) ==
  /\ RequestAt(r, "idle")
  /\ \E p \in Processes : Write(r, p, Empty)

\* cache_invalidate, in the process that wrote.
Invalidate(r) ==
  /\ RequestAt(r, "invalidate")
  /\ cache' = [cache EXCEPT ![request[r].process] = NoEntry]
  /\ SetRequest(r, IdleRequest)
  /\ UNCHANGED <<overrides, writes>>

\* The database fails, or the client hangs up and the handler is dropped.
RequestDies(r) ==
  /\ ~RequestAt(r, "idle")
  /\ SetRequest(r, IdleRequest)
  /\ UNCHANGED <<overrides, cache, writes>>

\* An entry past the TTL stays in the map until it is replaced.
Tick ==
  /\ \E p \in Processes : cache[p].age < CacheTtl
  /\ cache' = [p \in Processes |-> [cache[p] EXCEPT !.age = IF @ < CacheTtl THEN @ + 1 ELSE @]]
  /\ UNCHANGED <<overrides, request, writes>>

SettingsNext ==
  \/ \E r \in Requests : \/ ResolveMiss(r) \/ CachePut(r) \/ PatchRead(r) \/ PatchWrite(r)
                         \/ ReplaceBlob(r) \/ Invalidate(r) \/ RequestDies(r)
  \/ Tick

\* Only time is sure to go on.
SettingsFairness == WF_svars(Tick)

SettingsSpec == SettingsInit /\ [][SettingsNext]_svars /\ SettingsFairness

-----------------------------------------------------------------------------
(* Properties *)

SettingsTypeOK ==
  /\ DOMAIN overrides \subseteq Keys
  /\ \A k \in DOMAIN overrides : DOMAIN overrides[k] \subseteq Subkeys
  /\ \A p \in Processes : cache[p].age \in 0 .. CacheTtl /\ (Fresh(p) => DOMAIN cache[p].values = Keys)
  /\ \A r \in Requests : request[r].pc \in {"idle", "put", "write", "invalidate"}
  /\ writes \in 0 .. MaxPatches

\* Once nobody writes any more, all processes come to serve what is stored,
\* though a slow resolve may cache what a write has replaced, and a write may
\* die before it invalidates (settings.rs:22-24).
CachesConverge ==
  <>[](\A p \in Processes : Fresh(p) => cache[p].values = Resolved(overrides))

\* A patch that no other write overtook keeps every override it does not name:
\* neither a stale cache nor the merge loses or invents one (settings.rs:636).
LonePatchKeepsRest ==
  [][\A r \in Requests :
       RequestAt(r, "write") /\ RequestAt(r, "invalidate")' /\ ~request[r].overtaken =>
         \A k \in Keys :
           LET patch == request[r].patch
               Before == IF k \in DOMAIN overrides THEN overrides[k] ELSE Empty
               After == IF k \in DOMAIN overrides' THEN overrides'[k] ELSE Empty
               Named == IF k \in DOMAIN patch
                        THEN IF patch[k] = Null THEN Subkeys ELSE DOMAIN patch[k] ELSE {}
           IN \A s \in Subkeys \ Named :
                /\ s \in DOMAIN Before <=> s \in DOMAIN After
                /\ s \in DOMAIN Before => Before[s] = After[s]]_svars

\* "A `null` in the patch deletes the key (lets the admin UI clear an override
\* back to the code/env default)" (settings.rs:637).
ClearedIsDefault ==
  [][\A r \in Requests :
       RequestAt(r, "write") /\ RequestAt(r, "invalidate")' =>
         \A k \in DOMAIN request[r].patch :
           LET patch == request[r].patch[k]  values == Resolved(overrides)'[k] IN
           IF patch = Null THEN values = Default
           ELSE \A s \in DOMAIN patch : patch[s] = Null => s \in DOMAIN values /\ values[s] = 0]_svars
=============================================================================
