----------------------------- MODULE WebhookProofs -----------------------------
(***************************************************************************)
(* Proofs about WebhookDelivery, Settings and RateLimit: for any hooks and *)
(* dispatchers, any patches, processes and requests, and any hits, limits  *)
(* and windows; and about the composition that the run Runtime checks.     *)
(***************************************************************************)
EXTENDS MCRuntime, TLAPS

-----------------------------------------------------------------------------
(* WebhookDelivery *)

(* Before the event nobody dispatches it; after it, a steady hook is still  *)
(* subscribed, and whoever dispatches has posted to it or has yet to.       *)
DispatchCovers ==
  /\ event = "none" => \A d \in Dispatchers : ~dispatcher[d].busy
  /\ event # "none" => steady \subseteq Subscribed
  /\ \A d \in Dispatchers :
       /\ dispatcher[d].todo # {} => dispatcher[d].busy
       /\ dispatcher[d].busy => steady \subseteq posted \cup dispatcher[d].todo

WebhookInv == WebhookTypeOK /\ DispatchCovers /\ AckedMeansPosted

DispatcherStates == [busy : BOOLEAN, todo : SUBSET Hooks, posting : {{}} \cup {{h} : h \in Hooks}]

LEMMA WebhookStart == WebhookInit => WebhookInv
BY DEF WebhookInit, WebhookInv, WebhookTypeOK, DispatchCovers, AckedMeansPosted, Sleeping

(* A dispatcher moves on and keeps covering the steady hooks. *)
LEMMA DispatcherMoves ==
  ASSUME WebhookInv, NEW d \in Dispatchers, NEW r \in DispatcherStates, SetDispatcher(d, r),
         UNCHANGED <<hooks, steady>>,
         posted' \in SUBSET Hooks, posted \subseteq posted',
         status' \in [Hooks -> {"none", "ok", "error"}],
         r.todo # {} => r.busy,
         r.busy => event # "none" /\ steady \subseteq posted' \cup r.todo,
         \/ event' = event
         \/ event' = "acked" /\ event = "queued" /\ steady \subseteq posted'
  PROVE  WebhookInv'
<1>1. /\ dispatcher' \in [Dispatchers -> DispatcherStates]
      /\ dispatcher'[d] = r
      /\ \A e \in Dispatchers : e # d => dispatcher'[e] = dispatcher[e]
  BY DEF SetDispatcher, WebhookInv, WebhookTypeOK, DispatcherStates
<1>2. WebhookTypeOK'
  BY <1>1 DEF WebhookInv, WebhookTypeOK, DispatcherStates
<1>3. Subscribed' = Subscribed
  BY DEF Subscribed
<1>4. DispatchCovers'
  BY <1>1, <1>3 DEF WebhookInv, DispatchCovers
<1>5. AckedMeansPosted'
  BY DEF WebhookInv, AckedMeansPosted
<1>. QED
  BY <1>2, <1>4, <1>5 DEF WebhookInv

LEMMA AdminSteps ==
  ASSUME WebhookInv, EditHook \/ Emit \/ TestHook
  PROVE  WebhookInv'
<1>1. CASE EditHook
  <2>1. PICK h \in Hooks, s \in {"absent", "off", "subscribed"} :
          /\ hooks' = [hooks EXCEPT ![h] = s]
          /\ status' \in {status, [status EXCEPT ![h] = "none"]}
          /\ steady' = steady \ {h}
    BY <1>1 DEF EditHook
  <2>2. UNCHANGED <<posted, event, dispatcher>>
    BY <1>1 DEF EditHook
  <2>3. WebhookTypeOK'
    BY <2>1, <2>2 DEF WebhookInv, WebhookTypeOK
  <2>4. Subscribed \ {h} \subseteq Subscribed'
    BY <2>1 DEF WebhookInv, WebhookTypeOK, Subscribed
  <2>5. DispatchCovers' /\ AckedMeansPosted'
    BY <2>1, <2>2, <2>4 DEF WebhookInv, DispatchCovers, AckedMeansPosted
  <2>. QED
    BY <2>3, <2>5 DEF WebhookInv
<1>2. CASE Emit
  <2>1. WebhookTypeOK'
    BY <1>2 DEF Emit, WebhookInv, WebhookTypeOK, Subscribed
  <2>2. Subscribed' = Subscribed
    BY <1>2 DEF Emit, Subscribed
  <2>3. DispatchCovers' /\ AckedMeansPosted'
    BY <1>2, <2>2 DEF Emit, WebhookInv, DispatchCovers, AckedMeansPosted
  <2>. QED
    BY <2>1, <2>3 DEF WebhookInv
<1>3. CASE TestHook
  <2>1. WebhookTypeOK'
    BY <1>3 DEF TestHook, Recorded, WebhookInv, WebhookTypeOK
  <2>2. UNCHANGED <<hooks, steady, posted, event, dispatcher, Subscribed>>
    BY <1>3 DEF TestHook, Subscribed
  <2>3. DispatchCovers' /\ AckedMeansPosted'
    BY <2>2 DEF WebhookInv, DispatchCovers, AckedMeansPosted
  <2>. QED
    BY <2>1, <2>3 DEF WebhookInv
<1>. QED
  BY <1>1, <1>2, <1>3

LEMMA DispatcherSteps ==
  ASSUME WebhookInv, NEW d \in Dispatchers,
         LoadHooks(d) \/ PostHook(d) \/ Record(d) \/ AckEvent(d) \/ DispatcherDies(d)
  PROVE  WebhookInv'
<1>1. /\ dispatcher[d] \in DispatcherStates /\ Sleeping \in DispatcherStates /\ ~Sleeping.busy
      /\ posted \in SUBSET Hooks /\ status \in [Hooks -> {"none", "ok", "error"}]
  BY DEF WebhookInv, WebhookTypeOK, DispatcherStates, Sleeping
<1>2. CASE LoadHooks(d)
  <2> DEFINE r == [busy |-> TRUE, todo |-> Subscribed, posting |-> {}]
  <2>1. /\ r \in DispatcherStates /\ r.busy /\ SetDispatcher(d, r)
        /\ event = "queued" /\ steady \subseteq r.todo
        /\ UNCHANGED <<hooks, steady, posted, status, event>>
    BY <1>2 DEF LoadHooks, DispatcherStates, Subscribed, WebhookInv, DispatchCovers
  <2> HIDE DEF r
  <2>. QED
    BY <1>1, <2>1, DispatcherMoves
<1>3. CASE PostHook(d)
  <2>1. PICK h \in dispatcher[d].todo :
          /\ posted' = posted \cup {h}
          /\ SetDispatcher(d, [busy |-> TRUE, todo |-> dispatcher[d].todo \ {h}, posting |-> {h}])
    BY <1>3 DEF PostHook
  <2> DEFINE r == [busy |-> TRUE, todo |-> dispatcher[d].todo \ {h}, posting |-> {h}]
  <2>2. /\ r \in DispatcherStates /\ h \in Hooks /\ r.busy
        /\ r.todo = dispatcher[d].todo \ {h}
    BY <1>1, <2>1 DEF DispatcherStates
  <2>3. dispatcher[d].busy /\ event # "none"
    BY <2>1 DEF WebhookInv, DispatchCovers
  <2>4. steady \subseteq posted' \cup r.todo
    BY <2>1, <2>2, <2>3 DEF WebhookInv, DispatchCovers
  <2>5. UNCHANGED <<hooks, steady, status, event>> /\ SetDispatcher(d, r)
    BY <1>3, <2>1 DEF PostHook
  <2>6. posted' \in SUBSET Hooks /\ posted \subseteq posted'
    BY <1>1, <2>1, <2>2
  <2> HIDE DEF r
  <2>. QED
    BY <1>1, <2>2, <2>3, <2>4, <2>5, <2>6, DispatcherMoves
<1>4. CASE Record(d)
  <2> DEFINE r == [dispatcher[d] EXCEPT !.posting = {}]
  <2>1. /\ r \in DispatcherStates /\ r.busy = dispatcher[d].busy
        /\ r.todo = dispatcher[d].todo
    BY <1>1 DEF DispatcherStates
  <2>2. status' \in [Hooks -> {"none", "ok", "error"}]
    <3>1. PICK h \in dispatcher[d].posting, s \in {"ok", "error"} :
            status' \in {status, Recorded(h, s)}
      BY <1>4 DEF Record
    <3>. QED
      BY <1>1, <3>1 DEF Recorded
  <2>3. SetDispatcher(d, r) /\ UNCHANGED <<hooks, steady, posted, event>>
    BY <1>4 DEF Record
  <2> HIDE DEF r
  <2>4. /\ r.todo # {} => r.busy
        /\ r.busy => event # "none" /\ steady \subseteq posted' \cup r.todo
    BY <2>1, <2>3 DEF WebhookInv, DispatchCovers
  <2>. QED
    BY <1>1, <2>1, <2>2, <2>3, <2>4, DispatcherMoves
<1>5. CASE AckEvent(d)
  <2>1. steady \subseteq posted
    BY <1>5 DEF AckEvent, WebhookInv, DispatchCovers
  <2>2. event' = event \/ (event' = "acked" /\ event = "queued")
    BY <1>5 DEF AckEvent
  <2>3. SetDispatcher(d, Sleeping) /\ UNCHANGED <<hooks, steady, posted, status>>
    BY <1>5 DEF AckEvent
  <2>4. Sleeping.todo = {}
    BY DEF Sleeping
  <2>. QED
    BY <1>1, <2>1, <2>2, <2>3, <2>4, DispatcherMoves
<1>6. CASE DispatcherDies(d)
  <2>1. SetDispatcher(d, Sleeping) /\ UNCHANGED <<hooks, steady, posted, status, event>>
    BY <1>6 DEF DispatcherDies
  <2>2. Sleeping.todo = {}
    BY DEF Sleeping
  <2>. QED
    BY <1>1, <2>1, <2>2, DispatcherMoves
<1>. QED
  BY <1>2, <1>3, <1>4, <1>5, <1>6

LEMMA WebhookStep == WebhookInv /\ [WebhookNext]_wvars => WebhookInv'
<1>. SUFFICES ASSUME WebhookInv, [WebhookNext]_wvars PROVE WebhookInv'
  OBVIOUS
<1>1. CASE EditHook \/ Emit \/ TestHook
  BY <1>1, AdminSteps
<1>2. ASSUME NEW d \in Dispatchers,
             LoadHooks(d) \/ PostHook(d) \/ Record(d) \/ AckEvent(d) \/ DispatcherDies(d)
      PROVE  WebhookInv'
  BY <1>2, DispatcherSteps
<1>3. ASSUME NEW d \in Dispatchers, LoadFails(d)
      PROVE  WebhookInv'
  BY <1>3 DEF LoadFails, WebhookInv, WebhookTypeOK, DispatchCovers, AckedMeansPosted, Subscribed
<1>4. CASE UNCHANGED wvars
  BY <1>4 DEF wvars, WebhookInv, WebhookTypeOK, DispatchCovers, AckedMeansPosted, Subscribed
<1>. QED
  BY <1>1, <1>2, <1>3, <1>4 DEF WebhookNext

(* An event is acked only after it was posted to every hook that was        *)
(* subscribed all the time, whichever dispatchers died on the way (main.rs  *)
(* process, webhooks.rs dispatch).                                          *)
THEOREM Posted == WebhookSpec => []AckedMeansPosted
<1>1. WebhookInv => AckedMeansPosted
  BY DEF WebhookInv
<1>. QED
  BY <1>1, WebhookStart, WebhookStep, PTL DEF WebhookSpec

(* Hooks, the job and the dispatchers have their types. *)
THEOREM WebhookTyped == WebhookSpec => []WebhookTypeOK
<1>1. WebhookInv => WebhookTypeOK
  BY DEF WebhookInv
<1>. QED
  BY <1>1, WebhookStart, WebhookStep, PTL DEF WebhookSpec

-----------------------------------------------------------------------------
(* Settings *)

IsBlob(blob) ==
  /\ DOMAIN blob \subseteq Keys
  /\ \A k \in DOMAIN blob : DOMAIN blob[k] \subseteq Subkeys

RequestTyped(q) ==
  /\ q = [pc |-> q.pc, process |-> q.process, blob |-> q.blob, patch |-> q.patch,
          overtaken |-> q.overtaken]
  /\ q.pc \in {"idle", "put", "write", "invalidate"}
  /\ q.pc # "idle" => q.process \in Processes
  /\ q.pc = "write" => q.patch \in Patches
  /\ IsBlob(q.blob)

EntryTyped(e) ==
  /\ e = [age |-> e.age, values |-> e.values]
  /\ e.age \in 0 .. CacheTtl
  /\ e.age < CacheTtl => DOMAIN e.values = Keys

CachesTyped ==
  /\ cache = [p \in Processes |-> cache[p]]
  /\ \A p \in Processes : EntryTyped(cache[p])

(* A write that nobody overtook starts from the blob it is about to replace. *)
RequestsFollow ==
  /\ request = [r \in Requests |-> request[r]]
  /\ \A r \in Requests :
       /\ RequestTyped(request[r])
       /\ RequestAt(r, "write") /\ ~request[r].overtaken => request[r].blob = overrides

SettingsInv ==
  /\ IsBlob(overrides) /\ writes \in 0 .. MaxPatches
  /\ CachesTyped
  /\ RequestsFollow

(* What apply_patch leaves and what it makes of a key. *)
LEMMA PatchedBlob ==
  ASSUME NEW blob, IsBlob(blob), NEW patch \in Patches
  PROVE  IsBlob(Patched(blob, patch))
<1>1. /\ DOMAIN patch \subseteq Keys
      /\ \A k \in DOMAIN patch : patch[k] = Null \/ DOMAIN patch[k] \subseteq Subkeys
  BY SettingsAssumption
<1>2. ASSUME NEW k \in DOMAIN Patched(blob, patch)
      PROVE  DOMAIN Patched(blob, patch)[k] \subseteq Subkeys
  <2>1. k \in DOMAIN blob \cup DOMAIN patch /\ (k \in DOMAIN patch => patch[k] # Null)
    BY DEF Patched
  <2>2. CASE k \notin DOMAIN patch
    BY <2>1, <2>2 DEF Patched, IsBlob
  <2>3. CASE k \in DOMAIN patch /\ k \in DOMAIN blob
    <3>1. Patched(blob, patch)[k] = Merged(blob[k], patch[k])
      BY <2>3 DEF Patched
    <3>2. DOMAIN Merged(blob[k], patch[k]) \subseteq DOMAIN blob[k] \cup DOMAIN patch[k]
      BY DEF Merged
    <3>. QED
      BY <1>1, <2>1, <2>3, <3>1, <3>2 DEF IsBlob
  <2>4. CASE k \in DOMAIN patch /\ k \notin DOMAIN blob
    BY <1>1, <2>1, <2>4 DEF Patched
  <2>. QED
    BY <2>2, <2>3, <2>4
<1>3. DOMAIN Patched(blob, patch) \subseteq Keys
  BY <1>1 DEF Patched, IsBlob
<1>. QED
  BY <1>2, <1>3 DEF IsBlob

Object(blob, k) == IF k \in DOMAIN blob THEN blob[k] ELSE Empty

(* A member that the patch does not name is after the merge what it was.    *)
LEMMA UnnamedStays ==
  ASSUME NEW blob, NEW patch, NEW k, NEW s,
         k \in DOMAIN patch => patch[k] # Null /\ s \notin DOMAIN patch[k]
  PROVE  /\ s \in DOMAIN Object(blob, k) <=> s \in DOMAIN Object(Patched(blob, patch), k)
         /\ s \in DOMAIN Object(blob, k) =>
              Object(blob, k)[s] = Object(Patched(blob, patch), k)[s]
<1>0. DOMAIN Empty = {}
  BY DEF Empty
<1>1. k \in DOMAIN Patched(blob, patch) <=> k \in DOMAIN blob \cup DOMAIN patch
  BY DEF Patched
<1>2. CASE k \notin DOMAIN patch
  <2>1. CASE k \in DOMAIN blob
    <3>1. Patched(blob, patch)[k] = blob[k]
      BY <1>1, <1>2, <2>1 DEF Patched
    <3>. QED
      BY <1>1, <2>1, <3>1 DEF Object
  <2>2. CASE k \notin DOMAIN blob
    BY <1>1, <1>2, <2>2 DEF Object
  <2>. QED
    BY <2>1, <2>2
<1>3. CASE k \in DOMAIN patch /\ k \in DOMAIN blob
  <2>1. Patched(blob, patch)[k] = Merged(blob[k], patch[k])
    BY <1>1, <1>3 DEF Patched
  <2>2. s \in DOMAIN Merged(blob[k], patch[k]) <=> s \in DOMAIN blob[k]
    BY <1>3 DEF Merged
  <2>3. s \in DOMAIN blob[k] => Merged(blob[k], patch[k])[s] = blob[k][s]
    BY <1>3, <2>2 DEF Merged
  <2>. QED
    BY <1>1, <1>3, <2>1, <2>2, <2>3 DEF Object
<1>4. CASE k \in DOMAIN patch /\ k \notin DOMAIN blob
  <2>1. Patched(blob, patch)[k] = patch[k]
    BY <1>1, <1>4 DEF Patched
  <2>. QED
    BY <1>0, <1>1, <1>4, <2>1 DEF Object
<1>. QED
  BY <1>2, <1>3, <1>4

LEMMA Idle ==
  /\ IsBlob(Empty)
  /\ RequestTyped(IdleRequest) /\ IdleRequest.pc = "idle"
  /\ EntryTyped(NoEntry)
<1>1. IsBlob(Empty)
  BY DEF IsBlob, Empty
<1>2. RequestTyped(IdleRequest) /\ IdleRequest.pc = "idle"
  BY <1>1 DEF RequestTyped, IdleRequest
<1>3. NoEntry = [age |-> CacheTtl, values |-> Empty]
  BY DEF NoEntry
<1>4. NoEntry.age = CacheTtl /\ CacheTtl \in Nat
  BY <1>3, SettingsAssumption
<1>. QED
  BY <1>1, <1>2, <1>3, <1>4 DEF EntryTyped

LEMMA SettingsStart == SettingsInit => SettingsInv
<1>. SUFFICES ASSUME SettingsInit PROVE SettingsInv
  OBVIOUS
<1>1. CachesTyped
  BY Idle DEF SettingsInit, CachesTyped
<1>2. RequestsFollow
  BY Idle DEF SettingsInit, RequestsFollow, RequestAt
<1>. QED
  BY <1>1, <1>2, Idle, SettingsAssumption DEF SettingsInit, SettingsInv

(* A request moves on and nobody writes. *)
LEMMA RequestMoves ==
  ASSUME RequestsFollow, NEW r \in Requests, NEW q, SetRequest(r, q), UNCHANGED overrides,
         RequestTyped(q), q.pc = "write" => q.blob = overrides
  PROVE  RequestsFollow'
<1>1. /\ request'[r] = q
      /\ \A t \in Requests : t # r => request'[t] = request[t]
      /\ request' = [t \in Requests |-> request'[t]]
  BY DEF RequestsFollow, SetRequest
<1>. QED
  BY <1>1 DEF RequestsFollow, RequestAt

LEMMA CacheSet ==
  ASSUME CachesTyped, NEW p, NEW e, EntryTyped(e), cache' = [cache EXCEPT ![p] = e]
  PROVE  CachesTyped'
<1>1. /\ \A t \in Processes : cache'[t] \in {cache[t], e}
      /\ cache' = [t \in Processes |-> cache'[t]]
  BY DEF CachesTyped
<1>. QED
  BY <1>1 DEF CachesTyped

LEMMA ResolvedWhole ==
  ASSUME NEW blob
  PROVE  EntryTyped([age |-> 0, values |-> Resolved(blob)])
<1>1. DOMAIN Resolved(blob) = Keys
  BY DEF Resolved
<1>. QED
  BY <1>1, SettingsAssumption DEF EntryTyped

(* A write: whoever else is about to write has been overtaken. *)
LEMMA WriteStep ==
  ASSUME SettingsInv, NEW r \in Requests, NEW p \in Processes, NEW blob, IsBlob(blob),
         Write(r, p, blob)
  PROVE  SettingsInv'
<1>1. /\ overrides' = blob /\ cache' = cache
      /\ writes' = writes + 1 /\ writes < MaxPatches
      /\ request' = [q \in Requests |->
           IF q = r THEN [IdleRequest EXCEPT !.pc = "invalidate", !.process = p]
           ELSE [request[q] EXCEPT !.overtaken = RequestAt(q, "write")]]
  BY DEF Write
<1>2. writes' \in 0 .. MaxPatches
  BY <1>1, SettingsAssumption DEF SettingsInv
<1>3. ASSUME NEW q \in Requests
      PROVE  /\ RequestTyped(request'[q])
             /\ request'[q].pc = "write" => request'[q].overtaken
  <2>1. CASE q = r
    <3>1. request'[q] = [IdleRequest EXCEPT !.pc = "invalidate", !.process = p]
      BY <1>1, <2>1
    <3>2. request'[q] = [pc |-> "invalidate", process |-> p, blob |-> Empty, patch |-> Empty,
                         overtaken |-> FALSE]
      BY <3>1 DEF IdleRequest
    <3>. QED
      BY <3>2, Idle DEF RequestTyped
  <2>2. CASE q # r
    <3>1. request'[q] = [request[q] EXCEPT !.overtaken = RequestAt(q, "write")]
      BY <1>1, <2>2
    <3>2. RequestTyped(request[q])
      BY DEF SettingsInv, RequestsFollow
    <3>3. PICK o : o = RequestAt(q, "write")
      OBVIOUS
    <3>4. request'[q] = [pc |-> request[q].pc, process |-> request[q].process,
                         blob |-> request[q].blob, patch |-> request[q].patch, overtaken |-> o]
      BY <3>1, <3>2, <3>3 DEF RequestTyped
    <3>5. request'[q].pc = request[q].pc /\ request'[q].overtaken = o
      BY <3>4
    <3>6. RequestTyped(request'[q])
      BY <3>2, <3>4 DEF RequestTyped
    <3>. QED
      BY <3>3, <3>5, <3>6 DEF RequestAt
  <2>. QED
    BY <2>1, <2>2
<1>4. request' = [q \in Requests |-> request'[q]]
  BY <1>1
<1>5. RequestsFollow'
  BY <1>3, <1>4 DEF RequestsFollow, RequestAt
<1>6. CachesTyped'
  BY <1>1 DEF SettingsInv, CachesTyped
<1>. QED
  BY <1>1, <1>2, <1>5, <1>6 DEF SettingsInv

LEMMA RequestStep ==
  ASSUME SettingsInv, NEW r \in Requests,
         \/ ResolveMiss(r) \/ CachePut(r) \/ PatchRead(r) \/ PatchWrite(r)
         \/ ReplaceBlob(r) \/ Invalidate(r) \/ RequestDies(r)
  PROVE  SettingsInv'
<1>0. /\ RequestsFollow /\ CachesTyped /\ IsBlob(overrides) /\ RequestTyped(request[r])
      /\ IsBlob(overrides)' <=> IsBlob(overrides')
  BY DEF SettingsInv, RequestsFollow, IsBlob
<1>1. CASE ResolveMiss(r)
  <2>1. PICK p \in Processes :
          SetRequest(r, [pc |-> "put", process |-> p, blob |-> overrides, patch |-> Empty,
                         overtaken |-> FALSE])
    BY <1>1 DEF ResolveMiss
  <2>2. UNCHANGED <<overrides, cache, writes>>
    BY <1>1 DEF ResolveMiss
  <2>3. RequestsFollow'
    BY <1>0, <2>1, <2>2, Idle, RequestMoves DEF RequestTyped
  <2>. QED
    BY <2>2, <2>3 DEF SettingsInv, CachesTyped, IsBlob
<1>2. CASE CachePut(r) \/ Invalidate(r)
  <2>1. SetRequest(r, IdleRequest) /\ UNCHANGED <<overrides, writes>>
    BY <1>2 DEF CachePut, Invalidate
  <2>2. RequestsFollow'
    BY <1>0, <2>1, Idle, RequestMoves
  <2>3. \/ cache' = [cache EXCEPT ![request[r].process] =
                       [age |-> 0, values |-> Resolved(request[r].blob)]]
        \/ cache' = [cache EXCEPT ![request[r].process] = NoEntry]
    BY <1>2 DEF CachePut, Invalidate
  <2>4. CachesTyped'
    BY <1>0, <2>3, Idle, CacheSet, ResolvedWhole
  <2>. QED
    BY <2>1, <2>2, <2>4 DEF SettingsInv, IsBlob
<1>3. CASE PatchRead(r)
  <2>1. PICK p \in Processes, patch \in Patches :
          SetRequest(r, [pc |-> "write", process |-> p, blob |-> overrides, patch |-> patch,
                         overtaken |-> FALSE])
    BY <1>3 DEF PatchRead
  <2>2. UNCHANGED <<overrides, cache, writes>>
    BY <1>3 DEF PatchRead
  <2>3. RequestsFollow'
    BY <1>0, <2>1, <2>2, RequestMoves DEF RequestTyped
  <2>. QED
    BY <2>2, <2>3 DEF SettingsInv, CachesTyped, IsBlob
<1>4. CASE PatchWrite(r)
  <2>1. /\ request[r].pc = "write"
        /\ Write(r, request[r].process, Patched(request[r].blob, request[r].patch))
    BY <1>4 DEF PatchWrite, RequestAt
  <2>2. request[r].process \in Processes /\ request[r].patch \in Patches /\ IsBlob(request[r].blob)
    BY <1>0, <2>1 DEF RequestTyped
  <2>. QED
    BY <2>1, <2>2, PatchedBlob, WriteStep
<1>5. CASE ReplaceBlob(r)
  BY <1>5, Idle, WriteStep DEF ReplaceBlob
<1>6. CASE RequestDies(r)
  <2>1. SetRequest(r, IdleRequest) /\ UNCHANGED <<overrides, cache, writes>>
    BY <1>6 DEF RequestDies
  <2>2. RequestsFollow'
    BY <1>0, <2>1, Idle, RequestMoves
  <2>. QED
    BY <2>1, <2>2 DEF SettingsInv, CachesTyped, IsBlob
<1>. QED
  BY <1>1, <1>2, <1>3, <1>4, <1>5, <1>6

LEMMA TickStep == ASSUME SettingsInv, Tick PROVE SettingsInv'
<1>1. UNCHANGED <<overrides, request, writes>>
  BY DEF Tick
<1>2. ASSUME NEW p \in Processes PROVE EntryTyped(cache'[p])
  <2>1. /\ cache'[p] = [cache[p] EXCEPT !.age = IF @ < CacheTtl THEN @ + 1 ELSE @]
        /\ EntryTyped(cache[p])
    BY DEF Tick, SettingsInv, CachesTyped
  <2>2. cache'[p] = [age |-> IF cache[p].age < CacheTtl THEN cache[p].age + 1 ELSE cache[p].age,
                     values |-> cache[p].values]
    BY <2>1 DEF EntryTyped
  <2>. QED
    BY <2>1, <2>2, SettingsAssumption DEF EntryTyped
<1>3. CachesTyped'
  BY <1>2 DEF Tick, CachesTyped
<1>. QED
  BY <1>1, <1>3 DEF SettingsInv, RequestsFollow, RequestAt, IsBlob

LEMMA SettingsStep == SettingsInv /\ [SettingsNext]_svars => SettingsInv'
<1>. SUFFICES ASSUME SettingsInv, [SettingsNext]_svars PROVE SettingsInv'
  OBVIOUS
<1>1. CASE UNCHANGED svars
  BY <1>1 DEF svars, SettingsInv, RequestsFollow, CachesTyped, RequestAt, IsBlob
<1>. QED
  BY <1>1, RequestStep, TickStep DEF SettingsNext

LEMMA SettingsAlways == SettingsSpec => []SettingsInv
BY SettingsStart, SettingsStep, PTL DEF SettingsSpec

LEMMA SettingsShape == SettingsInv => SettingsTypeOK
BY DEF SettingsInv, SettingsTypeOK, IsBlob, CachesTyped, EntryTyped, RequestsFollow,
       RequestTyped, Fresh

(* The stored blob and every entry that is served have the shape of the     *)
(* defaults, and an entry has every key (settings.rs merge_and_clamp).      *)
THEOREM SettingsTyped == SettingsSpec => []SettingsTypeOK
BY SettingsShape, SettingsAlways, PTL

(* A patch that nobody overtook keeps every override it does not name       *)
(* (settings.rs apply_patch; patch_system, patch_org, patch_user).          *)
THEOREM LonePatch == SettingsSpec => LonePatchKeepsRest
<1>. DEFINE Keeps(r) ==
       RequestAt(r, "write") /\ RequestAt(r, "invalidate")' /\ ~request[r].overtaken =>
         \A k \in Keys :
           LET patch == request[r].patch
               Before == IF k \in DOMAIN overrides THEN overrides[k] ELSE Empty
               After == IF k \in DOMAIN overrides' THEN overrides'[k] ELSE Empty
               Named == IF k \in DOMAIN patch
                        THEN IF patch[k] = Null THEN Subkeys ELSE DOMAIN patch[k] ELSE {}
           IN \A s \in Subkeys \ Named :
                /\ s \in DOMAIN Before <=> s \in DOMAIN After
                /\ s \in DOMAIN Before => Before[s] = After[s]
<1>1. ASSUME SettingsInv, SettingsNext, NEW r \in Requests, RequestAt(r, "write"),
             RequestAt(r, "invalidate")', ~request[r].overtaken
      PROVE  PatchWrite(r)
  <2>1. request[r].pc = "write" /\ request'[r].pc = "invalidate" /\ RequestTyped(request[r])
    BY <1>1 DEF RequestAt, SettingsInv, RequestsFollow
  <2>2. ASSUME NEW q \in Requests, NEW t, SetRequest(q, t), t.pc \in {"idle", "put", "write"}
        PROVE  FALSE
    BY <1>1, <2>1, <2>2 DEF SetRequest, SettingsInv, RequestsFollow
  <2>3. ASSUME NEW q \in Requests, q # r, NEW p, NEW blob, Write(q, p, blob)
        PROVE  FALSE
    <3>1. request'[r] = [request[r] EXCEPT !.overtaken = RequestAt(r, "write")]
      BY <2>3 DEF Write
    <3>2. request'[r].pc = request[r].pc
      BY <2>1, <3>1 DEF RequestTyped
    <3>. QED
      BY <2>1, <3>2
  <2>4. ~Tick
    BY <2>1 DEF Tick
  <2>5. ASSUME NEW q \in Requests, ResolveMiss(q) \/ PatchRead(q)
        PROVE  FALSE
    BY <2>2, <2>5 DEF ResolveMiss, PatchRead, IdleRequest
  <2>6. ASSUME NEW q \in Requests, CachePut(q) \/ Invalidate(q) \/ RequestDies(q)
        PROVE  FALSE
    BY <2>2, <2>6, Idle DEF CachePut, Invalidate, RequestDies
  <2>7. ASSUME NEW q \in Requests, PatchWrite(q) PROVE q = r
    BY <2>3, <2>7 DEF PatchWrite
  <2>8. ASSUME NEW q \in Requests, ReplaceBlob(q) PROVE FALSE
    <3>1. q = r
      BY <2>3, <2>8 DEF ReplaceBlob
    <3>. QED
      BY <2>1, <2>8, <3>1 DEF ReplaceBlob, RequestAt
  <2>. QED
    BY <1>1, <2>4, <2>5, <2>6, <2>7, <2>8 DEF SettingsNext
<1>2. ASSUME SettingsInv, [SettingsNext]_svars, NEW r \in Requests
      PROVE  Keeps(r)
  <2>. SUFFICES ASSUME RequestAt(r, "write"), RequestAt(r, "invalidate")', ~request[r].overtaken
       PROVE  Keeps(r)
    OBVIOUS
  <2>1. SettingsNext
    <3>1. ~UNCHANGED svars
      BY DEF svars, RequestAt
    <3>. QED
      BY <1>2, <3>1
  <2>2. /\ overrides' = Patched(request[r].blob, request[r].patch)
        /\ request[r].blob = overrides
    BY <1>1, <1>2, <2>1 DEF PatchWrite, Write, SettingsInv, RequestsFollow
  <2>3. ASSUME NEW k \in Keys,
               NEW s \in Subkeys \ (IF k \in DOMAIN request[r].patch
                                    THEN IF request[r].patch[k] = Null THEN Subkeys
                                         ELSE DOMAIN request[r].patch[k] ELSE {})
        PROVE  /\ s \in DOMAIN Object(overrides, k) <=> s \in DOMAIN Object(overrides', k)
               /\ s \in DOMAIN Object(overrides, k) =>
                    Object(overrides, k)[s] = Object(overrides', k)[s]
    <3>1. k \in DOMAIN request[r].patch =>
            request[r].patch[k] # Null /\ s \notin DOMAIN request[r].patch[k]
      OBVIOUS
    <3>. QED
      BY <2>2, <3>1, UnnamedStays
  <2>. QED
    BY <2>3 DEF Object
<1>3. SettingsInv /\ [SettingsNext]_svars => [\A r \in Requests : Keeps(r)]_svars
  BY <1>2
<1>. QED
  BY <1>3, SettingsAlways, PTL DEF SettingsSpec, LonePatchKeepsRest

-----------------------------------------------------------------------------
(* RateLimit *)

HitStates == [pc : {"idle", "ttl", "expire"}, count : 0 .. MaxHits + 1]

LEMMA HitMoves ==
  ASSUME RateTypeOK, NEW h \in Hits, NEW r \in HitStates, SetHit(h, r)
  PROVE  hit' \in [Hits -> HitStates]
BY DEF RateTypeOK, SetHit, HitStates

LEMMA RateStep == RateTypeOK /\ [RateNext]_rvars => RateTypeOK'
<1>. SUFFICES ASSUME RateTypeOK, [RateNext]_rvars PROVE RateTypeOK'
  OBVIOUS
<1>1. /\ NoHit \in HitStates /\ \A h \in Hits : hit[h] \in HitStates
      /\ MaxHits \in Nat /\ Window \in Nat \ {0} /\ MaxRedisFaults \in Nat
      /\ NoTtl = -1
  BY RateLimitAssumption DEF NoHit, HitStates, RateTypeOK, NoTtl
<1>2. ASSUME NEW h \in Hits, Incr(h) PROVE RateTypeOK'
  <2>1. counter' \in 1 .. MaxHits + 1 /\ UNCHANGED <<ttl, redisFaults>>
    BY <1>1, <1>2 DEF Incr, RateTypeOK
  <2>2. [pc |-> "ttl", count |-> counter'] \in HitStates
    BY <1>1, <2>1 DEF HitStates
  <2>3. SetHit(h, [pc |-> "ttl", count |-> counter'])
    BY <1>2 DEF Incr
  <2>4. hit' \in [Hits -> HitStates]
    BY <2>2, <2>3, HitMoves
  <2>. QED
    BY <1>1, <2>1, <2>4 DEF RateTypeOK, HitStates
<1>3. ASSUME NEW h \in Hits, ReadTtl(h) PROVE RateTypeOK'
  <2>1. PICK r \in {[hit[h] EXCEPT !.pc = "expire"], NoHit} : SetHit(h, r)
    BY <1>3 DEF ReadTtl
  <2>2. r \in HitStates
    BY <1>1, <2>1 DEF HitStates
  <2>3. hit' \in [Hits -> HitStates]
    BY <2>1, <2>2, HitMoves
  <2>. QED
    BY <1>3, <2>3 DEF ReadTtl, RateTypeOK, HitStates
<1>4. ASSUME NEW h \in Hits, Expire(h) PROVE RateTypeOK'
  <2>1. hit' \in [Hits -> HitStates]
    BY <1>1, <1>4, HitMoves DEF Expire
  <2>. QED
    BY <1>1, <1>4, <2>1 DEF Expire, RateTypeOK, HitStates
<1>5. ASSUME NEW h \in Hits, RedisFault(h) PROVE RateTypeOK'
  <2>1. hit' \in [Hits -> HitStates]
    BY <1>1, <1>5, HitMoves DEF RedisFault
  <2>2. UNCHANGED ttl /\ redisFaults' \in 0 .. MaxRedisFaults
    BY <1>1, <1>5 DEF RedisFault, RateTypeOK
  <2>3. counter' = counter \/ counter' \in 1 .. MaxHits + 1
    BY <1>1, <1>5 DEF RedisFault, RateTypeOK
  <2>. QED
    BY <1>1, <2>1, <2>2, <2>3 DEF RateTypeOK, HitStates
<1>6. CASE SecondPasses
  BY <1>1, <1>6 DEF SecondPasses, RateTypeOK
<1>7. CASE UNCHANGED rvars
  BY <1>7 DEF rvars, RateTypeOK
<1>. QED
  BY <1>2, <1>3, <1>4, <1>5, <1>6, <1>7 DEF RateNext

LEMMA RateStart == RateInit => RateTypeOK
BY RateLimitAssumption DEF RateInit, RateTypeOK, NoHit

(* Counter, expiry and calls keep their types, and an expiry never outlives *)
(* its counter, wherever INCR, TTL and EXPIRE are interrupted               *)
(* (middleware.rs).                                                         *)
THEOREM RateTyped == RateSpec => []RateTypeOK
BY RateStart, RateStep, PTL DEF RateSpec

-----------------------------------------------------------------------------
(* The three side by side, as MCRuntime runs them. *)

(* No step of one part disturbs the others, so all of them keep their       *)
(* types.                                                                   *)
THEOREM RuntimeTyped == RuntimeSpec => []RuntimeTypeOK
<1> DEFINE RuntimeInv == SettingsInv /\ RateTypeOK /\ WebhookInv
<1>1. RuntimeInit => RuntimeInv
  BY SettingsStart, RateStart, WebhookStart DEF RuntimeInit
<1>2. RuntimeInv /\ [RuntimeNext]_RuntimeVars => RuntimeInv'
  <2>1. RuntimeInv /\ [RuntimeNext]_RuntimeVars =>
          [SettingsNext]_svars /\ [RateNext]_rvars /\ [WebhookNext]_wvars
    BY DEF RuntimeNext, RuntimeVars
  <2>. QED
    BY <2>1, SettingsStep, RateStep, WebhookStep
<1>3. RuntimeInv => RuntimeTypeOK
  BY SettingsShape DEF RuntimeTypeOK, WebhookInv
<1>. QED
  BY <1>1, <1>2, <1>3, PTL DEF RuntimeSpec
=============================================================================
