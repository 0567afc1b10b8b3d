------------------------------ MODULE LlmRouting ------------------------------
(***************************************************************************)
(* Keys, routing, metering and the budget of LLM calls of one tenant       *)
(* (insight-core llm.rs; insight-api routes/ai.rs, routes/usage.rs and the *)
(* gate of routes/copilot.rs).                                             *)
(*                                                                         *)
(* Three providers stand for the seven: two natives, and the generic one,  *)
(* which must be routed to and whose name in the key registry is not the   *)
(* name its key is looked up by.  The key `ai` of the org settings is      *)
(* patched here in one step; module Settings has the races of its blob.    *)
(***************************************************************************)
EXTENDS Naturals, Sequences, FiniteSets

CONSTANTS
  Copilots,  \* interactive requests in flight
  Jobs,      \* background callers: extraction, synthesis, study, nli
  Costs,     \* micro-USD of a call
  Limit,     \* budgetMonthlyLimitUsd, not 0
  MaxSpent,  \* bound on the month's spend
  MaxChanges,  \* bound on the changes of keys and routing
  MaxLlmFaults \* bound on failed budget reads and failed metering

ASSUME LlmRoutingAssumption ==
  /\ IsFiniteSet(Copilots) /\ Copilots \cap Jobs = {}
  /\ Costs \subseteq Nat /\ Limit \in Nat \ {0} /\ MaxSpent \in Nat /\ MaxChanges \in Nat
  /\ MaxLlmFaults \in Nat

Natives == {"gemini", "anthropic"}
Compatible == "openai_compatible"
Providers == Natives \cup {Compatible}

\* KNOWN_PROVIDERS, the names save_key accepts and stores; ProviderId::as_str.
RegistryName(p) == IF p = Compatible THEN "openai-compatible" ELSE p
RegistryNames == {RegistryName(p) : p \in Providers}

Scopes == {"user", "org"}
NativeOrder == <<"gemini", "anthropic">>
Callers == Copilots \cup Jobs

VARIABLES
  stored,    \* user_provider_keys: by name and scope, "none", "good", "stale"
  env,       \* the providers with a key in the environment
  ai,        \* the override of settings key `ai`
  changes,   \* of keys and routing so far
  call,      \* the callers
  spent,     \* usage_records of this month, micro-USD
  late,      \* interactive calls metered after the limit was reached
  failOpen,  \* budget reads that failed
  budgetFaults

lvars == <<stored, env, ai, changes, call, spent, late, failOpen, budgetFaults>>
config == <<stored, env, ai, changes>>
ledger == <<spent, late, failOpen, budgetFaults>>

NoOverride == [set |-> FALSE, routed |-> "", fallback |-> <<>>, base |-> FALSE]
IdleCall == [pc |-> "idle", left |-> {}, tried |-> {}, order |-> <<>>, base |-> FALSE,
             natives |-> {}, stale |-> FALSE]

LlmTypeOK ==
  /\ stored \in [RegistryNames \X Scopes -> {"none", "good", "stale"}]
  /\ env \subseteq Providers
  /\ ai \in [set : BOOLEAN, routed : Providers \cup {""}, base : BOOLEAN,
             fallback : {<<>>, NativeOrder}]
  /\ \A c \in Callers : /\ call[c].pc \in {"idle", "chain", "try", "meter", "failed"}
                        /\ call[c].left \cap call[c].tried = {}
  /\ spent \in 0 .. MaxSpent /\ budgetFaults \in 0 .. MaxLlmFaults

LlmInit ==
  /\ stored = [k \in RegistryNames \X Scopes |-> "none"]
  /\ env \in SUBSET {"gemini"}
  /\ ai = NoOverride /\ changes = 0
  /\ call = [c \in Callers |-> IdleCall]
  /\ spent = 0 /\ late = 0 /\ failOpen = 0 /\ budgetFaults = 0

-----------------------------------------------------------------------------
(* Keys and routing *)

Change ==
  /\ changes < MaxChanges
  /\ changes' = changes + 1
  /\ UNCHANGED <<env, call>> /\ UNCHANGED ledger

\* store_provider_key: one row per name and scope, replaced by a new key.
StoreKey(name, scope) == stored' = [stored EXCEPT ![<<name, scope>>] = "good"]

\* delete_provider_key
RemoveKey(name, scope) == stored' = [stored EXCEPT ![<<name, scope>>] = "none"]

\* save_key; the base URL, of the generic provider only, and the model are patched
\* into `ai` after it, if given.
SaveKey ==
  /\ \E p \in Providers, s \in Scopes, base, model \in BOOLEAN :
       /\ base => p = Compatible
       /\ StoreKey(RegistryName(p), s)
       /\ ai' = IF base \/ model
                THEN [set |-> TRUE, routed |-> ai.routed, fallback |-> ai.fallback,
                      base |-> ai.base \/ base]
                ELSE ai
  /\ Change

DeleteKey ==
  /\ \E name \in RegistryNames, scope \in Scopes : RemoveKey(name, scope)
  /\ Change /\ UNCHANGED ai

\* set_providers patches taskRouting alone.
SetProviders ==
  /\ \E p \in Providers :
       ai' = [set |-> TRUE, routed |-> p, fallback |-> ai.fallback, base |-> ai.base]
  /\ Change /\ UNCHANGED stored

\* The server is started with another PROVIDER_KEY_KEK.
RotateKek ==
  /\ stored' = [k \in DOMAIN stored |-> IF stored[k] = "good" THEN "stale" ELSE stored[k]]
  /\ Change /\ UNCHANGED ai

\* A stored override replaces the defaults of `ai`, the fallback order included.
Config == IF ai.set THEN ai
          ELSE [set |-> FALSE, routed |-> "gemini", fallback |-> NativeOrder,
                base |-> FALSE]

\* resolve_api_key: the row of the user, or of the org, or the environment.
StoredAs(p, s) == IF <<p, s>> \in DOMAIN stored THEN stored[p, s] ELSE "none"

KeyOf(c, p) ==
  IF c \in Copilots /\ StoredAs(p, "user") # "none" THEN StoredAs(p, "user")
  ELSE IF StoredAs(p, "org") # "none" THEN StoredAs(p, "org")
  ELSE IF p \in env THEN "good" ELSE "none"

\* Mutant of Order: without the natives as a last resort.
OrderConfigured ==
  (IF Config.routed = "" THEN <<>> ELSE <<Config.routed>>) \o Config.fallback

\* provider_chain; a second mention of a provider is skipped.
Order ==
  (IF Config.routed = "" THEN <<>> ELSE <<Config.routed>>) \o Config.fallback
    \o NativeOrder

Ordered == {Order[i] : i \in 1 .. Len(Order)}

-----------------------------------------------------------------------------
(* Calls *)

CallAt(c, pc) == call[c].pc = pc
SetCall(c, r) == call' = [call EXCEPT ![c] = r]

\* Mutant of OverLimit: the last micro-USD of the budget opens it again.
AboveLimit == spent > Limit

\* budget_status
OverLimit == spent >= Limit

\* copilot: refuse over the limit; go on when the status cannot be read.
CheckBudget(c) ==
  /\ CallAt(c, "idle") /\ c \in Copilots
  /\ \/ ~OverLimit /\ UNCHANGED <<failOpen, budgetFaults>>
     \/ /\ budgetFaults < MaxLlmFaults
        /\ budgetFaults' = budgetFaults + 1 /\ failOpen' = failOpen + 1
  /\ SetCall(c, [IdleCall EXCEPT !.pc = "chain"])
  /\ UNCHANGED config /\ UNCHANGED <<spent, late>>

\* A background call has no gate.
StartJob(c) ==
  /\ CallAt(c, "idle") /\ c \in Jobs
  /\ SetCall(c, [IdleCall EXCEPT !.pc = "chain"])
  /\ UNCHANGED config /\ UNCHANGED ledger

\* The chain is fixed now: a key that does not decrypt fails the whole call, a
\* provider without one is skipped.
BuildChain(c) ==
  /\ CallAt(c, "chain")
  /\ LET keyed == {p \in Ordered : KeyOf(c, p) = "good"}
         stale == \E p \in Ordered : KeyOf(c, p) = "stale"
     IN SetCall(c, [pc |-> IF stale \/ keyed = {} THEN "failed" ELSE "try",
                    left |-> IF stale THEN {} ELSE keyed, tried |-> {}, order |-> Order,
                    base |-> Config.base, stale |-> stale,
                    natives |-> {p \in Natives : KeyOf(c, p) = "good"}])
  /\ UNCHANGED config /\ UNCHANGED ledger

\* The first of the order that is left.
Candidate(c) ==
  LET o == call[c].order
      i == CHOOSE i \in 1 .. Len(o) : /\ o[i] \in call[c].left
                                      /\ \A j \in 1 .. i - 1 : o[j] \notin call[c].left
  IN o[i]

\* complete: the generic provider fails without a base URL, any other may.
TryProvider(c) ==
  /\ CallAt(c, "try")
  /\ LET p == Candidate(c)
         left == call[c].left \ {p}
         Tried(pc) == [pc |-> pc, left |-> left, tried |-> call[c].tried \cup {p},
                       order |-> call[c].order, base |-> call[c].base,
                       natives |-> call[c].natives, stale |-> call[c].stale]
     IN \/ /\ p = Compatible => call[c].base
           /\ SetCall(c, Tried("meter"))
        \/ SetCall(c, Tried(IF left = {} THEN "failed" ELSE "try"))
  /\ UNCHANGED config /\ UNCHANGED ledger

\* meter; a failed write is only logged.
Meter(c) ==
  /\ CallAt(c, "meter")
  /\ \/ \E cost \in Costs :
          /\ spent + cost <= MaxSpent
          /\ spent' = spent + cost
          /\ late' = IF c \in Copilots /\ spent >= Limit THEN late + 1 ELSE late
          /\ UNCHANGED budgetFaults
     \/ /\ budgetFaults < MaxLlmFaults
        /\ budgetFaults' = budgetFaults + 1
        /\ UNCHANGED <<spent, late>>
  /\ SetCall(c, IdleCall)
  /\ UNCHANGED config /\ UNCHANGED failOpen

\* The error reaches the caller, or the request is dropped on the way.
EndCall(c) ==
  /\ call[c].pc \in {"failed", "chain", "try", "meter"}
  /\ SetCall(c, IdleCall)
  /\ UNCHANGED config /\ UNCHANGED ledger

\* date_trunc('month', now()) moves on.
NewMonth ==
  /\ spent > 0
  /\ spent' = 0 /\ late' = 0 /\ failOpen' = 0
  /\ UNCHANGED config /\ UNCHANGED <<call, budgetFaults>>

LlmNext ==
  \/ SaveKey \/ DeleteKey \/ SetProviders \/ RotateKek \/ NewMonth
  \/ \E c \in Callers : \/ CheckBudget(c) \/ StartJob(c) \/ BuildChain(c) \/ TryProvider(c)
                        \/ Meter(c) \/ EndCall(c)

LlmSpec == LlmInit /\ [][LlmNext]_lvars

-----------------------------------------------------------------------------
(* Properties *)

\* The budget is checked long before its call is metered: the interactive
\* calls of a month that end beyond the limit are at most those in flight when
\* it was reached, and those whose check could not read the spend.
OverrunBounded == late <= Cardinality(Copilots) + failOpen

\* "Ensure the natives are always reachable as a last resort" (llm.rs:716): a
\* call fails only after it tried each native that had a key, whatever admins
\* made of the routing, unless a key it met could not be decrypted.
NativesLastResort ==
  \A c \in Callers : CallAt(c, "failed") /\ ~call[c].stale => call[c].natives \subseteq call[c].tried

\* "Key resolution is user-scope -> org-scope -> the provider's env var"
\* (llm.rs:12): the key an admin stored for a provider is the one it is called
\* with.
StoredKeyResolves ==
  \A c \in Jobs, p \in Providers :
     stored[RegistryName(p), "org"] # "none" => KeyOf(c, p) = stored[RegistryName(p), "org"]

\* "A provider with no resolvable key is skipped in the routing chain"
\* (llm.rs:14): it does not keep the others from being called.
UnresolvableIsSkipped ==
  \A c \in Callers : CallAt(c, "failed") => call[c].natives \subseteq call[c].tried
=============================================================================
