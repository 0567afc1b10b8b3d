------------------------------- MODULE LlmProofs -------------------------------
(***************************************************************************)
(* Proofs about LlmRouting, for any number of interactive and background   *)
(* callers, any limit and any bounds, and about the composition that the   *)
(* run Accounts checks.                                                    *)
(***************************************************************************)
EXTENDS MCAccounts, MembershipProofs, SessionProofs, SequenceTheorems

\* The rows of keys and the override of the routing; the ledger.
AiRec == [set : BOOLEAN, routed : Providers \cup {""}, base : BOOLEAN, fallback : {<<>>, NativeOrder}]

KeysTyped ==
  /\ stored \in [RegistryNames \X Scopes -> {"none", "good", "stale"}]
  /\ env \subseteq Providers /\ ai \in AiRec

LedgerTyped ==
  /\ spent \in 0 .. MaxSpent /\ late \in Nat /\ failOpen \in Nat
  /\ budgetFaults \in 0 .. MaxLlmFaults

\* A call that met no stale key has tried each native it may use, or still
\* will; it gives up when nothing is left.
ChainFits(r) ==
  /\ r.pc \in {"idle", "chain", "try", "meter", "failed"}
  /\ r.left \cap r.tried = {}
  /\ r.pc \in {"try", "meter", "failed"} /\ ~r.stale => r.natives \subseteq r.left \cup r.tried
  /\ r.pc = "failed" /\ ~r.stale => r.left = {}

Chains == DOMAIN call = Callers /\ \A c \in Callers : ChainFits(call[c])

\* The interactive calls that have passed the budget check and may be metered.
InFlight == {c \in Copilots : call[c].pc \in {"chain", "try", "meter"}}

(* Every call metered beyond the limit was in flight when the limit was      *)
(* reached, or passed a check that could not read the spend: those that are  *)
(* still in flight are counted with those already metered.                   *)
Overrun ==
  /\ spent < Limit => late = 0
  /\ late + Cardinality(InFlight) <= Cardinality(Copilots) + failOpen

LlmInv == KeysTyped /\ LedgerTyped /\ Chains /\ Overrun

-----------------------------------------------------------------------------
(* The order of the providers ends with the natives. *)

LEMMA LastOfOrder ==
  ASSUME NEW T, NEW s \in Seq(T), NEW t \in Seq(T)
  PROVE  \A i \in 1 .. Len(t) : \E k \in 1 .. Len(s \o t) : (s \o t)[k] = t[i]
<1>. SUFFICES ASSUME NEW i \in 1 .. Len(t) PROVE \E k \in 1 .. Len(s \o t) : (s \o t)[k] = t[i]
  OBVIOUS
<1>1. Len(s) \in Nat /\ Len(t) \in Nat
  BY LenProperties
<1>2. /\ Len(s \o t) = Len(s) + Len(t)
      /\ \A k \in 1 .. Len(s) + Len(t) : (s \o t)[k] = IF k <= Len(s) THEN s[k] ELSE t[k - Len(s)]
  BY ConcatProperties
<1>3. Len(s) + i \in 1 .. Len(s \o t) /\ ~(Len(s) + i <= Len(s)) /\ Len(s) + i - Len(s) = i
  BY <1>1, <1>2
<1>. QED
  BY <1>2, <1>3

LEMMA NativesOrdered == KeysTyped => Natives \subseteq Ordered
<1>. SUFFICES ASSUME KeysTyped PROVE Natives \subseteq Ordered
  OBVIOUS
<1>. DEFINE T == Providers \cup {""}
            first == IF Config.routed = "" THEN <<>> ELSE <<Config.routed>>
            s == first \o Config.fallback
<1>1. NativeOrder \in Seq(T) /\ Len(NativeOrder) = 2
      /\ NativeOrder[1] = "gemini" /\ NativeOrder[2] = "anthropic"
  BY DEF NativeOrder, Providers, Natives
<1>2. Config.routed \in T /\ Config.fallback \in {<<>>, NativeOrder}
  BY DEF KeysTyped, AiRec, Config, Providers, Natives
<1>. HIDE DEF T
<1>3. first \in Seq(T)
  <2>1. <<>> \in Seq(T) /\ \A x \in T : <<x>> \in Seq(T)
    OBVIOUS
  <2>. QED
    BY <1>2, <2>1
<1>4. Config.fallback \in Seq(T)
  <2>1. <<>> \in Seq(T)
    OBVIOUS
  <2>. QED
    BY <1>1, <1>2, <2>1
<1>. HIDE DEF first
<1>5. s \in Seq(T)
  BY <1>3, <1>4, ConcatProperties
<1>6. Order = s \o NativeOrder
  BY DEF Order, first
<1>. HIDE DEF s
<1>7. \A i \in 1 .. 2 : \E k \in 1 .. Len(Order) : Order[k] = NativeOrder[i]
  <2>1. \A i \in 1 .. Len(NativeOrder) :
          \E k \in 1 .. Len(s \o NativeOrder) : (s \o NativeOrder)[k] = NativeOrder[i]
    <3>1. s \in Seq(T) /\ NativeOrder \in Seq(T)
      BY <1>1, <1>5
    <3>2. ASSUME NEW t \in Seq(T), NEW u \in Seq(T)
          PROVE  \A i \in 1 .. Len(u) : \E k \in 1 .. Len(t \o u) : (t \o u)[k] = u[i]
      BY LastOfOrder
    <3>. QED
      BY <3>1, <3>2, Zenon
  <2>. QED
    BY <1>1, <1>6, <2>1
<1>8. \A i \in 1 .. 2 : NativeOrder[i] \in Ordered
  BY <1>7 DEF Ordered
<1>. QED
  BY <1>1, <1>8 DEF Natives

-----------------------------------------------------------------------------
(* One call at a time. *)

LEMMA CallMoves ==
  ASSUME Chains, NEW c \in Callers, NEW r, SetCall(c, r), ChainFits(r)
  PROVE  /\ Chains'
         /\ call'[c] = r /\ \A d \in Callers : d # c => call'[d] = call[d]
<1>1. /\ DOMAIN call' = Callers
      /\ call'[c] = r /\ \A d \in Callers : d # c => call'[d] = call[d]
  BY DEF Chains, SetCall
<1>2. \A d \in Callers : ChainFits(call'[d])
  BY <1>1 DEF Chains
<1>3. \A d \in Callers : ChainFits(call[d])' <=> ChainFits(call'[d])
  BY DEF ChainFits
<1>. QED
  BY <1>1, <1>2, <1>3 DEF Chains

LEMMA FlightsCounted ==
  /\ IsFiniteSet(InFlight) /\ Cardinality(InFlight) \in Nat
  /\ Cardinality(Copilots) \in Nat /\ Cardinality(InFlight) <= Cardinality(Copilots)
BY FS_Subset, FS_CardinalityType, LlmRoutingAssumption DEF InFlight

\* A call that ends leaves no more in flight, and one that passes the check
\* adds itself.
LEMMA FlightsMove ==
  ASSUME NEW c \in Callers, \A d \in Callers : d # c => call'[d] = call[d]
  PROVE  /\ Cardinality(InFlight') \in Nat /\ Cardinality(InFlight') <= Cardinality(Copilots)
         /\ Cardinality(InFlight') <= Cardinality(InFlight) + 1
         /\ c \notin InFlight' => Cardinality(InFlight') <= Cardinality(InFlight)
         /\ c \in InFlight /\ c \notin InFlight' =>
              Cardinality(InFlight') = Cardinality(InFlight) - 1
         /\ c \in InFlight \/ c \notin Copilots => Cardinality(InFlight') <= Cardinality(InFlight)
<1>1. InFlight' \subseteq Copilots /\ InFlight \subseteq Copilots
  BY DEF InFlight
<1>2. InFlight' \subseteq InFlight \cup {c} /\ InFlight \subseteq InFlight' \cup {c}
  BY DEF InFlight, Callers
<1>3. IsFiniteSet(InFlight') /\ IsFiniteSet(InFlight)
  BY <1>1, FS_Subset, LlmRoutingAssumption
<1>4. /\ Cardinality(InFlight') \in Nat /\ Cardinality(InFlight) \in Nat
      /\ Cardinality(Copilots) \in Nat /\ Cardinality(InFlight') <= Cardinality(Copilots)
  BY <1>1, <1>3, FS_Subset, FS_CardinalityType, LlmRoutingAssumption
<1>5. Cardinality(InFlight') <= Cardinality(InFlight) + 1
  <2>1. /\ IsFiniteSet(InFlight \cup {c})
        /\ Cardinality(InFlight \cup {c}) =
             IF c \in InFlight THEN Cardinality(InFlight) ELSE Cardinality(InFlight) + 1
    BY <1>3, FS_AddElement
  <2>2. Cardinality(InFlight') <= Cardinality(InFlight \cup {c})
    BY <1>2, <2>1, FS_Subset
  <2>. QED
    BY <1>4, <2>1, <2>2
<1>6. ASSUME InFlight' \subseteq InFlight PROVE Cardinality(InFlight') <= Cardinality(InFlight)
  BY <1>3, <1>6, FS_Subset
<1>7. ASSUME c \in InFlight, c \notin InFlight'
      PROVE  Cardinality(InFlight') = Cardinality(InFlight) - 1
  <2>1. InFlight' = InFlight \ {c}
    BY <1>2, <1>7
  <2>. QED
    BY <1>3, <1>7, <2>1, FS_RemoveElement
<1>. QED
  BY <1>1, <1>2, <1>4, <1>5, <1>6, <1>7

-----------------------------------------------------------------------------
LEMMA LlmStart == LlmInit => LlmInv
<1>. SUFFICES ASSUME LlmInit PROVE LlmInv
  OBVIOUS
<1>1. KeysTyped
  <2>1. NoOverride \in AiRec
    BY DEF NoOverride, AiRec
  <2>2. stored \in [RegistryNames \X Scopes -> {"none", "good", "stale"}]
    BY DEF LlmInit
  <2>3. env \subseteq Providers
    BY DEF LlmInit, Providers, Natives
  <2>. QED
    BY <2>1, <2>2, <2>3 DEF LlmInit, KeysTyped
<1>0. LedgerTyped
  BY LlmRoutingAssumption DEF LlmInit, LedgerTyped
<1>2. Chains
  BY DEF LlmInit, Chains, ChainFits, IdleCall
<1>3. Cardinality(InFlight) \in Nat /\ Cardinality(InFlight) <= Cardinality(Copilots)
      /\ Cardinality(Copilots) \in Nat
  BY FlightsCounted
<1>4. Overrun
  BY <1>3 DEF LlmInit, Overrun
<1>. QED
  BY <1>0, <1>1, <1>2, <1>4 DEF LlmInv

\* Admins change keys and routing; the calls in flight have fixed theirs.
LEMMA ChangeSteps ==
  ASSUME LlmInv, SaveKey \/ DeleteKey \/ SetProviders \/ RotateKek
  PROVE  LlmInv'
<1>1. UNCHANGED <<env, call, spent, late, failOpen, budgetFaults>>
  BY DEF SaveKey, DeleteKey, SetProviders, RotateKek, Change, ledger
<1>2. stored' \in [RegistryNames \X Scopes -> {"none", "good", "stale"}]
  <2>1. stored \in [RegistryNames \X Scopes -> {"none", "good", "stale"}]
    BY DEF LlmInv, KeysTyped
  <2>2. CASE stored' = stored
    BY <2>1, <2>2
  <2>3. ASSUME NEW k, NEW v \in {"none", "good", "stale"}, stored' = [stored EXCEPT ![k] = v]
        PROVE  stored' \in [RegistryNames \X Scopes -> {"none", "good", "stale"}]
    BY <2>1, <2>3
  <2>4. CASE RotateKek
    BY <2>1, <2>4 DEF RotateKek
  <2>. QED
    BY <2>2, <2>3, <2>4 DEF SaveKey, DeleteKey, SetProviders, StoreKey, RemoveKey
<1>3. ai' \in AiRec
  <2>1. ai \in AiRec
    BY DEF LlmInv, KeysTyped
  <2>2. ASSUME NEW p \in Providers \cup {""}, NEW base \in BOOLEAN
        PROVE  [set |-> TRUE, routed |-> p, fallback |-> ai.fallback, base |-> base] \in AiRec
    BY <2>1 DEF AiRec
  <2>3. CASE SaveKey
    <3>1. PICK base, model \in BOOLEAN :
            ai' = IF base \/ model
                  THEN [set |-> TRUE, routed |-> ai.routed, fallback |-> ai.fallback,
                        base |-> ai.base \/ base]
                  ELSE ai
      BY <2>3 DEF SaveKey
    <3>2. ai.routed \in Providers \cup {""} /\ (ai.base \/ base) \in BOOLEAN
      BY <2>1 DEF AiRec
    <3>. QED
      BY <2>1, <2>2, <3>1, <3>2
  <2>4. CASE SetProviders
    <3>1. ai.base \in BOOLEAN
      BY <2>1 DEF AiRec
    <3>. QED
      BY <2>2, <2>4, <3>1 DEF SetProviders
  <2>5. CASE DeleteKey \/ RotateKek
    BY <2>1, <2>5 DEF DeleteKey, RotateKek
  <2>. QED
    BY <2>3, <2>4, <2>5
<1>4. InFlight' = InFlight
  BY <1>1 DEF InFlight
<1>5. Chains' /\ Overrun'
  BY <1>1, <1>4 DEF LlmInv, Chains, ChainFits, Overrun
<1>. QED
  BY <1>1, <1>2, <1>3, <1>5 DEF LlmInv, KeysTyped, LedgerTyped

\* A new month counts from nothing, whatever is in flight.
LEMMA MonthStep == ASSUME LlmInv, NewMonth PROVE LlmInv'
<1>1. UNCHANGED <<stored, env, ai, call, budgetFaults>> /\ spent' = 0 /\ late' = 0 /\ failOpen' = 0
  BY DEF NewMonth, config
<1>2. InFlight' = InFlight
  BY <1>1 DEF InFlight
<1>3. Chains' /\ Overrun'
  BY <1>1, <1>2, FlightsCounted DEF LlmInv, Chains, ChainFits, Overrun
<1>4. LedgerTyped'
  BY <1>1, LlmRoutingAssumption DEF LlmInv, LedgerTyped
<1>. QED
  BY <1>1, <1>3, <1>4 DEF LlmInv, KeysTyped

\* The budget is checked before a call is in flight.
LEMMA CheckStep == ASSUME LlmInv, NEW c \in Callers, CheckBudget(c) PROVE LlmInv'
<1>. DEFINE r == [IdleCall EXCEPT !.pc = "chain"]
<1>1. ChainFits(r) /\ SetCall(c, r)
  BY DEF ChainFits, IdleCall, CheckBudget
<1>2. Chains' /\ \A d \in Callers : d # c => call'[d] = call[d]
  BY <1>1, CallMoves DEF LlmInv
<1>3. UNCHANGED <<stored, env, ai, spent, late>>
  BY DEF CheckBudget, config
<1>4. /\ Cardinality(InFlight') \in Nat /\ Cardinality(InFlight') <= Cardinality(Copilots)
      /\ Cardinality(InFlight') <= Cardinality(InFlight) + 1
  BY <1>2, FlightsMove
<1>5. LedgerTyped'
  BY <1>3, LlmRoutingAssumption DEF LlmInv, LedgerTyped, CheckBudget
<1>6. Overrun'
  <2>1. CASE ~OverLimit /\ failOpen' = failOpen
    BY <1>3, <1>4, <2>1, FlightsCounted, LlmRoutingAssumption
    DEF LlmInv, LedgerTyped, Overrun, OverLimit
  <2>2. CASE failOpen' = failOpen + 1
    BY <1>3, <1>4, <2>2, FlightsCounted DEF LlmInv, LedgerTyped, Overrun
  <2>. QED
    BY <2>1, <2>2 DEF CheckBudget
<1>. QED
  BY <1>2, <1>3, <1>5, <1>6 DEF LlmInv, KeysTyped

\* The other steps of a call that leave the ledger alone.
LEMMA CallSteps ==
  ASSUME LlmInv, NEW c \in Callers,
         StartJob(c) \/ BuildChain(c) \/ TryProvider(c) \/ EndCall(c)
  PROVE  LlmInv'
<1>1. UNCHANGED <<stored, env, ai, spent, late, failOpen, budgetFaults>>
  BY DEF StartJob, BuildChain, TryProvider, EndCall, config, ledger
<1>2. PICK r : SetCall(c, r) /\ ChainFits(r) /\ (c \in InFlight \/ c \notin Copilots \/ r.pc = "idle")
  <2>1. CASE StartJob(c)
    <3>1. ChainFits([IdleCall EXCEPT !.pc = "chain"])
      BY DEF ChainFits, IdleCall
    <3>2. c \notin Copilots
      BY <2>1, LlmRoutingAssumption DEF StartJob
    <3>. QED
      BY <2>1, <3>1, <3>2 DEF StartJob
  <2>2. CASE BuildChain(c)
    <3>. DEFINE keyed == {p \in Ordered : KeyOf(c, p) = "good"}
                stale == \E p \in Ordered : KeyOf(c, p) = "stale"
                r == [pc |-> IF stale \/ keyed = {} THEN "failed" ELSE "try",
                      left |-> IF stale THEN {} ELSE keyed, tried |-> {}, order |-> Order,
                      base |-> Config.base, stale |-> stale,
                      natives |-> {p \in Natives : KeyOf(c, p) = "good"}]
    <3>1. SetCall(c, r) /\ call[c].pc = "chain"
      BY <2>2 DEF BuildChain, CallAt
    <3>2. r.natives \subseteq keyed
      BY NativesOrdered DEF LlmInv
    <3>3. ChainFits(r)
      <4>. HIDE DEF keyed, stale
      <4>1. /\ r.left = (IF stale THEN {} ELSE keyed) /\ r.tried = {} /\ r.stale = stale
            /\ r.pc = (IF stale \/ keyed = {} THEN "failed" ELSE "try")
        OBVIOUS
      <4>. QED
        BY <3>2, <4>1 DEF ChainFits
    <3>4. c \in InFlight \/ c \notin Copilots
      BY <3>1 DEF InFlight
    <3>. QED
      BY <3>1, <3>3, <3>4
  <2>3. CASE TryProvider(c)
    <3>. DEFINE p == Candidate(c)
                left == call[c].left \ {p}
                Tried(pc) == [pc |-> pc, left |-> left, tried |-> call[c].tried \cup {p},
                              order |-> call[c].order, base |-> call[c].base,
                              natives |-> call[c].natives, stale |-> call[c].stale]
    <3>1. /\ call[c].pc = "try"
          /\ \/ SetCall(c, Tried("meter"))
             \/ SetCall(c, Tried(IF left = {} THEN "failed" ELSE "try"))
      BY <2>3 DEF TryProvider, CallAt
    <3>2. /\ call[c].left \cap call[c].tried = {}
          /\ ~call[c].stale => call[c].natives \subseteq call[c].left \cup call[c].tried
      BY <3>1 DEF LlmInv, Chains, ChainFits
    <3>. HIDE DEF p
    <3>3. ChainFits(Tried("meter")) /\ ChainFits(Tried(IF left = {} THEN "failed" ELSE "try"))
      BY <3>2 DEF ChainFits
    <3>4. c \in InFlight \/ c \notin Copilots
      BY <3>1 DEF InFlight
    <3>. QED
      BY <3>1, <3>3, <3>4
  <2>4. CASE EndCall(c)
    <3>1. ChainFits(IdleCall) /\ IdleCall.pc = "idle"
      BY DEF ChainFits, IdleCall
    <3>. QED
      BY <2>4, <3>1 DEF EndCall
  <2>. QED
    BY <2>1, <2>2, <2>3, <2>4
<1>3. /\ Chains' /\ call'[c] = r /\ \A d \in Callers : d # c => call'[d] = call[d]
  BY <1>2, CallMoves DEF LlmInv
<1>4. r.pc = "idle" => c \notin InFlight'
  BY <1>3 DEF InFlight
<1>5. Cardinality(InFlight') \in Nat /\ Cardinality(InFlight') <= Cardinality(InFlight)
  BY <1>2, <1>3, <1>4, FlightsMove
<1>6. LedgerTyped' /\ Overrun'
  BY <1>1, <1>5, FlightsCounted DEF LlmInv, LedgerTyped, Overrun
<1>. QED
  BY <1>1, <1>3, <1>6 DEF LlmInv, KeysTyped

\* A metered call is in flight no more; it counts as late only beyond the limit.
LEMMA MeterStep == ASSUME LlmInv, NEW c \in Callers, Meter(c) PROVE LlmInv'
<1>1. UNCHANGED <<stored, env, ai, failOpen>>
  BY DEF Meter, config
<1>2. ChainFits(IdleCall) /\ IdleCall.pc = "idle" /\ SetCall(c, IdleCall) /\ call[c].pc = "meter"
  BY DEF ChainFits, IdleCall, Meter, CallAt
<1>3. /\ Chains' /\ call'[c] = IdleCall /\ \A d \in Callers : d # c => call'[d] = call[d]
  BY <1>2, CallMoves DEF LlmInv
<1>4. c \notin InFlight' /\ (c \in Copilots => c \in InFlight)
  BY <1>2, <1>3 DEF InFlight
<1>5. /\ Cardinality(InFlight') \in Nat /\ Cardinality(InFlight') <= Cardinality(Copilots)
      /\ Cardinality(InFlight') <= Cardinality(InFlight)
      /\ c \in Copilots => Cardinality(InFlight') = Cardinality(InFlight) - 1
  BY <1>3, <1>4, FlightsMove
<1>6. CASE UNCHANGED <<spent, late>> /\ budgetFaults < MaxLlmFaults /\ budgetFaults' = budgetFaults + 1
  <2>1. LedgerTyped' /\ Overrun'
    BY <1>1, <1>5, <1>6, FlightsCounted, LlmRoutingAssumption DEF LlmInv, LedgerTyped, Overrun
  <2>. QED
    BY <1>1, <1>3, <2>1 DEF LlmInv, KeysTyped
<1>7. ASSUME NEW cost \in Costs, spent + cost <= MaxSpent, spent' = spent + cost,
             late' = (IF c \in Copilots /\ spent >= Limit THEN late + 1 ELSE late),
             UNCHANGED budgetFaults
      PROVE  LlmInv'
  <2>1. cost \in Nat /\ Limit \in Nat /\ MaxSpent \in Nat
    BY LlmRoutingAssumption
  <2>2. LedgerTyped'
    BY <1>1, <1>7, <2>1 DEF LlmInv, LedgerTyped
  <2>3. Overrun'
    BY <1>1, <1>5, <1>7, <2>1, FlightsCounted DEF LlmInv, LedgerTyped, Overrun
  <2>. QED
    BY <1>1, <1>3, <2>2, <2>3 DEF LlmInv, KeysTyped
<1>. QED
  BY <1>6, <1>7 DEF Meter

LEMMA LlmStep == ASSUME LlmInv, [LlmNext]_lvars PROVE LlmInv'
<1>1. CASE UNCHANGED lvars
  <2>1. UNCHANGED <<stored, env, ai, call, spent, late, failOpen, budgetFaults>>
    BY <1>1 DEF lvars
  <2>2. InFlight' = InFlight
    BY <2>1 DEF InFlight
  <2>. QED
    BY <2>1, <2>2 DEF LlmInv, KeysTyped, LedgerTyped, Chains, ChainFits, Overrun
<1>. QED
  BY <1>1, ChangeSteps, MonthStep, CheckStep, CallSteps, MeterStep DEF LlmNext

LEMMA LlmAlways == LlmSpec => []LlmInv
<1>1. LlmInv /\ [LlmNext]_lvars => LlmInv'
  BY LlmStep
<1>. QED
  BY <1>1, LlmStart, PTL DEF LlmSpec

LEMMA LlmShape == LlmInv => LlmTypeOK
BY DEF LlmInv, KeysTyped, AiRec, LedgerTyped, Chains, ChainFits, LlmTypeOK

\* The rows of keys, the routing, the calls and the ledger keep their types,
\* and no call tries a provider twice (llm.rs provider_chain).
THEOREM LlmTyped == LlmSpec => []LlmTypeOK
BY LlmShape, LlmAlways, PTL

\* Though the budget is read long before a call is metered, the interactive
\* calls beyond it are at most those in flight when it was reached, and those
\* whose read failed (copilot.rs, llm.rs budget_status and meter).
THEOREM OverrunIsBounded == LlmSpec => []OverrunBounded
<1>1. LlmInv => OverrunBounded
  BY FlightsCounted DEF LlmInv, LedgerTyped, Overrun, OverrunBounded
<1>. QED
  BY <1>1, LlmAlways, PTL

\* Whatever the routing, a call fails only after each native with a key was
\* tried, or on a key that does not decrypt (llm.rs provider_chain).
THEOREM NativesAreLast == LlmSpec => []NativesLastResort
<1>1. LlmInv => NativesLastResort
  BY DEF LlmInv, Chains, ChainFits, NativesLastResort, CallAt
<1>. QED
  BY <1>1, LlmAlways, PTL

-----------------------------------------------------------------------------
(* Sessions, memberships and calls side by side, as MCAccounts runs them. *)

\* No step of one part disturbs the others, so all of them keep their types.
THEOREM AccountsTyped == AccountsSpec => []AccountsTypeOK
<1> DEFINE AccountsInv == TokenInv /\ MInv /\ LlmInv
<1>1. AccountsInit => AccountsInv
  BY TokenStart, MembershipInit, LlmStart DEF AccountsInit
<1>2. AccountsInv /\ [AccountsNext]_AccountsVars => AccountsInv'
  <2>1. AccountsInv /\ [AccountsNext]_AccountsVars =>
          [Next]_vars /\ [MNext]_mvars /\ [LlmNext]_lvars
    BY DEF AccountsNext, AccountsVars
  <2>. QED
    BY <2>1, TokenStep, MembershipStep, LlmStep
<1>3. AccountsInv => AccountsTypeOK
  BY LlmShape DEF AccountsTypeOK, TokenInv, MInv
<1>. QED
  BY <1>1, <1>2, <1>3, PTL DEF AccountsSpec
=============================================================================
