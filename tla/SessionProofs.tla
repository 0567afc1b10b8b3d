----------------------------- MODULE SessionProofs -----------------------------
(***************************************************************************)
(* Proofs about Sessions, for any session ids, any requests in flight, any *)
(* operations and any bounds on rotations and failures.                    *)
(***************************************************************************)
EXTENDS Sessions, FiniteSetTheorems, TLAPS

\* The handlers that hold a token nobody has seen yet.
Minting == {"allow-new", "insert", "touch", "allow"}
Sid(h) == at[h].jti[1]

(* A handler that mints holds the last token of its session, and no other   *)
(* handler mints for that session.                                          *)
MintersAlone ==
  \A h \in Handlers :
    /\ at[h].pc \in Minting \cup {"sign-out"} => at[h].jti \in Jtis
    /\ at[h].pc \in Minting =>
         /\ minted[Sid(h)] = at[h].jti[2] + 1
         /\ \A g \in Handlers : at[g].pc \in Minting /\ Sid(g) = Sid(h) => g = h

(* Until it is allowlisted, the token being minted is the only one of its   *)
(* session; there is never more than one in the allowlist.                  *)
OneAllowed ==
  /\ \A i, j \in allow : i[1] = j[1] => i = j
  /\ \A h \in Handlers :
       /\ at[h].pc \in {"allow-new", "touch", "allow"} => \A j \in allow : j[1] # Sid(h)
       /\ At(h, "insert") => at[h].jti \in allow

(* A row appears before its first token reaches a client, names a token of  *)
(* its own session, and is not deleted.                                     *)
RowsFirst ==
  /\ \A s \in Sids :
       IF rows[s].state = "none" THEN ~rows[s].expired
       ELSE rows[s].jti \in Jtis /\ rows[s].jti[1] = s /\ rows[s].jti[2] < minted[s]
  /\ \A t \in issued : rows[t[1][1]].state # "none"
  /\ \A h \in Handlers :
       At(h, "allow-new") \/ At(h, "insert") =>
         rows[Sid(h)].state = "none" /\ at[h].jti[2] = 0
  /\ \A h \in Handlers : At(h, "touch") \/ At(h, "allow") => rows[Sid(h)].state # "none"

(* touch_session is what a rotation has to pass: behind it the row names    *)
(* the new token, and a session that was revoked does not get there.        *)
TouchedFirst ==
  \A h \in Handlers :
    /\ At(h, "touch") /\ at[h].late => rows[Sid(h)].state = "revoked"
    /\ At(h, "allow") => rows[Sid(h)].jti = at[h].jti /\ ~at[h].late

(* What a revocation drops belongs to revoked sessions.                     *)
DropsRevoked ==
  \A h \in Handlers : \A j \in at[h].todo : rows[j[1]].state = "revoked"

TokenInv ==
  /\ TypeOK /\ MintersAlone /\ OneAllowed /\ RowsFirst /\ TouchedFirst /\ DropsRevoked
  /\ RowNamesToken

-----------------------------------------------------------------------------
(* What steps do to the handlers and the rows. *)

RowRec == [state : {"none", "live", "revoked"}, jti : Jtis \cup {NoJti}, expired : BOOLEAN]

\* The part of TypeOK that no argument below is about.
RestTyped ==
  /\ access \subseteq Roles /\ role \in Roles
  /\ orgOpen \in BOOLEAN /\ settled \in BOOLEAN
  /\ faults \in 0 .. MaxFaults

LEMMA Becomes ==
  ASSUME TypeOK, NEW h \in Handlers, NEW r \in Handler, Become(h, r)
  PROVE  /\ at' \in [Handlers -> Handler]
         /\ at'[h] = r
         /\ \A g \in Handlers : g # h => at'[g] = at[g]
BY DEF TypeOK, Become

\* A handler that is done with minting, if it ever did.
Quits(h) ==
  /\ at'[h].pc \notin Minting
  /\ at'[h].pc = "sign-out" => at'[h].jti \in Jtis
  /\ \A j \in at'[h].todo : rows'[j[1]].state = "revoked"

\* Rows are revoked or expire, and nothing else.
RowsEnd ==
  /\ rows' \in [Sids -> RowRec]
  /\ \A s \in Sids :
       /\ rows'[s].jti = rows[s].jti
       /\ rows'[s].state = rows[s].state \/ (Live(s) /\ rows'[s].state = "revoked")
       /\ rows[s].expired => rows'[s].expired
       /\ rows[s].state = "none" => rows'[s].expired = rows[s].expired

\* A step that neither mints a token nor stores one.
Quiet ==
  /\ UNCHANGED <<minted, issued>>
  /\ allow' \subseteq allow
  /\ RowsEnd
  /\ at' \in [Handlers -> Handler]
  /\ \A h \in Handlers : at'[h] = at[h] \/ Quits(h)
  /\ \A h \in Handlers : At(h, "insert") /\ at'[h] = at[h] => at[h].jti \in allow'
  /\ RestTyped'

LEMMA QuietKeeps ==
  ASSUME TokenInv, Quiet
  PROVE  TokenInv'
<1>1. TypeOK'
  BY DEF TokenInv, TypeOK, Quiet, RowsEnd, RowRec, RestTyped
<1>2. MintersAlone'
  BY DEF TokenInv, MintersAlone, Quiet, Quits, Sid
<1>3. OneAllowed'
  BY DEF TokenInv, OneAllowed, Quiet, Quits, Sid, At, Minting
<1>4. RowsFirst'
  BY DEF TokenInv, TypeOK, RowsFirst, MintersAlone, Quiet, RowsEnd, Quits, Sid, At, Live, Minting, Jtis
<1>5. TouchedFirst'
  BY DEF TokenInv, TypeOK, TouchedFirst, MintersAlone, Quiet, RowsEnd, Quits, Sid, At, Live, Minting, Jtis
<1>6. DropsRevoked'
  BY DEF TokenInv, TypeOK, DropsRevoked, Quiet, RowsEnd, Quits, Handler, Jtis, Live
<1>7. RowNamesToken'
  BY DEF TokenInv, RowNamesToken, Quiet, RowsEnd, Family, Live
<1>. QED
  BY <1>1, <1>2, <1>3, <1>4, <1>5, <1>6, <1>7 DEF TokenInv

-----------------------------------------------------------------------------
(* The steps that mint a token, put it in Redis and name it in its row. *)

\* Handler h goes on to pc with the token it holds, or ends.
GoesOn(h, pc) ==
  /\ at' \in [Handlers -> Handler]
  /\ \A g \in Handlers : g # h => at'[g] = at[g]
  /\ \/ at'[h] = Idle
     \/ /\ at'[h].pc = pc /\ at'[h].jti = at[h].jti
        /\ at'[h].late = at[h].late /\ at'[h].todo = at[h].todo

\* CheckTenant and Consume; left is the allowlist without what is redeemed.
Mints(h, s, pc) ==
  /\ Mint(s)
  /\ at' \in [Handlers -> Handler]
  /\ \A g \in Handlers : g # h => at'[g] = at[g]
  /\ at'[h].pc = pc /\ at'[h].jti = NextJti(s) /\ at'[h].todo = {}
  /\ at'[h].late <=> rows[s].state = "revoked"
  /\ UNCHANGED <<rows, issued>>
  /\ RestTyped'

LEMMA MintKeeps ==
  ASSUME TokenInv, NEW h \in Handlers, NEW s \in Sids, NEW pc \in {"allow-new", "touch"},
         Mints(h, s, pc), allow' \subseteq allow,
         \A j \in allow' : j[1] # s,
         \A g \in Handlers \ {h} : at[g].pc \in Minting => Sid(g) # s,
         \A g \in Handlers \ {h} : At(g, "insert") => at[g].jti \in allow',
         pc = "allow-new" => minted[s] = 0, pc = "touch" => rows[s].state # "none"
  PROVE  TokenInv'
<1>1. /\ minted[s] \in 0 .. MaxRotations /\ minted'[s] = minted[s] + 1
      /\ \A q \in Sids : q # s => minted'[q] = minted[q]
      /\ minted' \in [Sids -> 0 .. MaxRotations + 1]
      /\ NextJti(s) \in Jtis /\ NextJti(s)[1] = s /\ NextJti(s)[2] = minted[s]
  BY SessionsAssumption DEF TokenInv, TypeOK, Mints, Mint, NextJti, Jtis
<1>2. TypeOK'
  BY <1>1, SessionsAssumption DEF TokenInv, TypeOK, Mints, RestTyped, Jtis
<1>3. MintersAlone'
  BY <1>1 DEF TokenInv, MintersAlone, Mints, Sid, Minting, Jtis
<1>4. OneAllowed'
  BY <1>1 DEF TokenInv, OneAllowed, Mints, Sid, At
<1>5. RowsFirst'
  BY <1>1, SessionsAssumption DEF TokenInv, TypeOK, RowsFirst, Mints, Sid, At, Jtis
<1>6. TouchedFirst'
  BY <1>1 DEF TokenInv, TouchedFirst, Mints, Sid, At
<1>7. DropsRevoked'
  BY DEF TokenInv, DropsRevoked, Mints
<1>8. RowNamesToken'
  BY DEF TokenInv, RowNamesToken, Mints
<1>. QED
  BY <1>2, <1>3, <1>4, <1>5, <1>6, <1>7, <1>8 DEF TokenInv

\* SETEX of the new token, whether or not the handler survives it.
LEMMA AllowKeeps ==
  ASSUME TokenInv, NEW h \in Handlers, at[h].pc \in {"allow-new", "allow"},
         allow' = allow \cup {at[h].jti}, GoesOn(h, "insert"),
         At(h, "allow") => at'[h] = Idle,
         issued' \subseteq issued \cup {<<at[h].jti, at[h].role>>},
         At(h, "allow-new") => issued' = issued,
         UNCHANGED <<rows, minted>>, RestTyped'
  PROVE  TokenInv'
<1>1. at[h].jti \in Jtis /\ at[h].role \in Roles /\ Sid(h) \in Sids
  BY DEF TokenInv, TypeOK, MintersAlone, Minting, Handler, Jtis, Sid
<1>2. at[h].jti[2] < minted[Sid(h)]
  BY <1>1, SessionsAssumption DEF TokenInv, TypeOK, MintersAlone, Minting, Jtis, Sid
<1>3. TypeOK'
  BY <1>1, <1>2 DEF TokenInv, TypeOK, GoesOn, RestTyped, Sid
<1>4. MintersAlone'
  BY <1>1 DEF TokenInv, MintersAlone, GoesOn, Sid, Minting, Idle
<1>5. OneAllowed'
  BY <1>1 DEF TokenInv, OneAllowed, MintersAlone, GoesOn, Sid, At, Minting, Idle
<1>6. RowsFirst'
  BY <1>1 DEF TokenInv, RowsFirst, TouchedFirst, GoesOn, Sid, At, Idle
<1>7. TouchedFirst'
  BY <1>1 DEF TokenInv, TouchedFirst, GoesOn, Sid, At, Idle
<1>8. DropsRevoked'
  BY DEF TokenInv, DropsRevoked, GoesOn, Idle
<1>9. RowNamesToken'
  BY <1>1 DEF TokenInv, RowNamesToken, OneAllowed, RowsFirst, TouchedFirst, Family, Sid, At
<1>. QED
  BY <1>3, <1>4, <1>5, <1>6, <1>7, <1>8, <1>9 DEF TokenInv

\* INSERT of the row, whether or not the handler survives it.
LEMMA InsertKeeps ==
  ASSUME TokenInv, NEW h \in Handlers, At(h, "insert"), InsertRow(h), GoesOn(h, "idle"),
         at'[h] = Idle,
         issued' \subseteq issued \cup {<<at[h].jti, at[h].role>>},
         UNCHANGED <<allow, minted>>, RestTyped'
  PROVE  TokenInv'
<1>1. at[h].jti \in Jtis /\ at[h].role \in Roles /\ Sid(h) \in Sids
  BY DEF TokenInv, TypeOK, MintersAlone, Minting, Handler, Jtis, Sid, At
<1>2. at[h].jti[2] < minted[Sid(h)]
  BY <1>1, SessionsAssumption DEF TokenInv, TypeOK, MintersAlone, Minting, Jtis, Sid, At
<1>3. /\ rows' \in [Sids -> RowRec]
      /\ rows'[Sid(h)] = [state |-> "live", jti |-> at[h].jti, expired |-> FALSE]
      /\ \A s \in Sids : s # Sid(h) => rows'[s] = rows[s]
  BY <1>1 DEF TokenInv, TypeOK, InsertRow, Sid, RowRec
<1>4. TypeOK'
  BY <1>1, <1>2, <1>3 DEF TokenInv, TypeOK, GoesOn, RestTyped, Sid, RowRec
<1>5. MintersAlone'
  BY <1>1 DEF TokenInv, MintersAlone, GoesOn, Sid, Minting, Idle
<1>6. OneAllowed'
  BY <1>1 DEF TokenInv, OneAllowed, GoesOn, Sid, At, Idle
<1>7. RowsFirst'
  <2>1. \A g \in Handlers : g # h /\ at[g].pc \in Minting => Sid(g) \in Sids /\ Sid(g) # Sid(h)
    BY DEF TokenInv, MintersAlone, Minting, Jtis, Sid, At
  <2>2. \A s \in Sids :
          IF rows'[s].state = "none" THEN ~rows'[s].expired
          ELSE rows'[s].jti \in Jtis /\ rows'[s].jti[1] = s /\ rows'[s].jti[2] < minted[s]
    BY <1>1, <1>2, <1>3 DEF TokenInv, RowsFirst, Sid
  <2>3. \A t \in issued' : rows'[t[1][1]].state # "none"
    BY <1>1, <1>3 DEF TokenInv, TypeOK, RowsFirst, Sid, Jtis
  <2>4. /\ at'[h].pc = "idle"
        /\ \A g \in Handlers : g # h => at'[g] = at[g]
    BY DEF GoesOn, Idle
  <2>. QED
    BY <1>3, <2>1, <2>2, <2>3, <2>4 DEF TokenInv, RowsFirst, Sid, At, Minting
<1>8. TouchedFirst'
  BY <1>1, <1>3 DEF TokenInv, TypeOK, Jtis, TouchedFirst, MintersAlone, GoesOn, Sid, At, Idle, Minting
<1>9. DropsRevoked'
  BY <1>3 DEF TokenInv, TypeOK, DropsRevoked, RowsFirst, GoesOn, Idle, At, Handler, Jtis
<1>10. RowNamesToken'
  BY <1>1, <1>3 DEF TokenInv, RowNamesToken, OneAllowed, Family, Sid, At
<1>. QED
  BY <1>4, <1>5, <1>6, <1>7, <1>8, <1>9, <1>10 DEF TokenInv

\* The UPDATE of a row that is not revoked, whether or not the handler
\* survives it.
LEMMA TouchKeeps ==
  ASSUME TokenInv, NEW h \in Handlers, At(h, "touch"), Live(Sid(h)),
         rows' = [rows EXCEPT ![Sid(h)].jti = at[h].jti], GoesOn(h, "allow"),
         UNCHANGED <<allow, minted, issued>>, RestTyped'
  PROVE  TokenInv'
<1>1. at[h].jti \in Jtis /\ at[h].role \in Roles /\ Sid(h) \in Sids
  BY DEF TokenInv, TypeOK, MintersAlone, Minting, Handler, Jtis, Sid, At
<1>2. at[h].jti[2] < minted[Sid(h)]
  BY <1>1, SessionsAssumption DEF TokenInv, TypeOK, MintersAlone, Minting, Jtis, Sid, At
<1>3. /\ rows' \in [Sids -> RowRec]
      /\ rows'[Sid(h)].jti = at[h].jti
      /\ \A s \in Sids : s # Sid(h) => rows'[s] = rows[s]
      /\ \A s \in Sids : rows'[s].state = rows[s].state /\ rows'[s].expired = rows[s].expired
  BY <1>1 DEF TokenInv, TypeOK, Sid, RowRec
<1>4. TypeOK'
  BY <1>1, <1>2, <1>3 DEF TokenInv, TypeOK, GoesOn, RestTyped, Sid, RowRec
<1>5. MintersAlone'
  BY <1>1 DEF TokenInv, MintersAlone, GoesOn, Sid, Minting, Idle, At
<1>6. OneAllowed'
  BY <1>1 DEF TokenInv, OneAllowed, GoesOn, Sid, At, Idle
<1>7. RowsFirst'
  BY <1>1, <1>2, <1>3 DEF TokenInv, TypeOK, RowsFirst, MintersAlone, GoesOn, Sid, At, Idle, Minting, Jtis
<1>8. TouchedFirst'
  BY <1>1, <1>3 DEF TokenInv, TypeOK, TouchedFirst, MintersAlone, GoesOn, Sid, At, Idle, Minting, Live, Jtis
<1>9. DropsRevoked'
  BY <1>3 DEF TokenInv, TypeOK, DropsRevoked, GoesOn, Idle, At, Handler, Jtis
<1>10. RowNamesToken'
  BY <1>1, <1>3 DEF TokenInv, RowNamesToken, OneAllowed, Family, Sid, At
<1>. QED
  BY <1>4, <1>5, <1>6, <1>7, <1>8, <1>9, <1>10 DEF TokenInv

-----------------------------------------------------------------------------
(* The handlers, call by call. *)

LEMMA RestKept ==
  ASSUME TypeOK, Next
  PROVE  RestTyped'
<1>1. RestTyped /\ (Fault => faults' \in 0 .. MaxFaults)
  BY SessionsAssumption DEF TypeOK, RestTyped, Fault
<1>2. ASSUME NEW h \in Handlers, HandlerStep(h) \/ CallFails(h) PROVE RestTyped'
  <2>1. at[h].role \in Roles
    BY DEF TypeOK, Handler
  <2>. QED
    BY <1>1, <1>2, <2>1
    DEF HandlerStep, CheckTenant, AllowNew, InsertSession, Touch, AllowRotated, SignOutRow,
        RevokeAll, RevokeRows, Drop, CallFails, Deliver, auth, RestTyped
<1>3. ASSUME NEW h \in Handlers, Request(h) PROVE RestTyped'
  BY <1>1, <1>3
  DEF Request, VerifyCredentials, Consume, SignOut, RevokeOne, RevokeOthers, RevokeRows,
      SuspendUser, ResetPassword, SetRole, SuspendOrg, auth, RestTyped
<1>4. ASSUME NEW h \in Handlers, DropFails(h) \/ ConsumeLost(h) PROVE RestTyped'
  BY <1>1, <1>4 DEF DropFails, ConsumeLost, auth, RestTyped
<1>5. CASE AccessTtl \/ SignInTtl \/ RotatedTtl
  BY <1>1, <1>5 DEF AccessTtl, SignInTtl, RotatedTtl, auth, RestTyped
<1>. QED
  BY <1>2, <1>3, <1>4, <1>5 DEF Next

LEMMA IdleTyped == Idle \in Handler /\ Idle.pc \notin Minting \cup {"sign-out"} /\ Idle.todo = {}
BY DEF Idle, Handler, PC, Roles, Minting

\* What Become(h, Idle) and the like amount to.
LEMMA BecomesQuiet ==
  ASSUME TypeOK, NEW h \in Handlers, NEW r \in Handler, Become(h, r),
         r.pc \notin Minting, r.pc = "sign-out" => r.jti \in Jtis,
         \A j \in r.todo : rows'[j[1]].state = "revoked"
  PROVE  /\ at' \in [Handlers -> Handler]
         /\ \A g \in Handlers : at'[g] = at[g] \/ Quits(g)
         /\ at'[h] # at[h] \/ ~At(h, "insert")
BY Becomes DEF Quits, Minting, At

LEMMA RowsStay ==
  ASSUME TypeOK, UNCHANGED rows
  PROVE  RowsEnd
BY DEF TypeOK, RowsEnd, RowRec

LEMMA RevokeEnds ==
  ASSUME TypeOK, NEW S \in SUBSET Sids, rows' = Revoke(S)
  PROVE  /\ RowsEnd
         /\ \A s \in S : Live(s) => rows'[s].state = "revoked"
<1>1. \A s \in Sids :
        [rows[s] EXCEPT !.state = "revoked"] = [state |-> "revoked", jti |-> rows[s].jti, expired |-> rows[s].expired]
  BY DEF TypeOK
<1>. QED
  BY <1>1 DEF TypeOK, RowsEnd, RowRec, Revoke, Live

\* A token in the allowlist that has reached a client is nobody's new one.
LEMMA IssuedNotNew ==
  ASSUME TokenInv, NEW t \in issued
  PROVE  /\ t[1] \in Jtis /\ t[2] \in Roles /\ t[1][1] \in Sids
         /\ rows[t[1][1]].state # "none"
         /\ \A g \in Handlers : At(g, "insert") => at[g].jti # t[1] /\ Sid(g) # t[1][1]
BY DEF TokenInv, TypeOK, RowsFirst, Jtis, Sid

LEMMA Dropped ==
  ASSUME TokenInv, NEW h \in Handlers, NEW j \in at[h].todo
  PROVE  \A g \in Handlers : At(g, "insert") => at[g].jti # j
BY DEF TokenInv, DropsRevoked, RowsFirst, Sid

LEMMA SignInSteps ==
  ASSUME TokenInv, RestTyped', NEW h \in Handlers,
         VerifyCredentials(h) \/ CheckTenant(h) \/ AllowNew(h) \/ InsertSession(h)
  PROVE  TokenInv'
<1>1. CASE VerifyCredentials(h)
  <2>. DEFINE r == [pc |-> "tenant", jti |-> NoJti, role |-> role, late |-> FALSE, todo |-> {}]
  <2>1. r \in Handler /\ Become(h, r) /\ UNCHANGED <<allow, rows, minted, issued>>
    BY <1>1 DEF VerifyCredentials, TokenInv, TypeOK, Handler, PC, auth
  <2>2. Quiet
    BY <2>1, BecomesQuiet, RowsStay DEF Quiet, Minting, TokenInv, OneAllowed
  <2>. QED
    BY <2>2, QuietKeeps
<1>2. CASE CheckTenant(h)
  <2>1. CASE Finish(h) /\ UNCHANGED minted
    <3>1. Become(h, Idle) /\ UNCHANGED <<allow, rows, minted, issued>>
      BY <1>2, <2>1 DEF CheckTenant, Finish, auth
    <3>2. Quiet
      BY <3>1, BecomesQuiet, RowsStay, IdleTyped DEF Quiet, TokenInv, OneAllowed
    <3>. QED
      BY <3>2, QuietKeeps
  <2>2. ASSUME NEW s \in Sids, minted[s] = 0, Mint(s),
               Become(h, [pc |-> "allow-new", jti |-> NextJti(s), role |-> at[h].role,
                          late |-> FALSE, todo |-> {}])
        PROVE  TokenInv'
    <3>. DEFINE r == [pc |-> "allow-new", jti |-> NextJti(s), role |-> at[h].role,
                      late |-> FALSE, todo |-> {}]
    <3>1. NextJti(s) \in Jtis /\ r \in Handler
      BY <2>2, SessionsAssumption DEF NextJti, Jtis, TokenInv, TypeOK, Handler, PC
    <3>2. rows[s].state = "none"
      BY <2>2, SessionsAssumption DEF TokenInv, RowsFirst, Jtis
    <3>3. /\ \A j \in allow : j[1] # s
          /\ \A g \in Handlers : at[g].pc \in Minting => Sid(g) # s
      BY <2>2, SessionsAssumption DEF TokenInv, TypeOK, MintersAlone, Jtis, Minting
    <3>4. UNCHANGED <<allow, rows, issued>>
      BY <1>2 DEF CheckTenant, auth
    <3>5. Mints(h, s, "allow-new")
      BY <2>2, <3>1, <3>2, <3>4, Becomes DEF Mints, TokenInv
    <3>. QED
      BY <2>2, <3>3, <3>4, <3>5, MintKeeps DEF TokenInv, OneAllowed
  <2>. QED
    BY <1>2, <2>1, <2>2 DEF CheckTenant
<1>3. CASE AllowNew(h)
  <2>1. /\ At(h, "allow-new") /\ allow' = allow \cup {at[h].jti}
        /\ UNCHANGED <<rows, minted, issued>> /\ Become(h, [at[h] EXCEPT !.pc = "insert"])
    BY <1>3 DEF AllowNew, Goto, auth
  <2>2. GoesOn(h, "insert")
    <3>. DEFINE r == [at[h] EXCEPT !.pc = "insert"]
    <3>1. /\ r \in Handler /\ r.pc = "insert" /\ r.jti = at[h].jti /\ r.late = at[h].late
          /\ r.todo = at[h].todo
      BY DEF TokenInv, TypeOK, Handler, PC
    <3>. QED
      BY <2>1, <3>1, Becomes DEF GoesOn, TokenInv
  <2>. QED
    BY <2>1, <2>2, AllowKeeps DEF At
<1>4. CASE InsertSession(h)
  <2>1. /\ At(h, "insert") /\ InsertRow(h) /\ Become(h, Idle)
        /\ UNCHANGED <<allow, minted>>
        /\ issued' = issued \cup {<<at[h].jti, at[h].role>>}
    BY <1>4 DEF InsertSession, Finish, Deliver
  <2>2. GoesOn(h, "idle") /\ at'[h] = Idle
    BY <2>1, Becomes, IdleTyped DEF GoesOn, TokenInv
  <2>. QED
    BY <2>1, <2>2, InsertKeeps
<1>. QED
  BY <1>1, <1>2, <1>3, <1>4

LEMMA RefreshSteps ==
  ASSUME TokenInv, RestTyped', NEW h \in Handlers,
         Consume(h) \/ Touch(h) \/ AllowRotated(h)
  PROVE  TokenInv'
<1>1. CASE Consume(h)
  <2>1. PICK t \in issued :
          /\ t[1] \in allow /\ Mint(t[1][1]) /\ allow' = allow \ {t[1]}
          /\ Become(h, [pc |-> "touch", jti |-> NextJti(t[1][1]), role |-> t[2],
                        late |-> rows[t[1][1]].state = "revoked", todo |-> {}])
    BY <1>1 DEF Consume
  <2>. DEFINE q == t[1][1]
              r == [pc |-> "touch", jti |-> NextJti(q), role |-> t[2],
                    late |-> rows[q].state = "revoked", todo |-> {}]
  <2>2. At(h, "idle") /\ UNCHANGED <<rows, issued>>
    BY <1>1 DEF Consume, auth
  <2>3. q \in Sids /\ NextJti(q) \in Jtis /\ r \in Handler
    BY <2>1, IssuedNotNew, SessionsAssumption
    DEF Mint, NextJti, Jtis, TokenInv, TypeOK, Handler, PC
  <2>4. Mints(h, q, "touch")
    <3>1. /\ at' \in [Handlers -> Handler] /\ at'[h] = r
          /\ \A g \in Handlers : g # h => at'[g] = at[g]
      BY <2>1, <2>3, Becomes DEF TokenInv
    <3>2. r.late <=> rows[q].state = "revoked"
      BY Zenon
    <3>. QED
      BY <2>1, <2>2, <3>1, <3>2 DEF Mints
  <2>5. \A j \in allow' : j[1] # q
    BY <2>1 DEF TokenInv, OneAllowed
  <2>6. \A g \in Handlers : at[g].pc \in Minting => Sid(g) # q
    BY <2>1, IssuedNotNew DEF TokenInv, OneAllowed, At, Minting
  <2>7. \A g \in Handlers : At(g, "insert") => at[g].jti \in allow'
    BY <2>1, IssuedNotNew DEF TokenInv, OneAllowed
  <2>. QED
    BY <2>1, <2>3, <2>4, <2>5, <2>6, <2>7, IssuedNotNew, MintKeeps
<1>2. CASE Touch(h)
  <2>1. CASE Live(Sid(h)) /\ rows' = [rows EXCEPT ![Sid(h)].jti = at[h].jti] /\ Goto(h, "allow")
    <3>. DEFINE r == [at[h] EXCEPT !.pc = "allow"]
    <3>1. /\ r \in Handler /\ r.pc = "allow" /\ r.jti = at[h].jti /\ r.late = at[h].late
          /\ r.todo = at[h].todo
      BY DEF TokenInv, TypeOK, Handler, PC
    <3>2. GoesOn(h, "allow")
      BY <2>1, <3>1, Becomes DEF GoesOn, Goto, TokenInv
    <3>3. At(h, "touch") /\ UNCHANGED <<allow, minted, issued>>
      BY <1>2 DEF Touch, auth
    <3>. QED
      BY <2>1, <3>2, <3>3, TouchKeeps
  <2>2. CASE ~Live(Sid(h)) /\ Finish(h) /\ UNCHANGED rows
    <3>1. Become(h, Idle) /\ UNCHANGED <<allow, rows, minted, issued>>
      BY <1>2, <2>2 DEF Touch, Finish, auth
    <3>2. Quiet
      BY <3>1, BecomesQuiet, RowsStay, IdleTyped DEF Quiet, TokenInv, OneAllowed
    <3>. QED
      BY <3>2, QuietKeeps
  <2>. QED
    BY <1>2, <2>1, <2>2 DEF Touch, Sid
<1>3. CASE AllowRotated(h)
  <2>1. /\ At(h, "allow") /\ allow' = allow \cup {at[h].jti} /\ Become(h, Idle)
        /\ UNCHANGED <<rows, minted>>
        /\ issued' = issued \cup {<<at[h].jti, at[h].role>>}
    BY <1>3 DEF AllowRotated, Finish, Deliver
  <2>2. GoesOn(h, "insert") /\ at'[h] = Idle
    BY <2>1, Becomes, IdleTyped DEF GoesOn, TokenInv
  <2>. QED
    BY <2>1, <2>2, AllowKeeps DEF At
<1>. QED
  BY <1>1, <1>2, <1>3

\* A revocation drops the jtis that the rows name when they are revoked.
LEMMA RevokeStep ==
  ASSUME TokenInv, RestTyped', NEW h \in Handlers, NEW S \in SUBSET Sids,
         at[h].pc \notin Minting, RevokeRows(h, S)
  PROVE  TokenInv'
<1>. DEFINE r == [pc |-> "drop", jti |-> NoJti, role |-> "viewer", late |-> FALSE,
                  todo |-> CurrentJtis(S)]
<1>1. /\ rows' = Revoke(S) /\ Become(h, r)
      /\ UNCHANGED <<allow, minted, issued>>
  BY DEF RevokeRows, auth
<1>2. \A j \in CurrentJtis(S) : j \in Jtis /\ j[1] \in S /\ Live(j[1])
  BY DEF TokenInv, RowsFirst, CurrentJtis, Live
<1>3. r \in Handler
  BY <1>2 DEF Handler, PC, Roles
<1>4. Quiet
  BY <1>1, <1>2, <1>3, RevokeEnds, BecomesQuiet DEF Quiet, TokenInv, OneAllowed, Minting
<1>. QED
  BY <1>4, QuietKeeps

LEMMA RevokeSteps ==
  ASSUME TokenInv, RestTyped', NEW h \in Handlers,
         \/ SignOut(h) \/ SignOutRow(h) \/ RevokeOne(h) \/ RevokeOthers(h) \/ RevokeAll(h)
         \/ Drop(h) \/ DropFails(h)
  PROVE  TokenInv'
<1>1. CASE SignOut(h)
  <2>1. PICK t \in issued :
          /\ allow' = allow \ {t[1]}
          /\ Become(h, [pc |-> "sign-out", jti |-> t[1], role |-> "viewer", late |-> FALSE,
                        todo |-> {}])
    BY <1>1 DEF SignOut
  <2>. DEFINE r == [pc |-> "sign-out", jti |-> t[1], role |-> "viewer", late |-> FALSE, todo |-> {}]
  <2>2. UNCHANGED <<rows, minted, issued>>
    BY <1>1 DEF SignOut, auth
  <2>3. r \in Handler
    BY IssuedNotNew DEF Handler, PC, Roles
  <2>4. Quiet
    BY <2>1, <2>2, <2>3, BecomesQuiet, RowsStay, IssuedNotNew
    DEF Quiet, TokenInv, OneAllowed, Minting
  <2>. QED
    BY <2>4, QuietKeeps
<1>2. CASE SignOutRow(h)
  <2>. DEFINE q == at[h].jti[1]
  <2>1. /\ At(h, "sign-out") /\ Become(h, Idle) /\ UNCHANGED <<allow, minted, issued>>
        /\ rows' = Revoke({q})
    BY <1>2 DEF SignOutRow, Finish, auth
  <2>2. q \in Sids
    BY <2>1 DEF TokenInv, MintersAlone, Jtis, At
  <2>3. Quiet
    BY <2>1, <2>2, RevokeEnds, BecomesQuiet, IdleTyped DEF Quiet, TokenInv, OneAllowed
  <2>. QED
    BY <2>3, QuietKeeps
<1>3. CASE RevokeOne(h) \/ RevokeOthers(h) \/ RevokeAll(h)
  <2>1. at[h].pc \notin Minting /\ \E S \in SUBSET Sids : RevokeRows(h, S)
    BY <1>3 DEF RevokeOne, RevokeOthers, RevokeAll, At, Minting
  <2>. QED
    BY <2>1, RevokeStep
<1>4. CASE Drop(h) \/ DropFails(h)
  <2>1. At(h, "drop") /\ UNCHANGED <<rows, minted, issued>>
    BY <1>4 DEF Drop, DropFails, auth
  <2>2. CASE Become(h, Idle) /\ UNCHANGED allow
    <3>1. Quiet
      BY <2>1, <2>2, BecomesQuiet, RowsStay, IdleTyped DEF Quiet, TokenInv, OneAllowed
    <3>. QED
      BY <3>1, QuietKeeps
  <2>3. ASSUME NEW j \in at[h].todo, Become(h, [at[h] EXCEPT !.todo = @ \ {j}]),
               allow' = allow \/ allow' = allow \ {j}
        PROVE  TokenInv'
    <3>. DEFINE r == [at[h] EXCEPT !.todo = @ \ {j}]
    <3>1. r \in Handler /\ r.pc = "drop" /\ r.todo \subseteq at[h].todo
      BY <2>1 DEF TokenInv, TypeOK, Handler, At
    <3>2. \A k \in r.todo : rows'[k[1]].state = "revoked"
      BY <2>1, <3>1 DEF TokenInv, DropsRevoked
    <3>3. Quiet
      BY <2>1, <2>3, <3>1, <3>2, BecomesQuiet, RowsStay, Dropped
      DEF Quiet, TokenInv, OneAllowed, Minting
    <3>. QED
      BY <3>3, QuietKeeps
  <2>. QED
    BY <1>4, <2>2, <2>3 DEF Drop, DropFails, Finish
<1>. QED
  BY <1>1, <1>2, <1>3, <1>4

LEMMA OtherSteps ==
  ASSUME TokenInv, RestTyped',
         \/ \E h \in Handlers : SuspendUser(h) \/ ResetPassword(h) \/ SetRole(h) \/ SuspendOrg(h)
         \/ \E h \in Handlers : ConsumeLost(h)
         \/ AccessTtl \/ SignInTtl \/ RotatedTtl
  PROVE  TokenInv'
<1>1. ASSUME NEW h \in Handlers, SuspendUser(h) \/ ResetPassword(h) PROVE TokenInv'
  <2>. DEFINE r == [Idle EXCEPT !.pc = "revoke-all"]
  <2>1. r \in Handler /\ r.pc = "revoke-all" /\ r.todo = {}
    BY DEF Idle, Handler, PC, Roles
  <2>2. Become(h, r) /\ UNCHANGED <<allow, rows, minted, issued>>
    BY <1>1 DEF SuspendUser, ResetPassword, auth
  <2>3. Quiet
    BY <2>1, <2>2, BecomesQuiet, RowsStay DEF Quiet, TokenInv, OneAllowed, Minting
  <2>. QED
    BY <2>3, QuietKeeps
<1>2. ASSUME UNCHANGED <<minted, issued, at>>, allow' \subseteq allow, RowsEnd,
             \A h \in Handlers : At(h, "insert") => at[h].jti \in allow'
      PROVE  TokenInv'
  <2>1. Quiet
    BY <1>2 DEF Quiet, TokenInv, TypeOK
  <2>. QED
    BY <2>1, QuietKeeps
<1>3. ASSUME NEW h \in Handlers, SetRole(h) \/ SuspendOrg(h) PROVE TokenInv'
  BY <1>2, <1>3, RowsStay DEF SetRole, SuspendOrg, TokenInv, OneAllowed
<1>4. ASSUME NEW h \in Handlers, ConsumeLost(h) PROVE TokenInv'
  BY <1>2, <1>4, RowsStay, IssuedNotNew DEF ConsumeLost, auth, TokenInv, OneAllowed
<1>5. CASE AccessTtl
  BY <1>2, <1>5, RowsStay DEF AccessTtl, TokenInv, OneAllowed
<1>6. CASE SignInTtl
  <2>1. PICK q \in Sids : /\ rows[q].state # "none"
                         /\ rows' = [rows EXCEPT ![q].expired = TRUE]
                         /\ allow' = allow \ {<<q, 0>>}
    BY <1>6 DEF SignInTtl
  <2>2. RowsEnd
    <3>1. rows[q] \in RowRec
      BY DEF TokenInv, TypeOK, RowRec
    <3>. DEFINE r == [rows[q] EXCEPT !.expired = TRUE]
    <3>2. r \in RowRec /\ r.jti = rows[q].jti /\ r.state = rows[q].state /\ r.expired
      BY <3>1 DEF RowRec
    <3>3. rows' = [rows EXCEPT ![q] = r] /\ rows \in [Sids -> RowRec]
      BY <2>1 DEF TokenInv, TypeOK, RowRec
    <3>4. rows' \in [Sids -> RowRec] /\ rows'[q] = r /\ \A s \in Sids : s # q => rows'[s] = rows[s]
      BY <3>2, <3>3
    <3>. HIDE DEF r
    <3>. QED
      BY <2>1, <3>2, <3>4 DEF RowsEnd
  <2>3. \A h \in Handlers : At(h, "idle")
    BY <1>6 DEF SignInTtl
  <2>. QED
    BY <1>2, <1>6, <2>1, <2>2, <2>3 DEF SignInTtl, auth, At
<1>7. CASE RotatedTtl
  <2>1. PICK j \in allow : rows[j[1]].expired /\ allow' = allow \ {j}
    BY <1>7 DEF RotatedTtl
  <2>2. \A h \in Handlers : At(h, "insert") => at[h].jti # j
    BY <2>1 DEF TokenInv, TypeOK, RowsFirst, Sid, Jtis
  <2>. QED
    BY <1>2, <1>7, <2>1, <2>2, RowsStay DEF RotatedTtl, auth, TokenInv, OneAllowed
<1>. QED
  BY <1>1, <1>3, <1>4, <1>5, <1>6, <1>7

LEMMA FailSteps ==
  ASSUME TokenInv, RestTyped', NEW h \in Handlers, CallFails(h)
  PROVE  TokenInv'
<1>1. Become(h, Idle) /\ UNCHANGED <<minted, issued>>
  BY DEF CallFails, Finish, auth
<1>2. /\ at' \in [Handlers -> Handler] /\ at'[h] = Idle
      /\ \A g \in Handlers : g # h => at'[g] = at[g]
  BY <1>1, Becomes, IdleTyped DEF TokenInv
<1>3. \A pc \in PC : GoesOn(h, pc)
  BY <1>2 DEF GoesOn
<1>4. CASE UNCHANGED <<allow, rows>>
  <2>1. Quiet
    BY <1>1, <1>4, BecomesQuiet, RowsStay, IdleTyped DEF Quiet, TokenInv, OneAllowed
  <2>. QED
    BY <2>1, QuietKeeps
<1>5. CASE at[h].pc \in {"allow-new", "allow"} /\ allow' = allow \cup {at[h].jti} /\ UNCHANGED rows
  BY <1>1, <1>2, <1>3, <1>5, AllowKeeps DEF PC
<1>6. CASE At(h, "insert") /\ InsertRow(h) /\ UNCHANGED allow
  BY <1>1, <1>2, <1>3, <1>6, InsertKeeps DEF PC
<1>7. CASE /\ At(h, "touch") /\ Live(Sid(h))
           /\ rows' = [rows EXCEPT ![Sid(h)].jti = at[h].jti] /\ UNCHANGED allow
  BY <1>1, <1>2, <1>3, <1>7, TouchKeeps DEF PC
<1>8. CASE At(h, "revoke-all") /\ rows' = Revoke(Sids) /\ UNCHANGED allow
  <2>1. Quiet
    BY <1>1, <1>8, BecomesQuiet, RevokeEnds, IdleTyped DEF Quiet, TokenInv, OneAllowed
  <2>. QED
    BY <2>1, QuietKeeps
<1>. QED
  BY <1>4, <1>5, <1>6, <1>7, <1>8 DEF CallFails, Sid

LEMMA TokenStep ==
  ASSUME TokenInv, [Next]_vars
  PROVE  TokenInv'
<1>1. CASE Next
  <2>1. RestTyped'
    BY <1>1, RestKept DEF TokenInv
  <2>2. ASSUME NEW h \in Handlers, HandlerStep(h) PROVE TokenInv'
    BY <2>1, <2>2, SignInSteps, RefreshSteps, RevokeSteps DEF HandlerStep
  <2>3. ASSUME NEW h \in Handlers, Request(h) PROVE TokenInv'
    BY <2>1, <2>3, SignInSteps, RefreshSteps, RevokeSteps, OtherSteps DEF Request
  <2>. QED
    BY <1>1, <2>1, <2>2, <2>3, FailSteps, RevokeSteps, OtherSteps DEF Next
<1>2. CASE UNCHANGED vars
  BY <1>2 DEF vars, auth, TokenInv, TypeOK, MintersAlone, OneAllowed, RowsFirst, TouchedFirst,
      DropsRevoked, RowNamesToken, Family, Sid, At
<1>. QED
  BY <1>1, <1>2

LEMMA TokenStart == Init => TokenInv
<1>. SUFFICES ASSUME Init PROVE TokenInv
  OBVIOUS
<1>1. \A h \in Handlers : at[h].pc = "idle" /\ at[h].todo = {}
  BY DEF Init, Idle
<1>2. TypeOK
  BY SessionsAssumption, IdleTyped DEF Init, TypeOK, Roles
<1>. QED
  BY <1>1, <1>2
  DEF Init, TokenInv, MintersAlone, OneAllowed, RowsFirst, TouchedFirst, DropsRevoked,
      RowNamesToken, Family, At, Minting

LEMMA TokenAlways == Spec => []TokenInv
BY TokenStart, TokenStep, PTL DEF Spec

-----------------------------------------------------------------------------
(* What a session on the device list keeps. *)

\* A handler that will allowlist a token of its session, or revoke it.
Tends(h) == at[h].pc \in {"touch", "allow", "sign-out"}

LEMMA RenewKept ==
  ASSUME TokenInv, ListedIsRenewable, faults' = 0 => faults = 0,
         \A s \in Sids : faults' = 0 /\ Listed(s)' =>
           /\ Listed(s) /\ rows'[s].jti = rows[s].jti
           /\ rows[s].jti \in allow => rows[s].jti \in allow',
         \A s \in Sids, h \in Handlers : faults' = 0 /\ Listed(s)' /\ Tends(h) /\ Sid(h) = s =>
           Tends(h)' /\ at'[h].jti[1] = s
  PROVE  ListedIsRenewable'
BY DEF ListedIsRenewable, Tends, Sid, Listed, Live

LEMMA RenewStep ==
  ASSUME TokenInv, ListedIsRenewable, [Next]_vars
  PROVE  ListedIsRenewable'
<1>1. ASSUME NEW h \in Handlers, VerifyCredentials(h) \/ SuspendUser(h) \/ ResetPassword(h)
      PROVE  ListedIsRenewable'
  BY <1>1, RenewKept
  DEF VerifyCredentials, SuspendUser, ResetPassword, Become, TokenInv, TypeOK, auth, Tends, Sid,
      Listed, Live, At
<1>2. ASSUME NEW h \in Handlers, CheckTenant(h) \/ AllowNew(h)
      PROVE  ListedIsRenewable'
  BY <1>2, RenewKept
  DEF CheckTenant, AllowNew, Goto, Finish, Become, TokenInv, TypeOK, auth, Tends, Sid, Listed,
      Live, At
<1>3. ASSUME NEW h \in Handlers, SetRole(h) \/ SuspendOrg(h)
      PROVE  ListedIsRenewable'
  BY <1>3, RenewKept DEF SetRole, SuspendOrg, Tends, Sid, Listed, Live
<1>4. CASE UNCHANGED vars
  BY <1>4, RenewKept DEF vars, Tends, Sid, Listed, Live
<1>5. ASSUME NEW h \in Handlers, CallFails(h) \/ DropFails(h) \/ ConsumeLost(h)
      PROVE  ListedIsRenewable'
  <2>1. faults' # 0
    BY <1>5 DEF CallFails, DropFails, ConsumeLost, Fault, TokenInv, TypeOK
  <2>. QED
    BY <2>1 DEF ListedIsRenewable
<1>6. ASSUME NEW h \in Handlers, InsertSession(h) PROVE ListedIsRenewable'
  <2>1. /\ At(h, "insert") /\ InsertRow(h) /\ Become(h, Idle) /\ UNCHANGED <<allow, faults>>
    BY <1>6 DEF InsertSession, Finish
  <2>2. /\ at' \in [Handlers -> Handler] /\ at'[h] = Idle
        /\ \A g \in Handlers : g # h => at'[g] = at[g]
    BY <2>1, Becomes, IdleTyped DEF TokenInv
  <2>3. at[h].jti \in allow /\ Sid(h) \in Sids
    BY <2>1 DEF TokenInv, OneAllowed, MintersAlone, Minting, Jtis, Sid, At
  <2>4. /\ rows'[Sid(h)].jti = at[h].jti
        /\ \A s \in Sids : s # Sid(h) => rows'[s] = rows[s]
    BY <2>1, <2>3 DEF InsertRow, TokenInv, TypeOK, Sid
  <2>. QED
    BY <2>1, <2>2, <2>3, <2>4 DEF ListedIsRenewable, Listed, Live, At
<1>7. ASSUME NEW h \in Handlers, Consume(h) \/ SignOut(h) PROVE ListedIsRenewable'
  <2>1. PICK t \in issued :
          /\ allow' = allow \/ allow' = allow \ {t[1]}
          /\ \E r \in Handler : /\ Become(h, r) /\ r.pc \in {"touch", "allow", "sign-out"}
                               /\ r.jti[1] = t[1][1]
    <3>1. CASE Consume(h)
      <4>1. PICK t \in issued :
              /\ Mint(t[1][1]) /\ allow' = allow \ {t[1]}
              /\ Become(h, [pc |-> "touch", jti |-> NextJti(t[1][1]), role |-> t[2],
                            late |-> rows[t[1][1]].state = "revoked", todo |-> {}])
        BY <3>1 DEF Consume
      <4>. DEFINE r == [pc |-> "touch", jti |-> NextJti(t[1][1]), role |-> t[2],
                        late |-> rows[t[1][1]].state = "revoked", todo |-> {}]
      <4>2. r \in Handler /\ r.pc = "touch" /\ r.jti[1] = t[1][1]
        BY <4>1, IssuedNotNew, SessionsAssumption
        DEF Mint, NextJti, Jtis, TokenInv, TypeOK, Handler, PC
      <4>. QED
        BY <4>1, <4>2
    <3>2. CASE SignOut(h)
      <4>1. PICK t \in issued :
              /\ allow' = allow \ {t[1]}
              /\ Become(h, [pc |-> "sign-out", jti |-> t[1], role |-> "viewer", late |-> FALSE,
                            todo |-> {}])
        BY <3>2 DEF SignOut
      <4>. DEFINE r == [pc |-> "sign-out", jti |-> t[1], role |-> "viewer", late |-> FALSE,
                        todo |-> {}]
      <4>2. r \in Handler /\ r.pc = "sign-out" /\ r.jti = t[1]
        BY IssuedNotNew DEF Handler, PC, Roles
      <4>. QED
        BY <4>1, <4>2
    <3>. QED
      BY <1>7, <3>1, <3>2
  <2>2. At(h, "idle") /\ UNCHANGED <<rows, faults>>
    BY <1>7 DEF Consume, SignOut
  <2>3. /\ at'[h].pc \in {"touch", "allow", "sign-out"} /\ at'[h].jti[1] = t[1][1]
        /\ \A g \in Handlers : g # h => at'[g] = at[g]
    BY <2>1, Becomes DEF TokenInv
  <2>4. \A s \in Sids : Listed(s) => rows[s].jti[1] = s
    BY DEF TokenInv, RowsFirst, Listed, Live
  <2>. QED
    BY <2>1, <2>2, <2>3, <2>4 DEF ListedIsRenewable, Listed, Live, At
<1>8. ASSUME NEW h \in Handlers, Touch(h) PROVE ListedIsRenewable'
  <2>1. At(h, "touch") /\ UNCHANGED <<allow, faults>>
    BY <1>8 DEF Touch
  <2>2. CASE Live(Sid(h)) /\ rows' = [rows EXCEPT ![Sid(h)].jti = at[h].jti] /\ Goto(h, "allow")
    <3>. DEFINE r == [at[h] EXCEPT !.pc = "allow"]
    <3>0. r \in Handler /\ r.pc = "allow" /\ r.jti = at[h].jti
      BY DEF TokenInv, TypeOK, Handler, PC
    <3>1. at'[h].pc = "allow" /\ at'[h].jti = at[h].jti /\ \A g \in Handlers : g # h => at'[g] = at[g]
      BY <2>2, <3>0, Becomes DEF Goto, TokenInv
    <3>2. \A s \in Sids : rows'[s].state = rows[s].state /\ rows'[s].expired = rows[s].expired
      BY <2>2 DEF TokenInv, TypeOK
    <3>3. \A s \in Sids : s # Sid(h) => rows'[s] = rows[s]
      BY <2>2 DEF TokenInv, TypeOK
    <3>. QED
      BY <2>1, <3>1, <3>2, <3>3 DEF ListedIsRenewable, Listed, Live, At, Sid
  <2>3. CASE ~Live(Sid(h)) /\ Finish(h) /\ UNCHANGED rows
    <3>1. \A g \in Handlers : g # h => at'[g] = at[g]
      BY <2>3 DEF Finish, Become, TokenInv, TypeOK
    <3>. QED
      BY <2>1, <2>3, <3>1 DEF ListedIsRenewable, Listed, Live, Sid
  <2>. QED
    BY <1>8, <2>2, <2>3 DEF Touch, Sid
<1>9. ASSUME NEW h \in Handlers, AllowRotated(h) PROVE ListedIsRenewable'
  <2>1. At(h, "allow") /\ allow' = allow \cup {at[h].jti} /\ UNCHANGED <<rows, faults>>
    BY <1>9 DEF AllowRotated
  <2>2. \A g \in Handlers : g # h => at'[g] = at[g]
    BY <1>9 DEF AllowRotated, Finish, Become, TokenInv, TypeOK
  <2>3. rows[Sid(h)].jti = at[h].jti
    BY <2>1 DEF TokenInv, TouchedFirst
  <2>. QED
    BY <2>1, <2>2, <2>3 DEF ListedIsRenewable, Listed, Live, Sid
<1>10. ASSUME NEW h \in Handlers, SignOutRow(h) PROVE ListedIsRenewable'
  <2>1. /\ At(h, "sign-out") /\ rows' = Revoke({at[h].jti[1]}) /\ UNCHANGED <<allow, faults>>
    BY <1>10 DEF SignOutRow
  <2>2. \A g \in Handlers : g # h => at'[g] = at[g]
    BY <1>10 DEF SignOutRow, Finish, Become, TokenInv, TypeOK
  <2>3. at[h].jti[1] \in Sids
    BY <2>1 DEF TokenInv, MintersAlone, Jtis, At
  <2>4. RowsEnd /\ rows'[at[h].jti[1]].state # "live"
    <3>. DEFINE S == {at[h].jti[1]}
    <3>1. S \in SUBSET Sids /\ TypeOK /\ rows' = Revoke(S)
      BY <2>1, <2>3 DEF TokenInv
    <3>2. RowsEnd /\ \A s \in S : Live(s) => rows'[s].state = "revoked"
      BY <3>1, RevokeEnds
    <3>3. \A s \in Sids : rows'[s].state = rows[s].state \/ (Live(s) /\ rows'[s].state = "revoked")
      BY <3>2 DEF RowsEnd
    <3>. QED
      BY <2>3, <3>2, <3>3 DEF Live
  <2>5. \A s \in Sids : Listed(s)' =>
          Listed(s) /\ rows'[s].jti = rows[s].jti /\ s # at[h].jti[1]
    BY <2>4 DEF Listed, Live, RowsEnd
  <2>. QED
    BY <2>1, <2>2, <2>5 DEF ListedIsRenewable
<1>11. ASSUME NEW h \in Handlers, RevokeOne(h) \/ RevokeOthers(h) \/ RevokeAll(h)
       PROVE  ListedIsRenewable'
  <2>1. ~Tends(h) /\ \E S \in SUBSET Sids : RevokeRows(h, S)
    BY <1>11 DEF RevokeOne, RevokeOthers, RevokeAll, At, Tends
  <2>2. RowsEnd /\ UNCHANGED <<allow, faults>>
    BY <2>1, RevokeEnds DEF RevokeRows, TokenInv
  <2>3. \A g \in Handlers : g # h => at'[g] = at[g]
    BY <2>1 DEF RevokeRows, Become, TokenInv, TypeOK
  <2>. QED
    BY <2>1, <2>2, <2>3 DEF ListedIsRenewable, Listed, Live, Tends, RowsEnd
<1>12. ASSUME NEW h \in Handlers, Drop(h) PROVE ListedIsRenewable'
  <2>1. At(h, "drop") /\ UNCHANGED <<rows, faults>>
    BY <1>12 DEF Drop
  <2>2. \A g \in Handlers : g # h => at'[g] = at[g]
    BY <1>12 DEF Drop, Finish, Become, TokenInv, TypeOK
  <2>3. allow' = allow \/ \E j \in at[h].todo : allow' = allow \ {j}
    BY <1>12 DEF Drop
  <2>4. \A s \in Sids, j \in at[h].todo : Live(s) => rows[s].jti # j
    BY DEF TokenInv, DropsRevoked, RowsFirst, Live
  <2>. QED
    BY <2>1, <2>2, <2>3, <2>4 DEF ListedIsRenewable, Listed, Live, At
<1>13. CASE SignInTtl
  <2>1. PICK q \in Sids : /\ rows' = [rows EXCEPT ![q].expired = TRUE]
                         /\ allow' = allow \ {<<q, 0>>}
    BY <1>13 DEF SignInTtl
  <2>2. /\ rows'[q].expired
        /\ \A s \in Sids : s # q => rows'[s] = rows[s]
    BY <2>1 DEF TokenInv, TypeOK
  <2>3. \A s \in Sids : Listed(s) => rows[s].jti[1] = s
    BY DEF TokenInv, RowsFirst, Listed, Live
  <2>. QED
    BY <1>13, <2>1, <2>2, <2>3 DEF SignInTtl, ListedIsRenewable, Listed, Live
<1>14. CASE RotatedTtl
  <2>1. PICK j \in allow : rows[j[1]].expired /\ allow' = allow \ {j}
    BY <1>14 DEF RotatedTtl
  <2>2. \A s \in Sids : Listed(s) => rows[s].jti # j
    BY <2>1 DEF TokenInv, RowsFirst, Listed, Live
  <2>. QED
    BY <1>14, <2>1, <2>2 DEF RotatedTtl, ListedIsRenewable, Listed, Live
<1>15. ASSUME NEW h \in Handlers, HandlerStep(h) PROVE ListedIsRenewable'
  BY <1>2, <1>6, <1>8, <1>9, <1>10, <1>11, <1>12, <1>15 DEF HandlerStep
<1>16. ASSUME NEW h \in Handlers, Request(h) PROVE ListedIsRenewable'
  BY <1>1, <1>3, <1>7, <1>11, <1>16 DEF Request
<1>17. CASE AccessTtl
  BY <1>17, RenewKept DEF AccessTtl, Tends, Sid, Listed, Live
<1>. QED
  BY <1>4, <1>5, <1>13, <1>14, <1>15, <1>16, <1>17 DEF Next

-----------------------------------------------------------------------------

\* The tables, the allowlist and the handlers keep their types, and a jti is
\* minted before it is stored (auth.rs mint).
THEOREM SessionsTyped == Spec => []TypeOK
<1>1. TokenInv => TypeOK
  BY DEF TokenInv
<1>. QED
  BY <1>1, TokenAlways, PTL

LEMMA AtMostOne ==
  ASSUME NEW S, \A x, y \in S : x = y
  PROVE  IsFiniteSet(S) /\ Cardinality(S) \in 0 .. 1 /\ (Cardinality(S) = 0 <=> S = {})
<1>1. CASE S = {}
  BY <1>1, FS_EmptySet
<1>2. CASE S # {}
  <2>1. PICK x \in S : TRUE
    BY <1>2
  <2>2. S = {x}
    BY <2>1
  <2>3. IsFiniteSet(S) /\ Cardinality(S) = 1
    BY <2>2, FS_Singleton
  <2>. QED
    BY <1>2, <2>3
<1>. QED
  BY <1>1, <1>2

\* However refreshes overlap and fail, a session has one token to redeem or
\* one handler that replaces it (auth.rs consume_refresh).
THEOREM OneToken == Spec => []OneLiveToken
<1>1. ASSUME TokenInv PROVE OneLiveToken
  <2>1. ASSUME NEW s \in Sids
        PROVE  Cardinality(Family(s) \cap allow)
                 + Cardinality({h \in Handlers : at[h].pc \in {"touch", "allow"} /\ at[h].jti[1] = s}) <= 1
    <3>. DEFINE T == Family(s) \cap allow
                R == {h \in Handlers : at[h].pc \in {"touch", "allow"} /\ at[h].jti[1] = s}
    <3>1. \A i, j \in T : i = j
      BY <1>1 DEF TokenInv, OneAllowed, Family
    <3>2. \A g, h \in R : g = h
      BY <1>1 DEF TokenInv, MintersAlone, Minting, Sid
    <3>3. T = {} \/ R = {}
      BY <1>1 DEF TokenInv, OneAllowed, Family, Sid
    <3>. HIDE DEF T, R
    <3>4. /\ Cardinality(T) \in 0 .. 1 /\ (Cardinality(T) = 0 <=> T = {})
          /\ Cardinality(R) \in 0 .. 1 /\ (Cardinality(R) = 0 <=> R = {})
      BY <3>1, <3>2, AtMostOne
    <3>5. Cardinality(T) + Cardinality(R) <= 1
      BY <3>3, <3>4
    <3>. QED
      BY <3>5 DEF T, R
  <2>. QED
    BY <2>1 DEF OneLiveToken
<1>. QED
  BY <1>1, TokenAlways, PTL

\* A revocation, which knows only current_jti, can find the token that Redis
\* would accept (tenancy.rs revoke_session).
THEOREM RowNames == Spec => []RowNamesToken
<1>1. TokenInv => RowNamesToken
  BY DEF TokenInv
<1>. QED
  BY <1>1, TokenAlways, PTL

\* A refresh of a revoked session stops at touch_session (auth.rs refresh).
THEOREM RevokedStopped == Spec => []NoRenewalAfterRevocation
<1>1. TokenInv => NoRenewalAfterRevocation
  BY DEF TokenInv, TouchedFirst, NoRenewalAfterRevocation
<1>. QED
  BY <1>1, TokenAlways, PTL

\* While no call fails, whoever is on the device list can renew
\* (routes/auth.rs list_sessions).
THEOREM ListedRenewable == Spec => []ListedIsRenewable
<1>1. Init => ListedIsRenewable
  BY DEF Init, ListedIsRenewable, Listed, Live
<1>. QED
  BY <1>1, RenewStep, TokenAlways, PTL DEF Spec
=============================================================================
