------------------------------- MODULE Sessions -------------------------------
(***************************************************************************)
(* Device sessions of one user (insight-api auth.rs, routes/auth.rs,       *)
(* routes/users.rs; the session part of insight-core tenancy.rs).          *)
(*                                                                         *)
(* A session lives in two stores: the allowlist of refresh jtis in Redis   *)
(* and a row of auth_sessions in Postgres.  Every handler below is a       *)
(* sequence of single calls to one of them, with anything in between.      *)
(* The n-th token of session s has the jti <<s, n>>.  Rows of other users  *)
(* are kept apart by user_id and row-level security.                       *)
(*                                                                         *)
(* At most MaxFaults calls fail or handlers are killed; a failed call may  *)
(* have been applied.  MaxRotations bounds the tokens of a session.        *)
(***************************************************************************)
EXTENDS Naturals, FiniteSets

CONSTANTS
  Sids,          \* session ids
  Handlers,      \* requests in flight
  MaxRotations,  \* bound on the tokens minted for a session after its first
  MaxFaults,     \* bound on failed calls and killed handlers
  Operations     \* which of OpNames the clients and admins ask for

OpNames == {"sign-out", "revoke", "revoke-others", "suspend", "reset",
            "revoke-all", "role", "suspend-org"}

ASSUME SessionsAssumption ==
  MaxRotations \in Nat /\ MaxFaults \in Nat /\ Operations \subseteq OpNames

Roles == {"viewer", "admin"}
Jtis == Sids \X (0 .. MaxRotations)

VARIABLES
  allow,     \* the jtis under refresh:{jti}
  rows,      \* auth_sessions: state, current_jti, expires_at passed
  minted,    \* how many refresh tokens were minted for the session
  issued,    \* refresh tokens that reached a client: jti and claims.role
  access,    \* the roles in access tokens that have not expired
  role,      \* users.role
  orgOpen,   \* ~tenants.suspended
  settled,   \* no role change within the last access TTL
  at,        \* the handlers
  faults

vars == <<allow, rows, minted, issued, access, role, orgOpen, settled, at, faults>>
auth == <<issued, access, role, orgOpen, settled>>

NoJti == <<>>
PC == {"idle", "tenant", "allow-new", "insert", "touch", "allow", "sign-out",
       "revoke-all", "drop"}

\* jti: the token being minted; late: its session was revoked before the
\* refresh took the old one; keep: the session spared; todo: jtis to drop.
Handler == [pc : PC, jti : Jtis \cup {NoJti}, role : Roles, late : BOOLEAN,
            todo : SUBSET Jtis]

Idle == [pc |-> "idle", jti |-> NoJti, role |-> "viewer", late |-> FALSE, todo |-> {}]

TypeOK ==
  /\ allow \subseteq Jtis
  /\ rows \in [Sids -> [state : {"none", "live", "revoked"}, jti : Jtis \cup {NoJti},
                     expired : BOOLEAN]]
  /\ minted \in [Sids -> 0 .. MaxRotations + 1]
  /\ issued \subseteq Jtis \X Roles
  /\ access \subseteq Roles
  /\ role \in Roles
  /\ orgOpen \in BOOLEAN /\ settled \in BOOLEAN
  /\ at \in [Handlers -> Handler]
  /\ faults \in 0 .. MaxFaults
  /\ \A j \in allow \cup ({rows[s].jti : s \in Sids} \ {NoJti}) : j[2] < minted[j[1]]

Init ==
  /\ allow = {}
  /\ rows = [s \in Sids |-> [state |-> "none", jti |-> NoJti, expired |-> FALSE]]
  /\ minted = [s \in Sids |-> 0]
  /\ issued = {} /\ access = {}
  /\ role = "admin"
  /\ orgOpen = TRUE /\ settled = TRUE
  /\ at = [h \in Handlers |-> Idle]
  /\ faults = 0

At(h, pc) == at[h].pc = pc
Become(h, r) == at' = [at EXCEPT ![h] = r]
Goto(h, pc) == Become(h, [at[h] EXCEPT !.pc = pc])
Finish(h) == Become(h, Idle)
Fault == faults < MaxFaults /\ faults' = faults + 1

Live(s) == rows[s].state = "live"
RoleRank(r) == IF r = "admin" THEN 2 ELSE 0
RequireAdmin(r) == RoleRank(r) >= RoleRank("admin")

\* Mutant of Mint: the jti is used again.
MintSame(s) == minted[s] <= MaxRotations /\ UNCHANGED minted

\* mint: a new jti for session s (the access token needs no state yet).
Mint(s) == minted[s] <= MaxRotations /\ minted' = [minted EXCEPT ![s] = @ + 1]
NextJti(s) == <<s, minted[s]>>

\* set_auth_cookies and the body: the tokens of the handler reach the client.
Deliver(h) ==
  /\ issued' = issued \cup {<<at[h].jti, at[h].role>>}
  /\ access' = access \cup {at[h].role}
  /\ UNCHANGED <<role, orgOpen, settled>>

-----------------------------------------------------------------------------
(* Sign-in and start_session. *)

\* The password is right; users.status is not looked at.
VerifyCredentials(h) ==
  /\ At(h, "idle")
  /\ Become(h, [pc |-> "tenant", jti |-> NoJti, role |-> role, late |-> FALSE, todo |-> {}])
  /\ UNCHANGED <<allow, rows, minted, auth, faults>>

\* SELECT suspended, then a new sid and its first token.
CheckTenant(h) ==
  /\ At(h, "tenant")
  /\ \/ ~orgOpen /\ Finish(h) /\ UNCHANGED minted
     \/ \E s \in Sids :
          /\ orgOpen /\ minted[s] = 0 /\ Mint(s)
          /\ Become(h, [pc |-> "allow-new", jti |-> NextJti(s), role |-> at[h].role,
                        late |-> FALSE, todo |-> {}])
  /\ UNCHANGED <<allow, rows, auth, faults>>

AllowNew(h) ==
  /\ At(h, "allow-new")
  /\ allow' = allow \cup {at[h].jti}
  /\ Goto(h, "insert")
  /\ UNCHANGED <<rows, minted, auth, faults>>

InsertRow(h) ==
  rows' = [rows EXCEPT ![at[h].jti[1]] =
             [state |-> "live", jti |-> at[h].jti, expired |-> FALSE]]

InsertSession(h) ==
  /\ At(h, "insert")
  /\ InsertRow(h)
  /\ Deliver(h)
  /\ Finish(h)
  /\ UNCHANGED <<allow, minted, faults>>

-----------------------------------------------------------------------------
(* refresh *)

\* Mutant of Consume: GET, with the key left for the rotation to overwrite.
ConsumeByGet(h) ==
  /\ At(h, "idle")
  /\ \E t \in issued : LET s == t[1][1] IN
       /\ t[1] \in allow /\ Mint(s)
       /\ Become(h, [pc |-> "touch", jti |-> NextJti(s), role |-> t[2],
                     late |-> rows[s].state = "revoked", todo |-> {}])
       /\ UNCHANGED allow
  /\ UNCHANGED <<rows, auth, faults>>

\* GETDEL of the presented jti; the new tokens copy the role of the old claims.
Consume(h) ==
  /\ At(h, "idle")
  /\ \E t \in issued : LET s == t[1][1] IN
       /\ t[1] \in allow /\ Mint(s)
       /\ allow' = allow \ {t[1]}
       /\ Become(h, [pc |-> "touch", jti |-> NextJti(s), role |-> t[2],
                     late |-> rows[s].state = "revoked", todo |-> {}])
  /\ UNCHANGED <<rows, auth, faults>>

\* Mutant of Touch: without "AND revoked_at IS NULL".
TouchAny(h) ==
  /\ At(h, "touch")
  /\ LET s == at[h].jti[1] IN
       rows' = [rows EXCEPT ![s].jti = at[h].jti] /\ Goto(h, "allow")
  /\ UNCHANGED <<allow, minted, auth, faults>>

\* Mutant of Touch: only last_seen_at is updated.
TouchSeen(h) ==
  /\ At(h, "touch")
  /\ LET s == at[h].jti[1] IN
       \/ Live(s) /\ Goto(h, "allow")
       \/ ~Live(s) /\ Finish(h)
  /\ UNCHANGED <<allow, rows, minted, auth, faults>>

\* touch_session: UPDATE current_jti WHERE revoked_at IS NULL.
Touch(h) ==
  /\ At(h, "touch")
  /\ LET s == at[h].jti[1] IN
       \/ Live(s) /\ rows' = [rows EXCEPT ![s].jti = at[h].jti] /\ Goto(h, "allow")
       \/ ~Live(s) /\ Finish(h) /\ UNCHANGED rows
  /\ UNCHANGED <<allow, minted, auth, faults>>

\* Mutant of AllowRotated: the new jti is not allowlisted.
AllowRotatedNot(h) ==
  /\ At(h, "allow")
  /\ Deliver(h)
  /\ Finish(h)
  /\ UNCHANGED <<allow, rows, minted, faults>>

AllowRotated(h) ==
  /\ At(h, "allow")
  /\ allow' = allow \cup {at[h].jti}
  /\ Deliver(h)
  /\ Finish(h)
  /\ UNCHANGED <<rows, minted, faults>>

-----------------------------------------------------------------------------
(* Sign-out and revocation. *)

\* DEL of the presented jti, whether or not it is still allowlisted.
SignOut(h) ==
  /\ "sign-out" \in Operations
  /\ At(h, "idle")
  /\ \E t \in issued :
       /\ allow' = allow \ {t[1]}
       /\ Become(h, [pc |-> "sign-out", jti |-> t[1], role |-> "viewer", late |-> FALSE,
                     todo |-> {}])
  /\ UNCHANGED <<rows, minted, auth, faults>>

Revoke(S) == [s \in Sids |-> IF s \in S /\ Live(s)
                             THEN [rows[s] EXCEPT !.state = "revoked"] ELSE rows[s]]

\* The revocation of a sign-out is best effort and drops no jti.
SignOutRow(h) ==
  /\ At(h, "sign-out")
  /\ rows' = Revoke({at[h].jti[1]})
  /\ Finish(h)
  /\ UNCHANGED <<allow, minted, auth, faults>>

\* RETURNING current_jti
CurrentJtis(S) == {rows[s].jti : s \in {s \in S : Live(s)}}

\* revoke_session revokes one, revoke_other_sessions all but one or all.
RevokeRows(h, S) ==
  /\ rows' = Revoke(S)
  /\ Become(h, [pc |-> "drop", jti |-> NoJti, role |-> "viewer", late |-> FALSE,
                todo |-> CurrentJtis(S)])
  /\ UNCHANGED <<allow, minted, auth, faults>>

RevokeOne(h) ==
  /\ "revoke" \in Operations /\ At(h, "idle")
  /\ \E s \in Sids : Live(s) /\ RevokeRows(h, {s})

RevokeOthers(h) ==
  /\ "revoke-others" \in Operations /\ At(h, "idle")
  /\ \E keep \in Sids : RevokeRows(h, Sids \ {keep})

RevokeAll(h) ==
  /\ \/ At(h, "revoke-all")
     \/ "revoke-all" \in Operations /\ At(h, "idle")
  /\ RevokeRows(h, Sids)

\* One DEL per jti; the last one ends the handler.
Drop(h) ==
  /\ At(h, "drop")
  /\ \/ at[h].todo = {} /\ Finish(h) /\ UNCHANGED allow
     \/ \E j \in at[h].todo :
          /\ allow' = allow \ {j}
          /\ Become(h, [at[h] EXCEPT !.todo = @ \ {j}])
  /\ UNCHANGED <<rows, minted, auth, faults>>

\* A DEL that fails is skipped; the one of revoke_session ends in a 500 instead.
DropFails(h) ==
  /\ At(h, "drop") /\ Fault
  /\ \E j \in at[h].todo : Become(h, [at[h] EXCEPT !.todo = @ \ {j}])
  /\ UNCHANGED <<allow, rows, minted, auth>>

-----------------------------------------------------------------------------
(* The admin's handlers: update_user, user_id_action, update_org. *)

\* UPDATE users SET status, which none of these handlers reads; a suspension
\* goes on to revoke every session.
SuspendUser(h) ==
  /\ "suspend" \in Operations /\ At(h, "idle")
  /\ Become(h, [Idle EXCEPT !.pc = "revoke-all"])
  /\ UNCHANGED <<allow, rows, minted, auth, faults>>

\* set_user_password, in a transaction before the revocation.
ResetPassword(h) ==
  /\ "reset" \in Operations /\ At(h, "idle")
  /\ Become(h, [Idle EXCEPT !.pc = "revoke-all"])
  /\ UNCHANGED <<allow, rows, minted, auth, faults>>

SetRole(h) ==
  /\ "role" \in Operations /\ At(h, "idle")
  /\ \E r \in Roles : r # role /\ role' = r
  /\ settled' = FALSE
  /\ UNCHANGED <<allow, rows, minted, issued, access, orgOpen, at, faults>>

SuspendOrg(h) ==
  /\ "suspend-org" \in Operations /\ At(h, "idle")
  /\ orgOpen' = ~orgOpen
  /\ UNCHANGED <<allow, rows, minted, issued, access, role, settled, at, faults>>

-----------------------------------------------------------------------------
(* Time and failures. *)

\* A whole access TTL passes, longer than a handler takes: every access token
\* of before has expired.
AccessTtl ==
  /\ \A h \in Handlers : At(h, "idle")
  /\ access' = {}
  /\ settled' = TRUE
  /\ UNCHANGED <<allow, rows, minted, issued, role, orgOpen, at, faults>>

\* One refresh TTL after a sign-in its token expires, and so does the row:
\* touch_session leaves expires_at alone.
SignInTtl ==
  /\ \A h \in Handlers : At(h, "idle")
  /\ \E s \in Sids :
       /\ rows[s].state # "none" /\ ~rows[s].expired
       /\ rows' = [rows EXCEPT ![s].expired = TRUE]
       /\ allow' = allow \ {<<s, 0>>}
  /\ UNCHANGED <<minted, auth, at, faults>>

\* A rotated token was minted later, so it expires after the row.
RotatedTtl ==
  /\ \E j \in allow : j[2] > 0 /\ rows[j[1]].expired /\ allow' = allow \ {j}
  /\ UNCHANGED <<rows, minted, auth, at, faults>>

\* `?` on a call, applied or not, or a killed handler: no answer, no tokens.
CallFails(h) ==
  /\ ~At(h, "idle") /\ Fault
  /\ \/ UNCHANGED <<allow, rows>>
     \/ at[h].pc \in {"allow-new", "allow"} /\ allow' = allow \cup {at[h].jti} /\ UNCHANGED rows
     \/ At(h, "insert") /\ InsertRow(h) /\ UNCHANGED allow
     \/ /\ At(h, "touch") /\ Live(at[h].jti[1])
        /\ rows' = [rows EXCEPT ![at[h].jti[1]].jti = at[h].jti] /\ UNCHANGED allow
     \/ At(h, "revoke-all") /\ rows' = Revoke(Sids) /\ UNCHANGED allow
  /\ Finish(h)
  /\ UNCHANGED <<minted, auth>>

\* The GETDEL is applied and its reply lost.
ConsumeLost(h) ==
  /\ At(h, "idle") /\ Fault
  /\ \E t \in issued : t[1] \in allow /\ allow' = allow \ {t[1]}
  /\ UNCHANGED <<rows, minted, auth, at>>

HandlerStep(h) ==
  \/ CheckTenant(h) \/ AllowNew(h) \/ InsertSession(h)
  \/ Touch(h) \/ AllowRotated(h) \/ SignOutRow(h) \/ RevokeAll(h) \/ Drop(h)

Request(h) ==
  \/ VerifyCredentials(h) \/ Consume(h) \/ SignOut(h) \/ RevokeOne(h)
  \/ RevokeOthers(h) \/ SuspendUser(h) \/ ResetPassword(h) \/ SetRole(h) \/ SuspendOrg(h)

Next ==
  \/ \E h \in Handlers : HandlerStep(h) \/ Request(h)
                         \/ CallFails(h) \/ DropFails(h) \/ ConsumeLost(h)
  \/ AccessTtl
  \/ SignInTtl
  \/ RotatedTtl

Spec == Init /\ [][Next]_vars

-----------------------------------------------------------------------------
(* Properties *)

\* list_sessions: revoked_at IS NULL AND expires_at > now()
Listed(s) == Live(s) /\ ~rows[s].expired

Family(s) == {j \in Jtis : j[1] = s}

\* A session has at most one token that can be redeemed or is being rotated:
\* two refreshes with one token, or an old token sent again, cannot both win
\* (auth.rs consume_refresh: "exactly one concurrent refresh").
OneLiveToken ==
  \A s \in Sids :
    Cardinality(Family(s) \cap allow)
      + Cardinality({h \in Handlers : at[h].pc \in {"touch", "allow"} /\ at[h].jti[1] = s}) <= 1

\* The row of a session names the token that Redis would accept, so that a
\* revocation, which knows only current_jti, can find it (RETURNING current_jti).
RowNamesToken ==
  \A s \in Sids : rows[s].state # "none" => Family(s) \cap allow \subseteq {rows[s].jti}

\* A refresh that took its token after the session was revoked never gets as
\* far as allowlisting a new one, even with a jti that a lost DEL, or a race
\* with touch_session, left in Redis ("a revoked session fails closed").
NoRenewalAfterRevocation ==
  \A h \in Handlers : At(h, "allow") => ~at[h].late

\* While nothing has failed, a session on the device list (list_sessions) can
\* be renewed: its current token is allowlisted, or a handler is at it.
ListedIsRenewable ==
  faults = 0 => \A s \in Sids : Listed(s) =>
     \/ rows[s].jti \in allow
     \/ \E h \in Handlers : at[h].pc \in {"touch", "allow", "sign-out"} /\ at[h].jti[1] = s

\* The device list is "the caller's live sessions" (routes/auth.rs:372): a
\* token that Redis would accept for an unrevoked session is on it.
RenewableIsListed ==
  \A j \in allow : Live(j[1]) => Listed(j[1])

\* "a demotion takes effect within the access TTL" (auth.rs:223-224): when the
\* role has not changed for one TTL, no access token grants what it does not.
DemotionTakesEffect ==
  settled /\ ~RequireAdmin(role) => \A r \in access : ~RequireAdmin(r)
=============================================================================
