--------------------------- MODULE MembershipProofs ---------------------------
(***************************************************************************)
(* Proofs about Membership, for any tenants, emails, requests and bound on *)
(* the invitations.                                                        *)
(***************************************************************************)
EXTENDS Membership, FiniteSetTheorems, TLAPS

(* What a request carries from its lookup to its insert.  A row keeps its   *)
(* tenant and its email, so the invitation that was found is still about    *)
(* them; its status may be anything by then.                                *)
RequestsCarry ==
  \A c \in Clients :
    /\ client[c].pc = "invite" => client[c].org \in Orgs
    /\ client[c].pc # "idle" => client[c].email \in Emails
    /\ client[c].pc = "join" => /\ client[c].id \in Ids
                                /\ invitations[client[c].id].org = client[c].org
                                /\ invitations[client[c].id].email = client[c].email

MInv == MembershipTypeOK /\ RequestsCarry /\ InvitationsHonoured

-----------------------------------------------------------------------------
(* The rows of invitations. *)

LEMMA InvitationShape ==
  ASSUME MembershipTypeOK
  PROVE  /\ Cardinality(Ids) \in 0 .. MaxInvitations
         /\ Ids = 1 .. Cardinality(Ids)
         /\ invitations \in [Ids -> InvitationRows]
         /\ Ids \subseteq Invitations
<1>1. PICK n \in 0 .. MaxInvitations : invitations \in [1 .. n -> InvitationRows]
  BY DEF MembershipTypeOK
<1>2. Ids = 1 .. n
  BY <1>1 DEF Ids
<1>3. n \in Nat /\ MaxInvitations \in Nat
  BY MembershipAssumption
<1>4. Cardinality(1 .. n) = n
  <2>1. Cardinality(1 .. n) = IF 1 > n THEN 0 ELSE n - 1 + 1
    BY <1>3, FS_Interval
  <2>. QED
    BY <1>3, <2>1
<1>. QED
  BY <1>1, <1>2, <1>3, <1>4 DEF Invitations

(* A step changes invitations in one of two ways: a row of the same tenant  *)
(* and email is rewritten, or a row is added at the end.                    *)
RowRewritten(i, row) ==
  /\ i \in Ids /\ row \in InvitationRows
  /\ row.org = invitations[i].org /\ row.email = invitations[i].email
  /\ invitations' = [invitations EXCEPT ![i] = row]

LEMMA RewrittenShape ==
  ASSUME MembershipTypeOK, NEW i, NEW row, RowRewritten(i, row)
  PROVE  /\ \E n \in 0 .. MaxInvitations : invitations' \in [1 .. n -> InvitationRows]
         /\ Ids' = Ids
         /\ \A j \in Ids : /\ invitations'[j] = IF j = i THEN row ELSE invitations[j]
                           /\ invitations'[j].org = invitations[j].org
                           /\ invitations'[j].email = invitations[j].email
BY InvitationShape DEF RowRewritten, Ids

-----------------------------------------------------------------------------
LEMMA MembershipInit == MInit => MInv
<1>. SUFFICES ASSUME MInit PROVE MInv
  OBVIOUS
<1>1. Ids = {}
  BY DEF MInit, Ids
<1>2. 0 \in 0 .. MaxInvitations /\ invitations \in [1 .. 0 -> InvitationRows]
  BY MembershipAssumption DEF MInit
<1>3. MembershipTypeOK
  BY <1>2 DEF MInit, MembershipTypeOK, IdleClient, Tenants, MemberRoles
<1>4. RequestsCarry
  BY DEF MInit, RequestsCarry, IdleClient
<1>5. InvitationsHonoured
  BY <1>1 DEF MInit, InvitationsHonoured
<1>. QED
  BY <1>3, <1>4, <1>5 DEF MInv

-----------------------------------------------------------------------------
(* Steps that leave the rows of invitations and users alone. *)

LEMMA RequestStep ==
  ASSUME MInv, NEW c \in Clients, CheckSeat(c) \/ LookupInvitation(c)
  PROVE  MInv'
<1>1. UNCHANGED <<users, invitations, pro, Ids>>
  BY DEF CheckSeat, LookupInvitation, Ids
<1> DEFINE Carries(r) ==
      /\ r \in [pc : {"idle", "invite", "join", "found"}, org : Tenants,
                email : Emails \cup {NoUser}, role : MemberRoles,
                id : {NoInvitation} \cup Invitations]
      /\ r.pc = "invite" => r.org \in Orgs
      /\ r.email \in Emails
      /\ r.pc = "join" => /\ r.id \in Ids
                          /\ invitations[r.id].org = r.org
                          /\ invitations[r.id].email = r.email
<1>2. \E r : client' = [client EXCEPT ![c] = r] /\ Carries(r)
  <2>1. CASE CheckSeat(c)
    <3>1. PICK o \in Orgs, e \in Emails, role \in MemberRoles :
            client' = [client EXCEPT ![c] = [pc |-> "invite", org |-> o, email |-> e,
                                             role |-> role, id |-> NoInvitation]]
      BY <2>1 DEF CheckSeat, Continue
    <3>2. Carries([pc |-> "invite", org |-> o, email |-> e, role |-> role,
                   id |-> NoInvitation])
      BY DEF Tenants
    <3> HIDE DEF Carries
    <3>. QED
      BY <3>1, <3>2
  <2>2. CASE LookupInvitation(c)
    <3>1. PICK e \in Emails :
            \/ client' = [client EXCEPT ![c] = [pc |-> "found", org |-> Personal, email |-> e,
                                                role |-> "viewer", id |-> NoInvitation]]
            \/ \E i \in Open(e) :
                 client' = [client EXCEPT ![c] =
                   [pc |-> "join", org |-> invitations[i].org, email |-> e,
                    role |-> invitations[i].role, id |-> i]]
      BY <2>2 DEF LookupInvitation, Continue
    <3>2. Carries([pc |-> "found", org |-> Personal, email |-> e, role |-> "viewer",
                   id |-> NoInvitation])
      BY DEF Tenants, MemberRoles
    <3>3. ASSUME NEW i \in Open(e)
          PROVE  Carries([pc |-> "join", org |-> invitations[i].org, email |-> e,
                          role |-> invitations[i].role, id |-> i])
      <4>1. /\ i \in Ids /\ i \in Invitations /\ invitations[i].email = e
            /\ invitations[i].org \in Orgs /\ invitations[i].role \in MemberRoles
        <5>1. i \in Ids /\ invitations[i].email = e
          BY DEF Open
        <5>2. i \in Invitations /\ invitations[i] \in InvitationRows
          BY <5>1, InvitationShape DEF MInv
        <5>. QED
          BY <5>1, <5>2 DEF InvitationRows, InvitableRoles
      <4>. QED
        BY <4>1 DEF Tenants
    <3> HIDE DEF Carries
    <3>. QED
      BY <3>1, <3>2, <3>3
  <2>. QED
    BY <2>1, <2>2
<1>3. MembershipTypeOK'
  BY <1>1, <1>2 DEF MInv, MembershipTypeOK
<1>4. RequestsCarry'
  BY <1>1, <1>2 DEF MInv, MembershipTypeOK, RequestsCarry
<1>5. InvitationsHonoured'
  BY <1>1 DEF MInv, InvitationsHonoured
<1>. QED
  BY <1>3, <1>4, <1>5 DEF MInv

LEMMA PlanStep ==
  ASSUME MInv, SetPlan
  PROVE  MInv'
<1>1. UNCHANGED <<users, invitations, client, Ids>> /\ pro' \subseteq Orgs
  BY DEF SetPlan, MInv, MembershipTypeOK, Ids
<1>. QED
  BY <1>1 DEF MInv, MembershipTypeOK, RequestsCarry, InvitationsHonoured

-----------------------------------------------------------------------------
(* Steps that write invitations. *)

(* A row that is rewritten without being accepted, and not out of being     *)
(* accepted, concerns no member; the request that wrote it may have left.   *)
LEMMA RewriteKeeps ==
  ASSUME MInv, NEW i, NEW row, RowRewritten(i, row),
         (row.status = "accepted") <=> (invitations[i].status = "accepted"),
         UNCHANGED <<users, pro>>,
         client' = client \/ \E c \in Clients : Leave(c)
  PROVE  MInv'
<1>1. /\ Ids' = Ids
      /\ \E n \in 0 .. MaxInvitations : invitations' \in [1 .. n -> InvitationRows]
      /\ \A j \in Ids :
           /\ (invitations'[j].status = "accepted") <=> (invitations[j].status = "accepted")
           /\ invitations'[j].org = invitations[j].org
           /\ invitations'[j].email = invitations[j].email
  BY RewrittenShape DEF MInv
<1>2. \A c \in Clients : client'[c] = client[c] \/ client'[c] = IdleClient
  BY DEF Leave, Continue, MInv, MembershipTypeOK
<1>3. client' \in [Clients -> [pc : {"idle", "invite", "join", "found"}, org : Tenants,
                               email : Emails \cup {NoUser}, role : MemberRoles,
                               id : {NoInvitation} \cup Invitations]]
  BY DEF Leave, Continue, MInv, MembershipTypeOK, IdleClient, Tenants, MemberRoles
<1>4. MembershipTypeOK'
  BY <1>1, <1>3 DEF MInv, MembershipTypeOK
<1>5. RequestsCarry'
  BY <1>1, <1>2 DEF MInv, RequestsCarry, IdleClient
<1>6. InvitationsHonoured'
  BY <1>1 DEF MInv, InvitationsHonoured
<1>. QED
  BY <1>4, <1>5, <1>6 DEF MInv

LEMMA CancelStep ==
  ASSUME MInv, CancelInvitation
  PROVE  MInv'
<1>1. PICK i \in Ids : /\ invitations[i].status = "pending"
                       /\ invitations' = [invitations EXCEPT ![i].status = "canceled"]
  BY DEF CancelInvitation
<1>2. RowRewritten(i, [invitations[i] EXCEPT !.status = "canceled"])
  BY <1>1, InvitationShape DEF MInv, RowRewritten, InvitationRows
<1>3. [invitations[i] EXCEPT !.status = "canceled"].status = "canceled"
  BY <1>1, InvitationShape DEF MInv, InvitationRows
<1>. QED
  BY <1>1, <1>2, <1>3, RewriteKeeps DEF CancelInvitation

LEMMA LapseStep ==
  ASSUME MInv, Lapse
  PROVE  MInv'
<1>1. PICK i \in Ids : invitations' = [invitations EXCEPT ![i].lapsed = TRUE]
  BY DEF Lapse
<1>2. RowRewritten(i, [invitations[i] EXCEPT !.lapsed = TRUE])
  BY <1>1, InvitationShape DEF MInv, RowRewritten, InvitationRows
<1>3. [invitations[i] EXCEPT !.lapsed = TRUE].status = invitations[i].status
  BY <1>1, InvitationShape DEF MInv, InvitationRows
<1>. QED
  BY <1>1, <1>2, <1>3, RewriteKeeps DEF Lapse

LEMMA CreateStep ==
  ASSUME MInv, NEW c \in Clients, CreateInvitation(c)
  PROVE  MInv'
<1> DEFINE o == client[c].org
           e == client[c].email
           n == Cardinality(Ids) + 1
           row == [org |-> o, email |-> e, role |-> InvitedRole(client[c].role),
                   status |-> "pending", accepted_at |-> NotAccepted, lapsed |-> FALSE]
<1>1. row \in InvitationRows /\ row.org = o /\ row.email = e /\ row.status = "pending"
  BY DEF CreateInvitation, MInv, RequestsCarry, InvitationRows, InvitedRole, InvitableRoles,
         MemberRoles, NotAccepted
<1>2. UNCHANGED <<users, pro>> /\ Leave(c)
  BY DEF CreateInvitation
<1>3. CASE \E i \in Pending(o, e) : invitations' = [invitations EXCEPT ![i] = row]
  <2>1. PICK i \in Pending(o, e) : invitations' = [invitations EXCEPT ![i] = row]
    BY <1>3
  <2>2. RowRewritten(i, row) /\ invitations[i].status = "pending"
    BY <1>1, <2>1 DEF RowRewritten, Pending
  <2>. QED
    BY <1>1, <1>2, <2>2, RewriteKeeps
<1>4. CASE /\ n <= MaxInvitations
           /\ invitations' = [i \in 1 .. n |-> IF i \in Ids THEN invitations[i] ELSE row]
  <2>1. n \in 1 .. MaxInvitations /\ Ids = 1 .. n - 1 /\ invitations \in [Ids -> InvitationRows]
    BY <1>4, InvitationShape, MembershipAssumption DEF MInv
  <2>2. /\ Ids' = Ids \cup {n}
        /\ \A i \in Ids : invitations'[i] = invitations[i]
        /\ invitations'[n] = row
    <3> HIDE DEF row, n
    <3>1. Ids' = 1 .. n
      BY <1>4 DEF Ids
    <3>2. Ids \subseteq 1 .. n /\ n \in 1 .. n /\ n \notin Ids /\ 1 .. n = Ids \cup {n}
      BY <2>1
    <3>3. \A i \in 1 .. n : invitations'[i] = IF i \in Ids THEN invitations[i] ELSE row
      BY <1>4
    <3>. QED
      BY <3>1, <3>2, <3>3
  <2>3. invitations' \in [1 .. n -> InvitationRows]
    BY <1>1, <1>4, <2>1
  <2>4. \A d \in Clients : client'[d] = client[d] \/ client'[d] = IdleClient
    BY <1>2 DEF Leave, Continue, MInv, MembershipTypeOK
  <2>5. client' \in [Clients -> [pc : {"idle", "invite", "join", "found"}, org : Tenants,
                                 email : Emails \cup {NoUser}, role : MemberRoles,
                                 id : {NoInvitation} \cup Invitations]]
    BY <1>2 DEF Leave, Continue, MInv, MembershipTypeOK, IdleClient, Tenants, MemberRoles
  <2>6. MembershipTypeOK'
    BY <1>2, <2>1, <2>3, <2>5 DEF MInv, MembershipTypeOK
  <2>7. RequestsCarry'
    BY <2>2, <2>4 DEF MInv, RequestsCarry, IdleClient
  <2>8. InvitationsHonoured'
    <3>1. invitations'[n].status # "accepted"
      BY <1>1, <2>2
    <3>. QED
      BY <1>2, <2>2, <3>1 DEF MInv, InvitationsHonoured
  <2>. QED
    BY <2>6, <2>7, <2>8 DEF MInv
<1>. QED
  BY <1>3, <1>4 DEF CreateInvitation

-----------------------------------------------------------------------------
(* Steps that write users. *)

(* A request that has left, whatever it carried. *)
LEMMA LeaveShape ==
  ASSUME MembershipTypeOK, NEW c \in Clients, Leave(c)
  PROVE  /\ \A d \in Clients : client'[d] = client[d] \/ client'[d] = IdleClient
         /\ client' \in [Clients -> [pc : {"idle", "invite", "join", "found"}, org : Tenants,
                                     email : Emails \cup {NoUser}, role : MemberRoles,
                                     id : {NoInvitation} \cup Invitations]]
BY DEF Leave, Continue, MembershipTypeOK, IdleClient, Tenants, MemberRoles

LEMMA AcceptedRow ==
  ASSUME NEW r \in InvitationRows
  PROVE  /\ Accepted(r) \in InvitationRows /\ Accepted(r).status = "accepted"
         /\ Accepted(r).org = r.org /\ Accepted(r).email = r.email
<1>1. Now(r.accepted_at) \in 0 .. 2
  BY DEF Now
<1>. QED
  BY <1>1 DEF Accepted, InvitationRows

LEMMA JoinStep ==
  ASSUME MInv, NEW c \in Clients, Join(c)
  PROVE  MInv'
<1> DEFINE e == client[c].email
           i == client[c].id
           user == [org |-> client[c].org, role |-> client[c].role, active |-> TRUE]
           row == Accepted(invitations[i])
<1>1. client[c].pc = "join" /\ Leave(c) /\ UNCHANGED pro
  BY DEF Join
<1>2. /\ e \in Emails /\ i \in Ids
      /\ invitations[i].org = client[c].org /\ invitations[i].email = e
  BY <1>1 DEF MInv, RequestsCarry
<1>3. user \in UserRows /\ user # NoUser
  <2>1. client[c].org \in Tenants /\ client[c].role \in MemberRoles
    BY DEF MInv, MembershipTypeOK
  <2>2. user \in UserRows
    BY <2>1 DEF UserRows
  <2>. QED
    BY <2>2, MembershipAssumption
<1>4. /\ row \in InvitationRows /\ row.status = "accepted"
      /\ row.org = invitations[i].org /\ row.email = invitations[i].email
  <2>1. invitations[i] \in InvitationRows
    BY <1>2, InvitationShape DEF MInv
  <2>. QED
    BY <2>1, AcceptedRow
<1> HIDE DEF row
<1>5. CASE users[e] = NoUser /\ users' = [users EXCEPT ![e] = user]
           /\ invitations' = [invitations EXCEPT ![i] = row]
  <2>1. /\ Ids' = Ids
        /\ \E n \in 0 .. MaxInvitations : invitations' \in [1 .. n -> InvitationRows]
        /\ \A j \in Ids : /\ j # i => invitations'[j] = invitations[j]
                          /\ invitations'[j].org = invitations[j].org
                          /\ invitations'[j].email = invitations[j].email
        /\ invitations'[i].status = "accepted"
    <3>1. RowRewritten(i, row)
      BY <1>2, <1>4, <1>5 DEF RowRewritten
    <3>. QED
      BY <1>2, <1>4, <3>1, RewrittenShape DEF MInv
  <2>2. /\ users' \in [Emails -> {NoUser} \cup UserRows]
        /\ users'[e] = user
        /\ \A d \in Emails : d # e => users'[d] = users[d]
    BY <1>2, <1>3, <1>5 DEF MInv, MembershipTypeOK
  <2>3. MembershipTypeOK'
    BY <1>1, <2>1, <2>2, LeaveShape DEF MInv, MembershipTypeOK
  <2>4. RequestsCarry'
    BY <1>1, <2>1, LeaveShape DEF MInv, RequestsCarry, IdleClient
  <2>5. InvitationsHonoured'
    <3>1. ASSUME NEW j \in Ids, invitations'[j].status = "accepted"
          PROVE  LET u == users'[invitations'[j].email]
                 IN  u # NoUser /\ u.org = invitations'[j].org
      <4>1. CASE invitations[j].email = e
        (* No earlier invitation of e was accepted: e had no user. *)
        BY <1>2, <1>3, <1>5, <2>1, <2>2, <3>1, <4>1 DEF MInv, InvitationsHonoured
      <4>2. CASE invitations[j].email # e
        BY <1>2, <2>1, <2>2, <3>1, <4>2, InvitationShape
        DEF MInv, InvitationsHonoured, InvitationRows
      <4>. QED
        BY <4>1, <4>2
    <3>2. ASSUME NEW d \in Emails, users'[d] # NoUser, users'[d].org # Personal
          PROVE  \E j \in Ids : /\ invitations'[j].email = d
                                /\ invitations'[j].org = users'[d].org
                                /\ invitations'[j].status = "accepted"
      <4>1. CASE d = e
        BY <1>2, <2>1, <2>2, <4>1
      <4>2. CASE d # e
        <5>1. PICK j \in Ids : /\ invitations[j].email = d
                               /\ invitations[j].org = users[d].org
                               /\ invitations[j].status = "accepted"
          BY <2>2, <3>2, <4>2 DEF MInv, InvitationsHonoured
        <5>. QED
          BY <1>2, <2>1, <2>2, <4>2, <5>1
      <4>. QED
        BY <4>1, <4>2
    <3>. QED
      BY <2>1, <3>1, <3>2 DEF InvitationsHonoured
  <2>. QED
    BY <2>3, <2>4, <2>5 DEF MInv
<1>6. CASE UNCHANGED <<users, invitations>>
  <2>1. UNCHANGED Ids
    BY <1>6 DEF Ids
  <2>2. MembershipTypeOK' /\ RequestsCarry' /\ InvitationsHonoured'
    BY <1>1, <1>6, <2>1, LeaveShape
    DEF MInv, MembershipTypeOK, RequestsCarry, InvitationsHonoured, IdleClient
  <2>. QED
    BY <2>2 DEF MInv
<1>. QED
  BY <1>5, <1>6 DEF Join, row

LEMMA FoundStep ==
  ASSUME MInv, NEW c \in Clients, Found(c)
  PROVE  MInv'
<1> DEFINE e == client[c].email
           user == [org |-> Personal, role |-> "owner", active |-> TRUE]
<1>1. e \in Emails /\ Leave(c) /\ UNCHANGED <<invitations, pro, Ids>>
  BY DEF Found, MInv, RequestsCarry, Ids
<1>2. user \in UserRows /\ user.org = Personal
  BY DEF UserRows, Tenants, MemberRoles
<1>3. \/ users[e] = NoUser /\ users' = [users EXCEPT ![e] = user]
      \/ UNCHANGED users
  BY DEF Found
<1>4. MembershipTypeOK'
  BY <1>1, <1>2, <1>3, LeaveShape DEF MInv, MembershipTypeOK
<1>5. RequestsCarry'
  BY <1>1, LeaveShape DEF MInv, RequestsCarry, IdleClient
<1>6. InvitationsHonoured'
  <2>1. \A d \in Emails : \/ users'[d] = users[d]
                          \/ users[d] = NoUser /\ users'[d].org = Personal
    <3> HIDE DEF user
    <3>1. users \in [Emails -> {NoUser} \cup UserRows]
      BY DEF MInv, MembershipTypeOK
    <3>2. CASE users[e] = NoUser /\ users' = [users EXCEPT ![e] = user]
      BY <1>1, <1>2, <3>1, <3>2
    <3>. QED
      BY <1>3, <3>2
  <2>2. ASSUME NEW i \in Ids, invitations[i].status = "accepted"
        PROVE  /\ users'[invitations[i].email] # NoUser
               /\ users'[invitations[i].email].org = invitations[i].org
    <3>1. invitations[i].email \in Emails
      BY InvitationShape DEF MInv, InvitationRows
    <3>. QED
      BY <1>1, <1>3, <2>2, <3>1 DEF MInv, MembershipTypeOK, InvitationsHonoured
  <2>. QED
    BY <1>1, <2>1, <2>2 DEF MInv, InvitationsHonoured
<1>. QED
  BY <1>4, <1>5, <1>6 DEF MInv

LEMMA UpdateStep ==
  ASSUME MInv, UpdateUser
  PROVE  MInv'
<1>1. UNCHANGED <<invitations, pro, client, Ids>>
  BY DEF UpdateUser, Ids
<1>2. PICK e \in Emails, r \in MemberRoles, a \in BOOLEAN :
        /\ users[e] # NoUser
        /\ users' = [users EXCEPT ![e] = [org |-> users[e].org, role |-> r, active |-> a]]
  BY DEF UpdateUser
<1>3. /\ users' \in [Emails -> {NoUser} \cup UserRows]
      /\ \A d \in Emails : /\ (users'[d] = NoUser) <=> (users[d] = NoUser)
                           /\ users[d] # NoUser => users'[d].org = users[d].org
  <2> DEFINE user == [org |-> users[e].org, role |-> r, active |-> a]
  <2>1. users \in [Emails -> {NoUser} \cup UserRows]
    BY DEF MInv, MembershipTypeOK
  <2>2. user \in UserRows /\ user.org = users[e].org
    BY <1>2, <2>1 DEF UserRows
  <2>3. user # NoUser
    BY <2>2, MembershipAssumption
  <2> HIDE DEF user
  <2>4. users' = [users EXCEPT ![e] = user]
    BY <1>2 DEF user
  <2>. QED
    BY <1>2, <2>1, <2>2, <2>3, <2>4
<1>4. MembershipTypeOK'
  BY <1>1, <1>3 DEF MInv, MembershipTypeOK
<1>5. RequestsCarry'
  BY <1>1 DEF MInv, RequestsCarry
<1>6. InvitationsHonoured'
  <2>1. \A i \in Ids : invitations[i].email \in Emails
    BY InvitationShape DEF MInv, InvitationRows
  <2>. QED
    BY <1>1, <1>3, <2>1 DEF MInv, InvitationsHonoured
<1>. QED
  BY <1>4, <1>5, <1>6 DEF MInv

-----------------------------------------------------------------------------
(* Theorems *)

LEMMA MembershipStep == MInv /\ [MNext]_mvars => MInv'
<1>. SUFFICES ASSUME MInv, [MNext]_mvars PROVE MInv'
  OBVIOUS
<1>1. ASSUME NEW c \in Clients, CheckSeat(c) PROVE MInv'
  BY <1>1, RequestStep
<1>2. ASSUME NEW c \in Clients, CreateInvitation(c) PROVE MInv'
  BY <1>2, CreateStep
<1>3. ASSUME NEW c \in Clients, LookupInvitation(c) PROVE MInv'
  BY <1>3, RequestStep
<1>4. ASSUME NEW c \in Clients, Join(c) PROVE MInv'
  BY <1>4, JoinStep
<1>5. ASSUME NEW c \in Clients, Found(c) PROVE MInv'
  BY <1>5, FoundStep
<1>6. CASE UNCHANGED mvars
  BY <1>6 DEF mvars, MInv, MembershipTypeOK, RequestsCarry, InvitationsHonoured, Ids
<1>. QED
  BY <1>1, <1>2, <1>3, <1>4, <1>5, <1>6, CancelStep, LapseStep, UpdateStep, PlanStep DEF MNext

(* Rows, plans and requests have their types. *)
THEOREM MembershipTyped == MSpec => []MembershipTypeOK
<1>1. MInv => MembershipTypeOK
  BY DEF MInv
<1>. QED
  BY <1>1, MembershipInit, MembershipStep, PTL DEF MSpec

(* An accepted invitation has made its email a member of the inviting       *)
(* tenant, and nobody is in another tenant without one, however sign-ups,   *)
(* invitations and cancellations interleave (tenancy.rs                     *)
(* sign_up_with_invite).                                                    *)
THEOREM Honoured == MSpec => []InvitationsHonoured
<1>1. MInv => InvitationsHonoured
  BY DEF MInv
<1>. QED
  BY <1>1, MembershipInit, MembershipStep, PTL DEF MSpec

(* An accepted invitation is never accepted again (its accepted_at stays),  *)
(* cancelled or taken up by a later one: the UPDATE that accepts has no     *)
(* condition on the status (tenancy.rs sign_up_with_invite); that its email *)
(* has a user, which InvitationsHonoured says, rolls a second sign-up back. *)
THEOREM AcceptedKept == MSpec => AcceptedStays
<1>1. ASSUME MInv, [MNext]_mvars PROVE KeepsAccepted
  <2>1. SUFFICES ASSUME NEW i \in Ids, invitations[i].status = "accepted"
                 PROVE  \/ invitations'[i] = invitations[i]
                        \/ invitations'[i] = [invitations[i] EXCEPT !.lapsed = TRUE]
    BY <1>1, InvitationShape DEF MInv, KeepsAccepted, InvitationRows
  <2>2. i \in Ids /\ invitations \in [Ids -> InvitationRows]
    BY <1>1, <2>1, InvitationShape DEF MInv
  <2>3. ASSUME NEW c \in Clients, CheckSeat(c) \/ LookupInvitation(c) \/ Found(c)
        PROVE  invitations'[i] = invitations[i]
    BY <2>3 DEF CheckSeat, LookupInvitation, Found
  <2>4. ASSUME NEW c \in Clients, CreateInvitation(c)
        PROVE  invitations'[i] = invitations[i]
    <3>1. ASSUME NEW k \in Pending(client[c].org, client[c].email), NEW row,
                 invitations' = [invitations EXCEPT ![k] = row]
          PROVE  invitations'[i] = invitations[i]
      BY <2>1, <2>2, <3>1 DEF Pending
    <3>2. ASSUME NEW n \in Nat, n = Cardinality(Ids) + 1, NEW row,
                 invitations' = [k \in 1 .. n |-> IF k \in Ids THEN invitations[k] ELSE row]
          PROVE  invitations'[i] = invitations[i]
      <4>1. i \in 1 .. n
        BY <1>1, <2>2, <3>2, InvitationShape, MembershipAssumption DEF MInv
      <4>. QED
        BY <2>2, <3>2, <4>1
    <3>3. Cardinality(Ids) + 1 \in Nat
      BY <1>1, InvitationShape, MembershipAssumption DEF MInv
    <3>. QED
      BY <2>4, <3>1, <3>2, <3>3 DEF CreateInvitation
  <2>5. ASSUME NEW c \in Clients, Join(c)
        PROVE  invitations'[i] = invitations[i]
    <3>1. client[c].id = i => users[client[c].email] # NoUser
      BY <1>1, <2>1, <2>2, <2>5 DEF Join, MInv, RequestsCarry, InvitationsHonoured
    <3>. QED
      BY <2>2, <2>5, <3>1 DEF Join
  <2>6. CASE CancelInvitation
    BY <2>1, <2>2, <2>6 DEF CancelInvitation
  <2>7. CASE Lapse
    BY <2>2, <2>7 DEF Lapse
  <2>8. CASE UpdateUser \/ SetPlan \/ UNCHANGED mvars
    BY <2>8 DEF UpdateUser, SetPlan, mvars
  <2>. QED
    BY <1>1, <2>3, <2>4, <2>5, <2>6, <2>7, <2>8 DEF MNext
<1>. QED
  BY <1>1, MembershipInit, MembershipStep, PTL DEF MSpec, AcceptedStays
=============================================================================
