------------------------------ MODULE Membership ------------------------------
(***************************************************************************)
(* Who belongs to which tenant: sign-up, invitations, roles, seats and     *)
(* plans (insight-core tenancy.rs, billing.rs; insight-api routes/auth.rs, *)
(* routes/users.rs, routes/billing.rs, routes/admin_orgs.rs).              *)
(*                                                                         *)
(* Orgs are tenants that invite; the personal tenant of a sign-up without  *)
(* invitation is named Personal.  users.email is unique over all tenants,  *)
(* so a user is named by the email.  Invitations are numbered in the order *)
(* of created_at.  A step is one transaction, but the lookup of            *)
(* sign_up_with_invite, which others can overtake under READ COMMITTED.    *)
(***************************************************************************)
EXTENDS Naturals, FiniteSets

CONSTANTS
  Orgs, Emails,
  Personal,        \* the tenant founded by a sign-up
  NoUser,          \* no users row
  MaxInvitations,  \* bound on the rows of invitations
  FreeSeats,       \* plans.seats of free; pro is unlimited
  Clients          \* requests in flight

\* admin and editor are handed out like viewer.
MemberRoles == {"viewer", "owner"}
InvitableRoles == MemberRoles \ {"owner"}
Invitations == 1 .. MaxInvitations
Tenants == Orgs \cup {Personal}
UserRows == [org : Tenants, role : MemberRoles, active : BOOLEAN]
InvitationRows == [org : Orgs, email : Emails, role : InvitableRoles,
                   status : {"pending", "accepted", "canceled"}, accepted_at : 0 .. 2,
                   lapsed : BOOLEAN]

\* accepted_at as far as it is compared: NULL, or a time; now() differs from the
\* time an earlier transaction wrote.
NotAccepted == 0
Now(t) == IF t = 1 THEN 2 ELSE 1

ASSUME MembershipAssumption ==
  /\ Personal \notin Orgs
  /\ NoUser \notin Emails \cup UserRows
  /\ MaxInvitations \in Nat

VARIABLES
  users,        \* tenant, role and status by email
  invitations,  \* the rows, in order of creation
  pro,          \* the tenants with plan = pro
  client        \* the requests

mvars == <<users, invitations, pro, client>>

NoInvitation == 0
IdleClient == [pc |-> "idle", org |-> Personal, email |-> NoUser,
               role |-> "viewer", id |-> NoInvitation]

MembershipTypeOK ==
  /\ users \in [Emails -> {NoUser} \cup UserRows]
  /\ \E n \in 0 .. MaxInvitations : invitations \in [1 .. n -> InvitationRows]
  /\ pro \subseteq Orgs
  /\ client \in [Clients -> [pc : {"idle", "invite", "join", "found"}, org : Tenants,
                             email : Emails \cup {NoUser}, role : MemberRoles,
                             id : {NoInvitation} \cup Invitations]]

MInit ==
  /\ users = [e \in Emails |-> NoUser]
  /\ invitations = [i \in {} |-> NoUser]
  /\ pro = {}
  /\ client = [c \in Clients |-> IdleClient]

Ids == DOMAIN invitations
IdleAt(c) == client[c].pc = "idle"
Continue(c, r) == client' = [client EXCEPT ![c] = r]
Leave(c) == Continue(c, IdleClient)

-----------------------------------------------------------------------------
(* Invitations *)

\* member_count
Members(o) == {e \in Emails : users[e] # NoUser /\ users[e].org = o /\ users[e].active}

\* check_seat; pending invitations are not counted.
SeatFree(o) == o \in pro \/ Cardinality(Members(o)) < FreeSeats

\* users_action Invite: the seats in one transaction, the row in another.
CheckSeat(c) ==
  /\ IdleAt(c)
  /\ \E o \in Orgs, e \in Emails, r \in MemberRoles :
       /\ SeatFree(o)
       /\ Continue(c, [pc |-> "invite", org |-> o, email |-> e, role |-> r, id |-> NoInvitation])
  /\ UNCHANGED <<users, invitations, pro>>

\* normalize_role, and INVITABLE_ROLES or viewer.
InvitedRole(r) == IF r \in InvitableRoles THEN r ELSE "viewer"

Pending(o, e) == {i \in Ids : invitations[i].org = o /\ invitations[i].email = e
                              /\ invitations[i].status = "pending"}

\* create_invitation: ON CONFLICT of the pending one DO UPDATE.
CreateInvitation(c) ==
  /\ client[c].pc = "invite"
  /\ LET o == client[c].org  e == client[c].email  n == Cardinality(Ids) + 1
         row == [org |-> o, email |-> e, role |-> InvitedRole(client[c].role),
                 status |-> "pending", accepted_at |-> NotAccepted, lapsed |-> FALSE]
     IN \/ \E i \in Pending(o, e) : invitations' = [invitations EXCEPT ![i] = row]
        \/ /\ Pending(o, e) = {} /\ n <= MaxInvitations
           /\ invitations' = [i \in 1 .. n |-> IF i \in Ids THEN invitations[i] ELSE row]
  /\ Leave(c)
  /\ UNCHANGED <<users, pro>>

CancelInvitation ==
  /\ \E i \in Ids : /\ invitations[i].status = "pending"
                    /\ invitations' = [invitations EXCEPT ![i].status = "canceled"]
  /\ UNCHANGED <<users, pro, client>>

\* expires_at passes
Lapse ==
  /\ \E i \in Ids : invitations' = [invitations EXCEPT ![i].lapsed = TRUE]
  /\ UNCHANGED <<users, pro, client>>

-----------------------------------------------------------------------------
(* Sign-up *)

Open(e) == {i \in Ids : /\ invitations[i].email = e /\ invitations[i].status = "pending"
                        /\ ~invitations[i].lapsed}

\* sign_up_with_invite: the newest open invitation of the email, if any.
LookupInvitation(c) ==
  /\ IdleAt(c)
  /\ \E e \in Emails :
       \/ /\ Open(e) = {}
          /\ Continue(c, [pc |-> "found", org |-> Personal, email |-> e,
                            role |-> "viewer", id |-> NoInvitation])
       \/ \E i \in Open(e) :
            /\ \A j \in Open(e) : j <= i
            /\ Continue(c, [pc |-> "join", org |-> invitations[i].org, email |-> e,
                            role |-> invitations[i].role, id |-> i])
  /\ UNCHANGED <<users, invitations, pro>>

\* UPDATE ... SET status = 'accepted', accepted_at = now(), whatever the row holds.
Accepted(row) == [row EXCEPT !.status = "accepted", !.accepted_at = Now(@)]

\* Mutant of Join: INSERT ... ON CONFLICT (email) DO UPDATE.
JoinUpserts(c) ==
  /\ client[c].pc = "join"
  /\ users' = [users EXCEPT ![client[c].email] =
                [org |-> client[c].org, role |-> client[c].role, active |-> TRUE]]
  /\ invitations' = [invitations EXCEPT ![client[c].id] = Accepted(@)]
  /\ Leave(c)
  /\ UNCHANGED pro

\* INSERT of the user and UPDATE of the invitation, whatever became of it; a
\* taken email (or a failure) rolls both back.
Join(c) ==
  /\ client[c].pc = "join"
  /\ \/ /\ users[client[c].email] = NoUser
        /\ users' = [users EXCEPT ![client[c].email] =
                      [org |-> client[c].org, role |-> client[c].role, active |-> TRUE]]
        /\ invitations' = [invitations EXCEPT ![client[c].id] = Accepted(@)]
     \/ UNCHANGED <<users, invitations>>
  /\ Leave(c)
  /\ UNCHANGED pro

\* sign_up: tenant and owner in one transaction of its own.
Found(c) ==
  /\ client[c].pc = "found"
  /\ \/ /\ users[client[c].email] = NoUser
        /\ users' = [users EXCEPT ![client[c].email] =
                      [org |-> Personal, role |-> "owner", active |-> TRUE]]
     \/ UNCHANGED users
  /\ Leave(c)
  /\ UNCHANGED <<invitations, pro>>

-----------------------------------------------------------------------------
(* Roles and plans *)

\* update_user: any role, "owner" included.
UpdateUser ==
  /\ \E e \in Emails, r \in MemberRoles, a \in BOOLEAN :
       /\ users[e] # NoUser
       /\ users' = [users EXCEPT ![e] = [org |-> @.org, role |-> r, active |-> a]]
  /\ UNCHANGED <<invitations, pro, client>>

\* The subscription webhook, in whatever order events arrive, or update_org.
SetPlan ==
  /\ \E o \in Orgs : pro' \in {pro \cup {o}, pro \ {o}}
  /\ UNCHANGED <<users, invitations, client>>

MNext ==
  \/ \E c \in Clients : CheckSeat(c) \/ CreateInvitation(c) \/ LookupInvitation(c)
                        \/ Join(c) \/ Found(c)
  \/ CancelInvitation \/ Lapse \/ UpdateUser \/ SetPlan

MSpec == MInit /\ [][MNext]_mvars

-----------------------------------------------------------------------------
(* Properties *)

\* An accepted invitation has made its email a member of the inviting tenant,
\* and nobody is in another tenant than the own one without such an
\* invitation, even when several tenants invite one email and its sign-ups
\* overlap (tenancy.rs sign_up_with_invite).
InvitationsHonoured ==
  /\ \A i \in Ids : invitations[i].status = "accepted" =>
       LET u == users[invitations[i].email] IN u # NoUser /\ u.org = invitations[i].org
  /\ \A e \in Emails : users[e] # NoUser /\ users[e].org # Personal =>
       \E i \in Ids : /\ invitations[i].email = e /\ invitations[i].org = users[e].org
                      /\ invitations[i].status = "accepted"

KeepsAccepted ==
  \A i \in Ids : invitations[i].status = "accepted" =>
     [invitations[i] EXCEPT !.lapsed = TRUE] = [invitations'[i] EXCEPT !.lapsed = TRUE]

\* An accepted invitation is never accepted again (accepted_at stays the time
\* of the one acceptance), cancelled, or taken up by a later invitation of the
\* same email.  The UPDATE that accepts has no condition on the status: of two
\* sign-ups that found the row open, only the unique email stops the second.
AcceptedStays == [][KeepsAccepted]_mvars
=============================================================================
