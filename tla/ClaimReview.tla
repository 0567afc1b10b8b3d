------------------------------ MODULE ClaimReview ------------------------------
(***************************************************************************)
(* Claims of one concept: extraction (insight-core claims.rs), correlation *)
(* (correlate.rs), and the review of contradictions (insight-api           *)
(* routes/review.rs, routes/topics.rs add_claim).                          *)
(*                                                                         *)
(* Claims are numbered as they are committed.  created_at is now(), the    *)
(* start of the transaction: the claims of one answer share it, and a      *)
(* transaction that started later may commit sooner.  A correlation pass   *)
(* reads in one transaction and writes in another; redelivered builds and  *)
(* the correlate job make passes overlap.  A meaning stands for the group  *)
(* key of concept and normalized_meaning.                                  *)
(***************************************************************************)
EXTENDS Naturals, FiniteSets

CONSTANTS
  Meanings,
  Negates,            \* pairs of meanings of opposite polarity
  Passes,             \* correlation passes that may overlap
  MaxClaims,          \* bound on the rows of claims
  MaxAnswer,          \* bound on the claims of one answer
  MaxTime,            \* bound on created_at
  MaxOpenReviews,     \* bound on the open reviews of one claim
  MaxCorrelateClaims  \* the org setting of that name

ASSUME ClaimReviewAssumption ==
  /\ MaxClaims \in Nat /\ MaxAnswer \in Nat /\ MaxTime \in Nat /\ MaxOpenReviews \in Nat
  /\ MaxCorrelateClaims \in Nat \ {0}
  /\ Negates \subseteq Meanings \X Meanings

VARIABLES
  claims,       \* meaning, created_at and status, by claim
  openReviews,  \* the number of open rows of review_queue, by claim
  pass,         \* what each pass has decided but not written
  overlapped    \* history: has a pass read between read and write of another?

cvars == <<claims, openReviews, pass, overlapped>>

Statuses == {"pending", "duplicate", "needs_review", "active", "retired"}
ClaimRows == [meaning : Meanings, created_at : 1 .. MaxTime, status : Statuses]
NoDecision == [busy |-> FALSE, duplicates |-> {}, conflicts |-> {}]

ClaimTypeOK ==
  /\ \E n \in 0 .. MaxClaims :
       /\ claims \in [1 .. n -> ClaimRows]
       /\ openReviews \in [1 .. n -> 0 .. MaxOpenReviews]
  /\ pass \in [Passes -> [busy : BOOLEAN, duplicates : SUBSET (1 .. MaxClaims),
                          conflicts : SUBSET ((1 .. MaxClaims) \X (1 .. MaxClaims))]]
  /\ overlapped \in BOOLEAN

ClaimInit ==
  /\ claims = [c \in {} |-> NoDecision]
  /\ openReviews = [c \in {} |-> 0]
  /\ pass = [p \in Passes |-> NoDecision]
  /\ overlapped = FALSE

Claims == DOMAIN claims

Contradicts(c, d) ==
  \/ <<claims[c].meaning, claims[d].meaning>> \in Negates
  \/ <<claims[d].meaning, claims[c].meaning>> \in Negates

-----------------------------------------------------------------------------
\* One transaction with a claim for each of k meanings, which may repeat.
Insert(k, meanings, status) ==
  LET n == Cardinality(Claims) IN
  /\ n + k <= MaxClaims
  /\ \E t \in 1 .. MaxTime :
       claims' = [c \in 1 .. n + k |-> IF c <= n THEN claims[c]
                    ELSE [meaning |-> meanings[c - n], created_at |-> t, status |-> status]]
  /\ openReviews' = [c \in 1 .. n + k |-> IF c <= n THEN openReviews[c] ELSE 0]
  /\ UNCHANGED <<pass, overlapped>>

\* extract_claims: the answer to one chunk, again for a redelivered build.
ExtractClaims ==
  \E k \in 1 .. MaxAnswer : \E meanings \in [1 .. k -> Meanings] : Insert(k, meanings, "pending")

AddClaim == \E meanings \in [1 .. 1 -> Meanings] : Insert(1, meanings, "active")

-----------------------------------------------------------------------------
(* correlate *)

PendingClaims == {c \in Claims : claims[c].status = "pending"}

SelectLimit ==
  IF Cardinality(PendingClaims) < MaxCorrelateClaims THEN Cardinality(PendingClaims)
  ELSE MaxCorrelateClaims

\* Lists of distinct pending claims, as long as LIMIT maxCorrelateClaims allows.
Listings ==
  {rows \in [1 .. SelectLimit -> PendingClaims] :
     \A i, j \in 1 .. SelectLimit : i # j => rows[i] # rows[j]}

\* ORDER BY created_at DESC: in which order claims of one time come, and which
\* of them the LIMIT cuts off, is open.
Examined ==
  {rows \in Listings :
     /\ \A i, j \in 1 .. SelectLimit :
          i < j => claims[rows[i]].created_at >= claims[rows[j]].created_at
     /\ \A i \in 1 .. SelectLimit, c \in PendingClaims :
          \/ claims[rows[i]].created_at >= claims[c].created_at
          \/ \E j \in 1 .. SelectLimit : rows[j] = c}

Before(rows, c, d) == \E i, j \in DOMAIN rows : i < j /\ rows[i] = c /\ rows[j] = d

\* Every examined claim but the first of its group.
Duplicates(rows) ==
  {d \in Claims : \E c \in Claims : Before(rows, c, d) /\ claims[c].meaning = claims[d].meaning}

\* The later one of each contradicting pair, once for every pair.
Conflicts(rows) ==
  {p \in Claims \X Claims : Before(rows, p[1], p[2]) /\ Contradicts(p[1], p[2])}

\* What a pass decides on the rows of its SELECT; conflicts count only with
\* conflictEnabled and requireReview.
Decide(p, rows) ==
  /\ \E enabled \in BOOLEAN :
       pass' = [pass EXCEPT ![p] = [busy |-> TRUE, duplicates |-> Duplicates(rows),
                                   conflicts |-> IF enabled THEN Conflicts(rows) ELSE {}]]
  /\ overlapped' = (overlapped \/ \E q \in Passes \ {p} : pass[q].busy)
  /\ UNCHANGED <<claims, openReviews>>

\* Mutant of CorrelateRead: without the ORDER BY.
CorrelateReadUnordered(p) ==
  /\ ~pass[p].busy /\ PendingClaims # {}
  /\ \E rows \in Listings : Decide(p, rows)

CorrelateRead(p) ==
  /\ ~pass[p].busy /\ PendingClaims # {}
  /\ \E rows \in Examined : Decide(p, rows)

NewReviews(p, c) == Cardinality({q \in pass[p].conflicts : q[2] = c})

\* Mutant of Opened: a review is only opened for a claim that is still pending.
OpenedIfPending(p) ==
  [c \in Claims |-> openReviews[c] + IF claims[c].status = "pending" THEN NewReviews(p, c) ELSE 0]

\* A review row per pair, whatever the claim's status is by now.
Opened(p) == [c \in Claims |-> openReviews[c] + NewReviews(p, c)]

\* Duplicates only if still pending; conflicting claims in any case.
Persisted(p) ==
  [c \in Claims |->
     IF NewReviews(p, c) > 0 THEN [claims[c] EXCEPT !.status = "needs_review"]
     ELSE IF c \in pass[p].duplicates /\ claims[c].status = "pending"
     THEN [claims[c] EXCEPT !.status = "duplicate"]
     ELSE claims[c]]

CorrelatePersist(p) ==
  /\ pass[p].busy
  /\ \A c \in Claims : Opened(p)[c] <= MaxOpenReviews
  /\ openReviews' = Opened(p)
  /\ claims' = Persisted(p)
  /\ pass' = [pass EXCEPT ![p] = NoDecision]
  /\ UNCHANGED overlapped

\* The worker is killed, or a transaction fails and is rolled back.
CorrelateAborts(p) ==
  /\ pass[p].busy
  /\ pass' = [pass EXCEPT ![p] = NoDecision]
  /\ UNCHANGED <<claims, openReviews, overlapped>>

-----------------------------------------------------------------------------
\* Mutant of ResolveReview: without "AND status = 'open'".
ResolveAny ==
  /\ \E c \in Claims, s \in {"active", "retired"} :
       /\ openReviews' = [openReviews EXCEPT ![c] = @ - 1]
       /\ claims' = [claims EXCEPT ![c].status = s]
  /\ UNCHANGED <<pass, overlapped>>

\* resolve_review: close one open row and settle its claim, in one transaction.
ResolveReview ==
  /\ \E c \in Claims, s \in {"active", "retired"} :
       /\ openReviews[c] > 0
       /\ openReviews' = [openReviews EXCEPT ![c] = @ - 1]
       /\ claims' = [claims EXCEPT ![c].status = s]
  /\ UNCHANGED <<pass, overlapped>>

ClaimNext ==
  \/ ExtractClaims \/ AddClaim \/ ResolveReview
  \/ \E p \in Passes : CorrelateRead(p) \/ CorrelatePersist(p) \/ CorrelateAborts(p)

ClaimSpec == ClaimInit /\ [][ClaimNext]_cvars

-----------------------------------------------------------------------------
(* Properties *)

\* A claim that waits for a review has an open one, whatever passes and
\* reviewers overlap: otherwise nobody could ever settle it (correlate.rs
\* writes both, review.rs closes one and settles).
ReviewBacked ==
  \A c \in Claims : claims[c].status = "needs_review" => openReviews[c] > 0

Kept(c) ==
  \E d \in Claims : claims[d].meaning = claims[c].meaning /\ claims[d].status # "duplicate"

\* The claims of c's meaning with the greatest created_at.
Newest(c) ==
  {d \in Claims : /\ claims[d].meaning = claims[c].meaning
                  /\ \A e \in Claims : claims[e].meaning = claims[c].meaning =>
                       claims[e].created_at <= claims[d].created_at}

\* Deduplication loses a meaning, marking every claim that says it, in one case
\* only: passes overlap and the newest claims of the meaning share a created_at.
\* Different limits, claims that commit late and reviewers do not matter
\* (correlate.rs reads in one transaction and marks in another).
MeaningKept ==
  \A c \in Claims :
     Kept(c) \/ (overlapped /\ \E d, e \in Newest(c) : d # e)

\* Without that exception, as "deduplicate near-identical claims" (correlate.rs:1)
\* has it: whatever is marked, one claim of each meaning stays.
NoMeaningLost == \A c \in Claims : Kept(c)

\* Resolving a review is to "settle the underlying claim" (review.rs:105): a
\* claim a reviewer settled is not put up for review again.
SettledStays ==
  [][\A c \in Claims : claims[c].status \in {"active", "retired"} =>
       claims'[c].status \in {"active", "retired"}]_cvars
=============================================================================
