---------------------------- MODULE KnowledgeProofs ----------------------------
(***************************************************************************)
(* Proofs about the knowledge plane, ClaimReview to Search (the topics are *)
(* in TopicProofs), and about the composition that the run Knowledge       *)
(* checks: for any meanings, passes and claims, any builds and readers of  *)
(* the graph, any releases, imports and runs of embed_concepts, any cards, *)
(* questions and learners, and any chunks, searches and sizes of lists.    *)
(***************************************************************************)
EXTENDS MCKnowledge, TopicProofs, FiniteSetTheorems, FunctionTheorems, SequenceTheorems,
        WellFoundedInduction

-----------------------------------------------------------------------------
(* ClaimReview *)

(* Whatever is or is about to become a duplicate has another claim that     *)
(* says the same and is not older.  Overlapping passes examine different    *)
(* lists, so that one may be a duplicate itself.                            *)
NewerSays(c) ==
  \E d \in Claims : /\ d # c /\ claims[d].meaning = claims[c].meaning
                     /\ claims[c].created_at <= claims[d].created_at

DuplicatesHaveNewer ==
  /\ \A c \in Claims : claims[c].status = "duplicate" => NewerSays(c)
  /\ \A p \in Passes : \A c \in pass[p].duplicates : c \in Claims /\ NewerSays(c)

(* As long as passes come one after the other, each meaning has a claim     *)
(* that is no duplicate and that the pass in progress will not make one.    *)
Stays(c, S) ==
  \E d \in Claims : /\ claims[d].meaning = claims[c].meaning
                     /\ claims[d].status # "duplicate" /\ d \notin S

KeptApart ==
  /\ \A p \in Passes : ~pass[p].busy => pass[p].duplicates = {}
  /\ ~overlapped =>
       /\ \A p, q \in Passes : pass[p].busy /\ pass[q].busy => p = q
       /\ \A c \in Claims : Kept(c) /\ \A p \in Passes : Stays(c, pass[p].duplicates)

ClaimInv == ClaimTypeOK /\ ReviewBacked /\ DuplicatesHaveNewer /\ KeptApart

Decisions == [busy : BOOLEAN, duplicates : SUBSET (1 .. MaxClaims),
              conflicts : SUBSET ((1 .. MaxClaims) \X (1 .. MaxClaims))]

LEMMA ClaimShape ==
  ASSUME ClaimTypeOK
  PROVE  /\ Cardinality(Claims) \in 0 .. MaxClaims
         /\ Claims = 1 .. Cardinality(Claims)
         /\ claims \in [Claims -> ClaimRows]
         /\ openReviews \in [Claims -> 0 .. MaxOpenReviews]
         /\ Claims \subseteq 1 .. MaxClaims
<1>1. PICK n \in 0 .. MaxClaims :
        /\ claims \in [1 .. n -> ClaimRows]
        /\ openReviews \in [1 .. n -> 0 .. MaxOpenReviews]
  BY DEF ClaimTypeOK
<1>2. Claims = 1 .. n
  BY <1>1 DEF Claims
<1>3. n \in Nat /\ MaxClaims \in Nat
  BY ClaimReviewAssumption
<1>4. Cardinality(1 .. n) = n
  <2>1. Cardinality(1 .. n) = IF 1 > n THEN 0 ELSE n - 1 + 1
    BY <1>3, FS_Interval
  <2>. QED
    BY <1>3, <2>1
<1>. QED
  BY <1>1, <1>2, <1>3, <1>4

\* A non-empty set of numbers has a first one, a bounded one a last one.
LEMMA FirstOne ==
  ASSUME NEW S \in SUBSET Nat, S # {}
  PROVE  \E x \in S : \A y \in S : x <= y
<1>1. PICK x \in S : \A y \in S : ~(<<y, x>> \in OpToRel(<, Nat))
  BY NatLessThanWellFounded, WFMin
<1>2. ASSUME NEW y \in S PROVE x <= y
  <2>1. x \in Nat /\ y \in Nat /\ ~(y < x)
    BY <1>1 DEF OpToRel
  <2>. QED
    BY <2>1
<1>. QED
  BY <1>2

LEMMA LastOne ==
  ASSUME NEW S \in SUBSET Nat, NEW n \in Nat, \A x \in S : x <= n, S # {}
  PROVE  \E x \in S : \A y \in S : y <= x
<1>. DEFINE T == {n - x : x \in S}
<1>1. T \subseteq Nat /\ T # {}
  <2>1. \A x \in S : x \in Nat /\ n - x \in Nat
    OBVIOUS
  <2>2. PICK x \in S : TRUE
    OBVIOUS
  <2>3. n - x \in T
    OBVIOUS
  <2>. QED
    BY <2>1, <2>3
<1>2. PICK t \in T : \A u \in T : t <= u
  BY <1>1, FirstOne
<1>3. PICK x \in S : t = n - x
  OBVIOUS
<1>4. ASSUME NEW y \in S PROVE y <= x
  <2>1. n - y \in T
    OBVIOUS
  <2>. QED
    BY <1>2, <1>3, <2>1
<1>. QED
  BY <1>4

LEMMA NewReviewsCounted ==
  ASSUME ClaimTypeOK, NEW p \in Passes, NEW c
  PROVE  NewReviews(p, c) \in Nat
<1>. DEFINE B == 1 .. MaxClaims
<1>1. IsFiniteSet(B)
  BY ClaimReviewAssumption, FS_Interval
<1>2. IsFiniteSet(B \X B)
  BY <1>1, FS_Product
<1>3. {q \in pass[p].conflicts : q[2] = c} \subseteq B \X B
  BY DEF ClaimTypeOK
<1>. HIDE DEF B
<1>4. IsFiniteSet({q \in pass[p].conflicts : q[2] = c})
  BY <1>2, <1>3, FS_Subset
<1>. QED
  BY <1>4, FS_CardinalityType DEF NewReviews

LEMMA ClaimStart == ClaimInit => ClaimInv
<1>. SUFFICES ASSUME ClaimInit PROVE ClaimInv
  OBVIOUS
<1>1. Claims = {}
  BY DEF ClaimInit, Claims
<1>2. ClaimTypeOK
  <2>1. 0 \in 0 .. MaxClaims /\ 1 .. 0 = {}
    BY ClaimReviewAssumption
  <2>2. claims \in [1 .. 0 -> ClaimRows] /\ openReviews \in [1 .. 0 -> 0 .. MaxOpenReviews]
    BY <2>1 DEF ClaimInit
  <2>3. pass \in [Passes -> Decisions]
    BY DEF ClaimInit, NoDecision, Decisions
  <2>. QED
    BY <2>1, <2>2, <2>3 DEF ClaimInit, ClaimTypeOK, Decisions
<1>. QED
  BY <1>1, <1>2
  DEF ClaimInit, ClaimInv, ReviewBacked, DuplicatesHaveNewer, KeptApart, NoDecision

LEMMA InsertStep ==
  ASSUME ClaimInv, NEW k \in Nat \ {0}, NEW meanings \in [1 .. k -> Meanings],
         NEW status \in {"pending", "active"}, Insert(k, meanings, status)
  PROVE  ClaimInv'
<1>. DEFINE n == Cardinality(Claims)
            Row(c, t) == [meaning |-> meanings[c - n], created_at |-> t, status |-> status]
<1>1. PICK t \in 1 .. MaxTime :
        /\ n + k <= MaxClaims
        /\ claims' = [c \in 1 .. n + k |-> IF c <= n THEN claims[c] ELSE Row(c, t)]
        /\ openReviews' = [c \in 1 .. n + k |-> IF c <= n THEN openReviews[c] ELSE 0]
        /\ pass' = pass /\ overlapped' = overlapped
  BY DEF Insert
<1>2. /\ n \in Nat /\ n + k \in 0 .. MaxClaims
      /\ Claims = 1 .. n /\ Claims' = 1 .. n + k /\ Claims \subseteq Claims'
  BY <1>1, ClaimShape, ClaimReviewAssumption DEF ClaimInv, Claims
<1>3. \A c \in Claims : claims'[c] = claims[c] /\ openReviews'[c] = openReviews[c]
  BY <1>1, <1>2
<1>4. ASSUME NEW c \in Claims' \ Claims
      PROVE  /\ claims'[c] \in ClaimRows /\ claims'[c].status = status
             /\ openReviews'[c] = 0
  <2>1. c \in 1 .. n + k /\ ~(c <= n) /\ c - n \in 1 .. k
    BY <1>2
  <2>2. claims'[c] = Row(c, t) /\ openReviews'[c] = 0
    BY <1>1, <2>1
  <2>3. Row(c, t) \in ClaimRows /\ Row(c, t).status = status
    BY <2>1 DEF ClaimRows, Statuses
  <2>. QED
    BY <2>2, <2>3
<1>. HIDE DEF n, Row
<1>5. ClaimTypeOK'
  <2>1. claims' \in [1 .. n + k -> ClaimRows]
    <3>1. \A c \in 1 .. n + k : claims'[c] \in ClaimRows
      BY <1>2, <1>3, <1>4, ClaimShape DEF ClaimInv
    <3>. QED
      BY <1>1, <3>1
  <2>2. openReviews' \in [1 .. n + k -> 0 .. MaxOpenReviews]
    <3>1. \A c \in 1 .. n + k : openReviews'[c] \in 0 .. MaxOpenReviews
      BY <1>2, <1>3, <1>4, ClaimShape, ClaimReviewAssumption DEF ClaimInv
    <3>. QED
      BY <1>1, <3>1
  <2>. QED
    BY <1>1, <1>2, <2>1, <2>2 DEF ClaimInv, ClaimTypeOK
<1>6. ReviewBacked'
  BY <1>2, <1>3, <1>4 DEF ClaimInv, ReviewBacked
<1>7. \A c \in Claims : NewerSays(c) => NewerSays(c)'
  BY <1>2, <1>3 DEF NewerSays
<1>8. DuplicatesHaveNewer'
  <2>1. ASSUME NEW c \in Claims', claims'[c].status = "duplicate"
        PROVE  NewerSays(c)'
    <3>1. c \in Claims /\ claims[c].status = "duplicate"
      BY <1>3, <1>4, <2>1
    <3>. QED
      BY <1>7, <3>1 DEF ClaimInv, DuplicatesHaveNewer
  <2>2. ASSUME NEW p \in Passes, NEW c \in pass'[p].duplicates
        PROVE  c \in Claims' /\ NewerSays(c)'
    BY <1>1, <1>2, <1>7 DEF ClaimInv, DuplicatesHaveNewer
  <2>. QED
    BY <2>1, <2>2 DEF DuplicatesHaveNewer
<1>9. KeptApart'
  <2>1. \A c \in Claims : /\ Kept(c) => Kept(c)'
                          /\ \A S : Stays(c, S) => \E d \in Claims' :
                               /\ claims'[d].meaning = claims'[c].meaning
                               /\ claims'[d].status # "duplicate" /\ d \notin S
    BY <1>2, <1>3 DEF Kept, Stays
  <2>2. ASSUME NEW c \in Claims' \ Claims
        PROVE  /\ Kept(c)'
               /\ \A p \in Passes : c \notin pass[p].duplicates
    <3>1. claims'[c].status # "duplicate" /\ c \in Claims'
      BY <1>4
    <3>2. Kept(c)'
      BY <3>1 DEF Kept
    <3>3. \A p \in Passes : c \notin pass[p].duplicates
      BY DEF ClaimInv, DuplicatesHaveNewer
    <3>. QED
      BY <3>2, <3>3
  <2>3. ASSUME ~overlapped, NEW c \in Claims', NEW p \in Passes
        PROVE  \E d \in Claims' : /\ claims'[d].meaning = claims'[c].meaning
                                  /\ claims'[d].status # "duplicate"
                                  /\ d \notin pass[p].duplicates
    <3>1. CASE c \in Claims
      BY <2>1, <2>3, <3>1 DEF ClaimInv, KeptApart
    <3>2. CASE c \notin Claims
      BY <1>4, <2>2, <3>2
    <3>. QED
      BY <3>1, <3>2
  <2>. QED
    BY <1>1, <2>1, <2>2, <2>3 DEF ClaimInv, KeptApart, Stays
<1>. QED
  BY <1>5, <1>6, <1>8, <1>9 DEF ClaimInv

\* What a step that only settles claims leaves of the invariant to show.
LEMMA SameClaims ==
  ASSUME ClaimInv,
         claims' \in [Claims -> ClaimRows],
         openReviews' \in [Claims -> 0 .. MaxOpenReviews],
         \A c \in Claims : /\ claims'[c].meaning = claims[c].meaning
                           /\ claims'[c].created_at = claims[c].created_at,
         pass' \in [Passes -> Decisions], overlapped' \in BOOLEAN,
         \A p \in Passes : \A c \in pass'[p].duplicates : c \in Claims /\ NewerSays(c),
         \A c \in Claims : claims'[c].status = "duplicate" => NewerSays(c),
         ReviewBacked', KeptApart'
  PROVE  ClaimInv'
<1>1. Claims' = Claims
  BY ClaimShape DEF ClaimInv, Claims
<1>2. ClaimTypeOK'
  BY ClaimShape DEF ClaimInv, ClaimTypeOK, Decisions
<1>3. \A c \in Claims : NewerSays(c) => NewerSays(c)'
  BY <1>1 DEF NewerSays
<1>. QED
  BY <1>1, <1>2, <1>3 DEF ClaimInv, DuplicatesHaveNewer

LEMMA ListingShape ==
  ASSUME ClaimTypeOK, NEW rows \in Examined
  PROVE  /\ rows \in [1 .. SelectLimit -> PendingClaims] /\ SelectLimit \in Nat
         /\ \A i, j \in 1 .. SelectLimit : i # j => rows[i] # rows[j]
         /\ \A i, j \in 1 .. SelectLimit :
              i < j => claims[rows[i]].created_at >= claims[rows[j]].created_at
<1>1. Cardinality(PendingClaims) \in Nat
  <2>1. IsFiniteSet(Claims)
    BY ClaimShape, FS_Interval
  <2>2. PendingClaims \subseteq Claims
    BY DEF PendingClaims
  <2>. QED
    BY <2>1, <2>2, FS_Subset, FS_CardinalityType
<1>2. SelectLimit \in Nat
  BY <1>1, ClaimReviewAssumption DEF SelectLimit
<1>. QED
  BY <1>2 DEF Examined, Listings

\* What a pass decides leaves, of each group, the first of its list.
LEMMA FirstStays ==
  ASSUME ClaimTypeOK, NEW rows \in Examined, NEW c \in Claims, Kept(c)
  PROVE  Stays(c, Duplicates(rows))
<1>. DEFINE I == {i \in 1 .. SelectLimit : claims[rows[i]].meaning = claims[c].meaning}
<1>1. /\ DOMAIN rows = 1 .. SelectLimit /\ I \in SUBSET Nat
      /\ \A i \in DOMAIN rows : rows[i] \in PendingClaims
  BY ListingShape
<1>2. CASE I = {}
  <2>1. PICK d \in Claims : claims[d].meaning = claims[c].meaning /\ claims[d].status # "duplicate"
    BY DEF Kept
  <2>2. d \notin Duplicates(rows)
    BY <1>1, <1>2, <2>1 DEF Duplicates, Before
  <2>. QED
    BY <2>1, <2>2 DEF Stays
<1>3. CASE I # {}
  <2>1. PICK i \in I : \A j \in I : i <= j
    BY <1>1, <1>3, FirstOne
  <2>2. /\ rows[i] \in Claims /\ claims[rows[i]].status # "duplicate"
        /\ claims[rows[i]].meaning = claims[c].meaning
    BY <1>1 DEF PendingClaims
  <2>3. rows[i] \notin Duplicates(rows)
    <3>1. SUFFICES ASSUME NEW d \in Claims, NEW j \in DOMAIN rows, NEW k \in DOMAIN rows,
                          j < k, rows[j] = d, rows[k] = rows[i],
                          claims[d].meaning = claims[rows[i]].meaning
                   PROVE  FALSE
      BY DEF Duplicates, Before
    <3>2. k = i /\ j \in I
      BY <1>1, <2>2, <3>1, ListingShape
    <3>. QED
      BY <1>1, <2>1, <3>1, <3>2
  <2>. QED
    BY <2>2, <2>3 DEF Stays
<1>. QED
  BY <1>2, <1>3

LEMMA ReadStep ==
  ASSUME ClaimInv, NEW p \in Passes, CorrelateRead(p)
  PROVE  ClaimInv'
<1>1. PICK rows \in Examined, enabled \in BOOLEAN :
        pass' = [pass EXCEPT ![p] = [busy |-> TRUE, duplicates |-> Duplicates(rows),
                                    conflicts |-> IF enabled THEN Conflicts(rows) ELSE {}]]
  BY DEF CorrelateRead, Decide
<1>2. /\ UNCHANGED <<claims, openReviews>> /\ ~pass[p].busy
      /\ overlapped' = (overlapped \/ \E q \in Passes \ {p} : pass[q].busy)
  BY DEF CorrelateRead, Decide
<1>. DEFINE r == [busy |-> TRUE, duplicates |-> Duplicates(rows),
                  conflicts |-> IF enabled THEN Conflicts(rows) ELSE {}]
<1>3. \A c \in Duplicates(rows) : c \in Claims /\ NewerSays(c)
  <2>1. ASSUME NEW c \in Duplicates(rows) PROVE c \in Claims /\ NewerSays(c)
    <3>1. /\ c \in Claims
          /\ \E d \in Claims : Before(rows, d, c) /\ claims[d].meaning = claims[c].meaning
      BY DEF Duplicates
    <3>2. PICK d \in Claims, i \in DOMAIN rows, j \in DOMAIN rows :
            i < j /\ rows[i] = d /\ rows[j] = c /\ claims[d].meaning = claims[c].meaning
      BY <3>1 DEF Before
    <3>3. i \in 1 .. SelectLimit /\ j \in 1 .. SelectLimit /\ i # j
      BY <3>2, ListingShape DEF ClaimInv
    <3>4. d # c /\ claims[d].created_at >= claims[c].created_at
      BY <3>2, <3>3, ListingShape DEF ClaimInv
    <3>5. claims[d].created_at \in Int /\ claims[c].created_at \in Int
      BY <3>1, ClaimShape DEF ClaimInv, ClaimRows
    <3>. QED
      BY <3>1, <3>2, <3>4, <3>5 DEF NewerSays
  <2>. QED
    BY <2>1
<1>4. r \in Decisions
  <2>1. Claims \subseteq 1 .. MaxClaims
    BY ClaimShape DEF ClaimInv
  <2>2. Conflicts(rows) \subseteq (1 .. MaxClaims) \X (1 .. MaxClaims)
    BY <2>1 DEF Conflicts
  <2>3. Duplicates(rows) \subseteq 1 .. MaxClaims
    BY <1>3, <2>1
  <2>4. (IF enabled THEN Conflicts(rows) ELSE {}) \subseteq (1 .. MaxClaims) \X (1 .. MaxClaims)
    BY <2>2
  <2>. QED
    BY <2>3, <2>4 DEF Decisions
<1>5. /\ pass' \in [Passes -> Decisions]
      /\ pass'[p] = r /\ \A q \in Passes : q # p => pass'[q] = pass[q]
  BY <1>1, <1>4 DEF ClaimInv, ClaimTypeOK, Decisions
<1>6. pass'[p].busy /\ pass'[p].duplicates = Duplicates(rows)
  BY <1>5
<1>. HIDE DEF r
<1>7. ReviewBacked'
  BY <1>2 DEF ClaimInv, ReviewBacked, Claims
<1>8. KeptApart'
  <2>1. \A q \in Passes : ~pass'[q].busy => pass'[q].duplicates = {}
    BY <1>5, <1>6 DEF ClaimInv, KeptApart
  <2>2. ASSUME ~overlapped'
        PROVE  /\ ~overlapped
               /\ \A q \in Passes : q # p => ~pass[q].busy /\ pass[q].duplicates = {}
    BY <1>2, <2>2 DEF ClaimInv, KeptApart
  <2>3. Claims' = Claims /\ \A c \in Claims : Kept(c)' <=> Kept(c)
    BY <1>2 DEF Claims, Kept
  <2>4. ASSUME ~overlapped', NEW c \in Claims
        PROVE  /\ Kept(c)
               /\ \A q \in Passes : Stays(c, pass'[q].duplicates)
    <3>1. Kept(c)
      BY <2>2, <2>4 DEF ClaimInv, KeptApart
    <3>2. Stays(c, pass'[p].duplicates)
      BY <1>6, <3>1, FirstStays DEF ClaimInv
    <3>3. ASSUME NEW q \in Passes, q # p PROVE Stays(c, pass'[q].duplicates)
      BY <1>5, <2>2, <2>4, <3>1, <3>3 DEF Stays, Kept
    <3>. QED
      BY <3>1, <3>2, <3>3
  <2>5. \A c, S : Stays(c, S) => \E d \in Claims' :
                    /\ claims'[d].meaning = claims'[c].meaning
                    /\ claims'[d].status # "duplicate" /\ d \notin S
    BY <1>2, <2>3 DEF Stays
  <2>. QED
    BY <1>5, <1>6, <2>1, <2>2, <2>3, <2>4, <2>5 DEF KeptApart, Stays
<1>9. \A q \in Passes : \A c \in pass'[q].duplicates : c \in Claims /\ NewerSays(c)
  BY <1>3, <1>5, <1>6 DEF ClaimInv, DuplicatesHaveNewer
<1>. QED
  BY <1>2, <1>5, <1>7, <1>8, <1>9, ClaimShape, SameClaims
  DEF ClaimInv, ClaimTypeOK, DuplicatesHaveNewer

\* A pass that gives up or has written decides nothing any more.
LEMMA PassEnds ==
  ASSUME ClaimInv, NEW p \in Passes, pass' = [pass EXCEPT ![p] = NoDecision]
  PROVE  /\ pass' \in [Passes -> Decisions]
         /\ ~pass'[p].busy /\ pass'[p].duplicates = {}
         /\ \A q \in Passes : q # p => pass'[q] = pass[q]
         /\ \A q \in Passes : pass'[q].duplicates \subseteq pass[q].duplicates
<1>1. NoDecision \in Decisions /\ ~NoDecision.busy /\ NoDecision.duplicates = {}
  BY DEF NoDecision, Decisions
<1>2. pass \in [Passes -> Decisions]
  BY DEF ClaimInv, ClaimTypeOK, Decisions
<1>. QED
  BY <1>1, <1>2

\* Claims may be settled or flagged, and a pass may end, if what its passes
\* spare stays what it is: no duplicate.
LEMMA ApartKept ==
  ASSUME ClaimInv, Claims' = Claims, overlapped' = overlapped,
         \A c \in Claims : claims'[c].meaning = claims[c].meaning,
         \A q \in Passes : \/ pass'[q] = pass[q]
                           \/ ~pass'[q].busy /\ pass'[q].duplicates = {},
         ~overlapped => \E S : /\ \A q \in Passes : pass'[q].duplicates \subseteq S
                               /\ \A c \in Claims : Stays(c, S)
                               /\ \A c \in Claims : claims'[c].status = "duplicate" =>
                                    claims[c].status = "duplicate" \/ c \in S
  PROVE  KeptApart'
<1>1. \A q \in Passes : ~pass'[q].busy => pass'[q].duplicates = {}
  BY DEF ClaimInv, KeptApart
<1>2. ASSUME ~overlapped
      PROVE  \A q, u \in Passes : pass'[q].busy /\ pass'[u].busy => q = u
  BY <1>2 DEF ClaimInv, KeptApart
<1>3. ASSUME ~overlapped, NEW c \in Claims
      PROVE  \E d \in Claims : /\ claims'[d].meaning = claims'[c].meaning
                               /\ claims'[d].status # "duplicate"
                               /\ \A q \in Passes : d \notin pass'[q].duplicates
  <2>1. PICK S : /\ \A q \in Passes : pass'[q].duplicates \subseteq S
                 /\ \A e \in Claims : Stays(e, S)
                 /\ \A e \in Claims : claims'[e].status = "duplicate" =>
                      claims[e].status = "duplicate" \/ e \in S
    BY <1>3
  <2>2. PICK d \in Claims : /\ claims[d].meaning = claims[c].meaning
                            /\ claims[d].status # "duplicate" /\ d \notin S
    BY <2>1 DEF Stays
  <2>. QED
    BY <2>1, <2>2
<1>. QED
  BY <1>1, <1>2, <1>3 DEF KeptApart, Kept, Stays

\* Without overlap, the claims that any pass spares are those that the one in
\* progress spares.
LEMMA OneSpares ==
  ASSUME ClaimInv, ~overlapped, NEW p \in Passes, pass[p].busy
  PROVE  /\ \A q \in Passes : q # p => pass[q].duplicates = {}
         /\ \A c \in Claims : Stays(c, pass[p].duplicates)
BY DEF ClaimInv, KeptApart

LEMMA AbortStep ==
  ASSUME ClaimInv, NEW p \in Passes, CorrelateAborts(p)
  PROVE  ClaimInv'
<1>1. /\ pass[p].busy /\ pass' = [pass EXCEPT ![p] = NoDecision]
      /\ UNCHANGED <<claims, openReviews, overlapped, Claims>>
  BY DEF CorrelateAborts, Claims
<1>2. ReviewBacked'
  BY <1>1 DEF ClaimInv, ReviewBacked
<1>3. ASSUME ~overlapped
      PROVE  /\ \A q \in Passes : pass'[q].duplicates \subseteq pass[p].duplicates
             /\ \A c \in Claims : Stays(c, pass[p].duplicates)
  BY <1>1, <1>3, OneSpares, PassEnds
<1>4. KeptApart'
  BY <1>1, <1>3, PassEnds, ApartKept
<1>. QED
  BY <1>1, <1>2, <1>4, PassEnds, ClaimShape, SameClaims
  DEF ClaimInv, ClaimTypeOK, DuplicatesHaveNewer

LEMMA PersistStep ==
  ASSUME ClaimInv, NEW p \in Passes, CorrelatePersist(p)
  PROVE  ClaimInv'
<1>1. /\ \A c \in Claims : Opened(p)[c] <= MaxOpenReviews
      /\ openReviews' = Opened(p) /\ claims' = Persisted(p) /\ pass[p].busy
      /\ pass' = [pass EXCEPT ![p] = NoDecision] /\ overlapped' = overlapped
  BY DEF CorrelatePersist
<1>2. \A c \in Claims : openReviews'[c] = openReviews[c] + NewReviews(p, c)
  BY <1>1 DEF Opened
<1>3. openReviews' \in [Claims -> 0 .. MaxOpenReviews]
  <2>1. \A c \in Claims : openReviews'[c] \in 0 .. MaxOpenReviews
    BY <1>1, <1>2, ClaimShape, NewReviewsCounted, ClaimReviewAssumption DEF ClaimInv
  <2>. QED
    BY <1>1, <2>1 DEF Opened
<1>4. ASSUME NEW c \in Claims
      PROVE  /\ claims'[c] \in ClaimRows
             /\ claims'[c].meaning = claims[c].meaning
             /\ claims'[c].created_at = claims[c].created_at
             /\ claims'[c].status = "duplicate" =>
                  claims[c].status = "duplicate" \/ c \in pass[p].duplicates
             /\ claims'[c].status = "needs_review" =>
                  claims[c].status = "needs_review" \/ NewReviews(p, c) > 0
  <2>1. claims[c] \in ClaimRows
    BY ClaimShape DEF ClaimInv
  <2>2. claims'[c] = IF NewReviews(p, c) > 0 THEN [claims[c] EXCEPT !.status = "needs_review"]
                     ELSE IF c \in pass[p].duplicates /\ claims[c].status = "pending"
                     THEN [claims[c] EXCEPT !.status = "duplicate"]
                     ELSE claims[c]
    BY <1>1 DEF Persisted
  <2>3. ASSUME NEW s \in Statuses
        PROVE  /\ [claims[c] EXCEPT !.status = s] \in ClaimRows
               /\ [claims[c] EXCEPT !.status = s].meaning = claims[c].meaning
               /\ [claims[c] EXCEPT !.status = s].created_at = claims[c].created_at
               /\ [claims[c] EXCEPT !.status = s].status = s
    BY <2>1 DEF ClaimRows
  <2>4. "needs_review" \in Statuses /\ "duplicate" \in Statuses
    BY DEF Statuses
  <2>5. CASE NewReviews(p, c) > 0
    <3>1. claims'[c] = [claims[c] EXCEPT !.status = "needs_review"]
      BY <2>2, <2>5
    <3>. QED
      BY <2>3, <2>4, <2>5, <3>1
  <2>6. CASE ~(NewReviews(p, c) > 0) /\ c \in pass[p].duplicates /\ claims[c].status = "pending"
    <3>1. claims'[c] = [claims[c] EXCEPT !.status = "duplicate"]
      BY <2>2, <2>6
    <3>. QED
      BY <2>3, <2>4, <2>6, <3>1
  <2>7. CASE ~(NewReviews(p, c) > 0) /\ ~(c \in pass[p].duplicates /\ claims[c].status = "pending")
    BY <2>1, <2>2, <2>7
  <2>. QED
    BY <2>5, <2>6, <2>7
<1>5. claims' \in [Claims -> ClaimRows] /\ Claims' = Claims
  <2>1. claims' \in [Claims -> ClaimRows]
    BY <1>1, <1>4 DEF Persisted
  <2>. QED
    BY <2>1 DEF Claims
<1>6. ReviewBacked'
  <2>1. \A c \in Claims : openReviews[c] \in Nat /\ NewReviews(p, c) \in Nat
    BY ClaimShape, NewReviewsCounted, ClaimReviewAssumption DEF ClaimInv
  <2>. QED
    BY <1>2, <1>4, <1>5, <2>1 DEF ClaimInv, ReviewBacked
<1>7. ASSUME ~overlapped
      PROVE  /\ \A q \in Passes : pass'[q].duplicates \subseteq pass[p].duplicates
             /\ \A c \in Claims : Stays(c, pass[p].duplicates)
  BY <1>1, <1>7, OneSpares, PassEnds
<1>8. KeptApart'
  BY <1>1, <1>4, <1>5, <1>7, PassEnds, ApartKept
<1>. QED
  BY <1>1, <1>3, <1>4, <1>5, <1>6, <1>8, PassEnds, SameClaims
  DEF ClaimInv, ClaimTypeOK, DuplicatesHaveNewer

LEMMA ResolveStep ==
  ASSUME ClaimInv, ResolveReview
  PROVE  ClaimInv'
<1>1. PICK c \in Claims, s \in {"active", "retired"} :
        /\ openReviews[c] > 0
        /\ openReviews' = [openReviews EXCEPT ![c] = @ - 1]
        /\ claims' = [claims EXCEPT ![c].status = s]
  BY DEF ResolveReview
<1>2. claims \in [Claims -> ClaimRows]
      /\ openReviews \in [Claims -> 0 .. MaxOpenReviews]
  BY ClaimShape DEF ClaimInv
<1>3. claims' \in [Claims -> ClaimRows]
      /\ claims'[c].meaning = claims[c].meaning /\ claims'[c].status = s
      /\ claims'[c].created_at = claims[c].created_at
      /\ \A d \in Claims : d # c => claims'[d] = claims[d]
  BY <1>1, <1>2 DEF ClaimRows, Statuses
<1>4. openReviews' \in [Claims -> 0 .. MaxOpenReviews]
      /\ \A d \in Claims : d # c => openReviews'[d] = openReviews[d]
  BY <1>1, <1>2, ClaimReviewAssumption
<1>5. ReviewBacked' /\ Claims' = Claims
  BY <1>2, <1>3, <1>4 DEF ClaimInv, ReviewBacked, Claims
<1>6. UNCHANGED <<pass, overlapped>>
  BY DEF ResolveReview
<1>7. KeptApart'
  <2>1. ASSUME ~overlapped
        PROVE  \E S : /\ \A q \in Passes : pass[q].duplicates \subseteq S
                      /\ \A d \in Claims : Stays(d, S)
    <3>1. CASE \E p \in Passes : pass[p].busy
      BY <2>1, <3>1, OneSpares
    <3>2. CASE \A p \in Passes : ~pass[p].busy
      <4>1. \A d \in Claims : Stays(d, {})
        BY <2>1 DEF ClaimInv, KeptApart, Kept, Stays
      <4>2. \A q \in Passes : pass[q].duplicates \subseteq {}
        BY <3>2 DEF ClaimInv, KeptApart
      <4>. QED
        BY <4>1, <4>2
    <3>. QED
      BY <3>1, <3>2
  <2>. QED
    BY <1>3, <1>5, <1>6, <2>1, ApartKept
<1>. QED
  BY <1>3, <1>4, <1>5, <1>6, <1>7, SameClaims
  DEF ClaimInv, ClaimTypeOK, DuplicatesHaveNewer, Decisions

LEMMA ClaimAlways == ClaimSpec => []ClaimInv
<1>1. ASSUME ClaimInv, [ClaimNext]_cvars PROVE ClaimInv'
  <2>1. CASE UNCHANGED cvars
    <3>1. UNCHANGED <<claims, openReviews, pass, overlapped, Claims>>
      BY <2>1 DEF cvars, Claims
    <3>2. ClaimTypeOK' /\ ReviewBacked'
      BY <1>1, <3>1 DEF ClaimInv, ClaimTypeOK, ReviewBacked
    <3>3. DuplicatesHaveNewer'
      BY <1>1, <3>1 DEF ClaimInv, DuplicatesHaveNewer, NewerSays
    <3>4. KeptApart'
      BY <1>1, <3>1 DEF ClaimInv, KeptApart, Kept, Stays
    <3>. QED
      BY <3>2, <3>3, <3>4 DEF ClaimInv
  <2>2. ASSUME ExtractClaims \/ AddClaim PROVE ClaimInv'
    <3>1. 1 \in Nat \ {0} /\ 1 .. MaxAnswer \subseteq Nat \ {0}
      BY ClaimReviewAssumption
    <3>2. ASSUME NEW k \in 1 .. MaxAnswer, NEW meanings \in [1 .. k -> Meanings],
                 Insert(k, meanings, "pending")
          PROVE  ClaimInv'
      BY <1>1, <3>1, <3>2, InsertStep
    <3>3. ASSUME NEW meanings \in [1 .. 1 -> Meanings], Insert(1, meanings, "active")
          PROVE  ClaimInv'
      BY <1>1, <3>1, <3>3, InsertStep
    <3>. QED
      BY <2>2, <3>2, <3>3 DEF ExtractClaims, AddClaim
  <2>. QED
    BY <1>1, <2>1, <2>2, ReadStep, PersistStep, AbortStep, ResolveStep DEF ClaimNext
<1>. QED
  BY <1>1, ClaimStart, PTL DEF ClaimSpec

\* The rows of claims and reviews and the decisions of the passes keep their
\* types (correlate.rs, review.rs).
THEOREM ClaimsTyped == ClaimSpec => []ClaimTypeOK
<1>1. ClaimInv => ClaimTypeOK
  BY DEF ClaimInv
<1>. QED
  BY <1>1, ClaimAlways, PTL

\* Whatever passes and reviewers overlap, a claim that waits for a review has
\* an open one (correlate.rs correlate, review.rs resolve_review).
THEOREM ReviewsBacked == ClaimSpec => []ReviewBacked
<1>1. ClaimInv => ReviewBacked
  BY DEF ClaimInv
<1>. QED
  BY <1>1, ClaimAlways, PTL

\* Deduplication loses a meaning only if passes overlap and its newest claims
\* share a created_at: one pass at a time spares a claim of each meaning, and
\* a claim that is newer than all others of its meaning is never a duplicate,
\* whatever lists overlapping passes examined (correlate.rs).
THEOREM MeaningsKept == ClaimSpec => []MeaningKept
<1>1. ASSUME ClaimInv PROVE MeaningKept
  <2>1. SUFFICES ASSUME NEW c \in Claims, ~Kept(c)
                 PROVE  overlapped /\ \E d, e \in Newest(c) : d # e
    BY DEF MeaningKept
  <2>2. overlapped
    BY <1>1, <2>1 DEF ClaimInv, KeptApart
  <2>. DEFINE S == {d \in Claims : claims[d].meaning = claims[c].meaning}
              T == {claims[d].created_at : d \in S}
  <2>3. /\ \A d \in Claims : claims[d].created_at \in 1 .. MaxTime
        /\ MaxTime \in Nat
    BY <1>1, ClaimShape, ClaimReviewAssumption DEF ClaimInv, ClaimRows
  <2>4. T \in SUBSET Nat /\ T # {} /\ \A t \in T : t <= MaxTime
    BY <2>1, <2>3
  <2>5. PICK t \in T : \A u \in T : u <= t
    BY <2>3, <2>4, LastOne
  <2>6. PICK d \in S : claims[d].created_at = t
    OBVIOUS
  <2>7. d \in Newest(c) /\ NewerSays(d)
    <3>1. claims[d].status = "duplicate"
      BY <2>1 DEF Kept
    <3>. QED
      BY <1>1, <2>5, <2>6, <3>1 DEF Newest, ClaimInv, DuplicatesHaveNewer
  <2>8. PICK e \in Claims : /\ e # d /\ claims[e].meaning = claims[d].meaning
                            /\ claims[d].created_at <= claims[e].created_at
    BY <2>7 DEF NewerSays
  <2>9. e \in Newest(c)
    <3>1. e \in S /\ claims[e].created_at \in T
      BY <2>8
    <3>2. claims[e].created_at = t
      <4>1. claims[e].created_at <= t /\ t <= claims[e].created_at
        BY <2>5, <2>6, <2>8, <3>1
      <4>2. claims[e].created_at \in Int /\ t \in Int
        BY <2>3, <2>4
      <4>. QED
        BY <4>1, <4>2
    <3>. QED
      BY <2>5, <3>1, <3>2 DEF Newest
  <2>. QED
    BY <2>2, <2>7, <2>8, <2>9
<1>. QED
  BY <1>1, ClaimAlways, PTL

-----------------------------------------------------------------------------
(* ConceptGraph *)

NodeRec == [id : Nat, concept : Concepts]
EdgeRec == [from : Nat, to : Nat]
BuildRec == [pc : {"idle", "edges", "delete-nodes", "nodes", "select", "pairs", "commit"},
             target : SUBSET (NodeRec \cup EdgeRec), gone : SUBSET (NodeRec \cup EdgeRec),
             new : SUBSET NodeRec, nodeOf : SUBSET NodeRec, links : SUBSET EdgeRec]
ReadRec == [pc : {"idle", "edges", "compute"}, ids : SUBSET Nat, pairs : SUBSET EdgeRec]

RowsTyped ==
  /\ claimRows \subseteq Concepts \X Labels \X Documents /\ IsFiniteSet(claimRows)
  /\ nodes \subseteq NodeRec /\ edges \subseteq EdgeRec /\ lastId \in Nat
  /\ build \in [Builds -> BuildRec] /\ reader \in [Readers -> ReadRec]

\* The nodes among the rows that a build deletes.
NodesIn(S) == S \cap NodeRec
Seen(b) == NodesIn(build[b].target) \cup NodesIn(build[b].gone)

\* The edges that were committed at some time and may still be used.
Linked == edges \cup UNION {reader[r].pairs : r \in Readers}

(* An id stands for one node, and a node that is not committed yet is known *)
(* to nobody but its build.                                                 *)
IdsNameNodes ==
  /\ Ids(nodes) \subseteq 1 .. lastId
  /\ \A r \in Readers : reader[r].ids \subseteq 1 .. lastId
  /\ \A e \in Linked : {e.from, e.to} \subseteq 1 .. lastId
  /\ \A b \in Builds : Ids(build[b].new) \cup Ids(Seen(b)) \subseteq 1 .. lastId
  /\ \A m \in nodes :
       /\ \A n \in nodes : m.id = n.id => m = n
       /\ \A b \in Builds : \A n \in Seen(b) : m.id = n.id => m = n

NewIsPrivate ==
  \A b \in Builds :
    /\ build[b].nodeOf \subseteq build[b].new
    /\ \A e \in build[b].links : {e.from, e.to} \subseteq Ids(build[b].new)
    /\ \A m, n \in build[b].new : m.id = n.id => m = n
    /\ \A i \in Ids(build[b].new) :
         /\ i \notin Ids(nodes)
         /\ \A r \in Readers : i \notin reader[r].ids
         /\ \A e \in Linked : i # e.from /\ i # e.to
         /\ \A o \in Builds : i \notin Ids(Seen(o)) /\ (o # b => i \notin Ids(build[o].new))

(* The two ends of an edge are inserted together and deleted together: a    *)
(* snapshot of the nodes has both or neither.                               *)
Together(X) == \A e \in Linked : e.from \in X <=> e.to \in X

EdgesHoldTogether ==
  /\ \A e \in edges : {e.from, e.to} \subseteq Ids(nodes)
  /\ Together(Ids(nodes))
  /\ \A r \in Readers : Together(reader[r].ids)
  /\ \A b \in Builds :
       Together(Ids(NodesIn(build[b].target))) /\ Together(Ids(NodesIn(build[b].gone)))

(* What a build deletes it has replaced by the time it commits, because it  *)
(* selects the claims after the deletes.                                    *)
Grounded == {row[1] : row \in claimRows}

DeletedIsReplaced ==
  /\ ConceptsOf(nodes) \subseteq Grounded
  /\ \A b \in Builds :
       /\ ConceptsOf(NodesIn(build[b].gone)) \subseteq Grounded
       /\ ConceptsOf(build[b].new) \subseteq Grounded
       /\ build[b].pc \in {"pairs", "commit"} =>
            ConceptsOf(NodesIn(build[b].gone)) \subseteq ConceptsOf(build[b].new)

GraphInv ==
  /\ RowsTyped /\ IdsNameNodes /\ NewIsPrivate /\ EdgesHoldTogether /\ DeletedIsReplaced
  /\ NoConceptLost

LEMMA NodesAreNoEdges == ASSUME NEW n \in NodeRec PROVE n \notin EdgeRec
<1>1. DOMAIN n = {"id", "concept"}
  BY DEF NodeRec
<1>2. ASSUME n \in EdgeRec PROVE DOMAIN n = {"from", "to"}
  BY <1>2 DEF EdgeRec
<1>. QED
  BY <1>1, <1>2

LEMMA GraphStart == GraphInit => GraphInv
<1>. SUFFICES ASSUME GraphInit PROVE GraphInv
  OBVIOUS
<1>1. RowsTyped
  BY FS_EmptySet DEF GraphInit, RowsTyped, BuildRec, ReadRec, NoBuild, NoRead
<1>2. /\ nodes = {} /\ edges = {} /\ shown = {}
      /\ \A b \in Builds : /\ build[b].pc = "idle" /\ build[b].target = {} /\ build[b].gone = {}
                           /\ build[b].new = {} /\ build[b].nodeOf = {} /\ build[b].links = {}
      /\ \A r \in Readers : reader[r].ids = {} /\ reader[r].pairs = {}
  BY DEF GraphInit, NoBuild, NoRead
<1>3. Linked = {}
  BY <1>2 DEF Linked
<1>. QED
  BY <1>1, <1>2, <1>3
  DEF GraphInv, IdsNameNodes, NewIsPrivate, EdgesHoldTogether, DeletedIsReplaced, NoConceptLost,
      Ids, ConceptsOf, Seen, NodesIn, Together

\* The steps of a build before its commit show nothing to others.
LEMMA BuildSteps ==
  ASSUME GraphInv, NEW b \in Builds, NEW r \in BuildRec, SetBuild(b, r), OnlyBuild,
         NodesIn(r.target) \cup NodesIn(r.gone) \subseteq nodes \cup Seen(b),
         Together(Ids(NodesIn(r.target))), Together(Ids(NodesIn(r.gone))),
         ConceptsOf(NodesIn(r.gone)) \subseteq Grounded,
         r.new \in {{}, build[b].new}, r.nodeOf \subseteq r.new,
         \A e \in r.links : {e.from, e.to} \subseteq Ids(r.new),
         r.pc \in {"pairs", "commit"} =>
           ConceptsOf(NodesIn(r.gone)) \subseteq ConceptsOf(r.new)
  PROVE  GraphInv'
<1>1. /\ build' \in [Builds -> BuildRec] /\ build'[b] = r
      /\ \A o \in Builds : o # b => build'[o] = build[o]
  BY DEF GraphInv, RowsTyped, SetBuild
<1>2. UNCHANGED <<claimRows, nodes, edges, lastId, reader, shown>>
  BY DEF OnlyBuild
<1>3. Linked' = Linked /\ Grounded' = Grounded /\ Ids(nodes)' = Ids(nodes)
  BY <1>2 DEF Linked, Grounded, Ids
<1>4. /\ Seen(b)' \subseteq nodes \cup Seen(b)
      /\ \A o \in Builds : o # b => Seen(o)' = Seen(o)
      /\ \A o \in Builds : build'[o].new \subseteq build[o].new
  BY <1>1 DEF Seen, NodesIn
<1>5. RowsTyped'
  BY <1>1, <1>2 DEF GraphInv, RowsTyped
<1>6. IdsNameNodes'
  BY <1>2, <1>3, <1>4 DEF GraphInv, IdsNameNodes, Ids
<1>7. NewIsPrivate'
  <2>1. /\ Ids(Seen(b))' \subseteq Ids(nodes) \cup Ids(Seen(b))
        /\ \A o \in Builds : o # b => Ids(Seen(o))' = Ids(Seen(o))
    BY <1>4 DEF Ids
  <2>2. \A o \in Builds : Ids(build'[o].new) \subseteq Ids(build[o].new)
    BY <1>4 DEF Ids
  <2>3. ASSUME NEW o \in Builds
        PROVE  /\ build'[o].nodeOf \subseteq build'[o].new
               /\ \A e \in build'[o].links : {e.from, e.to} \subseteq Ids(build'[o].new)
               /\ \A m, n \in build'[o].new : m.id = n.id => m = n
    <3>1. CASE o = b
      BY <1>1, <1>4, <3>1 DEF GraphInv, NewIsPrivate
    <3>2. CASE o # b
      BY <1>1, <3>2 DEF GraphInv, NewIsPrivate
    <3>. QED
      BY <3>1, <3>2
  <2>4. ASSUME NEW o \in Builds, NEW i \in Ids(build'[o].new)
        PROVE  /\ i \notin Ids(nodes)' /\ \A q \in Readers : i \notin reader'[q].ids
               /\ \A e \in Linked' : i # e.from /\ i # e.to
               /\ \A p \in Builds : i \notin Ids(Seen(p))' /\ (p # o => i \notin Ids(build'[p].new))
    <3>1. i \in Ids(build[o].new)
      BY <2>2
    <3>2. /\ i \notin Ids(nodes) /\ \A q \in Readers : i \notin reader[q].ids
          /\ \A e \in Linked : i # e.from /\ i # e.to
          /\ \A p \in Builds : i \notin Ids(Seen(p)) /\ (p # o => i \notin Ids(build[p].new))
      BY <3>1 DEF GraphInv, NewIsPrivate
    <3>. QED
      BY <1>2, <1>3, <2>1, <2>2, <3>2
  <2>5. \A o \in Builds : Ids(build[o].new)' = Ids(build'[o].new)
    BY DEF Ids
  <2>. QED
    BY <2>3, <2>4, <2>5 DEF NewIsPrivate
<1>8. EdgesHoldTogether'
  BY <1>1, <1>2, <1>3 DEF GraphInv, EdgesHoldTogether, Together, NodesIn, Ids
<1>9. DeletedIsReplaced'
  BY <1>1, <1>2, <1>3, <1>4 DEF GraphInv, DeletedIsReplaced, NodesIn, ConceptsOf
<1>10. NoConceptLost'
  BY <1>2 DEF GraphInv, NoConceptLost, ConceptsOf
<1>. QED
  BY <1>5, <1>6, <1>7, <1>8, <1>9, <1>10 DEF GraphInv

\* What two snapshots share holds together if they do.
LEMMA SharedTogether ==
  ASSUME NEW S, NEW T, Together(Ids(S)), Together(Ids(T)),
         \A m \in S, n \in T : m.id = n.id => m = n
  PROVE  Together(Ids(S \cap T)) /\ Together(Ids(S \cup T)) /\ Together(Ids(S \ T))
<1>1. /\ Ids(S \cap T) = Ids(S) \cap Ids(T) /\ Ids(S \cup T) = Ids(S) \cup Ids(T)
      /\ Ids(S \ T) = Ids(S) \ Ids(T)
  BY DEF Ids
<1>. QED
  BY <1>1 DEF Together

LEMMA DeleteSteps ==
  ASSUME GraphInv, NEW b \in Builds,
         \/ StartDeleteEdges(b) \/ DeleteEdges(b) \/ StartDeleteNodes(b) \/ DeleteNodes(b)
         \/ AbortBuild(b)
  PROVE  GraphInv'
<1>0. /\ NodesIn(nodes) = nodes /\ NodesIn(edges) = {} /\ NodesIn({}) = {}
      /\ Together({}) /\ Ids({}) = {} /\ ConceptsOf({}) = {}
      /\ build[b] \in BuildRec
  BY NodesAreNoEdges DEF GraphInv, RowsTyped, NodesIn, Together, Ids, ConceptsOf
<1>1. CASE StartDeleteEdges(b)
  <2>. DEFINE r == [pc |-> "edges", target |-> edges, gone |-> {}, new |-> {}, nodeOf |-> {},
                    links |-> {}]
  <2>1. r \in BuildRec
    BY DEF GraphInv, RowsTyped, BuildRec
  <2>. QED
    BY <1>0, <1>1, <2>1, BuildSteps DEF StartDeleteEdges
<1>2. CASE DeleteEdges(b)
  <2>. DEFINE r == [pc |-> "delete-nodes", target |-> build[b].target,
                    gone |-> build[b].target \cap edges, new |-> {}, nodeOf |-> {}, links |-> {}]
  <2>1. r \in BuildRec
    BY <1>0 DEF BuildRec
  <2>2. NodesIn(r.gone) = {}
    BY <1>0 DEF NodesIn
  <2>. QED
    BY <1>0, <1>2, <2>1, <2>2, BuildSteps DEF DeleteEdges, Seen, GraphInv, EdgesHoldTogether
<1>3. CASE StartDeleteNodes(b)
  <2>. DEFINE r == [pc |-> "nodes", target |-> nodes, gone |-> build[b].gone, new |-> {},
                    nodeOf |-> {}, links |-> {}]
  <2>1. r \in BuildRec
    BY <1>0 DEF GraphInv, RowsTyped, BuildRec
  <2>. QED
    BY <1>0, <1>3, <2>1, BuildSteps
    DEF StartDeleteNodes, Seen, GraphInv, EdgesHoldTogether, DeletedIsReplaced
<1>4. CASE DeleteNodes(b)
  <2>. DEFINE deleted == NodesIn(build[b].target) \cap nodes
              r == [pc |-> "select", target |-> {}, new |-> {}, nodeOf |-> {}, links |-> {},
                    gone |-> build[b].gone \cup (build[b].target \cap nodes)]
  <2>1. r \in BuildRec
    BY <1>0 DEF BuildRec
  <2>2. NodesIn(r.gone) = NodesIn(build[b].gone) \cup deleted
    BY <1>0 DEF NodesIn
  <2>3. \A m \in nodes, n \in Seen(b) : m.id = n.id => m = n
    BY DEF GraphInv, IdsNameNodes
  <2>4. Together(Ids(deleted))
    BY <2>3, SharedTogether DEF GraphInv, EdgesHoldTogether, Seen
  <2>5. Together(Ids(NodesIn(r.gone)))
    BY <2>2, <2>3, <2>4, SharedTogether DEF GraphInv, EdgesHoldTogether, Seen
  <2>6. ConceptsOf(NodesIn(r.gone)) \subseteq Grounded
    BY <2>2 DEF GraphInv, DeletedIsReplaced, ConceptsOf
  <2>. QED
    BY <1>0, <1>4, <2>1, <2>2, <2>5, <2>6, BuildSteps DEF DeleteNodes, Seen
<1>5. CASE AbortBuild(b)
  <2>1. NoBuild \in BuildRec
    BY DEF NoBuild, BuildRec
  <2>. QED
    BY <1>0, <1>5, <2>1, BuildSteps DEF AbortBuild, NoBuild
<1>. QED
  BY <1>1, <1>2, <1>3, <1>4, <1>5

LEMMA RowsCounted == GraphInv => Cardinality(Rows) \in Nat
<1>. SUFFICES ASSUME GraphInv PROVE Cardinality(Rows) \in Nat
  OBVIOUS
<1>. DEFINE f == [r \in claimRows |-> <<r[1], r[2]>>]
<1>1. f \in Surjection(claimRows, Rows)
  BY DEF Rows, Surjection
<1>2. IsFiniteSet(claimRows)
  BY DEF GraphInv, RowsTyped
<1>. QED
  BY <1>1, <1>2, FS_Surjection, FS_CardinalityType

\* The ids of the inserted nodes are fresh, and each grounded concept has one.
LEMMA InsertNodesStep ==
  ASSUME GraphInv, NEW b \in Builds, InsertNodes(b)
  PROVE  GraphInv'
<1>1. PICK id \in [Rows -> lastId + 1 .. lastId'] :
        /\ \A r, q \in Rows : id[r] = id[q] => r = q
        /\ LET new == {[id |-> id[r], concept |-> r[1]] : r \in Rows} IN
           SetBuild(b, [pc |-> "pairs", target |-> {}, gone |-> build[b].gone, new |-> new,
             nodeOf |-> {n \in new : \A m \in new : m.concept = n.concept => m.id <= n.id},
             links |-> {}])
  BY DEF InsertNodes
<1>. DEFINE new == {[id |-> id[r], concept |-> r[1]] : r \in Rows}
            nodeOf == {n \in new : \A m \in new : m.concept = n.concept => m.id <= n.id}
            t == [pc |-> "pairs", target |-> {}, gone |-> build[b].gone, new |-> new,
                  nodeOf |-> nodeOf, links |-> {}]
<1>2. /\ UNCHANGED <<claimRows, nodes, edges, reader, shown>>
      /\ lastId \in Nat /\ lastId' \in Nat /\ lastId <= lastId'
  BY RowsCounted DEF InsertNodes, GraphInv, RowsTyped
<1>3. \A r \in Rows : id[r] \in Nat /\ lastId < id[r] /\ id[r] <= lastId' /\ r[1] \in Concepts
  BY <1>2 DEF Rows, GraphInv, RowsTyped
<1>4. /\ new \subseteq NodeRec
      /\ \A n \in new : n.id \in Nat /\ lastId < n.id /\ n.id <= lastId'
      /\ \A m, n \in new : m.id = n.id => m = n
  BY <1>1, <1>3 DEF NodeRec
<1>5. ConceptsOf(new) = Grounded
  <2>1. ASSUME NEW c \in ConceptsOf(new) PROVE c \in Grounded
    <3>1. PICK r \in Rows : c = r[1]
      BY DEF ConceptsOf
    <3>. QED
      BY <3>1 DEF Rows, Grounded
  <2>2. ASSUME NEW row \in claimRows PROVE row[1] \in ConceptsOf(new)
    <3>. DEFINE q == <<row[1], row[2]>>
                n == [id |-> id[q], concept |-> q[1]]
    <3>1. q \in Rows /\ q[1] = row[1]
      BY DEF Rows
    <3>2. n \in new /\ n.concept = row[1]
      BY <3>1
    <3>. QED
      BY <3>2 DEF ConceptsOf
  <2>. QED
    BY <2>1, <2>2 DEF Grounded
<1>6. t \in BuildRec
  <2>1. build[b].gone \subseteq NodeRec \cup EdgeRec
    BY DEF GraphInv, RowsTyped, BuildRec
  <2>. QED
    BY <1>4, <2>1 DEF BuildRec
<1>7. /\ build' \in [Builds -> BuildRec] /\ build'[b] = t
      /\ \A o \in Builds : o # b => build'[o] = build[o]
  BY <1>1, <1>6 DEF GraphInv, RowsTyped, SetBuild
<1>8. /\ t.new = new /\ t.nodeOf = nodeOf /\ t.links = {} /\ t.target = {}
      /\ t.gone = build[b].gone /\ nodeOf \subseteq new
  OBVIOUS
<1>. HIDE DEF new, nodeOf, t
<1>9. Linked' = Linked /\ Grounded' = Grounded /\ Ids(nodes)' = Ids(nodes)
  BY <1>2 DEF Linked, Grounded, Ids
<1>10. \A o \in Builds : Seen(o)' \subseteq Seen(o) /\ Ids(Seen(o))' \subseteq Ids(Seen(o))
  BY <1>7, <1>8 DEF Seen, NodesIn, Ids
<1>11. \A i \in Ids(new) : i \in Nat /\ lastId < i /\ i <= lastId'
  BY <1>4 DEF Ids
<1>12. \A o \in Builds : Ids(build[o].new)' = Ids(build'[o].new)
  BY DEF Ids
<1>13. RowsTyped'
  BY <1>2, <1>7 DEF GraphInv, RowsTyped
<1>14. IdsNameNodes'
  <2>1. 1 .. lastId \subseteq 1 .. lastId'
    BY <1>2
  <2>2. \A o \in Builds : Ids(build'[o].new) \subseteq 1 .. lastId'
    BY <1>2, <1>7, <1>8, <1>11, <2>1 DEF GraphInv, IdsNameNodes
  <2>. QED
    BY <1>2, <1>9, <1>10, <1>12, <2>1, <2>2 DEF GraphInv, IdsNameNodes
<1>15. NewIsPrivate'
  <2>1. /\ Ids(nodes) \subseteq 1 .. lastId
        /\ \A q \in Readers : reader[q].ids \subseteq 1 .. lastId
        /\ \A e \in Linked : {e.from, e.to} \subseteq 1 .. lastId
        /\ \A o \in Builds : Ids(build[o].new) \cup Ids(Seen(o)) \subseteq 1 .. lastId
    BY DEF GraphInv, IdsNameNodes
  <2>2. \A i \in Ids(new) : i \notin 1 .. lastId
    BY <1>2, <1>11
  <2>3. ASSUME NEW o \in Builds
        PROVE  /\ build'[o].nodeOf \subseteq build'[o].new
               /\ \A e \in build'[o].links : {e.from, e.to} \subseteq Ids(build'[o].new)
               /\ \A m, n \in build'[o].new : m.id = n.id => m = n
    BY <1>4, <1>7, <1>8 DEF GraphInv, NewIsPrivate
  <2>4. ASSUME NEW o \in Builds, NEW i \in Ids(build'[o].new)
        PROVE  /\ i \notin Ids(nodes)' /\ \A q \in Readers : i \notin reader'[q].ids
               /\ \A e \in Linked' : i # e.from /\ i # e.to
               /\ \A p \in Builds : i \notin Ids(Seen(p))' /\ (p # o => i \notin Ids(build'[p].new))
    <3>1. CASE o = b
      <4>1. i \in Ids(new)
        BY <1>7, <1>8, <3>1
      <4>. QED
        BY <1>2, <1>7, <1>9, <1>10, <2>1, <2>2, <3>1, <4>1
    <3>2. CASE o # b
      <4>1. i \in Ids(build[o].new) /\ i \notin Ids(new)
        BY <1>7, <2>1, <2>2, <3>2
      <4>2. /\ i \notin Ids(nodes) /\ \A q \in Readers : i \notin reader[q].ids
            /\ \A e \in Linked : i # e.from /\ i # e.to
            /\ \A p \in Builds : i \notin Ids(Seen(p)) /\ (p # o => i \notin Ids(build[p].new))
        BY <4>1 DEF GraphInv, NewIsPrivate
      <4>. QED
        BY <1>2, <1>7, <1>8, <1>9, <1>10, <4>1, <4>2
    <3>. QED
      BY <3>1, <3>2
  <2>. QED
    BY <1>12, <2>3, <2>4 DEF NewIsPrivate
<1>16. EdgesHoldTogether'
  <2>1. /\ NodesIn({}) = {} /\ Ids({}) = {}
    BY DEF NodesIn, Ids
  <2>. QED
    BY <1>2, <1>7, <1>8, <1>9, <2>1 DEF GraphInv, EdgesHoldTogether, Together, NodesIn, Ids
<1>17. DeletedIsReplaced'
  <2>1. \A o \in Builds : /\ ConceptsOf(NodesIn(build'[o].gone)) \subseteq Grounded
                          /\ ConceptsOf(build'[o].new) \subseteq Grounded
                          /\ build'[o].pc \in {"pairs", "commit"} =>
                               ConceptsOf(NodesIn(build'[o].gone)) \subseteq ConceptsOf(build'[o].new)
    BY <1>5, <1>7, <1>8 DEF GraphInv, DeletedIsReplaced
  <2>2. /\ ConceptsOf(nodes)' = ConceptsOf(nodes)
        /\ \A o \in Builds : /\ ConceptsOf(NodesIn(build[o].gone))' = ConceptsOf(NodesIn(build'[o].gone))
                             /\ ConceptsOf(build[o].new)' = ConceptsOf(build'[o].new)
    BY <1>2 DEF ConceptsOf, NodesIn
  <2>. QED
    BY <1>9, <2>1, <2>2 DEF GraphInv, DeletedIsReplaced
<1>18. NoConceptLost'
  BY <1>2 DEF GraphInv, NoConceptLost, ConceptsOf
<1>. QED
  BY <1>13, <1>14, <1>15, <1>16, <1>17, <1>18 DEF GraphInv

\* A build links the nodes it has inserted, and no others.
LEMMA InsertEdgesStep ==
  ASSUME GraphInv, NEW b \in Builds, InsertEdges(b)
  PROVE  GraphInv'
<1>. DEFINE pairs == build[b].nodeOf \X build[b].nodeOf
            r == [pc |-> "commit", target |-> {}, gone |-> build[b].gone, new |-> build[b].new,
                  nodeOf |-> build[b].nodeOf, links |-> Links(pairs)]
<1>1. /\ build[b] \in BuildRec /\ build[b].nodeOf \subseteq build[b].new
      /\ build[b].pc = "pairs" /\ SetBuild(b, r) /\ OnlyBuild
  BY DEF GraphInv, RowsTyped, NewIsPrivate, InsertEdges, BuildAt
<1>2. \A e \in Links(pairs) :
        /\ e \in EdgeRec
        /\ {e.from, e.to} \subseteq Ids(build[b].new)
  <2>1. ASSUME NEW e \in Links(pairs)
        PROVE  \E m, n \in build[b].new : e = [from |-> m.id, to |-> n.id]
    BY <1>1 DEF Links
  <2>2. \A n \in build[b].new : n.id \in Nat /\ n.id \in Ids(build[b].new)
    BY <1>1 DEF BuildRec, NodeRec, Ids
  <2>. QED
    BY <2>1, <2>2 DEF EdgeRec
<1>3. r \in BuildRec
  BY <1>1, <1>2 DEF BuildRec
<1>4. NodesIn(r.target) = {} /\ Together(Ids(NodesIn(r.target)))
  BY DEF NodesIn, Ids, Together
<1>5. /\ Together(Ids(NodesIn(build[b].gone))) /\ ConceptsOf(NodesIn(build[b].gone)) \subseteq Grounded
      /\ ConceptsOf(NodesIn(build[b].gone)) \subseteq ConceptsOf(build[b].new)
  BY <1>1 DEF GraphInv, EdgesHoldTogether, DeletedIsReplaced
<1>. QED
  BY <1>1, <1>2, <1>3, <1>4, <1>5, BuildSteps DEF Seen

\* The commit replaces the nodes of others by those of the build: what it
\* deletes are whole ends of edges, and what it adds nobody else has seen.
LEMMA CommitStep ==
  ASSUME GraphInv, NEW b \in Builds, CommitBuild(b)
  PROVE  GraphInv'
<1>. DEFINE gone == NodesIn(build[b].gone)
            new == build[b].new
            kept == nodes \ gone
<1>1. /\ build[b] \in BuildRec /\ nodes \subseteq NodeRec /\ edges \subseteq EdgeRec
      /\ build[b].pc = "commit"
  BY DEF GraphInv, RowsTyped, CommitBuild, BuildAt
<1>2. nodes' = kept \cup new
  BY <1>1 DEF CommitBuild, NodesIn
<1>3. /\ edges' \subseteq edges \cup build[b].links
      /\ \A e \in edges' : {e.from, e.to} \subseteq Ids(nodes')
      /\ UNCHANGED <<claimRows, lastId, reader>>
      /\ shown' = shown \cup ConceptsOf(new)
  BY DEF CommitBuild
<1>4. /\ build' \in [Builds -> BuildRec] /\ build'[b] = NoBuild
      /\ \A o \in Builds : o # b => build'[o] = build[o]
  <2>1. NoBuild \in BuildRec
    BY DEF NoBuild, BuildRec
  <2>. QED
    BY <2>1 DEF GraphInv, RowsTyped, CommitBuild, SetBuild
<1>5. /\ NoBuild.target = {} /\ NoBuild.gone = {} /\ NoBuild.new = {} /\ NoBuild.nodeOf = {}
      /\ NoBuild.links = {} /\ NoBuild.pc = "idle"
  BY DEF NoBuild
<1>6. Ids(nodes') = Ids(kept) \cup Ids(new) /\ Ids(nodes)' = Ids(nodes') /\ Ids(kept) \subseteq Ids(nodes)
  BY <1>2 DEF Ids
<1>7. Linked' \subseteq Linked \cup build[b].links
  BY <1>3 DEF Linked
<1>8. \A e \in build[b].links : {e.from, e.to} \subseteq Ids(new)
  BY DEF GraphInv, NewIsPrivate
<1>9. ASSUME NEW i \in Ids(new)
      PROVE  /\ i \notin Ids(nodes) /\ \A q \in Readers : i \notin reader[q].ids
             /\ \A e \in Linked : i # e.from /\ i # e.to
             /\ \A p \in Builds : i \notin Ids(Seen(p)) /\ (p # b => i \notin Ids(build[p].new))
  BY DEF GraphInv, NewIsPrivate
<1>10. \A o \in Builds : /\ Ids(build[o].new)' = Ids(build'[o].new) /\ Ids(Seen(o))' \subseteq Ids(Seen(o))
                        /\ Seen(o)' \subseteq Seen(o)
  BY <1>4, <1>5 DEF Ids, Seen, NodesIn
<1>. HIDE DEF gone, new, kept
<1>11. RowsTyped'
  <2>1. nodes' \subseteq NodeRec /\ edges' \subseteq EdgeRec
    BY <1>1, <1>2, <1>3 DEF BuildRec, kept, new
  <2>. QED
    BY <1>3, <1>4, <2>1 DEF GraphInv, RowsTyped
<1>12. IdsNameNodes'
  <2>1. Ids(new) \subseteq 1 .. lastId /\ Ids(kept) \subseteq 1 .. lastId
    BY <1>6 DEF GraphInv, IdsNameNodes, new
  <2>2. \A e \in Linked' : {e.from, e.to} \subseteq 1 .. lastId
    BY <1>7, <1>8, <2>1 DEF GraphInv, IdsNameNodes
  <2>3. \A o \in Builds : Ids(build'[o].new) \subseteq 1 .. lastId
    BY <1>4, <1>5 DEF GraphInv, IdsNameNodes, Ids
  <2>4. \A m \in new : m.id \in Ids(new)
    BY DEF Ids
  <2>5. \A m \in nodes : m.id \in Ids(nodes)
    BY DEF Ids
  <2>6. \A m, n \in nodes' : m.id = n.id => m = n
    <3>1. \A m, n \in new : m.id = n.id => m = n
      BY DEF GraphInv, NewIsPrivate, new
    <3>2. \A m, n \in kept : m.id = n.id => m = n
      BY DEF GraphInv, IdsNameNodes, kept
    <3>3. \A m \in kept, n \in new : m.id # n.id
      BY <1>9, <2>4, <2>5 DEF kept
    <3>. QED
      BY <1>2, <3>1, <3>2, <3>3
  <2>7. ASSUME NEW m \in nodes', NEW o \in Builds, NEW n \in Seen(o)', m.id = n.id
        PROVE  m = n
    <3>1. n \in Seen(o) /\ n.id \in Ids(Seen(o))
      BY <1>10 DEF Ids
    <3>2. CASE m \in new
      BY <1>9, <2>4, <2>7, <3>1, <3>2
    <3>3. CASE m \in kept
      BY <2>7, <3>1, <3>3 DEF GraphInv, IdsNameNodes, kept
    <3>. QED
      BY <1>2, <3>2, <3>3
  <2>8. \A o \in Builds : Ids(Seen(o))' \subseteq 1 .. lastId
    BY <1>10 DEF GraphInv, IdsNameNodes
  <2>9. \A q \in Readers : reader'[q].ids \subseteq 1 .. lastId
    BY <1>3 DEF GraphInv, IdsNameNodes
  <2>. QED
    BY <1>3, <1>6, <1>10, <2>1, <2>2, <2>3, <2>6, <2>7, <2>8, <2>9 DEF IdsNameNodes
<1>13. NewIsPrivate'
  <2>1. ASSUME NEW o \in Builds
        PROVE  /\ build'[o].nodeOf \subseteq build'[o].new
               /\ \A e \in build'[o].links : {e.from, e.to} \subseteq Ids(build'[o].new)
               /\ \A m, n \in build'[o].new : m.id = n.id => m = n
    BY <1>4, <1>5 DEF GraphInv, NewIsPrivate
  <2>2. ASSUME NEW o \in Builds, NEW i \in Ids(build'[o].new)
        PROVE  /\ i \notin Ids(nodes)' /\ \A q \in Readers : i \notin reader'[q].ids
               /\ \A e \in Linked' : i # e.from /\ i # e.to
               /\ \A p \in Builds : i \notin Ids(Seen(p))' /\ (p # o => i \notin Ids(build'[p].new))
    <3>0. Ids({}) = {}
      BY DEF Ids
    <3>1. o # b /\ i \in Ids(build[o].new)
      BY <1>4, <1>5, <3>0
    <3>2. /\ i \notin Ids(nodes) /\ \A q \in Readers : i \notin reader[q].ids
          /\ \A e \in Linked : i # e.from /\ i # e.to
          /\ \A p \in Builds : i \notin Ids(Seen(p)) /\ (p # o => i \notin Ids(build[p].new))
      BY <3>1 DEF GraphInv, NewIsPrivate
    <3>3. i \notin Ids(new)
      BY <3>1, <3>2 DEF new
    <3>4. \A e \in Linked' : i # e.from /\ i # e.to
      BY <1>7, <1>8, <3>2, <3>3
    <3>. QED
      BY <1>3, <1>4, <1>5, <1>6, <1>10, <3>0, <3>2, <3>3, <3>4
  <2>. QED
    BY <1>10, <2>1, <2>2 DEF NewIsPrivate
<1>14. EdgesHoldTogether'
  <2>1. ASSUME NEW X, Together(X), X \cap Ids(new) = {}
        PROVE  \A e \in Linked' : e.from \in X <=> e.to \in X
    BY <1>7, <1>8, <2>1 DEF Together
  <2>2. \A e \in Linked' : e.from \in Ids(nodes') <=> e.to \in Ids(nodes')
    <3>1. Together(Ids(kept))
      <4>1. \A m \in nodes, n \in gone : m.id = n.id => m = n
        BY DEF GraphInv, IdsNameNodes, Seen, gone
      <4>. QED
        BY <4>1, SharedTogether DEF GraphInv, EdgesHoldTogether, gone, kept
    <3>2. ASSUME NEW e \in Linked PROVE e.from \in Ids(nodes') <=> e.to \in Ids(nodes')
      BY <1>6, <1>9, <3>1 DEF Together
    <3>3. ASSUME NEW e \in build[b].links PROVE e.from \in Ids(nodes') <=> e.to \in Ids(nodes')
      BY <1>6, <1>8
    <3>. QED
      BY <1>7, <3>2, <3>3
  <2>3. \A q \in Readers : \A e \in Linked' : e.from \in reader'[q].ids <=> e.to \in reader'[q].ids
    <3>1. \A q \in Readers : Together(reader[q].ids) /\ reader[q].ids \cap Ids(new) = {}
      BY <1>9 DEF GraphInv, EdgesHoldTogether
    <3>. QED
      BY <1>3, <2>1, <3>1
  <2>4. ASSUME NEW o \in Builds
        PROVE  /\ \A e \in Linked' : LET X == Ids(NodesIn(build'[o].target)) IN e.from \in X <=> e.to \in X
               /\ \A e \in Linked' : LET X == Ids(NodesIn(build'[o].gone)) IN e.from \in X <=> e.to \in X
    <3>1. CASE o = b
      <4>1. /\ Ids(NodesIn(build'[o].target)) = {} /\ Ids(NodesIn(build'[o].gone)) = {}
        BY <1>4, <1>5, <3>1 DEF NodesIn, Ids
      <4>. QED
        BY <4>1
    <3>2. CASE o # b
      <4>. DEFINE X == Ids(NodesIn(build[o].target))
                  Y == Ids(NodesIn(build[o].gone))
      <4>1. X \subseteq Ids(Seen(o)) /\ Y \subseteq Ids(Seen(o))
        BY DEF Seen, Ids
      <4>2. X \cap Ids(new) = {} /\ Y \cap Ids(new) = {}
        BY <1>9, <4>1
      <4>3. Together(X) /\ Together(Y)
        BY DEF GraphInv, EdgesHoldTogether
      <4>4. build'[o] = build[o]
        BY <1>4, <3>2
      <4>. HIDE DEF X, Y
      <4>5. /\ \A e \in Linked' : e.from \in X <=> e.to \in X
            /\ \A e \in Linked' : e.from \in Y <=> e.to \in Y
        BY <2>1, <4>2, <4>3
      <4>. QED
        BY <4>4, <4>5 DEF X, Y
    <3>. QED
      BY <3>1, <3>2
  <2>5. \A o \in Builds : /\ Ids(NodesIn(build[o].target))' = Ids(NodesIn(build'[o].target))
                         /\ Ids(NodesIn(build[o].gone))' = Ids(NodesIn(build'[o].gone))
    BY DEF Ids, NodesIn
  <2>6. \A e \in edges' : {e.from, e.to} \subseteq Ids(nodes)'
    BY <1>3, <1>6
  <2>. QED
    BY <1>6, <2>2, <2>3, <2>4, <2>5, <2>6 DEF EdgesHoldTogether, Together
<1>15. ConceptsOf(nodes)' = ConceptsOf(kept) \cup ConceptsOf(new) /\ Grounded' = Grounded
  BY <1>2, <1>3 DEF ConceptsOf, Grounded
<1>16. DeletedIsReplaced'
  <2>1. ConceptsOf(nodes)' \subseteq Grounded
    BY <1>15 DEF GraphInv, DeletedIsReplaced, ConceptsOf, kept, new
  <2>2. \A o \in Builds : /\ ConceptsOf(NodesIn(build[o].gone))' = ConceptsOf(NodesIn(build'[o].gone))
                         /\ ConceptsOf(build[o].new)' = ConceptsOf(build'[o].new)
    BY DEF ConceptsOf, NodesIn
  <2>3. ConceptsOf({}) = {} /\ NodesIn({}) = {}
    BY DEF ConceptsOf, NodesIn
  <2>. QED
    BY <1>4, <1>5, <1>15, <2>1, <2>2, <2>3 DEF GraphInv, DeletedIsReplaced
<1>17. NoConceptLost'
  <2>1. ConceptsOf(gone) \subseteq ConceptsOf(new)
    BY <1>1 DEF GraphInv, DeletedIsReplaced, gone, new
  <2>2. ConceptsOf(nodes) \subseteq ConceptsOf(kept) \cup ConceptsOf(gone)
    BY DEF ConceptsOf, kept
  <2>. QED
    BY <1>3, <1>15, <2>1, <2>2 DEF GraphInv, NoConceptLost
<1>. QED
  BY <1>11, <1>12, <1>13, <1>14, <1>16, <1>17 DEF GraphInv

\* No node becomes known while nodes and builds stay as they are.
LEMMA PrivateStays ==
  ASSUME NewIsPrivate, UNCHANGED <<nodes, build>>, Linked' \subseteq Linked,
         \A q \in Readers : reader'[q].ids \in {reader[q].ids, Ids(nodes), {}}
  PROVE  NewIsPrivate'
<1>1. /\ Ids(nodes)' = Ids(nodes)
      /\ \A o \in Builds : Ids(Seen(o))' = Ids(Seen(o)) /\ Ids(build[o].new)' = Ids(build'[o].new)
  BY DEF Ids, Seen, NodesIn
<1>2. ASSUME NEW b \in Builds, NEW i \in Ids(build'[b].new)
      PROVE  /\ i \notin Ids(nodes)' /\ \A q \in Readers : i \notin reader'[q].ids
             /\ \A e \in Linked' : i # e.from /\ i # e.to
             /\ \A p \in Builds : i \notin Ids(Seen(p))' /\ (p # b => i \notin Ids(build'[p].new))
  <2>1. /\ i \notin Ids(nodes) /\ \A q \in Readers : i \notin reader[q].ids
        /\ \A e \in Linked : i # e.from /\ i # e.to
        /\ \A p \in Builds : i \notin Ids(Seen(p)) /\ (p # b => i \notin Ids(build[p].new))
    BY DEF NewIsPrivate
  <2>. QED
    BY <1>1, <2>1
<1>3. ASSUME NEW b \in Builds
      PROVE  /\ build'[b].nodeOf \subseteq build'[b].new
             /\ \A e \in build'[b].links : {e.from, e.to} \subseteq Ids(build'[b].new)
             /\ \A m, n \in build'[b].new : m.id = n.id => m = n
  BY DEF NewIsPrivate
<1>. QED
  BY <1>1, <1>2, <1>3 DEF NewIsPrivate

LEMMA GroundStep ==
  ASSUME GraphInv, GroundClaim
  PROVE  GraphInv'
<1>1. PICK row \in Concepts \X Labels \X Documents : claimRows' = claimRows \cup {row}
  BY DEF GroundClaim
<1>2. UNCHANGED <<nodes, edges, lastId, build, reader, shown>>
  BY DEF GroundClaim
<1>3. RowsTyped'
  BY <1>1, <1>2, FS_AddElement DEF GraphInv, RowsTyped
<1>4. Grounded \subseteq Grounded'
  BY <1>1 DEF Grounded
<1>5. DeletedIsReplaced'
  BY <1>2, <1>4 DEF GraphInv, DeletedIsReplaced, ConceptsOf, NodesIn
<1>6. Linked' = Linked
  BY <1>2 DEF Linked
<1>7. IdsNameNodes'
  BY <1>2, <1>6 DEF GraphInv, IdsNameNodes, Seen, NodesIn, Ids
<1>8. NewIsPrivate'
  BY <1>2, <1>6, PrivateStays DEF GraphInv
<1>9. EdgesHoldTogether' /\ NoConceptLost'
  BY <1>2, <1>6 DEF GraphInv, EdgesHoldTogether, Together, NodesIn, Ids, NoConceptLost, ConceptsOf
<1>. QED
  BY <1>3, <1>5, <1>7, <1>8, <1>9 DEF GraphInv

\* What a reader knows are ids of nodes and edges that were committed.
LEMMA ReaderSteps ==
  ASSUME GraphInv, UNCHANGED <<claimRows, nodes, edges, lastId, build, shown>>,
         reader' \in [Readers -> ReadRec],
         \A q \in Readers : /\ reader'[q].ids \in {reader[q].ids, Ids(nodes), {}}
                           /\ reader'[q].pairs \in {reader[q].pairs, edges, {}}
  PROVE  GraphInv'
<1>1. Linked' \subseteq Linked
  BY DEF Linked
<1>2. RowsTyped'
  BY DEF GraphInv, RowsTyped
<1>3. DeletedIsReplaced' /\ NoConceptLost'
  BY DEF GraphInv, DeletedIsReplaced, NoConceptLost, Grounded, ConceptsOf, NodesIn
<1>4. /\ Ids(nodes)' = Ids(nodes)
      /\ \A o \in Builds : /\ Seen(o)' = Seen(o) /\ Ids(Seen(o))' = Ids(Seen(o))
                           /\ Ids(build[o].new)' = Ids(build[o].new)
                           /\ Ids(NodesIn(build[o].target))' = Ids(NodesIn(build[o].target))
                           /\ Ids(NodesIn(build[o].gone))' = Ids(NodesIn(build[o].gone))
  BY DEF Ids, Seen, NodesIn
<1>5. IdsNameNodes'
  BY <1>1, <1>4 DEF GraphInv, IdsNameNodes
<1>6. NewIsPrivate'
  BY <1>1, PrivateStays DEF GraphInv
<1>7. EdgesHoldTogether'
  <2>1. ASSUME NEW X, Together(X) PROVE \A e \in Linked' : e.from \in X <=> e.to \in X
    BY <1>1, <2>1 DEF Together
  <2>2. Together({})
    BY DEF Together
  <2>3. \A q \in Readers : Together(reader'[q].ids)
    BY <2>2 DEF GraphInv, EdgesHoldTogether
  <2>4. \A q \in Readers : \A e \in Linked' : e.from \in reader'[q].ids <=> e.to \in reader'[q].ids
    BY <2>1, <2>3
  <2>5. \A e \in Linked' : e.from \in Ids(nodes) <=> e.to \in Ids(nodes)
    BY <2>1 DEF GraphInv, EdgesHoldTogether
  <2>6. ASSUME NEW o \in Builds
        PROVE  \A e \in Linked' :
                 /\ e.from \in Ids(NodesIn(build[o].target)) <=> e.to \in Ids(NodesIn(build[o].target))
                 /\ e.from \in Ids(NodesIn(build[o].gone)) <=> e.to \in Ids(NodesIn(build[o].gone))
    BY <2>1 DEF GraphInv, EdgesHoldTogether
  <2>7. \A e \in edges' : {e.from, e.to} \subseteq Ids(nodes)'
    BY <1>4 DEF GraphInv, EdgesHoldTogether
  <2>. QED
    BY <1>4, <2>4, <2>5, <2>6, <2>7 DEF EdgesHoldTogether, Together
<1>. QED
  BY <1>2, <1>3, <1>5, <1>6, <1>7 DEF GraphInv

LEMMA ReaderStep ==
  ASSUME GraphInv, NEW r \in Readers, ReadNodes(r) \/ ReadEdges(r) \/ Answer(r)
  PROVE  GraphInv'
<1>1. /\ reader \in [Readers -> ReadRec] /\ reader[r] \in ReadRec /\ edges \subseteq EdgeRec
      /\ Ids(nodes) \subseteq Nat
  BY DEF GraphInv, RowsTyped, Ids, NodeRec
<1>2. UNCHANGED <<claimRows, nodes, edges, lastId, build, shown>>
  BY DEF ReadNodes, ReadEdges, Answer
<1>3. PICK t \in ReadRec : /\ reader' = [reader EXCEPT ![r] = t]
                          /\ t.ids \in {reader[r].ids, Ids(nodes), {}}
                          /\ t.pairs \in {edges, {}}
  <2>1. CASE ReadNodes(r)
    <3>. DEFINE t == [pc |-> "edges", ids |-> Ids(nodes), pairs |-> {}]
    <3>1. t \in ReadRec
      BY <1>1 DEF ReadRec
    <3>. QED
      BY <2>1, <3>1 DEF ReadNodes
  <2>2. CASE ReadEdges(r)
    <3>. DEFINE t == [pc |-> "compute", ids |-> reader[r].ids, pairs |-> edges]
    <3>1. t \in ReadRec
      BY <1>1 DEF ReadRec
    <3>. QED
      BY <2>2, <3>1 DEF ReadEdges
  <2>3. CASE Answer(r)
    <3>1. NoRead \in ReadRec /\ NoRead.ids = {} /\ NoRead.pairs = {}
      BY DEF NoRead, ReadRec
    <3>. QED
      BY <2>3, <3>1 DEF Answer
  <2>. QED
    BY <2>1, <2>2, <2>3
<1>4. reader' \in [Readers -> ReadRec]
  BY <1>1, <1>3
<1>5. \A q \in Readers : /\ reader'[q].ids \in {reader[q].ids, Ids(nodes), {}}
                        /\ reader'[q].pairs \in {reader[q].pairs, edges, {}}
  BY <1>1, <1>3
<1>. QED
  BY <1>2, <1>4, <1>5, ReaderSteps

LEMMA GraphAlways == GraphSpec => []GraphInv
<1>1. ASSUME GraphInv, [GraphNext]_gvars PROVE GraphInv'
  <2>1. CASE GroundClaim
    BY <1>1, <2>1, GroundStep
  <2>2. ASSUME NEW b \in Builds, \/ StartDeleteEdges(b) \/ DeleteEdges(b) \/ StartDeleteNodes(b)
                                  \/ DeleteNodes(b) \/ AbortBuild(b)
        PROVE  GraphInv'
    BY <1>1, <2>2, DeleteSteps
  <2>3. ASSUME NEW b \in Builds, InsertNodes(b) \/ InsertEdges(b) \/ CommitBuild(b)
        PROVE  GraphInv'
    BY <1>1, <2>3, InsertNodesStep, InsertEdgesStep, CommitStep
  <2>4. ASSUME NEW r \in Readers, ReadNodes(r) \/ ReadEdges(r) \/ Answer(r) PROVE GraphInv'
    BY <1>1, <2>4, ReaderStep
  <2>5. CASE UNCHANGED gvars
    <3>1. UNCHANGED <<claimRows, nodes, edges, lastId, build, shown>> /\ UNCHANGED reader
      BY <2>5 DEF gvars
    <3>. QED
      BY <1>1, <3>1, ReaderSteps DEF GraphInv, RowsTyped
  <2>. QED
    BY <1>1, <2>1, <2>2, <2>3, <2>4, <2>5 DEF GraphNext
<1>. QED
  BY <1>1, GraphStart, PTL DEF GraphSpec

\* Claims, nodes, edges, builds and readers keep their types, and the edges
\* of the graph join its nodes (graph.rs build_graph).
THEOREM GraphTyped == GraphSpec => []GraphTypeOK
<1>1. ASSUME GraphInv PROVE GraphTypeOK
  <2>1. ConceptsOf(nodes) \subseteq Concepts
    BY <1>1 DEF GraphInv, RowsTyped, NodeRec, ConceptsOf
  <2>. QED
    BY <1>1, <2>1
    DEF GraphInv, RowsTyped, IdsNameNodes, EdgesHoldTogether, GraphTypeOK, BuildRec, ReadRec
<1>. QED
  BY <1>1, GraphAlways, PTL

\* However builds overlap, a concept that a committed build has shown keeps a
\* node: what a build deletes it has replaced when it commits (graph.rs
\* build_graph).
THEOREM ConceptsKept == GraphSpec => []NoConceptLost
<1>1. GraphInv => NoConceptLost
  BY DEF GraphInv
<1>. QED
  BY <1>1, GraphAlways, PTL

\* Though a reader takes nodes and edges from two snapshots, every edge it has
\* read has both its ends, or neither, among the nodes (graph.rs adjacency).
THEOREM NeighboursRead == GraphSpec => []NeighboursAreNodes
<1>1. ASSUME GraphInv PROVE NeighboursAreNodes
  BY <1>1 DEF GraphInv, EdgesHoldTogether, Together, Linked, NeighboursAreNodes
<1>. QED
  BY <1>1, GraphAlways, PTL
-----------------------------------------------------------------------------
(* Ontology *)

Embedded == {v.code : v \in vectors}

\* A run holds what it knew at its start; the concepts are finitely many, and
\* neither a concept nor a vector is ever deleted.
EmbedInv ==
  /\ IsFiniteSet(DOMAIN concepts)
  /\ DOMAIN embedding = Embedders
  /\ \A e \in Embedders :
       \/ embedding[e] = Resting
       \/ /\ embedding[e] = [step |-> embedding[e].step, known |-> embedding[e].known,
                             batch |-> embedding[e].batch]
          /\ embedding[e].step \in {"insert", "next", "done"}
          /\ embedding[e].known \subseteq DOMAIN concepts
  /\ EmbedRunIsComplete

\* One embedder moves from a state of EmbedInv while concepts and vectors stay
\* or grow.
LEMMA EmbedderMoves ==
  ASSUME EmbedInv, NEW e \in Embedders, NEW r,
         embedding' = [embedding EXCEPT ![e] = r],
         concepts' = concepts, Embedded \subseteq Embedded',
         \/ r = Resting
         \/ /\ r = [step |-> r.step, known |-> r.known, batch |-> r.batch]
            /\ r.step \in {"insert", "next", "done"}
            /\ r.known \subseteq DOMAIN concepts
            /\ r.step = "done" => r.known \subseteq Embedded'
  PROVE  EmbedInv'
<1>1. DOMAIN embedding' = Embedders /\ embedding'[e] = r
  BY DEF EmbedInv
<1>2. \A f \in Embedders : f # e => embedding'[f] = embedding[f]
  BY DEF EmbedInv
<1>3. Resting.step = "idle"
  BY DEF Resting
<1>4. \A f \in Embedders : embedding'[f].step = "done" => embedding'[f].known \subseteq Embedded'
  BY <1>1, <1>2, <1>3 DEF EmbedInv, EmbedRunIsComplete, Embedded
<1>5. EmbedRunIsComplete'
  BY <1>4 DEF EmbedRunIsComplete, Embedded
<1>6. \A f \in Embedders :
        \/ embedding'[f] = Resting
        \/ /\ embedding'[f] = [step |-> embedding'[f].step, known |-> embedding'[f].known,
                               batch |-> embedding'[f].batch]
           /\ embedding'[f].step \in {"insert", "next", "done"}
           /\ embedding'[f].known \subseteq DOMAIN concepts'
  BY <1>1, <1>2 DEF EmbedInv
<1>. QED
  BY <1>1, <1>5, <1>6 DEF EmbedInv

\* The anti-join returns nothing only when every concept has a vector.
LEMMA EmptyBatch ==
  ASSUME IsFiniteSet(DOMAIN concepts), {} \in BatchesOf(Unembedded)
  PROVE  DOMAIN concepts \subseteq Embedded
<1>1. IsFiniteSet(Unembedded)
  BY FS_Subset DEF Unembedded
<1>2. Cardinality({}) = 0 /\ Cardinality(Unembedded) \in Nat
  BY <1>1, FS_EmptySet, FS_CardinalityType
<1>3. Cardinality({}) = IF Cardinality(Unembedded) < EmbedBatch
                        THEN Cardinality(Unembedded) ELSE EmbedBatch
  BY DEF BatchesOf
<1>4. Cardinality(Unembedded) = 0
  BY <1>2, <1>3, OntologyAssumption
<1>5. Unembedded = {}
  BY <1>1, <1>4, FS_EmptySet
<1>. QED
  BY <1>5 DEF Unembedded, Embedded

LEMMA EmbedStep ==
  ASSUME EmbedInv, NEW e \in Embedders,
         EmbedFetch(e) \/ EmbedInsert(e) \/ EmbedFails(e) \/ EmbedAgain(e)
  PROVE  EmbedInv'
<1>1. CASE EmbedFetch(e)
  <2>. DEFINE known == IF embedding[e].step = "idle" THEN DOMAIN concepts ELSE embedding[e].known
              Fetched(batch) == [step |-> IF batch = {} THEN "done" ELSE "insert",
                                 known |-> known, batch |-> [c \in batch |-> concepts[c]]]
  <2>1. PICK batch \in BatchesOf(Unembedded) :
          embedding' = [embedding EXCEPT ![e] = Fetched(batch)]
    BY <1>1 DEF EmbedFetch
  <2>2. UNCHANGED <<concepts, vectors>>
    BY <1>1 DEF EmbedFetch, tables
  <2>3. known \subseteq DOMAIN concepts
    BY <1>1 DEF EmbedFetch, EmbedInv, Resting
  <2>4. batch = {} => DOMAIN concepts \subseteq Embedded
    BY <2>1, EmptyBatch DEF EmbedInv
  <2>5. Embedded' = Embedded
    BY <2>2 DEF Embedded
  <2>6. PICK r : r = Fetched(batch)
    OBVIOUS
  <2>7. r.step = (IF batch = {} THEN "done" ELSE "insert") /\ r.known = known
        /\ r = [step |-> r.step, known |-> r.known, batch |-> r.batch]
    BY <2>6
  <2>8. r.step = "done" => r.known \subseteq Embedded'
    BY <2>3, <2>4, <2>5, <2>7
  <2>9. embedding' = [embedding EXCEPT ![e] = r]
    BY <2>1, <2>6
  <2>. HIDE DEF known, Fetched
  <2>. QED
    BY <2>2, <2>3, <2>5, <2>7, <2>8, <2>9, EmbedderMoves
<1>2. CASE EmbedInsert(e)
  <2>0. PICK c \in DOMAIN embedding[e].batch :
          LET left == Restrict(embedding[e].batch, DOMAIN embedding[e].batch \ {c})
          IN  /\ vectors' = vectors \cup
                   {[code |-> c, text |-> embedding[e].batch[c], by |-> e]}
              /\ embedding' = [embedding EXCEPT ![e] =
                   [step |-> IF DOMAIN left = {} THEN "next" ELSE "insert",
                    known |-> embedding[e].known, batch |-> left]]
    BY <1>2 DEF EmbedInsert
  <2>. DEFINE left == Restrict(embedding[e].batch, DOMAIN embedding[e].batch \ {c})
              s == IF DOMAIN left = {} THEN "next" ELSE "insert"
  <2>1. /\ s \in {"next", "insert"}
        /\ vectors \subseteq vectors'
        /\ embedding' = [embedding EXCEPT ![e] =
             [step |-> s, known |-> embedding[e].known, batch |-> left]]
    BY <2>0
  <2>. HIDE DEF left, s
  <2>2. concepts' = concepts /\ embedding[e].step = "insert"
    BY <1>2 DEF EmbedInsert
  <2>3. Embedded \subseteq Embedded'
    BY <2>1 DEF Embedded
  <2>4. embedding[e].known \subseteq DOMAIN concepts
    BY <2>2 DEF EmbedInv, Resting
  <2>. DEFINE r == [step |-> s, known |-> embedding[e].known, batch |-> left]
  <2>5. r.step # "done" /\ r.step \in {"insert", "next", "done"} /\ r.known = embedding[e].known
        /\ r = [step |-> r.step, known |-> r.known, batch |-> r.batch]
    BY <2>1
  <2>6. embedding' = [embedding EXCEPT ![e] = r]
    BY <2>1
  <2>. HIDE DEF r
  <2>. QED
    BY <2>2, <2>3, <2>4, <2>5, <2>6, EmbedderMoves
<1>3. CASE EmbedFails(e) \/ EmbedAgain(e)
  <2>1. /\ embedding' = [embedding EXCEPT ![e] = Resting]
        /\ UNCHANGED <<concepts, vectors>>
    BY <1>3 DEF EmbedFails, EmbedAgain, tables
  <2>2. Embedded' = Embedded
    BY <2>1 DEF Embedded
  <2>. QED
    BY <2>1, <2>2, EmbedderMoves
<1>. QED
  BY <1>1, <1>2, <1>3

\* An import adds a concept or changes its text, and leaves the vectors alone.
LEMMA ImportStep ==
  ASSUME EmbedInv, UNCHANGED <<vectors, embedding>>,
         DOMAIN concepts' = DOMAIN concepts \/ \E n : DOMAIN concepts' = DOMAIN concepts \cup {n}
  PROVE  EmbedInv'
<1>1. IsFiniteSet(DOMAIN concepts') /\ DOMAIN concepts \subseteq DOMAIN concepts'
  BY FS_AddElement DEF EmbedInv
<1>2. EmbedRunIsComplete'
  BY DEF EmbedInv, EmbedRunIsComplete
<1>. QED
  BY <1>1, <1>2 DEF EmbedInv

LEMMA EmbedStart == OntologyInit => EmbedInv
<1>1. SUFFICES ASSUME OntologyInit PROVE EmbedInv
  OBVIOUS
<1>2. DOMAIN concepts = {} /\ embedding = [e \in Embedders |-> Resting]
  BY <1>1 DEF OntologyInit
<1>3. IsFiniteSet(DOMAIN concepts)
  BY <1>2, FS_EmptySet
<1>. QED
  BY <1>2, <1>3 DEF EmbedInv, EmbedRunIsComplete, Resting

LEMMA EmbedKept == ASSUME EmbedInv, [OntologyNext]_ontologyvars PROVE EmbedInv'
<1>1. ASSUME NEW e \in Embedders,
             EmbedFetch(e) \/ EmbedInsert(e) \/ EmbedFails(e) \/ EmbedAgain(e)
      PROVE  EmbedInv'
  BY <1>1, EmbedStep
<1>2. ASSUME NEW i \in Importers, UpsertConcept(i) PROVE EmbedInv'
  <2>1. /\ UNCHANGED <<vectors, embedding>>
        /\ \E n : DOMAIN concepts' = DOMAIN concepts \cup {n}
    BY <1>2 DEF UpsertConcept
  <2>. QED
    BY <2>1, ImportStep
<1>3. ASSUME NEW i \in Importers, \/ ImportStart(i) \/ UpsertEdge(i) \/ ImportFails(i)
                                  \/ Refuse(i) \/ Register(i)
      PROVE  EmbedInv'
  BY <1>3, ImportStep
  DEF ImportStart, UpsertEdge, ImportFails, Refuse, Register, tables
<1>4. CASE CreateOntology \/ PutSchema \/ DeleteOntology \/ UNCHANGED ontologyvars
  BY <1>4, ImportStep DEF CreateOntology, PutSchema, DeleteOntology, ontologyvars
<1>. QED
  BY <1>1, <1>2, <1>3, <1>4 DEF OntologyNext

LEMMA EmbedAlways == OntologySpec => []EmbedInv
<1>1. EmbedInv /\ [OntologyNext]_ontologyvars => EmbedInv'
  BY EmbedKept
<1>. QED
  BY <1>1, EmbedStart, PTL DEF OntologySpec

\* A run of embed_concepts that ends leaves no concept of its start without a
\* vector, whatever other runs and imports do meanwhile and wherever it was
\* resumed (ontology.rs embed_concepts).
THEOREM EmbedComplete == OntologySpec => []EmbedRunIsComplete
<1>1. EmbedInv => EmbedRunIsComplete
  BY DEF EmbedInv
<1>. QED
  BY <1>1, EmbedAlways, PTL

\* What an import has upserted is there, so its edges join concepts.
ImportOk(q) ==
  \/ q = Resting
  \/ /\ q = [step |-> "concepts", doc |-> q.doc, slug |-> q.slug, upserted |-> q.upserted,
             wired |-> q.wired]
     /\ q.doc \in Releases
     /\ \A k \in q.upserted : q.doc.nodes[k].code \in DOMAIN concepts

ReferInv ==
  /\ EmbedInv
  /\ OntologyTypeOK /\ IsFiniteSet(catalogue)
  /\ DOMAIN importing = Importers
  /\ \A i \in Importers : ImportOk(importing[i])
  /\ \A e \in Embedders :
       embedding[e].step = "insert" => DOMAIN embedding[e].batch \subseteq DOMAIN concepts

\* Rows of concepts that stay or grow, with the rest kept.
LEMMA ConceptsGrow ==
  ASSUME ReferInv, EmbedInv',
         DOMAIN concepts \subseteq DOMAIN concepts',
         DOMAIN concepts' \subseteq Codes, Range(concepts') \subseteq Texts,
         isA' \subseteq (DOMAIN concepts') \X (DOMAIN concepts'),
         {v.code : v \in vectors'} \subseteq DOMAIN concepts',
         IsFiniteSet(catalogue'), Cardinality(catalogue') <= MaxCatalogue,
         DOMAIN importing' = Importers,
         \A i \in Importers : importing'[i] = importing[i] \/ ImportOk(importing[i])',
         \A e \in Embedders : embedding'[e].step = "insert" =>
            embedding'[e] = embedding[e] \/ DOMAIN embedding'[e].batch \subseteq DOMAIN concepts'
  PROVE  ReferInv'
<1>1. \A i \in Importers : ImportOk(importing[i])'
  BY DEF ReferInv, ImportOk
<1>2. \A e \in Embedders :
        embedding'[e].step = "insert" => DOMAIN embedding'[e].batch \subseteq DOMAIN concepts'
  BY DEF ReferInv
<1>3. OntologyTypeOK'
  BY DEF OntologyTypeOK
<1>. QED
  BY <1>1, <1>2, <1>3 DEF ReferInv

\* One importer moves; concepts, edges and catalogue are kept.
LEMMA ImporterMoves ==
  ASSUME ReferInv, EmbedInv', NEW i \in Importers, NEW q,
         importing' = [importing EXCEPT ![i] = q], ImportOk(q),
         UNCHANGED <<concepts, vectors, embedding>>,
         isA' \subseteq (DOMAIN concepts) \X (DOMAIN concepts),
         IsFiniteSet(catalogue'), Cardinality(catalogue') <= MaxCatalogue
  PROVE  ReferInv'
<1>1. /\ DOMAIN importing' = Importers /\ importing'[i] = q
      /\ \A k \in Importers : k # i => importing'[k] = importing[k]
  BY DEF ReferInv
<1>2. ImportOk(importing[i])'
  BY <1>1 DEF ImportOk
<1>. QED
  BY <1>1, <1>2, ConceptsGrow DEF ReferInv, OntologyTypeOK

LEMMA OneMoreRow ==
  ASSUME IsFiniteSet(catalogue), Cardinality(catalogue) < MaxCatalogue, NEW row
  PROVE  /\ IsFiniteSet(catalogue \cup {row})
         /\ Cardinality(catalogue \cup {row}) <= MaxCatalogue
<1>1. Cardinality(catalogue) \in Nat /\ MaxCatalogue \in Nat
  BY FS_CardinalityType, OntologyAssumption
<1>2. /\ IsFiniteSet(catalogue \cup {row})
      /\ \/ Cardinality(catalogue \cup {row}) = Cardinality(catalogue)
         \/ Cardinality(catalogue \cup {row}) = Cardinality(catalogue) + 1
  BY FS_AddElement
<1>. DEFINE a == Cardinality(catalogue)
            b == Cardinality(catalogue \cup {row})
<1>3. a \in Nat /\ MaxCatalogue \in Nat /\ a < MaxCatalogue /\ (b = a \/ b = a + 1)
  BY <1>1, <1>2
<1>4. b <= MaxCatalogue
  <2>. HIDE DEF a, b
  <2>. QED
    BY <1>3
<1>. QED
  BY <1>2, <1>4

LEMMA CatalogueStep ==
  ASSUME ReferInv, EmbedInv', CreateOntology \/ PutSchema \/ DeleteOntology
  PROVE  ReferInv'
<1>1. /\ IsFiniteSet(catalogue) /\ Cardinality(catalogue) <= MaxCatalogue
      /\ Cardinality(catalogue) \in Nat /\ MaxCatalogue \in Nat
  BY FS_CardinalityType, OntologyAssumption DEF ReferInv, OntologyTypeOK
<1>2. UNCHANGED <<concepts, isA, vectors, importing, embedding>>
  BY DEF CreateOntology, PutSchema, DeleteOntology
<1>3. ASSUME NEW row \in catalogue
      PROVE  /\ IsFiniteSet(catalogue \ {row})
             /\ Cardinality(catalogue \ {row}) = Cardinality(catalogue) - 1
  BY <1>1, FS_RemoveElement
<1>4. IsFiniteSet(catalogue') /\ Cardinality(catalogue') <= MaxCatalogue
  <2>1. CASE CreateOntology
    BY <1>1, <2>1, OneMoreRow DEF CreateOntology
  <2>2. CASE PutSchema
    <3>1. PICK row \in catalogue : \E new : catalogue' = (catalogue \ {row}) \cup {new}
      BY <2>2 DEF PutSchema
    <3>2. /\ IsFiniteSet(catalogue')
          /\ \/ Cardinality(catalogue') = Cardinality(catalogue \ {row})
             \/ Cardinality(catalogue') = Cardinality(catalogue \ {row}) + 1
      BY <1>3, <3>1, FS_AddElement
    <3>. DEFINE a == Cardinality(catalogue)
                b == Cardinality(catalogue \ {row})
                c == Cardinality(catalogue')
    <3>3. /\ a \in Nat /\ MaxCatalogue \in Nat /\ a <= MaxCatalogue
          /\ b = a - 1 /\ (c = b \/ c = b + 1)
      BY <1>1, <1>3, <3>2
    <3>4. c <= MaxCatalogue
      <4>. HIDE DEF a, b, c
      <4>. QED
        BY <3>3
    <3>. QED
      BY <3>2, <3>4
  <2>3. CASE DeleteOntology
    BY <1>1, <1>3, <2>3 DEF DeleteOntology
  <2>. QED
    BY <2>1, <2>2, <2>3
<1>. QED
  BY <1>2, <1>4, ConceptsGrow DEF ReferInv, OntologyTypeOK

LEMMA ImporterStep ==
  ASSUME ReferInv, EmbedInv', NEW i \in Importers,
         \/ ImportStart(i) \/ UpsertConcept(i) \/ UpsertEdge(i) \/ ImportFails(i)
         \/ Refuse(i) \/ Register(i)
  PROVE  ReferInv'
<1>. DEFINE q == importing[i]
<1>0. /\ isA \subseteq (DOMAIN concepts) \X (DOMAIN concepts)
      /\ IsFiniteSet(catalogue) /\ Cardinality(catalogue) <= MaxCatalogue
      /\ Resting.step = "idle" /\ ImportOk(q)
  BY DEF ReferInv, OntologyTypeOK, Resting
<1>1. CASE ImportStart(i)
  <2>1. PICK doc \in Releases, slug \in Slugs :
          importing' = [importing EXCEPT ![i] =
            [step |-> "concepts", doc |-> doc, slug |-> slug, upserted |-> {}, wired |-> {}]]
    BY <1>1 DEF ImportStart
  <2>2. ImportOk([step |-> "concepts", doc |-> doc, slug |-> slug, upserted |-> {}, wired |-> {}])
    BY DEF ImportOk
  <2>3. UNCHANGED <<concepts, isA, vectors, catalogue, embedding>>
    BY <1>1 DEF ImportStart, tables
  <2>. QED
    BY <1>0, <2>1, <2>2, <2>3, ImporterMoves
<1>2. CASE ImportFails(i) \/ Refuse(i)
  <2>1. /\ importing' = [importing EXCEPT ![i] = Resting]
        /\ UNCHANGED <<concepts, isA, vectors, catalogue, embedding>>
    BY <1>2 DEF ImportFails, Refuse, tables
  <2>. QED
    BY <1>0, <2>1, ImporterMoves DEF ImportOk
<1>3. CASE Register(i)
  <2>1. /\ importing' = [importing EXCEPT ![i] = Resting]
        /\ UNCHANGED <<concepts, isA, vectors, embedding>>
        /\ Cardinality(catalogue) < MaxCatalogue
        /\ \E row : catalogue' = catalogue \cup {row}
    BY <1>3 DEF Register
  <2>2. IsFiniteSet(catalogue') /\ Cardinality(catalogue') <= MaxCatalogue
    BY <1>0, <2>1, OneMoreRow
  <2>. QED
    BY <1>0, <2>1, <2>2, ImporterMoves DEF ImportOk
<1>4. CASE UpsertEdge(i)
  <2>1. PICK e \in ParsedEdges(q.doc) :
          isA' = isA \cup {e} /\ importing' = [importing EXCEPT ![i].wired = @ \cup {e}]
    BY <1>4 DEF UpsertEdge
  <2>2. /\ q.step = "concepts" /\ q.upserted = ParsedConcepts(q.doc)
        /\ UNCHANGED <<concepts, vectors, catalogue, embedding>>
    BY <1>4 DEF UpsertEdge
  <2>3. e \in (DOMAIN concepts) \X (DOMAIN concepts)
    BY <1>0, <2>1, <2>2 DEF ImportOk, ParsedEdges
  <2>4. ImportOk([q EXCEPT !.wired = @ \cup {e}])
    BY <1>0, <2>2 DEF ImportOk
  <2>. QED
    BY <1>0, <2>1, <2>2, <2>3, <2>4, ImporterMoves
<1>5. CASE UpsertConcept(i)
  <2>. DEFINE n(k) == q.doc.nodes[k]
  <2>1. PICK k \in ParsedConcepts(q.doc) :
          /\ concepts' = [c \in DOMAIN concepts \cup {n(k).code} |->
                            IF c = n(k).code THEN n(k).text ELSE concepts[c]]
          /\ importing' = [importing EXCEPT ![i].upserted = @ \cup {k}]
    BY <1>5 DEF UpsertConcept
  <2>2. q.step = "concepts" /\ UNCHANGED <<isA, vectors, catalogue, embedding>>
    BY <1>5 DEF UpsertConcept
  <2>3. n(k).code \in Codes /\ n(k).text \in Texts
    BY <1>0, <2>1, <2>2, OntologyAssumption DEF ImportOk, ParsedConcepts
  <2>4. DOMAIN concepts' = DOMAIN concepts \cup {n(k).code} /\ Range(concepts') \subseteq Texts
    BY <2>1, <2>3 DEF ReferInv, OntologyTypeOK, Range
  <2>5. /\ DOMAIN importing' = Importers
        /\ importing'[i] = [q EXCEPT !.upserted = @ \cup {k}]
        /\ \A l \in Importers : l # i => importing'[l] = importing[l]
    BY <2>1 DEF ReferInv
  <2>6. ImportOk(importing[i])'
    <3>1. PICK doc, slug, done, wired :
            /\ q = [step |-> "concepts", doc |-> doc, slug |-> slug, upserted |-> done,
                    wired |-> wired]
            /\ doc \in Releases
            /\ \A l \in done : doc.nodes[l].code \in DOMAIN concepts
      BY <1>0, <2>2 DEF ImportOk
    <3>2. importing'[i] = [step |-> "concepts", doc |-> doc, slug |-> slug,
                           upserted |-> done \cup {k}, wired |-> wired]
      <4>1. importing'[i] = [q EXCEPT !.upserted = q.upserted \cup {k}]
        BY <2>5
      <4>. HIDE DEF q
      <4>. QED
        BY <3>1, <4>1
    <3>3. \A l \in done \cup {k} : doc.nodes[l].code \in DOMAIN concepts'
      BY <2>4, <3>1
    <3>. QED
      BY <3>1, <3>2, <3>3 DEF ImportOk
  <2>. HIDE DEF n, q
  <2>. QED
    BY <1>0, <2>2, <2>3, <2>4, <2>5, <2>6, ConceptsGrow DEF ReferInv, OntologyTypeOK
<1>. QED
  BY <1>1, <1>2, <1>3, <1>4, <1>5

LEMMA EmbedderStep ==
  ASSUME ReferInv, EmbedInv', NEW e \in Embedders,
         EmbedFetch(e) \/ EmbedInsert(e) \/ EmbedFails(e) \/ EmbedAgain(e)
  PROVE  ReferInv'
<1>. DEFINE q == embedding[e]
<1>0. UNCHANGED <<concepts, isA, catalogue, importing>>
  BY DEF EmbedFetch, EmbedInsert, EmbedFails, EmbedAgain, tables
<1>1. PICK r : embedding' = [embedding EXCEPT ![e] = r]
  BY DEF EmbedFetch, EmbedInsert, EmbedFails, EmbedAgain
<1>2. embedding'[e] = r /\ \A f \in Embedders : f # e => embedding'[f] = embedding[f]
  BY <1>1 DEF ReferInv, EmbedInv
<1>3. /\ {v.code : v \in vectors'} \subseteq DOMAIN concepts
      /\ r.step = "insert" => DOMAIN r.batch \subseteq DOMAIN concepts
  <2>1. {v.code : v \in vectors} \subseteq DOMAIN concepts
    BY DEF ReferInv, OntologyTypeOK
  <2>2. CASE EmbedFetch(e)
    <3>1. PICK batch \in SUBSET Unembedded : \E s, known :
            embedding'[e] = [step |-> s, known |-> known, batch |-> [c \in batch |-> concepts[c]]]
      <4>. DEFINE known == IF q.step = "idle" THEN DOMAIN concepts ELSE q.known
      <4>1. PICK batch \in BatchesOf(Unembedded) :
              embedding' = [embedding EXCEPT ![e] =
                [step |-> IF batch = {} THEN "done" ELSE "insert", known |-> known,
                 batch |-> [c \in batch |-> concepts[c]]]]
        BY <2>2 DEF EmbedFetch
      <4>. DEFINE then == IF batch = {} THEN "done" ELSE "insert"
      <4>2. batch \in SUBSET Unembedded
        BY DEF BatchesOf
      <4>3. e \in DOMAIN embedding
        BY DEF ReferInv, EmbedInv
      <4>4. embedding'[e] = [step |-> then, known |-> known,
                             batch |-> [c \in batch |-> concepts[c]]]
        BY <4>1, <4>3
      <4>. HIDE DEF known, then
      <4>. QED
        BY <4>2, <4>4
    <3>2. vectors' = vectors /\ DOMAIN r.batch = batch
      BY <2>2, <1>2, <3>1 DEF EmbedFetch, tables
    <3>. QED
      BY <2>1, <3>2 DEF Unembedded
  <2>3. CASE EmbedInsert(e)
    <3>1. PICK c \in DOMAIN q.batch : \E t, left :
            /\ vectors' = vectors \cup {[code |-> c, text |-> t, by |-> e]}
            /\ DOMAIN left \subseteq DOMAIN q.batch
            /\ \E s, known : embedding'[e] = [step |-> s, known |-> known, batch |-> left]
      <4>1. PICK c \in DOMAIN q.batch :
              LET left == Restrict(q.batch, DOMAIN q.batch \ {c})
              IN  /\ vectors' = vectors \cup {[code |-> c, text |-> q.batch[c], by |-> e]}
                  /\ embedding' = [embedding EXCEPT ![e] =
                        [step |-> IF DOMAIN left = {} THEN "next" ELSE "insert",
                         known |-> q.known, batch |-> left]]
        BY <2>3 DEF EmbedInsert
      <4>. DEFINE left == Restrict(q.batch, DOMAIN q.batch \ {c})
                  s == IF DOMAIN left = {} THEN "next" ELSE "insert"
      <4>2. DOMAIN left \subseteq DOMAIN q.batch
        BY DEF Restrict
      <4>3. embedding'[e] = [step |-> s, known |-> q.known, batch |-> left]
        BY <4>1 DEF ReferInv, EmbedInv
      <4>. HIDE DEF left, s
      <4>. QED
        BY <4>1, <4>2, <4>3
    <3>2. DOMAIN q.batch \subseteq DOMAIN concepts
      BY <2>3 DEF EmbedInsert, ReferInv
    <3>. QED
      BY <1>2, <2>1, <3>1, <3>2
  <2>4. CASE EmbedFails(e) \/ EmbedAgain(e)
    <3>1. vectors' = vectors /\ embedding'[e] = Resting
      BY <2>4, <1>2 DEF EmbedFails, EmbedAgain, tables, ReferInv, EmbedInv
    <3>. QED
      BY <1>2, <2>1, <3>1 DEF Resting
  <2>. QED
    BY <2>2, <2>3, <2>4
<1>. QED
  BY <1>0, <1>2, <1>3, ConceptsGrow DEF ReferInv, OntologyTypeOK

LEMMA ReferStep == ASSUME ReferInv, [OntologyNext]_ontologyvars PROVE ReferInv'
<1>1. EmbedInv'
  BY EmbedKept DEF ReferInv
<1>2. CASE UNCHANGED ontologyvars
  BY <1>1, <1>2, ConceptsGrow DEF ontologyvars, ReferInv, OntologyTypeOK
<1>. QED
  BY <1>1, <1>2, ImporterStep, CatalogueStep, EmbedderStep DEF OntologyNext

LEMMA ReferStart == OntologyInit => ReferInv
<1>. SUFFICES ASSUME OntologyInit PROVE ReferInv
  OBVIOUS
<1>1. DOMAIN concepts = {} /\ IsFiniteSet(catalogue) /\ Cardinality(catalogue) = 0
  BY FS_EmptySet DEF OntologyInit
<1>2. OntologyTypeOK
  BY <1>1, OntologyAssumption DEF OntologyInit, OntologyTypeOK, Range
<1>. QED
  BY <1>1, <1>2, EmbedStart DEF OntologyInit, ReferInv, ImportOk, Resting

\* Whatever imports fail half way, edges and vectors refer to concepts that
\* exist (ontology.rs persist_concepts, embed_concepts).
THEOREM OntologyTyped == OntologySpec => []OntologyTypeOK
<1>1. ReferInv /\ [OntologyNext]_ontologyvars => ReferInv'
  BY ReferStep
<1>2. ReferInv => OntologyTypeOK
  BY DEF ReferInv
<1>. QED
  BY <1>1, <1>2, ReferStart, PTL DEF OntologySpec

-----------------------------------------------------------------------------
(* Search *)

LEMMA UpTo ==
  ASSUME NEW n \in Nat
  PROVE  IsFiniteSet(1 .. n) /\ Cardinality(1 .. n) = n
<1>1. IsFiniteSet(1 .. n) /\ Cardinality(1 .. n) = IF 1 > n THEN 0 ELSE n - 1 + 1
  BY FS_Interval
<1>. QED
  BY <1>1

\* A list without repetitions has k elements, or all there are.
LEMMA ListOfSome ==
  ASSUME NEW S, IsFiniteSet(S), NEW k \in Nat,
         NEW m, m = IF Cardinality(S) < k THEN Cardinality(S) ELSE k,
         NEW list \in Injection(1 .. m, S)
  PROVE  /\ IsFiniteSet(RangeOf(list)) /\ RangeOf(list) \subseteq S
         /\ S \subseteq RangeOf(list) \/ Cardinality(RangeOf(list)) >= k
<1>1. Cardinality(S) \in Nat /\ m \in Nat
  BY FS_CardinalityType
<1>2. list \in [1 .. m -> S] /\ \A i, j \in 1 .. m : list[i] = list[j] => i = j
  BY DEF Injection, IsInjective
<1>3. Len(list) = m
  BY <1>1, <1>2
<1>4. RangeOf(list) = {list[i] : i \in 1 .. m}
  BY <1>3 DEF RangeOf
<1>5. RangeOf(list) \subseteq S
  BY <1>2, <1>4
<1>6. IsFiniteSet(RangeOf(list))
  BY <1>5, FS_Subset
<1>7. Cardinality(1 .. m) = m
  BY <1>1, UpTo
<1>8. CASE m = Cardinality(S)
  <2>1. list \in Surjection(1 .. m, S)
    BY <1>7, <1>8, FS_Injection
  <2>2. \A c \in S : \E i \in 1 .. m : list[i] = c
    BY <2>1 DEF Surjection
  <2>. QED
    BY <1>4, <1>5, <1>6, <2>2
<1>9. CASE m = k
  <2>1. list \in [1 .. m -> RangeOf(list)]
    BY <1>2, <1>4
  <2>2. list \in Injection(1 .. m, RangeOf(list))
    BY <1>2, <2>1, Fun_IsInj
  <2>3. Cardinality(1 .. m) <= Cardinality(RangeOf(list))
    BY <1>6, <2>2, FS_Injection
  <2>4. Cardinality(RangeOf(list)) \in Nat
    BY <1>6, FS_CardinalityType
  <2>. QED
    BY <1>5, <1>6, <1>7, <1>9, <2>3, <2>4
<1>. QED
  BY <1>8, <1>9

\* Of a finite set in a strict order, the numbers of elements before each one
\* are those from 0 on.
LEMMA Ranks ==
  ASSUME NEW S, IsFiniteSet(S), NEW before \in [S -> SUBSET S],
         \A c \in S : c \notin before[c],
         \A c, d \in S : c # d => \/ before[c] \subseteq before[d] /\ c \in before[d]
                                  \/ before[d] \subseteq before[c] /\ d \in before[c]
  PROVE  \A j \in 0 .. Cardinality(S) - 1 : \E c \in S : Cardinality(before[c]) = j
<1>. DEFINE rank == [c \in S |-> Cardinality(before[c])]
            n == Cardinality(S)
            Numbers == 0 .. n - 1
<1>1. n \in Nat
  BY FS_CardinalityType
<1>2. ASSUME NEW c \in S
      PROVE  IsFiniteSet(before[c]) /\ Cardinality(before[c]) \in Numbers
  <2>1. before[c] \in SUBSET S
    OBVIOUS
  <2>2. /\ IsFiniteSet(before[c]) /\ Cardinality(before[c]) <= n
        /\ n = Cardinality(before[c]) => S = before[c]
    BY <2>1, FS_Subset
  <2>3. before[c] # S
    OBVIOUS
  <2>4. Cardinality(before[c]) \in Nat
    BY <2>2, FS_CardinalityType
  <2>. QED
    BY <1>1, <2>2, <2>3, <2>4
<1>3. ASSUME NEW c \in S, NEW d \in S, before[c] \subseteq before[d], c \in before[d]
      PROVE  Cardinality(before[c]) # Cardinality(before[d])
  <2>1. IsFiniteSet(before[d]) /\ before[c] \in SUBSET before[d]
    BY <1>2, <1>3
  <2>2. Cardinality(before[d]) = Cardinality(before[c]) => before[d] = before[c]
    BY <2>1, FS_Subset
  <2>. QED
    BY <1>3, <2>2
<1>4. rank \in [S -> Numbers]
  BY <1>2
<1>5. \A c, d \in S : rank[c] = rank[d] => c = d
  BY <1>3
<1>6. \A c \in S : rank[c] = Cardinality(before[c])
  OBVIOUS
<1>7. IsFiniteSet(Numbers) /\ Cardinality(Numbers) = n
  <2>1. 0 \in Int /\ n - 1 \in Int
    BY <1>1
  <2>2. IsFiniteSet(Numbers) /\ Cardinality(Numbers) = IF 0 > n - 1 THEN 0 ELSE n - 1 - 0 + 1
    BY <2>1, FS_Interval
  <2>. QED
    BY <1>1, <2>2
<1>. HIDE DEF rank, Numbers
<1>8. rank \in Injection(S, Numbers)
  BY <1>4, <1>5, Fun_IsInj
<1>9. rank \in Surjection(S, Numbers)
  BY <1>7, <1>8, FS_Injection
<1>10. \A j \in Numbers : \E c \in S : rank[c] = j
  BY <1>9, Fun_SurjectionProperties
<1>. QED
  BY <1>6, <1>10 DEF Numbers

Vectored == {c \in Chunks : stored[c] = "vector"}
Textual == {c \in Matching : stored[c] # "none"}
Below(S, c) == {d \in S : d < c}
Above(S, c) == {d \in S : d > c}

\* The nearest vectors: all there are, or as many as were asked for.
LEMMA KnnList ==
  /\ IsFiniteSet(RangeOf(KnnSearch)) /\ RangeOf(KnnSearch) \subseteq Chunks
  /\ Vectored \subseteq RangeOf(KnnSearch) \/ Cardinality(RangeOf(KnnSearch)) >= Candidates
<1>. DEFINE before == [c \in Vectored |-> Below(Vectored, c)]
            m == IF Cardinality(Vectored) < Candidates THEN Cardinality(Vectored) ELSE Candidates
<1>1. /\ Vectored \in SUBSET Chunks /\ Vectored \subseteq Nat
      /\ IsFiniteSet(Chunks) /\ Candidates \in Nat
  BY SearchAssumption DEF Vectored
<1>2. IsFiniteSet(Vectored) /\ Cardinality(Vectored) \in Nat
  BY <1>1, FS_Subset, FS_CardinalityType
<1>3. KnnSearch = [i \in 1 .. m |->
                     CHOOSE c \in Vectored : Cardinality(Below(Vectored, c)) = i - 1]
  BY DEF KnnSearch, First, Vectored, Below
<1>4. ASSUME NEW i \in 1 .. m, NEW b \in Vectored, Cardinality(Below(Vectored, b)) = i - 1
      PROVE  KnnSearch[i] \in Vectored /\ Cardinality(Below(Vectored, KnnSearch[i])) = i - 1
  <2>1. KnnSearch[i] = CHOOSE c \in Vectored : Cardinality(Below(Vectored, c)) = i - 1
    BY <1>3, Zenon
  <2>. QED
    BY <1>4, <2>1, Zenon
<1>5. /\ before \in [Vectored -> SUBSET Vectored]
      /\ \A c \in Vectored : before[c] = Below(Vectored, c)
  BY DEF Below
<1>6. \A c \in Vectored : c \notin before[c]
  BY <1>1, <1>5 DEF Below
<1>7. ASSUME NEW c \in Vectored, NEW d \in Vectored, c < d
      PROVE  Below(Vectored, c) \subseteq Below(Vectored, d) /\ c \in Below(Vectored, d)
  <2>1. c \in Nat /\ d \in Nat /\ \A e \in Vectored : e \in Nat
    BY <1>1
  <2>2. ASSUME NEW e \in Below(Vectored, c) PROVE e \in Below(Vectored, d)
    BY <1>7, <2>1 DEF Below
  <2>. QED
    BY <1>7, <2>2 DEF Below
<1>8. \A c, d \in Vectored : c # d =>
       (before[c] \subseteq before[d] /\ c \in before[d])
       \/ (before[d] \subseteq before[c] /\ d \in before[c])
  <2>1. \A c, d \in Vectored : c # d => c < d \/ d < c
    BY <1>1
  <2>. QED
    BY <1>5, <1>7, <2>1
<1>. HIDE DEF before
<1>9. \A j \in 0 .. Cardinality(Vectored) - 1 : \E c \in Vectored : Cardinality(Below(Vectored, c)) = j
  <2>1. \A j \in 0 .. Cardinality(Vectored) - 1 : \E c \in Vectored : Cardinality(before[c]) = j
    BY <1>2, <1>5, <1>6, <1>8, Ranks
  <2>. QED
    BY <1>5, <2>1
<1>10. ASSUME NEW i \in 1 .. m
       PROVE  KnnSearch[i] \in Vectored /\ Cardinality(Below(Vectored, KnnSearch[i])) = i - 1
  <2>1. i - 1 \in 0 .. Cardinality(Vectored) - 1
    BY <1>1, <1>2
  <2>. QED
    BY <1>4, <1>9, <2>1
<1>11. KnnSearch \in [1 .. m -> Vectored]
  BY <1>3, <1>10
<1>12. ASSUME NEW i \in 1 .. m, NEW j \in 1 .. m, KnnSearch[i] = KnnSearch[j] PROVE i = j
  <2>1. i - 1 = j - 1
    BY <1>10, <1>12
  <2>2. i \in Int /\ j \in Int
    OBVIOUS
  <2>. QED
    BY <2>1, <2>2
<1>13. KnnSearch \in Injection(1 .. m, Vectored)
  <2>. HIDE DEF m
  <2>. QED
    BY <1>11, <1>12, Fun_IsInj
<1>. QED
  BY <1>1, <1>2, <1>13, ListOfSome

\* The best matching texts likewise.
LEMMA FtsList ==
  /\ IsFiniteSet(RangeOf(FtsSearch)) /\ RangeOf(FtsSearch) \subseteq Chunks
  /\ Textual \subseteq RangeOf(FtsSearch) \/ Cardinality(RangeOf(FtsSearch)) >= Candidates
<1>. DEFINE before == [c \in Textual |-> Above(Textual, c)]
            m == IF Cardinality(Textual) < Candidates THEN Cardinality(Textual) ELSE Candidates
<1>1. /\ Textual \in SUBSET Chunks /\ Textual \subseteq Nat
      /\ IsFiniteSet(Chunks) /\ Candidates \in Nat
  BY SearchAssumption DEF Textual
<1>2. IsFiniteSet(Textual) /\ Cardinality(Textual) \in Nat
  BY <1>1, FS_Subset, FS_CardinalityType
<1>3. FtsSearch = [i \in 1 .. m |->
                     CHOOSE c \in Textual : Cardinality(Above(Textual, c)) = i - 1]
  BY DEF FtsSearch, First, Textual, Above
<1>4. ASSUME NEW i \in 1 .. m, NEW b \in Textual, Cardinality(Above(Textual, b)) = i - 1
      PROVE  FtsSearch[i] \in Textual /\ Cardinality(Above(Textual, FtsSearch[i])) = i - 1
  <2>1. FtsSearch[i] = CHOOSE c \in Textual : Cardinality(Above(Textual, c)) = i - 1
    BY <1>3, Zenon
  <2>. QED
    BY <1>4, <2>1, Zenon
<1>5. /\ before \in [Textual -> SUBSET Textual]
      /\ \A c \in Textual : before[c] = Above(Textual, c)
  BY DEF Above
<1>6. \A c \in Textual : c \notin before[c]
  BY <1>1, <1>5 DEF Above
<1>7. ASSUME NEW c \in Textual, NEW d \in Textual, c > d
      PROVE  Above(Textual, c) \subseteq Above(Textual, d) /\ c \in Above(Textual, d)
  <2>1. c \in Nat /\ d \in Nat /\ \A e \in Textual : e \in Nat
    BY <1>1
  <2>2. ASSUME NEW e \in Above(Textual, c) PROVE e \in Above(Textual, d)
    BY <1>7, <2>1 DEF Above
  <2>. QED
    BY <1>7, <2>2 DEF Above
<1>8. \A c, d \in Textual : c # d =>
       (before[c] \subseteq before[d] /\ c \in before[d])
       \/ (before[d] \subseteq before[c] /\ d \in before[c])
  <2>1. \A c, d \in Textual : c # d => c > d \/ d > c
    BY <1>1
  <2>. QED
    BY <1>5, <1>7, <2>1
<1>. HIDE DEF before
<1>9. \A j \in 0 .. Cardinality(Textual) - 1 : \E c \in Textual : Cardinality(Above(Textual, c)) = j
  <2>1. \A j \in 0 .. Cardinality(Textual) - 1 : \E c \in Textual : Cardinality(before[c]) = j
    BY <1>2, <1>5, <1>6, <1>8, Ranks
  <2>. QED
    BY <1>5, <2>1
<1>10. ASSUME NEW i \in 1 .. m
       PROVE  FtsSearch[i] \in Textual /\ Cardinality(Above(Textual, FtsSearch[i])) = i - 1
  <2>1. i - 1 \in 0 .. Cardinality(Textual) - 1
    BY <1>1, <1>2
  <2>. QED
    BY <1>4, <1>9, <2>1
<1>11. FtsSearch \in [1 .. m -> Textual]
  BY <1>3, <1>10
<1>12. ASSUME NEW i \in 1 .. m, NEW j \in 1 .. m, FtsSearch[i] = FtsSearch[j] PROVE i = j
  <2>1. i - 1 = j - 1
    BY <1>10, <1>12
  <2>2. i \in Int /\ j \in Int
    OBVIOUS
  <2>. QED
    BY <2>1, <2>2
<1>13. FtsSearch \in Injection(1 .. m, Textual)
  <2>. HIDE DEF m
  <2>. QED
    BY <1>11, <1>12, Fun_IsInj
<1>. QED
  BY <1>1, <1>2, <1>13, ListOfSome

\* What Take leaves of a list whose elements are the set S.
LEMMA Taken ==
  ASSUME NEW S, NEW list \in Orders(S), IsFiniteSet(S), NEW k \in Nat
  PROVE  /\ IsFiniteSet(RangeOf(Take(list, k))) /\ RangeOf(Take(list, k)) \subseteq S
         /\ Take(list, k) \in Orders(RangeOf(Take(list, k)))
         /\ Len(Take(list, k)) = IF Cardinality(S) < k THEN Cardinality(S) ELSE k
         /\ Cardinality(S) <= k => RangeOf(Take(list, k)) = S
         /\ k < Cardinality(S) => Cardinality(RangeOf(Take(list, k))) = k
<1>. DEFINE n == Cardinality(S)
            m == IF n < k THEN n ELSE k
            taken == Take(list, k)
<1>1. n \in Nat /\ m \in Nat /\ m <= n
  BY FS_CardinalityType
<1>2. list \in [1 .. n -> S] /\ RangeOf(list) = S
  BY DEF Orders
<1>3. Len(list) = n /\ list \in Seq(S)
  BY <1>1, <1>2, SeqDef
<1>4. S = {list[i] : i \in 1 .. n}
  BY <1>2, <1>3 DEF RangeOf
<1>5. taken = SubSeq(list, 1, m)
  BY <1>1, <1>3 DEF Take
<1>6. /\ Len(taken) = m /\ taken \in [1 .. m -> S]
      /\ \A i \in 1 .. m : taken[i] = list[i]
  <2>1. taken \in Seq(S) /\ Len(taken) = m /\ \A i \in 1 .. m : taken[i] = list[1 + i - 1]
    <3>1. 1 \in 1 .. Len(list) + 1 /\ m \in 1 - 1 .. Len(list)
      BY <1>1, <1>3
    <3>2. m - 1 + 1 = m
      BY <1>1
    <3>. HIDE DEF m, n, taken
    <3>. QED
      BY <1>3, <1>5, <3>1, <3>2, SubSeqProperties
  <2>2. taken \in [1 .. m -> S]
    BY <2>1
  <2>. QED
    BY <2>1, <2>2
<1>7. RangeOf(taken) = {list[i] : i \in 1 .. m}
  BY <1>6 DEF RangeOf
<1>8. RangeOf(taken) \subseteq S /\ IsFiniteSet(RangeOf(taken))
  <2>1. RangeOf(taken) \subseteq S
    BY <1>1, <1>4, <1>7
  <2>. QED
    BY <2>1, FS_Subset
<1>9. CASE n <= k
  <2>1. m = n
    BY <1>1, <1>9
  <2>2. RangeOf(taken) = S
    BY <1>4, <1>7, <2>1
  <2>3. taken \in Orders(RangeOf(taken))
    <3>1. taken \in [1 .. Cardinality(RangeOf(taken)) -> RangeOf(taken)]
      BY <1>6, <2>1, <2>2
    <3>. HIDE DEF taken
    <3>. QED
      BY <3>1 DEF Orders
  <2>. QED
    BY <1>6, <1>8, <1>9, <2>1, <2>2, <2>3
<1>10. CASE k < n
  <2>1. m = k
    BY <1>1, <1>10
  <2>2. IsFiniteSet(1 .. n) /\ Cardinality(1 .. n) = n
    BY <1>1, UpTo
  <2>3. list \in Surjection(1 .. n, S)
    BY <1>2, <1>4 DEF Surjection
  <2>4. list \in Injection(1 .. n, S)
    BY <2>2, <2>3, FS_Surjection
  <2>5. \A i, j \in 1 .. n : list[i] = list[j] => i = j
    BY <1>2, <2>4 DEF Injection, IsInjective
  <2>6. taken \in [1 .. k -> RangeOf(taken)]
    BY <1>6, <1>7, <2>1
  <2>7. \A i, j \in 1 .. k : taken[i] = taken[j] => i = j
    BY <1>1, <1>6, <2>1, <2>5
  <2>8. taken \in Surjection(1 .. k, RangeOf(taken))
    BY <1>6, <1>7, <2>1, <2>6 DEF Surjection
  <2>9. taken \in Injection(1 .. k, RangeOf(taken))
    <3>. HIDE DEF taken
    <3>. QED
      BY <2>6, <2>7, Fun_IsInj
  <2>10. Cardinality(RangeOf(taken)) = Cardinality(1 .. k)
    BY <2>8, <2>9, UpTo, FS_Surjection
  <2>11. Cardinality(1 .. k) = k
    BY UpTo
  <2>12. taken \in Orders(RangeOf(taken))
    <3>1. taken \in [1 .. Cardinality(RangeOf(taken)) -> RangeOf(taken)]
      BY <2>6, <2>10, <2>11
    <3>. HIDE DEF taken
    <3>. QED
      BY <3>1 DEF Orders
  <2>. QED
    BY <1>1, <1>6, <1>8, <1>10, <2>1, <2>10, <2>11, <2>12
<1>. QED
  BY <1>1, <1>9, <1>10

-----------------------------------------------------------------------------
Short(hits) == Len(hits) < TopK /\ Len(hits) < RerankPool

Covers(S) == \A c \in Chunks : foundFor[c] >= 1 => c \in S

\* What a search holds, at each of its steps, of the chunks that could be found
\* before it began: a chunk is only counted between two searches.
SearcherOk(q) ==
  /\ q = [pc |-> q.pc, dense |-> q.dense, hits |-> q.hits]
  /\ q.pc = "fts" =>
       /\ IsFiniteSet(RangeOf(q.dense))
       /\ \/ Cardinality(RangeOf(q.dense)) >= Candidates
          \/ \A c \in Chunks \ Matching : foundFor[c] >= 1 => c \in RangeOf(q.dense)
  /\ q.pc = "rerank" =>
       /\ IsFiniteSet(RangeOf(q.hits))
       /\ \/ Cardinality(RangeOf(q.hits)) >= TopK
          \/ Cardinality(RangeOf(q.hits)) >= RerankPool
          \/ Covers(RangeOf(q.hits))
  /\ q.pc = "put" /\ Short(q.hits) => Covers(RangeOf(q.hits))
  /\ q.pc = "answer" /\ Short(q.hits) =>
       \A c \in Chunks : foundFor[c] = SearchTtl => c \in RangeOf(q.hits)

ChunksTyped ==
  /\ stored \in [Chunks -> {"none", "text", "vector"}]
  /\ foundFor \in [Chunks -> 0 .. SearchTtl]
  /\ \A c \in Chunks : foundFor[c] >= 1 => Findable(c)

\* A cached answer lacks no chunk that could be found before it was cached.
EntryOk ==
  /\ results = [set |-> results.set, age |-> results.age, hits |-> results.hits]
  /\ results.set \in BOOLEAN /\ results.age \in 0 .. SearchTtl - 1
  /\ results.set /\ Short(results.hits) =>
       \A c \in Chunks : foundFor[c] > results.age => c \in RangeOf(results.hits)

SearchInv ==
  /\ ChunksTyped
  /\ EntryOk
  /\ searcher = [s \in Searchers |-> searcher[s]]
  /\ \A s \in Searchers : SearcherOk(searcher[s])

LEMMA SearchNumbers ==
  /\ TopK \in Nat \ {0} /\ Candidates \in Nat \ {0} /\ RerankPool \in Nat \ {0}
  /\ SearchTtl \in Nat \ {0} /\ TopK <= Candidates
BY SearchAssumption

LEMMA SearchStart == SearchInit => SearchInv
<1>. SUFFICES ASSUME SearchInit PROVE SearchInv
  OBVIOUS
<1>1. ChunksTyped
  BY SearchNumbers DEF SearchInit, ChunksTyped
<1>2. EntryOk
  BY SearchNumbers DEF SearchInit, EntryOk, NoResults
<1>3. SearcherOk(IdleSearch)
  BY DEF SearcherOk, IdleSearch
<1>. QED
  BY <1>1, <1>2, <1>3 DEF SearchInit, SearchInv

LEMMA ChunkStep ==
  ASSUME SearchInv, StoreText \/ StoreVector
  PROVE  SearchInv'
<1>1. PICK c \in Chunks : \/ stored[c] = "none" /\ stored' = [stored EXCEPT ![c] = "text"]
                          \/ stored[c] = "text" /\ stored' = [stored EXCEPT ![c] = "vector"]
  BY DEF StoreText, StoreVector
<1>2. UNCHANGED <<foundFor, results, searcher>>
  BY DEF StoreText, StoreVector
<1>3. ChunksTyped'
  <2>1. stored' \in [Chunks -> {"none", "text", "vector"}]
    BY <1>1 DEF SearchInv, ChunksTyped
  <2>2. ASSUME NEW d \in Chunks, Findable(d) PROVE Findable(d)'
    BY <1>1, <2>2 DEF Findable, SearchInv, ChunksTyped
  <2>. QED
    BY <1>2, <2>1, <2>2 DEF SearchInv, ChunksTyped
<1>4. EntryOk'
  BY <1>2 DEF SearchInv, EntryOk, Short
<1>5. \A s \in Searchers : SearcherOk(searcher[s])'
  BY <1>2 DEF SearchInv, SearcherOk, Short, Covers
<1>. QED
  BY <1>2, <1>3, <1>4, <1>5 DEF SearchInv

\* A search moves on; no tick passes, and no chunk is stored.
LEMMA SearcherMoves ==
  ASSUME SearchInv, NEW s \in Searchers, NEW q, SetSearch(s, q), SearcherOk(q),
         UNCHANGED <<stored, foundFor>>,
         EntryOk'
  PROVE  SearchInv'
<1>1. /\ searcher'[s] = q
      /\ \A t \in Searchers : t # s => searcher'[t] = searcher[t]
      /\ searcher' = [t \in Searchers |-> searcher'[t]]
  BY DEF SearchInv, SetSearch
<1>2. ChunksTyped'
  BY DEF SearchInv, ChunksTyped, Findable
<1>3. ASSUME NEW t \in Searchers PROVE SearcherOk(searcher[t])'
  <2>1. CASE t = s
    BY <1>1, <2>1 DEF SearcherOk, Short, Covers
  <2>2. CASE t # s
    BY <1>1, <2>2 DEF SearchInv, SearcherOk, Short, Covers
  <2>. QED
    BY <2>1, <2>2
<1>. QED
  BY <1>1, <1>2, <1>3 DEF SearchInv

LEMMA FtsStep ==
  ASSUME SearchInv, NEW s \in Searchers, Fts(s)
  PROVE  SearchInv'
<1>. DEFINE U == RangeOf(searcher[s].dense) \cup RangeOf(FtsSearch)
<1>1. /\ UNCHANGED <<stored, foundFor, results>>
      /\ searcher[s].pc = "fts" /\ SearcherOk(searcher[s])
  BY DEF Fts, SearchAt, SearchInv
<1>2. PICK fused \in Orders(U) :
        SetSearch(s, [pc |-> IF fused = <<>> THEN "put" ELSE "rerank", dense |-> <<>>,
                      hits |-> Take(fused, RerankPool)])
  BY DEF Fts, RrfFuse
<1>3. /\ IsFiniteSet(U) /\ Cardinality(U) \in Nat
      /\ Cardinality(RangeOf(searcher[s].dense)) <= Cardinality(U)
      /\ Cardinality(RangeOf(FtsSearch)) <= Cardinality(U)
      /\ Cardinality(RangeOf(searcher[s].dense)) \in Nat
      /\ Cardinality(RangeOf(FtsSearch)) \in Nat
  <2>1. IsFiniteSet(RangeOf(searcher[s].dense)) /\ IsFiniteSet(RangeOf(FtsSearch))
    BY <1>1, FtsList DEF SearcherOk
  <2>2. IsFiniteSet(U)
    BY <2>1, FS_Union
  <2>. QED
    BY <2>1, <2>2, FS_Subset, FS_CardinalityType
<1>4. Cardinality(U) >= TopK \/ Covers(U)
  <2>1. \/ Cardinality(U) >= Candidates
        \/ /\ Textual \subseteq U
           /\ \A c \in Chunks \ Matching : foundFor[c] >= 1 => c \in U
    BY <1>1, <1>3, FtsList, SearchNumbers DEF SearcherOk
  <2>2. \A c \in Matching : c \in Chunks /\ (foundFor[c] >= 1 => c \in Textual)
    BY SearchAssumption DEF SearchInv, ChunksTyped, Findable, Textual
  <2>3. CASE Cardinality(U) >= Candidates
    BY <1>3, <2>3, SearchNumbers
  <2>4. CASE /\ Textual \subseteq U
             /\ \A c \in Chunks \ Matching : foundFor[c] >= 1 => c \in U
    BY <2>2, <2>4 DEF Covers
  <2>. QED
    BY <2>1, <2>3, <2>4
<1>5. PICK hits : hits = Take(fused, RerankPool)
  OBVIOUS
<1>6. /\ IsFiniteSet(RangeOf(hits))
      /\ Len(hits) = IF Cardinality(U) < RerankPool THEN Cardinality(U) ELSE RerankPool
      /\ Cardinality(U) <= RerankPool => RangeOf(hits) = U
      /\ RerankPool < Cardinality(U) => Cardinality(RangeOf(hits)) = RerankPool
  <2>. HIDE DEF U
  <2>. QED
    BY <1>3, <1>5, Taken, SearchNumbers
<1>. HIDE DEF U
<1>7. PICK q : q = [pc |-> IF fused = <<>> THEN "put" ELSE "rerank", dense |-> <<>>, hits |-> hits]
  OBVIOUS
<1>8. SetSearch(s, q)
  BY <1>2, <1>5, <1>7
<1>9. \/ Cardinality(RangeOf(hits)) >= TopK
      \/ Cardinality(RangeOf(hits)) >= RerankPool
      \/ Covers(RangeOf(hits))
  BY <1>3, <1>4, <1>6, SearchNumbers
<1>10. fused = <<>> /\ Short(hits) => Covers(RangeOf(hits))
  <2>. SUFFICES ASSUME fused = <<>>, Short(hits) PROVE Covers(RangeOf(hits))
    OBVIOUS
  <2>1. Cardinality(U) < TopK /\ Cardinality(U) < RerankPool
    BY <1>3, <1>6, SearchNumbers DEF Short
  <2>2. RangeOf(fused) = {} /\ RangeOf(fused) = U
    <3>1. RangeOf(fused) = {}
      BY DEF RangeOf
    <3>2. RangeOf(fused) = U
      BY <1>2 DEF Orders
    <3>. QED
      BY <3>1, <3>2
  <2>3. Covers(U)
    BY <1>3, <1>4, <2>1, SearchNumbers
  <2>. QED
    BY <2>2, <2>3 DEF Covers
<1>11. SearcherOk(q)
  BY <1>6, <1>7, <1>9, <1>10 DEF SearcherOk
<1>12. EntryOk'
  BY <1>1 DEF SearchInv, EntryOk, Short
<1>. QED
  BY <1>1, <1>8, <1>11, <1>12, SearcherMoves

LEMMA RerankStep ==
  ASSUME SearchInv, NEW s \in Searchers, Rerank(s)
  PROVE  SearchInv'
<1>. DEFINE H == RangeOf(searcher[s].hits)
<1>1. /\ UNCHANGED <<stored, foundFor, results>>
      /\ searcher[s].pc = "rerank" /\ SearcherOk(searcher[s])
  BY DEF Rerank, SearchAt, SearchInv
<1>2. PICK order \in Orders(H) :
        SetSearch(s, [pc |-> "put", dense |-> <<>>, hits |-> Take(order, TopK)])
  BY DEF Rerank
<1>3. /\ IsFiniteSet(H) /\ Cardinality(H) \in Nat
      /\ Cardinality(H) >= TopK \/ Cardinality(H) >= RerankPool \/ Covers(H)
  BY <1>1, FS_CardinalityType DEF SearcherOk
<1>4. PICK hits : hits = Take(order, TopK)
  OBVIOUS
<1>5. /\ Len(hits) = IF Cardinality(H) < TopK THEN Cardinality(H) ELSE TopK
      /\ Cardinality(H) <= TopK => RangeOf(hits) = H
  <2>. HIDE DEF H
  <2>. QED
    BY <1>3, <1>4, Taken, SearchNumbers
<1>6. PICK q : q = [pc |-> "put", dense |-> <<>>, hits |-> hits]
  OBVIOUS
<1>7. SetSearch(s, q)
  BY <1>2, <1>4, <1>6
<1>. HIDE DEF H
<1>8. Short(hits) => Covers(RangeOf(hits))
  BY <1>3, <1>5, SearchNumbers DEF Short
<1>9. SearcherOk(q)
  BY <1>6, <1>8 DEF SearcherOk
<1>10. EntryOk'
  BY <1>1 DEF SearchInv, EntryOk, Short
<1>. QED
  BY <1>1, <1>7, <1>9, <1>10, SearcherMoves

LEMMA SearcherStep ==
  ASSUME SearchInv, NEW s \in Searchers,
         \/ CacheGet(s) \/ CacheGetFails(s) \/ EmbedQuery(s) \/ Knn(s) \/ CacheHits(s)
         \/ SearchEnds(s)
  PROVE  SearchInv'
<1>0. /\ EntryOk /\ SearcherOk(searcher[s])
      /\ searcher[s] = [pc |-> searcher[s].pc, dense |-> searcher[s].dense,
                        hits |-> searcher[s].hits]
      /\ \A c \in Chunks : foundFor[c] \in 0 .. SearchTtl
  BY DEF SearchInv, SearcherOk, ChunksTyped
<1>1. SearcherOk(IdleSearch) /\ SearcherOk([IdleSearch EXCEPT !.pc = "embed"])
  BY DEF SearcherOk, IdleSearch
<1>2. ASSUME UNCHANGED <<foundFor, results>> PROVE EntryOk'
  BY <1>0, <1>2 DEF EntryOk, Short
<1>3. CASE CacheGet(s)
  <2>1. UNCHANGED <<stored, foundFor, results>>
    BY <1>3 DEF CacheGet
  <2>2. CASE results.set
    <3>. DEFINE q == [pc |-> "answer", dense |-> <<>>, hits |-> results.hits]
    <3>1. SetSearch(s, q)
      BY <1>3, <2>2 DEF CacheGet
    <3>2. SearcherOk(q)
      <4>1. ASSUME Short(results.hits), NEW c \in Chunks, foundFor[c] = SearchTtl
            PROVE  c \in RangeOf(results.hits)
        <5>1. foundFor[c] > results.age
          BY <1>0, <4>1, SearchNumbers DEF EntryOk
        <5>. QED
          BY <1>0, <2>2, <4>1, <5>1 DEF EntryOk
      <4>. QED
        BY <4>1 DEF SearcherOk
    <3>. HIDE DEF q
    <3>. QED
      BY <1>2, <2>1, <3>1, <3>2, SearcherMoves
  <2>3. CASE ~results.set
    BY <1>1, <1>2, <1>3, <2>1, <2>3, SearcherMoves DEF CacheGet
  <2>. QED
    BY <2>2, <2>3
<1>4. CASE CacheGetFails(s)
  BY <1>1, <1>2, <1>4, SearcherMoves DEF CacheGetFails
<1>5. CASE EmbedQuery(s)
  <2>1. /\ UNCHANGED <<stored, foundFor, results>>
        /\ SetSearch(s, [searcher[s] EXCEPT !.pc = "knn"])
    BY <1>5 DEF EmbedQuery
  <2>2. SearcherOk([searcher[s] EXCEPT !.pc = "knn"])
    BY <1>0 DEF SearcherOk
  <2>. QED
    BY <1>2, <2>1, <2>2, SearcherMoves
<1>6. CASE Knn(s)
  <2>. DEFINE q == [pc |-> "fts", dense |-> KnnSearch, hits |-> <<>>]
  <2>1. /\ UNCHANGED <<stored, foundFor, results>>
        /\ SetSearch(s, q)
    BY <1>6 DEF Knn
  <2>2. \A c \in Chunks \ Matching : foundFor[c] >= 1 => c \in Vectored
    BY DEF SearchInv, ChunksTyped, Findable, Vectored
  <2>3. SearcherOk(q)
    BY <2>2, KnnList DEF SearcherOk
  <2>. HIDE DEF q
  <2>. QED
    BY <1>2, <2>1, <2>3, SearcherMoves
<1>7. CASE CacheHits(s)
  <2>1. /\ SetSearch(s, [searcher[s] EXCEPT !.pc = "answer"])
        /\ UNCHANGED <<stored, foundFor>>
        /\ searcher[s].pc = "put"
        /\ \/ results' = [set |-> TRUE, age |-> 0, hits |-> searcher[s].hits]
           \/ UNCHANGED results
    BY <1>7 DEF CacheHits, SearchAt
  <2>2. Short(searcher[s].hits) => Covers(RangeOf(searcher[s].hits))
    BY <1>0, <2>1 DEF SearcherOk
  <2>3. EntryOk'
    <3>1. CASE UNCHANGED results
      BY <1>2, <2>1, <3>1
    <3>2. CASE results' = [set |-> TRUE, age |-> 0, hits |-> searcher[s].hits]
      <4>1. \A c \in Chunks : foundFor[c] > 0 => foundFor[c] >= 1
        BY <1>0
      <4>2. /\ results'.set = TRUE /\ results'.age = 0 /\ results'.hits = searcher[s].hits
            /\ results' = [set |-> results'.set, age |-> results'.age, hits |-> results'.hits]
        BY <3>2
      <4>3. 0 \in 0 .. SearchTtl - 1 /\ TRUE \in BOOLEAN
        BY SearchNumbers
      <4>4. ASSUME Short(searcher[s].hits), NEW c \in Chunks, foundFor[c] > 0
            PROVE  c \in RangeOf(searcher[s].hits)
        BY <2>2, <4>1, <4>4 DEF Covers
      <4>. QED
        BY <2>1, <4>2, <4>3, <4>4 DEF EntryOk, Short
    <3>. QED
      BY <2>1, <3>1, <3>2
  <2>4. SearcherOk([searcher[s] EXCEPT !.pc = "answer"])
    <3>1. [searcher[s] EXCEPT !.pc = "answer"] =
            [pc |-> "answer", dense |-> searcher[s].dense, hits |-> searcher[s].hits]
      BY <1>0
    <3>2. \A c \in Chunks : foundFor[c] = SearchTtl => foundFor[c] >= 1
      BY SearchNumbers
    <3>. QED
      BY <2>2, <3>1, <3>2 DEF SearcherOk, Covers
  <2>. QED
    BY <2>1, <2>3, <2>4, SearcherMoves
<1>8. CASE SearchEnds(s)
  BY <1>1, <1>2, <1>8, SearcherMoves DEF SearchEnds
<1>. QED
  BY <1>3, <1>4, <1>5, <1>6, <1>7, <1>8

\* Between two searches the chunks and the entry age together.
LEMMA SearchTickStep == ASSUME SearchInv, SearchTick PROVE SearchInv'
<1>1. /\ UNCHANGED <<stored, searcher>>
      /\ \A s \in Searchers : searcher[s].pc = "idle"
      /\ results' = IF results.set /\ results.age + 1 < SearchTtl
                    THEN [results EXCEPT !.age = @ + 1] ELSE NoResults
      /\ foundFor' = [c \in Chunks |-> IF Findable(c) /\ foundFor[c] < SearchTtl
                                       THEN foundFor[c] + 1 ELSE foundFor[c]]
  BY DEF SearchTick, SearchAt
<1>2. \A c \in Chunks : /\ foundFor[c] \in 0 .. SearchTtl /\ foundFor'[c] \in 0 .. SearchTtl
                        /\ foundFor'[c] <= foundFor[c] + 1
                        /\ foundFor'[c] >= 1 => Findable(c)
  BY <1>1, SearchNumbers DEF SearchInv, ChunksTyped
<1>3. ChunksTyped'
  <2>1. foundFor' \in [Chunks -> 0 .. SearchTtl]
    BY <1>1, <1>2
  <2>2. \A c \in Chunks : foundFor'[c] >= 1 => Findable(c)'
    BY <1>1, <1>2 DEF Findable
  <2>. QED
    BY <1>1, <2>1, <2>2 DEF SearchInv, ChunksTyped
<1>4. EntryOk'
  <2>1. CASE results.set /\ results.age + 1 < SearchTtl
    <3>1. results' = [set |-> TRUE, age |-> results.age + 1, hits |-> results.hits]
      BY <1>1, <2>1 DEF SearchInv, EntryOk
    <3>2. ASSUME Short(results.hits), NEW c \in Chunks, foundFor'[c] > results.age + 1
          PROVE  c \in RangeOf(results.hits)
      <4>1. foundFor[c] > results.age
        BY <1>2, <3>2 DEF SearchInv, EntryOk
      <4>. QED
        BY <2>1, <3>2, <4>1 DEF SearchInv, EntryOk
    <3>. QED
      BY <2>1, <3>1, <3>2, SearchNumbers DEF SearchInv, EntryOk, Short
  <2>2. CASE ~(results.set /\ results.age + 1 < SearchTtl)
    <3>1. /\ results'.set = FALSE /\ results'.age = 0
          /\ results' = [set |-> results'.set, age |-> results'.age, hits |-> results'.hits]
      <4>1. results' = NoResults
        BY <1>1, <2>2
      <4>. QED
        BY <4>1 DEF NoResults
    <3>2. 0 \in 0 .. SearchTtl - 1 /\ FALSE \in BOOLEAN
      BY SearchNumbers
    <3>. QED
      BY <3>1, <3>2 DEF EntryOk
  <2>. QED
    BY <2>1, <2>2
<1>5. \A s \in Searchers : SearcherOk(searcher[s])'
  BY <1>1 DEF SearchInv, SearcherOk
<1>. QED
  BY <1>1, <1>3, <1>4, <1>5 DEF SearchInv

LEMMA SearchStep == ASSUME SearchInv, [SearchNext]_searchvars PROVE SearchInv'
<1>1. CASE StoreText \/ StoreVector \/ SearchTick
  BY <1>1, ChunkStep, SearchTickStep
<1>2. ASSUME NEW s \in Searchers,
             \/ CacheGet(s) \/ CacheGetFails(s) \/ EmbedQuery(s) \/ Knn(s) \/ Fts(s)
             \/ Rerank(s) \/ CacheHits(s) \/ SearchEnds(s)
      PROVE  SearchInv'
  BY <1>2, SearcherStep, FtsStep, RerankStep
<1>3. CASE UNCHANGED searchvars
  BY <1>3 DEF searchvars, SearchInv, ChunksTyped, Findable, EntryOk, SearcherOk, Short, Covers
<1>. QED
  BY <1>1, <1>2, <1>3 DEF SearchNext

LEMMA SearchAlways == SearchSpec => []SearchInv
<1>1. SearchInv /\ [SearchNext]_searchvars => SearchInv'
  BY SearchStep
<1>. QED
  BY <1>1, SearchStart, PTL DEF SearchSpec

\* A chunk that a search has been able to find for one TTL is in every answer
\* that has room for it, however old the entry it is served from and whatever
\* was stored between the two lists (retrieve.rs search).
THEOREM OldIsFound == SearchSpec => []NothingOldMissing
<1>1. SearchInv => NothingOldMissing
  BY DEF SearchInv, SearcherOk, Short, NothingOldMissing, SearchAt
<1>. QED
  BY <1>1, SearchAlways, PTL

\* Every list of hits, held or cached, names chunks and none of them twice.
HitsOk(hits) == hits \in Orders(RangeOf(hits)) /\ RangeOf(hits) \subseteq Chunks

ListsOk(q) ==
  /\ HitsOk(q.hits)
  /\ q.pc = "fts" => RangeOf(q.dense) \subseteq Chunks
  /\ q.pc = "put" => Len(q.hits) <= TopK

ListInv ==
  /\ SearchInv
  /\ HitsOk(results.hits) /\ Len(results.hits) <= TopK
  /\ \A s \in Searchers : ListsOk(searcher[s])

LEMMA NoHits == HitsOk(<<>>) /\ Len(<<>>) = 0
<1>1. RangeOf(<<>>) = {}
  BY DEF RangeOf
<1>2. Cardinality({}) = 0
  BY FS_EmptySet
<1>3. <<>> \in [1 .. 0 -> {}]
  OBVIOUS
<1>. QED
  BY <1>1, <1>2, <1>3 DEF HitsOk, Orders

LEMMA SearcherLists ==
  ASSUME ListInv, SearchInv', NEW s \in Searchers, NEW q, SetSearch(s, q), ListsOk(q),
         \/ UNCHANGED results
         \/ results'.hits = searcher[s].hits /\ searcher[s].pc = "put"
  PROVE  ListInv'
<1>1. /\ searcher'[s] = q
      /\ \A t \in Searchers : t # s => searcher'[t] = searcher[t]
  BY DEF ListInv, SearchInv, SetSearch
<1>2. HitsOk(results'.hits) /\ Len(results'.hits) <= TopK
  BY DEF ListInv, ListsOk
<1>. QED
  BY <1>1, <1>2 DEF ListInv, ListsOk, HitsOk

LEMMA FtsLists ==
  ASSUME ListInv, SearchInv', NEW s \in Searchers, Fts(s)
  PROVE  ListInv'
<1>. DEFINE U == RangeOf(searcher[s].dense) \cup RangeOf(FtsSearch)
<1>1. PICK fused \in Orders(U) :
        SetSearch(s, [pc |-> IF fused = <<>> THEN "put" ELSE "rerank", dense |-> <<>>,
                      hits |-> Take(fused, RerankPool)])
  BY DEF Fts, RrfFuse
<1>2. searcher[s].pc = "fts" /\ UNCHANGED results
  BY DEF Fts, SearchAt
<1>3. U \subseteq Chunks /\ IsFiniteSet(U)
  BY <1>2, FtsList, SearchAssumption, FS_Subset DEF ListInv, ListsOk
<1>4. PICK hits : hits = Take(fused, RerankPool)
  OBVIOUS
<1>5. HitsOk(hits) /\ Len(hits) = IF Cardinality(U) < RerankPool THEN Cardinality(U) ELSE RerankPool
  <2>. HIDE DEF U
  <2>. QED
    BY <1>3, <1>4, Taken, SearchNumbers DEF HitsOk
<1>6. fused = <<>> => Len(hits) <= TopK
  <2>. SUFFICES ASSUME fused = <<>> PROVE Len(hits) <= TopK
    OBVIOUS
  <2>1. RangeOf(fused) = {}
    BY DEF RangeOf
  <2>2. RangeOf(fused) = U
    BY DEF Orders
  <2>3. Cardinality(U) = 0
    BY <2>1, <2>2, FS_EmptySet
  <2>. HIDE DEF U
  <2>4. Len(hits) = 0
    BY <1>5, <2>3, SearchNumbers
  <2>. QED
    BY <2>4, SearchNumbers
<1>7. PICK q : q = [pc |-> IF fused = <<>> THEN "put" ELSE "rerank", dense |-> <<>>, hits |-> hits]
  OBVIOUS
<1>8. ListsOk(q)
  BY <1>5, <1>6, <1>7 DEF ListsOk
<1>. QED
  BY <1>1, <1>2, <1>4, <1>7, <1>8, SearcherLists

LEMMA RerankLists ==
  ASSUME ListInv, SearchInv', NEW s \in Searchers, Rerank(s)
  PROVE  ListInv'
<1>. DEFINE H == RangeOf(searcher[s].hits)
<1>1. PICK order \in Orders(H) :
        SetSearch(s, [pc |-> "put", dense |-> <<>>, hits |-> Take(order, TopK)])
  BY DEF Rerank
<1>2. H \subseteq Chunks /\ IsFiniteSet(H) /\ Cardinality(H) \in Nat /\ UNCHANGED results
  BY SearchAssumption, FS_Subset, FS_CardinalityType DEF ListInv, ListsOk, HitsOk, Rerank
<1>3. PICK hits : hits = Take(order, TopK)
  OBVIOUS
<1>4. HitsOk(hits) /\ Len(hits) <= TopK
  <2>1. HitsOk(hits) /\ Len(hits) = IF Cardinality(H) < TopK THEN Cardinality(H) ELSE TopK
    <3>. HIDE DEF H
    <3>. QED
      BY <1>2, <1>3, Taken, SearchNumbers DEF HitsOk
  <2>. HIDE DEF H
  <2>. QED
    BY <1>2, <2>1, SearchNumbers
<1>5. PICK q : q = [pc |-> "put", dense |-> <<>>, hits |-> hits]
  OBVIOUS
<1>6. ListsOk(q)
  BY <1>4, <1>5 DEF ListsOk
<1>. QED
  BY <1>1, <1>2, <1>3, <1>5, <1>6, SearcherLists

LEMMA OtherLists ==
  ASSUME ListInv, SearchInv', NEW s \in Searchers,
         \/ CacheGet(s) \/ CacheGetFails(s) \/ EmbedQuery(s) \/ Knn(s) \/ CacheHits(s)
         \/ SearchEnds(s)
  PROVE  ListInv'
<1>1. ListsOk(IdleSearch) /\ ListsOk([IdleSearch EXCEPT !.pc = "embed"])
  BY NoHits DEF ListsOk, IdleSearch
<1>2. /\ searcher[s] = [pc |-> searcher[s].pc, dense |-> searcher[s].dense,
                        hits |-> searcher[s].hits]
      /\ HitsOk(searcher[s].hits)
      /\ HitsOk(results.hits)
  BY DEF ListInv, SearchInv, SearcherOk, ListsOk
<1>3. CASE CacheGet(s)
  <2>1. ListsOk([pc |-> "answer", dense |-> <<>>, hits |-> results.hits])
    BY <1>2 DEF ListsOk
  <2>. QED
    BY <1>1, <1>3, <2>1, SearcherLists DEF CacheGet
<1>4. CASE CacheGetFails(s) \/ SearchEnds(s)
  BY <1>1, <1>4, SearcherLists DEF CacheGetFails, SearchEnds
<1>5. CASE EmbedQuery(s)
  <2>1. ListsOk([searcher[s] EXCEPT !.pc = "knn"])
    BY <1>2 DEF ListsOk
  <2>. QED
    BY <1>5, <2>1, SearcherLists DEF EmbedQuery
<1>6. CASE Knn(s)
  <2>1. ListsOk([pc |-> "fts", dense |-> KnnSearch, hits |-> <<>>])
    BY KnnList, NoHits DEF ListsOk
  <2>. QED
    BY <1>6, <2>1, SearcherLists DEF Knn
<1>7. CASE CacheHits(s)
  <2>1. ListsOk([searcher[s] EXCEPT !.pc = "answer"])
    BY <1>2 DEF ListsOk
  <2>2. \/ UNCHANGED results
        \/ results'.hits = searcher[s].hits /\ searcher[s].pc = "put"
    BY <1>7 DEF CacheHits, SearchAt
  <2>. QED
    BY <1>7, <2>1, <2>2, SearcherLists DEF CacheHits
<1>. QED
  BY <1>3, <1>4, <1>5, <1>6, <1>7

LEMMA ListStart == SearchInit => ListInv
<1>1. SearchInit => results = NoResults /\ searcher = [s \in Searchers |-> IdleSearch]
  BY DEF SearchInit
<1>. QED
  BY <1>1, SearchStart, NoHits, SearchNumbers DEF ListInv, ListsOk, NoResults, IdleSearch

LEMMA ListStep == ASSUME ListInv, [SearchNext]_searchvars PROVE ListInv'
<1>1. SearchInv'
  BY SearchStep DEF ListInv
<1>2. CASE \/ StoreText \/ StoreVector \/ UNCHANGED searchvars
  <2>1. UNCHANGED <<results, searcher>>
    BY <1>2 DEF StoreText, StoreVector, searchvars
  <2>. QED
    BY <1>1, <2>1 DEF ListInv, ListsOk, HitsOk
<1>3. CASE SearchTick
  <2>1. /\ UNCHANGED searcher
        /\ results'.hits = results.hits \/ results'.hits = <<>>
    BY <1>3 DEF SearchTick, NoResults, ListInv, SearchInv, EntryOk
  <2>. QED
    BY <1>1, <2>1, NoHits, SearchNumbers DEF ListInv, ListsOk, HitsOk
<1>4. ASSUME NEW s \in Searchers,
             \/ CacheGet(s) \/ CacheGetFails(s) \/ EmbedQuery(s) \/ Knn(s) \/ Fts(s)
             \/ Rerank(s) \/ CacheHits(s) \/ SearchEnds(s)
      PROVE  ListInv'
  BY <1>1, <1>4, OtherLists, FtsLists, RerankLists
<1>. QED
  BY <1>2, <1>3, <1>4 DEF SearchNext

LEMMA ListTyped == ListInv => SearchTypeOK
BY DEF ListInv, ListsOk, HitsOk, SearchInv, ChunksTyped, EntryOk, SearchTypeOK

\* Whatever order the reranker gives, a list names a chunk once, and the cache
\* holds no more than was asked for (retrieve.rs rrf_fuse, search).
THEOREM SearchTyped == SearchSpec => []SearchTypeOK
<1>1. ListInv /\ [SearchNext]_searchvars => ListInv'
  BY ListStep
<1>. QED
  BY <1>1, ListStart, ListTyped, PTL DEF SearchSpec

-----------------------------------------------------------------------------
(* Flashcards *)

Schedules == [interval : Nat, ease : Nat, reps : Nat, lapses : Nat, due : Nat]

\* A request holds a schedule that was read back, whose ease is the default.
ReviewOk(q) ==
  \/ q = NoReview
  \/ /\ q = [step |-> "read", card |-> q.card, user |-> q.user, grade |-> q.grade,
             prev |-> q.prev]
     /\ q.card \in Cards /\ q.user \in Learners /\ q.grade \in Grades
     /\ q.prev \in Schedules /\ q.prev.ease >= 130

CardsInv ==
  /\ CardsTypeOK
  /\ reviewing = [r \in Reviews |-> reviewing[r]]
  /\ \A r \in Reviews : ReviewOk(reviewing[r])

LEMMA Scheduled ==
  ASSUME NEW prev \in Schedules, prev.ease >= 130, NEW grade \in Grades
  PROVE  /\ ScheduleSm2(prev, grade) \in Schedules
         /\ ScheduleSm2(prev, grade).ease >= 130
         /\ ScheduleSm2(prev, grade).due >= 1
<1>1. PICK i \in Nat, e \in Nat, n \in Nat, l \in Nat, d \in Nat :
        prev = [interval |-> i, ease |-> e, reps |-> n, lapses |-> l, due |-> d]
  BY DEF Schedules
<1>2. e >= 130
  BY <1>1
<1>3. CASE grade = 1
  <2>1. ScheduleSm2(prev, grade) =
          [interval |-> 1, ease |-> e, reps |-> 0, lapses |-> l + 1, due |-> 1]
    BY <1>1, <1>3 DEF ScheduleSm2
  <2>. QED
    BY <1>2, <2>1 DEF Schedules
<1>4. CASE grade # 1
  <2>. DEFINE f == AtLeast(130, e + EaseStep(grade))
              j == CASE n = 0 -> 1 [] n = 1 -> 6 [] n > 1 -> (i * f + 50) \div 100
  <2>1. EaseStep(grade) \in -14 .. 10
    BY <1>4 DEF EaseStep, Grades
  <2>2. f \in Nat /\ f >= 130
    BY <1>2, <2>1 DEF AtLeast
  <2>3. ScheduleSm2(prev, grade) =
          [interval |-> j, ease |-> f, reps |-> n + 1, lapses |-> l, due |-> AtLeast(1, j)]
    BY <1>1, <1>4 DEF ScheduleSm2
  <2>. HIDE DEF f
  <2>4. j \in Nat
    <3>1. i * f \in Nat
      BY <2>2
    <3>2. PICK x \in Nat : x = i * f
      BY <3>1
    <3>3. (x + 50) \div 100 \in Nat
      OBVIOUS
    <3>. QED
      BY <3>2, <3>3
  <2>. HIDE DEF j
  <2>5. AtLeast(1, j) \in Nat /\ AtLeast(1, j) >= 1
    BY <2>4 DEF AtLeast
  <2>. QED
    BY <2>2, <2>3, <2>4, <2>5 DEF Schedules
<1>. QED
  BY <1>3, <1>4

LEMMA CardsStart == CardsInit => CardsInv
<1>1. Unscheduled \in Schedules /\ Unscheduled.ease = 250
  BY DEF Unscheduled, Schedules
<1>. QED
  BY <1>1 DEF CardsInit, CardsInv, CardsTypeOK, ReviewOk, Schedules

LEMMA ReviewStep ==
  ASSUME CardsInv, NEW r \in Reviews, ReviewRead(r) \/ ReviewWrite(r) \/ ReviewFails(r)
  PROVE  CardsInv'
<1>. DEFINE q == reviewing[r]
<1>0. /\ schedule \in [Cards -> [Learners -> Schedules]]
      /\ ReviewOk(q)
  BY DEF CardsInv, CardsTypeOK, Schedules
<1>1. CASE ReviewRead(r)
  <2>1. PICK card \in Cards, user \in Learners, grade \in Grades :
          reviewing' = [reviewing EXCEPT ![r] =
            [step |-> "read", card |-> card, user |-> user, grade |-> grade,
             prev |-> Reread(schedule[card][user])]]
    BY <1>1 DEF ReviewRead, StateOf
  <2>2. PICK p : p = Reread(schedule[card][user])
    OBVIOUS
  <2>3. p \in Schedules /\ p.ease >= 130
    <3>1. PICK row \in Schedules : row = schedule[card][user]
      BY <1>0
    <3>2. p = [interval |-> 0, ease |-> 250, reps |-> row.reps, lapses |-> row.lapses,
               due |-> row.due]
      BY <2>2, <3>1 DEF Reread, Unscheduled, Schedules
    <3>. QED
      BY <3>1, <3>2 DEF Schedules
  <2>4. ReviewOk([step |-> "read", card |-> card, user |-> user, grade |-> grade, prev |-> p])
    BY <2>3 DEF ReviewOk
  <2>5. UNCHANGED schedule
    BY <1>1 DEF ReviewRead
  <2>. QED
    BY <2>1, <2>2, <2>4, <2>5 DEF CardsInv, CardsTypeOK
<1>2. CASE ReviewWrite(r)
  <2>1. /\ q.step = "read"
        /\ schedule' = [schedule EXCEPT ![q.card][q.user] = ScheduleSm2(q.prev, q.grade)]
        /\ reviewing' = [reviewing EXCEPT ![r] = NoReview]
    BY <1>2 DEF ReviewWrite
  <2>2. /\ q.card \in Cards /\ q.user \in Learners /\ q.grade \in Grades
        /\ q.prev \in Schedules /\ q.prev.ease >= 130
    BY <1>0, <2>1 DEF ReviewOk, NoReview
  <2>3. PICK new : new = ScheduleSm2(q.prev, q.grade)
    OBVIOUS
  <2>4. new \in Schedules /\ new.ease >= 130 /\ new.due >= 1
    BY <2>2, <2>3, Scheduled
  <2>5. /\ schedule' \in [Cards -> [Learners -> Schedules]]
        /\ \A card \in Cards, user \in Learners :
             \/ schedule'[card][user] = new
             \/ schedule'[card][user] = schedule[card][user]
    BY <1>0, <2>1, <2>2, <2>3, <2>4
  <2>6. CardsTypeOK'
    <3>1. \A card \in Cards, user \in Learners :
             /\ schedule[card][user].ease >= 130
             /\ schedule[card][user] # Unscheduled => schedule[card][user].due >= 1
      BY DEF CardsInv, CardsTypeOK
    <3>2. \A card \in Cards, user \in Learners :
             /\ schedule'[card][user].ease >= 130
             /\ schedule'[card][user] # Unscheduled => schedule'[card][user].due >= 1
      BY <2>4, <2>5, <3>1
    <3>. QED
      BY <2>5, <3>2 DEF CardsTypeOK, Schedules
  <2>. QED
    BY <2>1, <2>6 DEF CardsInv, ReviewOk
<1>3. CASE ReviewFails(r)
  BY <1>3 DEF ReviewFails, CardsInv, CardsTypeOK, ReviewOk
<1>. QED
  BY <1>1, <1>2, <1>3

\* Whatever is graded, by however many requests at a time, the ease stays at or
\* above 1.3 and a card that has been reviewed is due (study.rs schedule_sm2).
THEOREM CardsTyped == CardsSpec => []CardsTypeOK
<1>1. CardsInv /\ [CardsNext]_cardvars => CardsInv'
  <2>1. ASSUME CardsInv, UNCHANGED cardvars PROVE CardsInv'
    BY <2>1 DEF cardvars, CardsInv, CardsTypeOK, ReviewOk
  <2>. QED
    BY <2>1, ReviewStep DEF CardsNext
<1>2. CardsInv => CardsTypeOK
  BY DEF CardsInv
<1>. QED
  BY <1>1, <1>2, CardsStart, PTL DEF CardsSpec

-----------------------------------------------------------------------------
(* QuestionBank *)

AttemptRows == [m : Questions, user : Students, chosen : Options, correct : BOOLEAN]

\* A request that has read a question holds one that exists, and a row does not
\* go away.
QuizInv ==
  /\ QuizTypeOK
  /\ attempted \in Seq(AttemptRows)
  /\ attempting = [a \in Attempts |-> attempting[a]]
  /\ \A a \in Attempts : attempting[a].step = "read" =>
       /\ attempting[a].m \in Existing /\ attempting[a].user \in Students
       /\ attempting[a].chosen \in Options /\ attempting[a].correct \in BOOLEAN

LEMMA QuizStart == QuizInit => QuizInv
BY DEF QuizInit, QuizInv, QuizTypeOK, QuestionRows, NoAttempt

\* Questions come and change status; what refers to them stays.
LEMMA QuestionsStay ==
  ASSUME QuizInv, questions' \in [Questions -> QuestionRows], Existing \subseteq Existing',
         UNCHANGED <<attempting, attempted>>
  PROVE  QuizInv'
BY DEF QuizInv, QuizTypeOK

\* A request moves on.
LEMMA AttemptMoves ==
  ASSUME QuizInv, NEW a \in Attempts, NEW q, attempting' = [attempting EXCEPT ![a] = q],
         UNCHANGED questions,
         q.step = "read" =>
           /\ q.m \in Existing /\ q.user \in Students
           /\ q.chosen \in Options /\ q.correct \in BOOLEAN,
         attempted' \in Seq(AttemptRows),
         \A i \in 1 .. Len(attempted') : attempted'[i].m \in Existing
  PROVE  QuizInv'
<1>1. /\ attempting' = [b \in Attempts |-> attempting'[b]] /\ attempting'[a] = q
      /\ \A b \in Attempts : b # a => attempting'[b] = attempting[b]
      /\ Existing' = Existing
  BY DEF QuizInv, Existing
<1>. QED
  BY <1>1 DEF QuizInv, QuizTypeOK

LEMMA AttemptStep ==
  ASSUME QuizInv, NEW a \in Attempts,
         AttemptRead(a) \/ AttemptRecord(a) \/ AttemptStats(a) \/ AttemptEnds(a)
  PROVE  QuizInv'
<1>. DEFINE q == attempting[a]
<1>0. /\ UNCHANGED questions
      /\ attempted \in Seq(AttemptRows)
      /\ \A i \in 1 .. Len(attempted) : attempted[i].m \in Existing
  BY DEF QuizInv, QuizTypeOK, AttemptRead, AttemptRecord, AttemptStats, AttemptEnds
<1>1. CASE AttemptRead(a)
  <2>1. PICK m \in Questions, user \in Students, chosen \in Options :
          /\ m \in Existing
          /\ attempting' = [attempting EXCEPT ![a] =
               [step |-> "read", m |-> m, user |-> user, chosen |-> chosen,
                correct |-> chosen = questions[m].answer]]
    <3>1. PICK m \in Questions, user \in Students, chosen \in Options :
            /\ VisibleTo(user, m)
            /\ attempting' = [attempting EXCEPT ![a] =
                 [step |-> "read", m |-> m, user |-> user, chosen |-> chosen,
                  correct |-> chosen = questions[m].answer]]
      BY <1>1, Zenon DEF AttemptRead
    <3>2. m \in Existing
      BY <3>1 DEF VisibleTo
    <3>. QED
      BY <3>1, <3>2, Zenon
  <2>2. PICK right \in BOOLEAN : right = (chosen = questions[m].answer)
    OBVIOUS
  <2>3. UNCHANGED attempted
    BY <1>1 DEF AttemptRead
  <2>. QED
    BY <1>0, <2>1, <2>2, <2>3, AttemptMoves
<1>2. CASE AttemptRecord(a)
  <2>. DEFINE row == [m |-> q.m, user |-> q.user, chosen |-> q.chosen, correct |-> q.correct]
  <2>1. /\ q.step = "read" /\ attempted' = Append(attempted, row)
        /\ attempting' = [attempting EXCEPT ![a] = [q EXCEPT !.step = "recorded"]]
    BY <1>2 DEF AttemptRecord
  <2>2. row \in AttemptRows /\ row.m \in Existing
    BY <2>1 DEF QuizInv, AttemptRows, Existing
  <2>. HIDE DEF row
  <2>3. /\ attempted' \in Seq(AttemptRows)
        /\ \A i \in 1 .. Len(attempted') : attempted'[i].m \in Existing
    BY <1>0, <2>1, <2>2
  <2>4. [q EXCEPT !.step = "recorded"].step # "read"
    BY <2>1
  <2>. QED
    BY <1>0, <2>1, <2>3, <2>4, AttemptMoves
<1>3. CASE AttemptStats(a)
  <2>. DEFINE answer == [step |-> "answered", user |-> q.user, correct |-> q.correct,
                         stats |-> TopicStats(q.user)]
  <2>1. UNCHANGED attempted /\ attempting' = [attempting EXCEPT ![a] = answer]
    BY <1>3 DEF AttemptStats
  <2>2. answer.step # "read"
    OBVIOUS
  <2>. HIDE DEF answer
  <2>. QED
    BY <1>0, <2>1, <2>2, AttemptMoves
<1>4. CASE AttemptEnds(a)
  <2>1. UNCHANGED attempted /\ attempting' = [attempting EXCEPT ![a] = NoAttempt]
    BY <1>4 DEF AttemptEnds
  <2>2. NoAttempt.step # "read"
    BY DEF NoAttempt
  <2>. HIDE DEF q
  <2>. QED
    BY <1>0, <2>1, <2>2, AttemptMoves
<1>. QED
  BY <1>1, <1>2, <1>3, <1>4

LEMMA QuizStep == ASSUME QuizInv, [QuizNext]_quizvars PROVE QuizInv'
<1>0. questions \in [Questions -> QuestionRows]
  BY DEF QuizInv, QuizTypeOK
<1>1. CASE GenerateMcqs
  <2>1. PICK batch \in SUBSET (Questions \ Existing) :
          \E key \in [batch -> Options \cup {NoOption}] :
            questions' = [m \in Questions |->
              IF m \in batch THEN [status |-> "draft", answer |-> key[m]] ELSE questions[m]]
    BY <1>1 DEF GenerateMcqs
  <2>2. questions' \in [Questions -> QuestionRows]
    BY <1>0, <2>1 DEF QuestionRows
  <2>3. Existing \subseteq Existing'
    BY <2>1 DEF Existing
  <2>. QED
    BY <1>1, <2>2, <2>3, QuestionsStay DEF GenerateMcqs
<1>2. CASE SetMcqStatus
  <2>1. PICK m \in Existing, status \in {"draft", "published"} :
          questions' = [questions EXCEPT ![m].status = status]
    BY <1>2 DEF SetMcqStatus
  <2>2. questions' \in [Questions -> QuestionRows] /\ Existing \subseteq Existing'
    BY <1>0, <2>1 DEF QuestionRows, Existing
  <2>. QED
    BY <1>2, <2>2, QuestionsStay DEF SetMcqStatus
<1>3. CASE UNCHANGED quizvars
  BY <1>3 DEF quizvars, QuizInv, QuizTypeOK, Existing
<1>. QED
  BY <1>1, <1>2, <1>3, AttemptStep DEF QuizNext

\* Attempts refer to questions that exist, published or taken back since (study.rs
\* generate_mcqs; routes/study.rs attempt_mcq).
THEOREM QuizTyped == QuizSpec => []QuizTypeOK
<1>1. QuizInv /\ [QuizNext]_quizvars => QuizInv'
  BY QuizStep
<1>2. QuizInv => QuizTypeOK
  BY DEF QuizInv
<1>. QED
  BY <1>1, <1>2, QuizStart, PTL DEF QuizSpec

-----------------------------------------------------------------------------
(* The plane *)

(* A behaviour of the composition is one of each part (six of the seven stand *)
(* still in it), so what is proved of the parts holds of it: they share no    *)
(* tables but those that the others take as given (claims.rs, graph.rs,       *)
(* ontology.rs, retrieve.rs).                                                 *)
THEOREM Parts ==
  KnowledgeSpec => /\ ClaimSpec /\ TopicSpec /\ GraphSpec /\ OntologySpec
                   /\ CardsSpec /\ QuizSpec /\ SearchSpec
<1>1. KnowledgeInit => /\ ClaimInit /\ TopicInit /\ GraphInit /\ OntologyInit
                       /\ CardsInit /\ QuizInit /\ SearchInit
  BY DEF KnowledgeInit
<1>2. [KnowledgeNext]_KnowledgeVars => [ClaimNext]_cvars /\ [TopicNext]_tvars
  BY DEF KnowledgeNext, KnowledgeVars
<1>3. [KnowledgeNext]_KnowledgeVars => [GraphNext]_gvars /\ [OntologyNext]_ontologyvars
  BY DEF KnowledgeNext, KnowledgeVars
<1>4. [KnowledgeNext]_KnowledgeVars => [CardsNext]_cardvars /\ [QuizNext]_quizvars
  BY DEF KnowledgeNext, KnowledgeVars
<1>5. [KnowledgeNext]_KnowledgeVars => [SearchNext]_searchvars
  BY DEF KnowledgeNext, KnowledgeVars
<1>. QED
  BY <1>1, <1>2, <1>3, <1>4, <1>5, PTL
  DEF KnowledgeSpec, ClaimSpec, TopicSpec, GraphSpec, OntologySpec, CardsSpec, QuizSpec, SearchSpec

\* The types of all parts, in the composition that the run Knowledge checks.
THEOREM KnowledgeTyped == KnowledgeSpec => []KnowledgeTypeOK
<1>1. /\ ClaimTypeOK /\ TopicTypeOK /\ GraphTypeOK /\ OntologyTypeOK
      /\ CardsTypeOK /\ QuizTypeOK /\ SearchTypeOK
      => KnowledgeTypeOK
  BY DEF KnowledgeTypeOK
<1>. QED
  BY <1>1, Parts, ClaimsTyped, TopicTyped, GraphTyped, OntologyTyped, CardsTyped, QuizTyped,
     SearchTyped, PTL
================================================================================
