----------------------------- MODULE Flashcards -----------------------------
(* Flashcards scheduled by SM-2, one schedule per card and user             *)
(* (study.rs, routes/study.rs).                                             *)
(*                                                                          *)
(* Ease factors are hundredths of the code's f64 (250 is 2.5); the updates  *)
(* of +10, 0 and -14 hundredths are exact.                                  *)
EXTENDS Integers

CONSTANTS
    Cards,              \* flashcards
    Learners,           \* users who review them
    Reviews,            \* concurrent review requests
    MaxReviews          \* bound: reviews committed per card and user

VARIABLES
    schedule,           \* card_schedules.fsrs_state_json; the default until a row exists
    reviewing,          \* what each review request has read
    graded              \* history: how often each user has graded each card

cardvars == <<schedule, reviewing, graded>>

Grades == 1 .. 4        \* Again, Hard, Good, Easy
NoReview == [step |-> "idle"]

\* What serde makes of absent keys: every field of SrInput is optional and
\* schedule_sm2 fills it.
Unscheduled == [interval |-> 0, ease |-> 250, reps |-> 0, lapses |-> 0, due |-> 0]

EaseStep(grade) == CASE grade = 2 -> -14 [] grade = 3 -> 0 [] grade = 4 -> 10

AtLeast(low, n) == IF n < low THEN low ELSE n

\* schedule_sm2.  Again sends the card back to relearning; any other grade
\* moves the ease and takes the next rung of 1, 6, interval * ease (rounded).
ScheduleSm2(prev, grade) ==
    LET ease == AtLeast(130, prev.ease + EaseStep(grade))
        interval == CASE prev.reps = 0 -> 1
                      [] prev.reps = 1 -> 6
                      [] prev.reps > 1 -> (prev.interval * ease + 50) \div 100
    IN  IF grade = 1
        THEN [prev EXCEPT !.interval = 1, !.reps = 0, !.lapses = @ + 1, !.due = 1]
        ELSE [prev EXCEPT !.interval = interval, !.ease = ease, !.reps = @ + 1,
                          !.due = AtLeast(1, interval)]

\* The row is written with keys intervalDays and easeFactor and read into a
\* struct whose keys are interval_days and ease_factor: both come back absent,
\* only repetitions and lapses survive the round trip.
Reread(row) == [row EXCEPT !.interval = Unscheduled.interval, !.ease = Unscheduled.ease]

\* The schedule is per card and user.
StateOf(card, user) == schedule[card][user]

\* The read of review_flashcard: SELECT without FOR UPDATE, so two requests of
\* one user can hold the same previous state.
ReviewRead(r) ==
    /\ reviewing[r] = NoReview
    /\ \E card \in Cards, user \in Learners, grade \in Grades :
          reviewing' = [reviewing EXCEPT ![r] =
              [step |-> "read", card |-> card, user |-> user, grade |-> grade,
               prev |-> Reread(StateOf(card, user))]]
    /\ UNCHANGED <<schedule, graded>>

\* The upsert and the commit.
ReviewWrite(r) ==
    LET q == reviewing[r]
    IN  /\ q.step = "read"
        /\ graded[q.card][q.user] < MaxReviews
        /\ schedule' = [schedule EXCEPT ![q.card][q.user] = ScheduleSm2(q.prev, q.grade)]
        /\ graded' = [graded EXCEPT ![q.card][q.user] = @ + 1]
        /\ reviewing' = [reviewing EXCEPT ![r] = NoReview]

\* The transaction fails or the client goes away: nothing is written.
ReviewFails(r) ==
    /\ reviewing[r] # NoReview
    /\ reviewing' = [reviewing EXCEPT ![r] = NoReview]
    /\ UNCHANGED <<schedule, graded>>

CardsInit ==
    /\ schedule = [card \in Cards |-> [user \in Learners |-> Unscheduled]]
    /\ reviewing = [r \in Reviews |-> NoReview]
    /\ graded = [card \in Cards |-> [user \in Learners |-> 0]]

CardsNext == \E r \in Reviews : ReviewRead(r) \/ ReviewWrite(r) \/ ReviewFails(r)

CardsSpec == CardsInit /\ [][CardsNext]_cardvars

-----------------------------------------------------------------------------
\* A schedule keeps its shape: the ease never falls below 1.3, and a reviewed
\* card is due in a day or more (schedule_sm2).
CardsTypeOK ==
    /\ schedule \in [Cards -> [Learners ->
           [interval : Nat, ease : Nat, reps : Nat, lapses : Nat, due : Nat]]]
    /\ \A card \in Cards, user \in Learners :
          /\ schedule[card][user].ease >= 130
          /\ schedule[card][user] # Unscheduled => schedule[card][user].due >= 1

\* SM-2 spaces successful repetitions out: a passed review never shortens the
\* interval (study.rs, schedule_sm2).  The code loses interval and ease between
\* reviews, so the third pass in a row resets the interval to zero.
IntervalsGrow ==
    [][\A card \in Cards, user \in Learners :
          schedule'[card][user].reps > schedule[card][user].reps =>
              schedule'[card][user].interval >= schedule[card][user].interval]_cardvars
=============================================================================
