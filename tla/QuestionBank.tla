---------------------------- MODULE QuestionBank ----------------------------
(* Multiple-choice questions: generated from a topic's claims as drafts,    *)
(* published by editors, attempted by users (study.rs, routes/study.rs).    *)
EXTENDS Integers, SequencesExt

CONSTANTS
    Students,           \* users who attempt questions
    Editors,            \* the students whose role ranks at editor or above
    Attempts,           \* concurrent attempt requests
    Questions,          \* ids the database may give to questions
    Options,            \* positions of the options of a question
    MaxAttempts         \* bound: attempts recorded

VARIABLES
    questions,          \* rows of mcqs
    attempting,         \* what each attempt request holds
    attempted           \* rows of quiz_attempts, in commit order

quizvars == <<questions, attempting, attempted>>

NoOption == -1
NoAttempt == [step |-> "idle"]

NoQuestion == [status |-> "none", answer |-> NoOption]

Existing == {m \in Questions : questions[m].status # "none"}

\* mcqs.status and the answer's position among the options.  The model writes
\* the answer as free text, which may be none of its own options.
QuestionRows == [status : {"none", "draft", "published"}, answer : Options \cup {NoOption}]

\* generate_mcqs: the claims of the topic are read, the model is asked, and the
\* well-formed questions it answers are inserted as drafts in one transaction.
\* No claims, no parsable answer or a failed insert leave the table as it was.
GenerateMcqs ==
    /\ \E batch \in SUBSET (Questions \ Existing) \ {{}} :
          \E key \in [batch -> Options \cup {NoOption}] :
             questions' = [m \in Questions |->
                 IF m \in batch THEN [status |-> "draft", answer |-> key[m]] ELSE questions[m]]
    /\ UNCHANGED <<attempting, attempted>>

\* set_mcq_status: an editor publishes a question or takes it back.
SetMcqStatus ==
    /\ \E m \in Existing, status \in {"draft", "published"} :
          /\ questions[m].status # status
          /\ questions' = [questions EXCEPT ![m].status = status]
    /\ UNCHANGED <<attempting, attempted>>

\* The draft gate, of list_mcqs as of attempt_mcq.
VisibleTo(user, m) ==
    /\ m \in Existing
    /\ user \in Editors \/ questions[m].status = "published"

\* attempt_mcq reads the question (its answer is never updated) and checks the
\* draft gate and the option.
AttemptRead(a) ==
    /\ attempting[a] = NoAttempt
    /\ Len(attempted) < MaxAttempts
    /\ \E m \in Questions, user \in Students, chosen \in Options :
          /\ VisibleTo(user, m)
          /\ attempting' = [attempting EXCEPT ![a] =
                 [step |-> "read", m |-> m, user |-> user, chosen |-> chosen,
                  correct |-> chosen = questions[m].answer]]
    /\ UNCHANGED <<questions, attempted>>

\* The insert and the commit.
AttemptRecord(a) ==
    LET q == attempting[a]
    IN  /\ q.step = "read"
        /\ Len(attempted) < MaxAttempts
        /\ attempted' = Append(attempted,
              [m |-> q.m, user |-> q.user, chosen |-> q.chosen, correct |-> q.correct])
        /\ attempting' = [attempting EXCEPT ![a].step = "recorded"]
        /\ UNCHANGED <<questions>>

\* topic_stats: the user's attempts so far, counted in a transaction of its own.
TopicStats(user) ==
    LET own == SelectSeq(attempted, LAMBDA t : t.user = user)
    IN  [attempts |-> Len(own), correct |-> Len(SelectSeq(own, LAMBDA t : t.correct))]

\* The statistics of the answer; their read may fail, which answers none.
AttemptStats(a) ==
    /\ attempting[a].step = "recorded"
    /\ attempting' = [attempting EXCEPT ![a] =
          [step |-> "answered", user |-> @.user, correct |-> @.correct,
           stats |-> TopicStats(@.user)]]
    /\ UNCHANGED <<questions, attempted>>

AttemptEnds(a) ==
    /\ attempting[a].step \in {"recorded", "answered", "read"}
    /\ attempting' = [attempting EXCEPT ![a] = NoAttempt]
    /\ UNCHANGED <<questions, attempted>>

QuizInit ==
    /\ questions = [m \in Questions |-> [status |-> "none", answer |-> NoOption]]
    /\ attempting = [a \in Attempts |-> NoAttempt]
    /\ attempted = <<>>

QuizNext ==
    \/ GenerateMcqs
    \/ SetMcqStatus
    \/ \E a \in Attempts :
          AttemptRead(a) \/ AttemptRecord(a) \/ AttemptStats(a) \/ AttemptEnds(a)

QuizSpec == QuizInit /\ [][QuizNext]_quizvars

-----------------------------------------------------------------------------
\* The tables keep their shape; attempts refer to questions that exist.
QuizTypeOK ==
    /\ questions \in [Questions -> QuestionRows]
    /\ \A i \in 1 .. Len(attempted) : attempted[i].m \in Existing

=============================================================================
