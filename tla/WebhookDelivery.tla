---------------------------- MODULE WebhookDelivery ----------------------------
(***************************************************************************)
(* Delivery of one domain event to the webhooks of a tenant: the           *)
(* webhook_deliver job (insight-worker main.rs), dispatch (insight-core    *)
(* webhooks.rs), and the admin's edits (insight-api routes/webhooks.rs).   *)
(*                                                                         *)
(* The job is delivered at least once, see module AtLeastOnce: a           *)
(* dispatcher that dies, or is merely slow, leaves it to another one.      *)
(***************************************************************************)
EXTENDS Naturals, FiniteSets

CONSTANTS
  Hooks,        \* ids of webhooks
  Dispatchers,  \* deliveries of the job in progress
  MaxEdits,     \* bound on the admin's edits
  MaxTrouble    \* bound on crashes, failed loads and failed acks

ASSUME WebhookAssumption == MaxEdits \in Nat /\ MaxTrouble \in Nat

VARIABLES
  hooks,       \* subscribed: active and matches_event of the event
  steady,      \* those subscribed, and not edited, since the event
  posted,      \* those the event was posted to
  status,      \* last_status: none, or that of the last recorded attempt
  event,       \* the job: none, queued (or pending), acked, dropped
  dispatcher,  \* what each has left, and what it has posted and not recorded
  edits, trouble

wvars == <<hooks, steady, posted, status, event, dispatcher, edits, trouble>>

Sleeping == [busy |-> FALSE, todo |-> {}, posting |-> {}]

WebhookTypeOK ==
  /\ hooks \in [Hooks -> {"absent", "off", "subscribed"}]
  /\ steady \subseteq Hooks /\ posted \subseteq Hooks
  /\ status \in [Hooks -> {"none", "ok", "error"}]
  /\ event \in {"none", "queued", "acked", "dropped"}
  /\ dispatcher \in [Dispatchers -> [busy : BOOLEAN, todo : SUBSET Hooks,
                                     posting : {{}} \cup {{h} : h \in Hooks}]]

WebhookInit ==
  /\ hooks = [h \in Hooks |-> "absent"]
  /\ steady = {} /\ posted = {}
  /\ status = [h \in Hooks |-> "none"]
  /\ event = "none"
  /\ dispatcher = [d \in Dispatchers |-> Sleeping]
  /\ edits = 0 /\ trouble = 0

Subscribed == {h \in Hooks : hooks[h] = "subscribed"}
SetDispatcher(d, r) == dispatcher' = [dispatcher EXCEPT ![d] = r]

Trouble ==
  /\ trouble < MaxTrouble
  /\ trouble' = trouble + 1

\* create_webhook, update_webhook, delete_webhook
EditHook ==
  /\ edits < MaxEdits
  /\ edits' = edits + 1
  /\ \E h \in Hooks, s \in {"absent", "off", "subscribed"} :
       /\ hooks[h] = "absent" => s = "subscribed"
       /\ hooks' = [hooks EXCEPT ![h] = s]
       /\ status' = IF s = "absent" \/ hooks[h] = "absent" THEN [status EXCEPT ![h] = "none"]
                    ELSE status
       /\ steady' = steady \ {h}
  /\ UNCHANGED <<posted, event, dispatcher, trouble>>

\* resolve_review enqueues review.resolved.
Emit ==
  /\ event = "none"
  /\ event' = "queued" /\ steady' = Subscribed
  /\ UNCHANGED <<hooks, posted, status, dispatcher, edits, trouble>>

\* dispatch: the SELECT of the active hooks, filtered by matches_event.
LoadHooks(d) ==
  /\ ~dispatcher[d].busy /\ event = "queued"
  /\ SetDispatcher(d, [busy |-> TRUE, todo |-> Subscribed, posting |-> {}])
  /\ UNCHANGED <<hooks, steady, posted, status, event, edits, trouble>>

\* The SELECT fails: process logs the error and acks all the same.
LoadFails(d) ==
  /\ ~dispatcher[d].busy /\ event = "queued"
  /\ event' = "dropped"
  /\ Trouble
  /\ UNCHANGED <<hooks, steady, posted, status, dispatcher, edits>>

\* Mutant of PostHook: a POST that fails ends the loop, as `?` would.
PostOrStop(d) ==
  /\ dispatcher[d].posting = {}
  /\ \E h \in dispatcher[d].todo, stop \in BOOLEAN :
       /\ posted' = posted \cup {h}
       /\ SetDispatcher(d, [busy |-> TRUE, posting |-> {h},
                           todo |-> IF stop THEN {} ELSE dispatcher[d].todo \ {h}])
  /\ UNCHANGED <<hooks, steady, status, event, edits, trouble>>

\* deliver_one, in the order the rows came; it never fails.
PostHook(d) ==
  /\ dispatcher[d].posting = {}
  /\ \E h \in dispatcher[d].todo :
       /\ posted' = posted \cup {h}
       /\ SetDispatcher(d, [busy |-> TRUE, todo |-> dispatcher[d].todo \ {h}, posting |-> {h}])
  /\ UNCHANGED <<hooks, steady, status, event, edits, trouble>>

Recorded(h, s) == IF hooks[h] = "absent" THEN status ELSE [status EXCEPT ![h] = s]

\* record: best effort, and nothing if the hook is gone.
Record(d) ==
  /\ \E h \in dispatcher[d].posting, s \in {"ok", "error"} : status' \in {status, Recorded(h, s)}
  /\ SetDispatcher(d, [dispatcher[d] EXCEPT !.posting = {}])
  /\ UNCHANGED <<hooks, steady, posted, event, edits, trouble>>

\* test_webhook posts an event of its own and records the outcome.
TestHook ==
  /\ \E h \in Hooks, s \in {"ok", "error"} :
       hooks[h] # "absent" /\ status' = Recorded(h, s)
  /\ UNCHANGED <<hooks, steady, posted, event, dispatcher, edits, trouble>>

\* Mutant of AckEvent: no XACK after the loop.
AckForgotten(d) ==
  /\ dispatcher[d].busy /\ dispatcher[d].todo = {} /\ dispatcher[d].posting = {}
  /\ SetDispatcher(d, Sleeping)
  /\ UNCHANGED <<hooks, steady, posted, status, event, edits, trouble>>

\* The loop is done: XACK, also of a job another dispatcher acked before.
AckEvent(d) ==
  /\ dispatcher[d].busy /\ dispatcher[d].todo = {} /\ dispatcher[d].posting = {}
  /\ event' = IF event = "queued" THEN "acked" ELSE event
  /\ SetDispatcher(d, Sleeping)
  /\ UNCHANGED <<hooks, steady, posted, status, edits, trouble>>

\* The worker dies, or XACK fails: the job stays pending.
DispatcherDies(d) ==
  /\ dispatcher[d].busy
  /\ SetDispatcher(d, Sleeping)
  /\ Trouble
  /\ UNCHANGED <<hooks, steady, posted, status, event, edits>>

WebhookNext ==
  \/ EditHook \/ Emit \/ TestHook
  \/ \E d \in Dispatchers : \/ LoadHooks(d) \/ LoadFails(d) \/ PostHook(d) \/ Record(d)
                            \/ AckEvent(d) \/ DispatcherDies(d)

Dispatch(d) == LoadHooks(d) \/ PostHook(d) \/ Record(d) \/ AckEvent(d)

\* A worker that runs goes on, and stale entries are claimed again.
WebhookFairness == \A d \in Dispatchers : WF_wvars(Dispatch(d))

WebhookSpec == WebhookInit /\ [][WebhookNext]_wvars /\ WebhookFairness

-----------------------------------------------------------------------------
(* Properties *)

\* The event is acked only after it was posted to every hook that was
\* subscribed all the time, whichever dispatchers died on the way and whatever
\* receivers answered (webhooks.rs dispatch, main.rs process).
AckedMeansPosted == event = "acked" => steady \subseteq posted

\* An event that is queued does get settled.
EventSettles == event = "queued" ~> event \in {"acked", "dropped"}
=============================================================================
