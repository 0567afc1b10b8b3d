------------------------------- MODULE MCRuntime -------------------------------
(***************************************************************************)
(* Settings, the rate limiter and webhooks: a behaviour belongs to one of  *)
(* them.  Each has the fairness of its own module.                         *)
(***************************************************************************)
EXTENDS Settings, RateLimit, WebhookDelivery, TLC

CONSTANTS api, worker, r1, r2, w1, w2

OneKey == {"queue"}
TwoSubkeys == {"a", "b"}
\* Clear the key, set a member, set one beyond the clamp, clear a member.
PatchesChecked == {"queue" :> Null, "queue" :> ("a" :> 1), "queue" :> ("b" :> 3),
                   "queue" :> ("a" :> Null)}
ApiAndWorker == {api, worker}
TwoRequests == {r1, r2}
TwoHooks == {w1, w2}

VARIABLE part

RuntimeVars == <<part, svars, rvars, wvars>>

RuntimeInit ==
  part \in {"settings", "rate", "webhooks"} /\ SettingsInit /\ RateInit /\ WebhookInit

RuntimeNext ==
  \/ part = "settings" /\ SettingsNext /\ UNCHANGED <<part, rvars, wvars>>
  \/ part = "rate" /\ RateNext /\ UNCHANGED <<part, svars, wvars>>
  \/ part = "webhooks" /\ WebhookNext /\ UNCHANGED <<part, svars, rvars>>

\* The fairness of SettingsSpec, RateSpec and WebhookSpec.
RuntimeFairness ==
  /\ WF_RuntimeVars(part = "settings" /\ Tick /\ UNCHANGED <<part, rvars, wvars>>)
  /\ WF_RuntimeVars(part = "rate" /\ SecondPasses /\ UNCHANGED <<part, svars, wvars>>)
  /\ \A h \in Hits :
       WF_RuntimeVars(part = "rate" /\ HitStep(h) /\ UNCHANGED <<part, svars, wvars>>)
  /\ \A d \in Dispatchers :
       WF_RuntimeVars(part = "webhooks" /\ Dispatch(d) /\ UNCHANGED <<part, svars, rvars>>)

RuntimeSpec == RuntimeInit /\ [][RuntimeNext]_RuntimeVars /\ RuntimeFairness

\* The types of the parts, with what they guarantee: an entry that is served has
\* every key of the defaults (settings.rs merge_and_clamp), a counter that is
\* gone has no expiry (middleware.rs), a dispatcher posts to one hook at a time
\* (webhooks.rs dispatch).
RuntimeTypeOK == SettingsTypeOK /\ RateTypeOK /\ WebhookTypeOK
=============================================================================
