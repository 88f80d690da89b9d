------------------------------ MODULE MCWebhook ------------------------------
(***************************************************************************)
(* The two components of the node that act on other machines and try again *)
(* when they fail: the webhook worker, with a backlog longer than a batch,  *)
(* and the egress manager with its health pass.  A behaviour exercises one  *)
(* of them, which `subject' names.                                          *)
(***************************************************************************)
EXTENDS Webhook, Egress

VARIABLE subject

allVars == <<subject, vars, evars>>

InWebhook(A) == subject = "webhook" /\ A /\ UNCHANGED <<subject, evars>>
InEgress(A) == subject = "egress" /\ A /\ UNCHANGED <<subject, vars>>

WorkersInit == subject \in {"webhook", "egress"} /\ Init /\ EInit
WorkersNext == InWebhook(Next) \/ InEgress(ENext)

\* `subject' never changes, so weak fairness of a disjunction of steps of
\* different subjects is weak fairness of each subject's own step.
WorkersSpec ==
  /\ WorkersInit /\ [][WorkersNext]_allVars
  /\ \A d \in Deliveries : WF_allVars(InWebhook(Elapse(d)))
  /\ WF_allVars(InWebhook(\E n \in AttemptLimits : Select(n)) \/ InEgress(Apply))
  /\ WF_allVars(InWebhook(Post) \/ InEgress(ProbeAll))
  /\ WF_allVars(InWebhook(Record) \/ InEgress(Boot))
  /\ SF_allVars(InEgress(PassRetries))
=============================================================================
