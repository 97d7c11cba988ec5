------------------------------- MODULE Intake --------------------------------
(***************************************************************************)
(* The ways into the dispatcher's queue besides the publish handler:        *)
(* e-mail and the welcome message of a subscription. They share the queue   *)
(* and the faults of the database.                                          *)
(***************************************************************************)
EXTENDS SmtpSession, Subscriptions

vars == <<queueVars, smtpVars, subVars>>

TypeOK ==
  /\ load \in IntakeLoads /\ faults \in 0..load.faults
  /\ Len(queue) <= QueueCap
  /\ SmtpTypeOK /\ SubTypeOK

Init == QueueInit /\ SmtpInit /\ SubInit

SessionStep(s) == Smtp(s) /\ UNCHANGED subVars
RequestStep(r) == HandleRequest(r) /\ UNCHANGED smtpVars
WorkerStep == Take /\ UNCHANGED <<smtpVars, subVars>>

Next ==
  \/ \E s \in Session : SessionStep(s)
  \/ \E r \in Request : RequestStep(r)
  \/ WorkerStep

Spec == Init /\ [][Next]_vars
=============================================================================
