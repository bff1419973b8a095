------------------------------ MODULE MCJobDaemon -------------------------------
(***************************************************************************)
(* The callback job of a run and the check of the schedules at a daemon's  *)
(* boot, which share no state, checked side by side: a behaviour is one of *)
(* TerminalCallbackDelivery, with two attempts in the place of seven, one  *)
(* redirect in the place of three and BullMQ's default of one stall, or of *)
(* JobScheduleRegistration, and part says which.                           *)
(***************************************************************************)
EXTENDS TerminalCallbackDelivery, JobScheduleRegistration

VARIABLE part

daemonVars == <<part, vars, registrationVars>>

AnyFault == CallbackFaultKinds

DaemonInit ==
    /\ part \in {"callback", "schedules"}
    /\ Init
    /\ RegistrationInit
    /\ part = "callback" => registered = [s \in Schedulers |-> {}]
    /\ part = "schedules" => deliverable

DaemonNext ==
    /\ UNCHANGED part
    /\ \/ part = "callback" /\ Next /\ UNCHANGED registrationVars
       \/ part = "schedules" /\ RegistrationNext /\ UNCHANGED vars

\* That of RecoveringSpec and RegistrationFairness, for the behaviours of each.
DaemonFairness ==
    /\ WF_vars(part = "callback" /\ RunQueue)
    /\ \A n \in Attempts : WF_vars(part = "callback" /\ ExecuteJob(n))
    /\ WF_vars(part = "callback" /\ NoticeDeadWorker)
    /\ WF_registrationVars(part = "schedules" /\ RefuseRegistrationAtDeadline)
    /\ \A s \in Schedulers : WF_registrationVars(part = "schedules" /\ InspectQueue(s))

DaemonSpec == DaemonInit /\ [][DaemonNext]_daemonVars /\ DaemonFairness

\* Where the part is the callback's, its job ends whatever the client does, and
\* whatever worker dies (DeliverRunCallbackJobWorker throws what did not land, and
\* the queue tries it again and counts).
CallbackEnds == part = "callback" => JobEnds

================================================================================
