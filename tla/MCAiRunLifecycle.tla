--------------------------- MODULE MCAiRunLifecycle ----------------------------
(***************************************************************************)
(* AiRunLifecycle with two deliveries, BullMQ's default of one redelivery, *)
(* and one cancel request or none.                                         *)
(***************************************************************************)
EXTENDS AiRunLifecycle

CONSTANTS d1, d2, r1

TwoDeliveries == {d1, d2}
OneRequest == {r1}
NoRequest == {}

RemovableDisk == FaultKinds \ {"disk"}
WorkFaults == {"stall", "provider", "disk"}
CrashFaults == {"stall", "crash"}
SlowWorker == {"stall"}

\* Bound: a request that comes when the run has settled is answered and changes
\* nothing, so it never comes.
RequestComesInTime ==
    \A r \in Requests : request[r] = "unsent" /\ request'[r] # "unsent" => ~HasSettled

LivenessSpec == Init /\ [][Next /\ RequestComesInTime]_vars /\ Fairness

================================================================================
