------------------------------ MODULE AiRunRecord ------------------------------
(***************************************************************************)
(* What a run promises whoever reads its row: it waits, it is worked on,   *)
(* and it settles on exactly one terminal status; a client may ask it to   *)
(* stop while it has not settled; once it has settled its client is called *)
(* back at most once.  AiRunLifecycle is shown to implement this module.   *)
(***************************************************************************)

VARIABLES
    status,             \* ai_runs.ai_run_status_id
    cancelRequested,    \* whether ai_runs.cancel_requested_at holds an instant
    calledBack          \* whether the terminal callback was handed to the queue

vars == <<status, cancelRequested, calledBack>>

\* The statuses a run never leaves.
TerminalStatuses == {"succeeded", "failed", "canceled"}

\* Every status a row can hold.
Statuses == {"queued", "running"} \cup TerminalStatuses

HasSettled == status \in TerminalStatuses

Init ==
    /\ status = "queued"
    /\ cancelRequested = FALSE
    /\ calledBack = FALSE

\* A delivery claims the run.  Claiming one that is already running changes
\* nothing a reader can tell.
Start ==
    /\ status = "queued"
    /\ status' = "running"
    /\ UNCHANGED <<cancelRequested, calledBack>>

RequestCancel ==
    /\ ~HasSettled
    /\ cancelRequested' = TRUE
    /\ UNCHANGED <<status, calledBack>>

\* A run is never settled from the queue, and never canceled unasked.
Settle(terminal) ==
    /\ status = "running"
    /\ terminal = "canceled" => cancelRequested
    /\ status' = terminal
    /\ UNCHANGED <<cancelRequested, calledBack>>

CallBack ==
    /\ HasSettled
    /\ ~calledBack
    /\ calledBack' = TRUE
    /\ UNCHANGED <<status, cancelRequested>>

Next ==
    \/ Start
    \/ RequestCancel
    \/ \E terminal \in TerminalStatuses : Settle(terminal)
    \/ CallBack

Spec == Init /\ [][Next]_vars

================================================================================
