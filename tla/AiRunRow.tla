------------------------------- MODULE AiRunRow -------------------------------
(***************************************************************************)
(* One row of ai_runs and the two things every writer of it does through   *)
(* AiRunStatusRecorder: read the row and refuse a settled one, then write  *)
(* under a condition the database checks again.  The read and the write    *)
(* are two queries with nothing held between them.                         *)
(***************************************************************************)

CONSTANTS
    Requests,   \* the cancel requests of the client, one instant each
    None,       \* NULL in a column, and no outcome yet
    Faults      \* which of FaultKinds this environment may produce

\* What may go wrong around a run.
\*   stall     BullMQ takes a job back from a worker whose lock expired
\*   crash     the process of a worker dies
\*   database  a query fails, before or after it had its effect
\*   enqueue   the callback queue refuses the job
\*   disk      the workspace cannot be removed
\*   provider  a medium, the model or a query of the work itself fails
FaultKinds == {"stall", "crash", "database", "enqueue", "disk", "provider"}

ASSUME RowAssumption == None \notin Requests /\ Faults \subseteq FaultKinds

VARIABLES
    status,             \* ai_runs.ai_run_status_id
    cancelRequestedAt   \* ai_runs.cancel_requested_at: whose instant, or None

rowVars == <<status, cancelRequestedAt>>

TerminalStatuses == {"succeeded", "failed", "canceled"}

Statuses == {"queued", "running"} \cup TerminalStatuses

RowTypeOK ==
    /\ status \in Statuses
    /\ cancelRequestedAt \in Requests \cup {None}

\* The row as acceptance left it.
RowInit ==
    /\ status = "queued"
    /\ cancelRequestedAt = None

HasSettled == status \in TerminalStatuses

HasCancelRequest == cancelRequestedAt # None

\* Faulty form: the update trusts the reading before it.
SaveUnsettledAiRunValues_Unconditional(newStatus, newCancelRequestedAt) ==
    /\ status' = newStatus
    /\ cancelRequestedAt' = newCancelRequestedAt

\* UPDATE ai_runs SET ... WHERE id = ? AND ai_run_status_id NOT IN (terminal):
\* the row moves, or not one row was affected and the writer was outraced.
SaveUnsettledAiRunValues(newStatus, newCancelRequestedAt) ==
    /\ ~HasSettled
    /\ status' = newStatus
    /\ cancelRequestedAt' = newCancelRequestedAt

SaveStatus(newStatus) == SaveUnsettledAiRunValues(newStatus, cancelRequestedAt)

SaveCancelRequest(request) == SaveUnsettledAiRunValues(status, request)

\* The row answers that this writer did not write it.
IsOutraced == HasSettled /\ UNCHANGED rowVars

================================================================================
