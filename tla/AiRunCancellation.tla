--------------------------- MODULE AiRunCancellation ---------------------------
(***************************************************************************)
(* A client asking for its run to be canceled (AiRunCancellationRegistrar  *)
(* behind AiRunCancellationPostRenderer): the row is read, the request is  *)
(* dropped when that reading shows a settled run or an instant, and        *)
(* otherwise the recorder reads again and writes.  Three queries, with     *)
(* the worker and other requests free to move between them.                *)
(***************************************************************************)
EXTENDS AiRunRow

VARIABLE
    request     \* request[r]: how far cancel request r has come

RequestPhases == {"unsent", "registering", "saving", "answered"}

CancellationTypeOK == request \in [Requests -> RequestPhases]

CancellationInit == request = [r \in Requests |-> "unsent"]

Proceed(r, phase) == request' = [request EXCEPT ![r] = phase]

\* shouldSaveAiRunCancelRequest, asked of the row as it was read.
ShouldSaveCancelRequest == ~HasSettled /\ ~HasCancelRequest

\* findAiRun and the decision whether anything is to be written.
RegisterCancellation(r) ==
    /\ request[r] = "unsent"
    /\ Proceed(r, IF ShouldSaveCancelRequest THEN "registering" ELSE "answered")
    /\ UNCHANGED rowVars

\* The recorder's own reading, which refuses a run that settled meanwhile.
ReadBeforeCancelRequest(r) ==
    /\ request[r] = "registering"
    /\ Proceed(r, IF HasSettled THEN "answered" ELSE "saving")
    /\ UNCHANGED rowVars

\* The conditional write; a refusal is answered like a success.
WriteCancelRequest(r) ==
    /\ request[r] = "saving"
    /\ Proceed(r, "answered")
    /\ SaveCancelRequest(r) \/ IsOutraced

\* A query fails: the client is answered an error, and the write may have
\* happened all the same.
CancellationFails(r) ==
    /\ "database" \in Faults
    /\ request[r] \in {"unsent", "registering", "saving"}
    /\ Proceed(r, "answered")
    /\ \/ UNCHANGED rowVars
       \/ request[r] = "saving" /\ SaveCancelRequest(r)

CancellationStep(r) ==
    \/ RegisterCancellation(r)
    \/ ReadBeforeCancelRequest(r)
    \/ WriteCancelRequest(r)
    \/ CancellationFails(r)

================================================================================
