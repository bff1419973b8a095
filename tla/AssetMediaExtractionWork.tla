----------------------- MODULE AssetMediaExtractionWork ------------------------
(***************************************************************************)
(* The body of work of a run (AssetMediaExtractionRunner and what it calls)*)
(* as the six steps it records: suggestible fields are selected, the media *)
(* are fetched and uploaded, the model is asked, and the readings are      *)
(* inspected, settled and scored.  Each delivery of the run's job has a    *)
(* work of its own; the rows of ai_run_steps and the directory of          *)
(* temporary copies belong to the run and are shared by all of them.       *)
(*                                                                         *)
(* The work hears of a cancellation or of the time limit only through      *)
(* aborted[d], and looks at it in three places.  A run has one medium here:*)
(* the loop over media repeats FetchMedium and StoreMedium.                *)
(***************************************************************************)
EXTENDS Naturals

CONSTANT
    Deliveries  \* the times BullMQ may hand this run's job to a worker

VARIABLES
    work,           \* work[d]: where the work of delivery d stands
    aborted,        \* aborted[d]: whether its abort signal was raised
    steps,          \* ai_run_steps.step_index of the rows the run has
    modelCalls,     \* the deliveries whose work called the model
    workspaceHeld   \* whether the run's directory holds a temporary copy

workVars == <<work, aborted, steps, modelCalls, workspaceHeld>>

\* ASSET_MEDIA_EXTRACTION_STEP.*.INDEX
SelectFields == 1
FetchMedia == 2
ReadMedia == 3
DropReadings == 4
SettleByMajority == 5
ScoreConfidence == 6
StepIndexes == 1..6

\* The works that still have something to do.
BusyPhases == {"selecting", "preparing", "fetching", "storing", "writing",
               "uploading", "attaching", "asking", "reading", "inspecting",
               "resolving", "scoring"}

WorkPhases == BusyPhases \cup {"off", "answered", "threw"}

WorkTypeOK ==
    /\ work \in [Deliveries -> WorkPhases]
    /\ aborted \in [Deliveries -> BOOLEAN]
    /\ steps \subseteq StepIndexes
    /\ modelCalls \subseteq Deliveries
    /\ workspaceHeld \in BOOLEAN

WorkInit ==
    /\ work = [d \in Deliveries |-> "off"]
    /\ aborted = [d \in Deliveries |-> FALSE]
    /\ steps = {}
    /\ modelCalls = {}
    /\ workspaceHeld = FALSE

IsBusy(d) == work[d] \in BusyPhases

Turn(d, phase) == work' = [work EXCEPT ![d] = phase]

\* INSERT INTO ai_run_steps under UNIQUE (ai_run_id, step_index): the second
\* row of one index is refused, and the refusal is thrown out of the work.
SaveStep(d, index, phase) ==
    /\ steps' = steps \cup {index}
    /\ Turn(d, IF index \in steps THEN "threw" ELSE phase)

\* Step 1.  A request without a suggestible field is answered at once.
SelectSuggestibleFields(d) ==
    /\ work[d] = "selecting"
    /\ \E phase \in {"preparing", "answered"} : SaveStep(d, SelectFields, phase)
    /\ UNCHANGED <<aborted, modelCalls, workspaceHeld>>

\* The media are recorded, the directory is made, and the first medium is
\* fetched unless the signal is up already.
PrepareMedia(d) ==
    /\ work[d] = "preparing"
    /\ Turn(d, IF aborted[d] THEN "attaching" ELSE "fetching")
    /\ UNCHANGED <<aborted, steps, modelCalls, workspaceHeld>>

\* The bytes arrived, or the medium is left unreadable.
FetchMedium(d) ==
    /\ work[d] = "fetching"
    /\ \E phase \in {"storing", "attaching"} : Turn(d, phase)
    /\ UNCHANGED <<aborted, steps, modelCalls, workspaceHeld>>

\* The signal is asked, and a run that is over keeps no copy.
StoreMedium(d) ==
    /\ work[d] = "storing"
    /\ Turn(d, IF aborted[d] THEN "attaching" ELSE "writing")
    /\ UNCHANGED <<aborted, steps, modelCalls, workspaceHeld>>

\* The directory is made again if it is gone, and the copy is written: two
\* calls of the file system after the signal was asked.
WriteMediumFile(d) ==
    /\ work[d] = "writing"
    /\ Turn(d, "uploading")
    /\ workspaceHeld' = TRUE
    /\ UNCHANGED <<aborted, steps, modelCalls>>

\* Step 2.  The copy is read back and handed to the provider, which fails
\* when another delivery has removed it.
UploadCopies(d) ==
    /\ work[d] = "uploading"
    /\ IF workspaceHeld
          THEN SaveStep(d, FetchMedia, "asking")
          ELSE Turn(d, "threw") /\ UNCHANGED steps
    /\ UNCHANGED <<aborted, modelCalls, workspaceHeld>>

\* Step 2 of a run none of whose media could be fetched.
UploadNothing(d) ==
    /\ work[d] = "attaching"
    /\ SaveStep(d, FetchMedia, "asking")
    /\ UNCHANGED <<aborted, modelCalls, workspaceHeld>>

\* takeOneReading: each reading asks the signal before it calls the model, and
\* a run told to stop goes on with no readings.
AskModel(d) ==
    /\ work[d] = "asking"
    /\ Turn(d, "reading")
    /\ modelCalls' = IF aborted[d] THEN modelCalls ELSE modelCalls \cup {d}
    /\ UNCHANGED <<aborted, steps, workspaceHeld>>

\* Step 3, once every reading was answered.
SaveReadings(d) ==
    /\ work[d] = "reading"
    /\ SaveStep(d, ReadMedia, "inspecting")
    /\ UNCHANGED <<aborted, modelCalls, workspaceHeld>>

\* Steps 4, 5 and 6: arithmetic on the readings, and the row of the step.
InspectReadings(d) ==
    /\ work[d] = "inspecting"
    /\ SaveStep(d, DropReadings, "resolving")
    /\ UNCHANGED <<aborted, modelCalls, workspaceHeld>>

ResolveFieldConsensus(d) ==
    /\ work[d] = "resolving"
    /\ SaveStep(d, SettleByMajority, "scoring")
    /\ UNCHANGED <<aborted, modelCalls, workspaceHeld>>

ScoreSettledFields(d) ==
    /\ work[d] = "scoring"
    /\ SaveStep(d, ScoreConfidence, "answered")
    /\ UNCHANGED <<aborted, modelCalls, workspaceHeld>>

\* Anything the work awaits may fail: an unknown run, a refused medium, every
\* reading of the model, a query.
ThrowOutOfWork(d) ==
    /\ IsBusy(d)
    /\ Turn(d, "threw")
    /\ UNCHANGED <<aborted, steps, modelCalls, workspaceHeld>>

WorkStep(d) ==
    \/ SelectSuggestibleFields(d)
    \/ PrepareMedia(d)
    \/ FetchMedium(d)
    \/ StoreMedium(d)
    \/ WriteMediumFile(d)
    \/ UploadCopies(d)
    \/ UploadNothing(d)
    \/ AskModel(d)
    \/ SaveReadings(d)
    \/ InspectReadings(d)
    \/ ResolveFieldConsensus(d)
    \/ ScoreSettledFields(d)

================================================================================
