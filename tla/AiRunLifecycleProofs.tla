------------------------- MODULE AiRunLifecycleProofs --------------------------
(***************************************************************************)
(* What holds of AiRunLifecycle for any number of deliveries and cancel    *)
(* requests and under any faults.  The argument is the one the worker's    *)
(* comment gives: the writer whose conditional write was accepted owns the *)
(* run.  Owners are the deliveries about to raise the callback or past it; *)
(* there is none before the run settles, and the write that makes one is   *)
(* refused ever after.                                                     *)
(***************************************************************************)
EXTENDS AiRunLifecycle, TLAPS

\* recordTerminalAiRunState writes a terminal status whatever the outcome.
LEMMA StatusOfIsTerminal == \A result : StatusOf(result) \in TerminalStatuses
  BY DEF StatusOf, TerminalStatuses

--------------------------------------------------------------------------------
(* Types                                                                    *)

\* A step of a work keeps the types of the work's variables.
LEMMA WorkStepTypeOK ==
  ASSUME WorkTypeOK, NEW d \in Deliveries, WorkStep(d) \/ ThrowOutOfWork(d)
  PROVE  WorkTypeOK'
<1> USE DEF WorkTypeOK, WorkPhases, BusyPhases, StepIndexes, Turn, SaveStep
<1>1. CASE SelectSuggestibleFields(d)
  BY <1>1 DEF SelectSuggestibleFields, SelectFields
<1>2. CASE PrepareMedia(d)
  BY <1>2 DEF PrepareMedia
<1>3. CASE FetchMedium(d)
  BY <1>3 DEF FetchMedium
<1>4. CASE StoreMedium(d)
  BY <1>4 DEF StoreMedium
<1>5. CASE WriteMediumFile(d)
  BY <1>5 DEF WriteMediumFile
<1>6. CASE UploadCopies(d)
  <2>1. UNCHANGED <<aborted, modelCalls, workspaceHeld>>
    BY <1>6 DEF UploadCopies
  <2>2. \/ SaveStep(d, FetchMedia, "asking")
        \/ Turn(d, "threw") /\ UNCHANGED steps
    <3> HIDE DEF SaveStep, Turn
    <3> QED BY <1>6, Zenon DEF UploadCopies
  <2>3. CASE SaveStep(d, FetchMedia, "asking")
    BY <2>1, <2>3 DEF FetchMedia
  <2>4. CASE Turn(d, "threw") /\ UNCHANGED steps
    BY <2>1, <2>4
  <2> QED
    BY <2>2, <2>3, <2>4
<1>7. CASE UploadNothing(d)
  BY <1>7 DEF UploadNothing, FetchMedia
<1>8. CASE AskModel(d)
  BY <1>8 DEF AskModel
<1>9. CASE SaveReadings(d)
  BY <1>9 DEF SaveReadings, ReadMedia
<1>10. CASE InspectReadings(d)
  BY <1>10 DEF InspectReadings, DropReadings
<1>11. CASE ResolveFieldConsensus(d)
  BY <1>11 DEF ResolveFieldConsensus, SettleByMajority
<1>12. CASE ScoreSettledFields(d)
  BY <1>12 DEF ScoreSettledFields, ScoreConfidence
<1>13. CASE ThrowOutOfWork(d)
  BY <1>13 DEF ThrowOutOfWork
<1> QED
  BY <1>1, <1>2, <1>3, <1>4, <1>5, <1>6, <1>7, <1>8, <1>9, <1>10, <1>11, <1>12,
     <1>13 DEF WorkStep

\* A step of a cancel request keeps the types of the row and of the requests.
LEMMA CancellationStepTypeOK ==
  ASSUME RowTypeOK, CancellationTypeOK, NEW r \in Requests, CancellationStep(r)
  PROVE  RowTypeOK' /\ CancellationTypeOK'
<1> USE DEF RowTypeOK, CancellationTypeOK, RequestPhases, Proceed, rowVars,
            SaveCancelRequest, SaveUnsettledAiRunValues, IsOutraced
<1>1. CASE RegisterCancellation(r)
  BY <1>1 DEF RegisterCancellation
<1>2. CASE ReadBeforeCancelRequest(r)
  BY <1>2 DEF ReadBeforeCancelRequest
<1>3. CASE WriteCancelRequest(r)
  BY <1>3 DEF WriteCancelRequest
<1>4. CASE CancellationFails(r)
  BY <1>4 DEF CancellationFails
<1> QED
  BY <1>1, <1>2, <1>3, <1>4 DEF CancellationStep

\* Every step of the lifecycle keeps every type.
LEMMA TypeOKStep == TypeOK /\ [Next]_vars => TypeOK'
<1> SUFFICES ASSUME TypeOK, [Next]_vars
             PROVE  TypeOK'
  OBVIOUS
<1> USE DEF TypeOK
<1>1. CASE UNCHANGED vars
  BY <1>1 DEF vars, rowVars, workVars, deliveryVars, RowTypeOK, CancellationTypeOK,
              WorkTypeOK
<1>2. CASE StallJob
  BY <1>2 DEF StallJob, JobStates, rowVars, workVars, RowTypeOK,
              CancellationTypeOK, WorkTypeOK
<1>3. ASSUME NEW r \in Requests, Cancel(r)
      PROVE  TypeOK'
  BY <1>3, CancellationStepTypeOK DEF Cancel, workVars, deliveryVars, WorkTypeOK
<1>4. ASSUME NEW d \in Deliveries, Work(d)
      PROVE  TypeOK'
  BY <1>4, WorkStepTypeOK DEF Work, rowVars, deliveryVars, RowTypeOK, CancellationTypeOK
<1>5. ASSUME NEW d \in Deliveries,
             \/ DeliverJob(d)
             \/ CrashWorker(d)
             \/ ExecuteJob(d)
             \/ WaitOutWatchInterval(d)
             \/ RaiseAiRunCancellation(d)
      PROVE  TypeOK'
  <2> USE DEF RowTypeOK, CancellationTypeOK, WorkTypeOK, rowVars, workVars, Step,
              JobStates, DeliveryPhases, RunningPhases, WatchPhases
  <2>1. CASE DeliverJob(d)
    BY <2>1 DEF DeliverJob
  <2>2. CASE CrashWorker(d)
    BY <2>2 DEF CrashWorker, WorkPhases, BusyPhases, Turn
  <2>3. CASE ReadBeforeStart(d)
    BY <2>3 DEF ReadBeforeStart, Leave
  <2>4. CASE SaveRunningAiRun(d)
    BY <2>4 DEF SaveRunningAiRun, Leave, SaveStatus, SaveUnsettledAiRunValues, IsOutraced, Statuses
  <2>5. CASE FailToStart(d)
    BY <2>5 DEF FailToStart, Leave, SaveStatus, SaveUnsettledAiRunValues, Statuses
  <2>6. CASE InspectCancelRequest(d)
    BY <2>6 DEF InspectCancelRequest, Outcomes, WorkPhases, BusyPhases, Turn
  <2>7. CASE FinishWork(d)
    BY <2>7 DEF FinishWork, FoldRace, Outcomes
  <2>8. CASE ExceedTimeLimit(d)
    BY <2>8 DEF ExceedTimeLimit, FoldRace, Outcomes
  <2>9. CASE WaitOutWatchInterval(d)
    BY <2>9 DEF WaitOutWatchInterval
  <2>10. CASE RaiseAiRunCancellation(d)
    BY <2>10 DEF RaiseAiRunCancellation
  <2>11. CASE BuildTerminalOutcome(d)
    BY <2>11 DEF BuildTerminalOutcome, Outcomes
  <2>12. CASE ReadBeforeTerminal(d)
    BY <2>12 DEF ReadBeforeTerminal
  <2>13. CASE SaveTerminal(d)
    BY <2>13 DEF SaveTerminal, SaveStatus, SaveUnsettledAiRunValues, IsOutraced, StatusOf,
             TerminalStatuses, Statuses
  <2>14. CASE FailToSettle(d)
    BY <2>14 DEF FailToSettle, SaveStatus, SaveUnsettledAiRunValues, StatusOf, TerminalStatuses,
             Statuses
  <2>15. CASE RaiseTerminalCallback(d)
    BY <2>15 DEF RaiseTerminalCallback
  <2>16. CASE RemoveWorkspace(d)
    BY <2>16 DEF RemoveWorkspace, Leave
  <2> QED
    BY <1>5, <2>1, <2>2, <2>3, <2>4, <2>5, <2>6, <2>7, <2>8, <2>9, <2>10, <2>11, <2>12, <2>13,
             <2>14, <2>15, <2>16 DEF ExecuteJob
<1> QED
  BY <1>1, <1>2, <1>3, <1>4, <1>5 DEF Next

\* A run that is queued and untouched has the types of the lifecycle.
LEMMA InitTypeOK == Init => TypeOK
<1>1. Init => RowTypeOK /\ CancellationTypeOK
  BY DEF Init, RowInit, RowTypeOK, Statuses, CancellationInit, CancellationTypeOK,
         RequestPhases
<1>2. Init => WorkTypeOK
  BY DEF Init, WorkInit, WorkTypeOK, WorkPhases
<1> QED
  BY <1>1, <1>2 DEF Init, TypeOK, JobStates, DeliveryPhases, WatchPhases

\* Every variable keeps its type.
THEOREM TypeCorrect == Spec => []TypeOK
  BY InitTypeOK, TypeOKStep, PTL DEF Spec

--------------------------------------------------------------------------------
(* Ownership                                                                *)

\* The deliveries whose conditional write settled the run, told from the
\* callback they are about to raise or have raised.
Owns(d) == d \in raised \/ pc[d] = "raising"

\* The phases a delivery is in only after a claim that was accepted.
ClaimedPhases == {"inspecting", "racing", "folding", "settling", "saving",
                  "raising", "removing"}

OwnersSettledTheRun ==
    \A d \in Deliveries : Owns(d) => HasSettled /\ status = StatusOf(outcome[d])

OneOwner == \A d, e \in Deliveries : Owns(d) /\ Owns(e) => d = e

\* A delivery that raised changes its outcome no more, and does not raise again.
RaisedIsPast == \A d \in raised : pc[d] \in {"removing", "ended", "dead"}

CanceledWasAsked ==
    \A d \in Deliveries :
        watch[d] = "heard" \/ outcome[d] = "canceled" => HasCancelRequest

ClaimedHasStarted == \A d \in Deliveries : pc[d] \in ClaimedPhases => status # "queued"

\* The inductive invariant.
Ownership ==
    /\ TypeOK
    /\ OwnersSettledTheRun
    /\ OneOwner
    /\ RaisedIsPast
    /\ CanceledWasAsked
    /\ ClaimedHasStarted

\* A settled row is never written again, and a request is never taken back.
LEMMA RowStep ==
  ASSUME RowTypeOK, [Next]_vars
  PROVE  /\ HasSettled => UNCHANGED rowVars
         /\ HasCancelRequest => HasCancelRequest'
<1> USE DEF rowVars, HasSettled, HasCancelRequest
<1>1. CASE UNCHANGED vars
  BY <1>1 DEF vars
<1>2. CASE StallJob
  BY <1>2 DEF StallJob
<1>3. ASSUME NEW r \in Requests, Cancel(r)
      PROVE  /\ HasSettled => UNCHANGED rowVars
             /\ HasCancelRequest => HasCancelRequest'
  <2>1. UNCHANGED rowVars \/ SaveCancelRequest(r)
    BY <1>3 DEF Cancel, CancellationStep, RegisterCancellation, CancellationFails,
                ReadBeforeCancelRequest, WriteCancelRequest, IsOutraced
  <2> QED
    BY <2>1, RowAssumption DEF SaveCancelRequest, SaveUnsettledAiRunValues
<1>4. ASSUME NEW d \in Deliveries, Work(d)
      PROVE  UNCHANGED rowVars
  BY <1>4 DEF Work
<1>5. ASSUME NEW d \in Deliveries,
             \/ DeliverJob(d)
             \/ CrashWorker(d)
             \/ ExecuteJob(d)
             \/ WaitOutWatchInterval(d)
             \/ RaiseAiRunCancellation(d)
      PROVE  UNCHANGED rowVars \/ \E s : SaveStatus(s)
  BY <1>5 DEF ExecuteJob, IsOutraced, DeliverJob, CrashWorker, ReadBeforeStart, SaveRunningAiRun,
           FailToStart, InspectCancelRequest,
              FinishWork, ExceedTimeLimit, WaitOutWatchInterval, RaiseAiRunCancellation,
              BuildTerminalOutcome, ReadBeforeTerminal, SaveTerminal, FailToSettle,
              RaiseTerminalCallback, RemoveWorkspace
<1> QED
  BY <1>1, <1>2, <1>3, <1>4, <1>5 DEF Next, SaveStatus, SaveUnsettledAiRunValues

\* Every step keeps the run with the writer that settled it.
LEMMA OwnershipStep == Ownership /\ [Next]_vars => Ownership'
<1> SUFFICES ASSUME Ownership, [Next]_vars
             PROVE  Ownership'
  OBVIOUS
<1>0. TypeOK'
  BY TypeOKStep DEF Ownership
<1>1. /\ HasSettled => UNCHANGED rowVars
      /\ HasCancelRequest => HasCancelRequest'
  BY RowStep DEF Ownership, TypeOK
<1> USE <1>0 DEF Ownership, OwnersSettledTheRun, OneOwner, Owns, RaisedIsPast,
                 CanceledWasAsked, ClaimedHasStarted, ClaimedPhases
<1>2. CASE UNCHANGED vars
  BY <1>2 DEF vars, rowVars, deliveryVars, HasSettled, HasCancelRequest
<1>3. CASE StallJob
  BY <1>3 DEF StallJob, rowVars, HasSettled, HasCancelRequest
<1>4. ASSUME NEW r \in Requests, Cancel(r)
      PROVE  Ownership'
  <2>1. UNCHANGED status
    BY <1>4 DEF Cancel, CancellationStep, RegisterCancellation, CancellationFails,
                ReadBeforeCancelRequest, WriteCancelRequest, IsOutraced, rowVars,
                SaveCancelRequest, SaveUnsettledAiRunValues
  <2> QED
    BY <1>1, <1>4, <2>1 DEF Cancel, deliveryVars, HasSettled
<1>5. ASSUME NEW d \in Deliveries, Work(d)
      PROVE  Ownership'
  BY <1>5 DEF Work, rowVars, deliveryVars, HasSettled, HasCancelRequest
<1>6. ASSUME NEW d \in Deliveries,
             \/ DeliverJob(d)
             \/ CrashWorker(d)
             \/ ExecuteJob(d)
             \/ WaitOutWatchInterval(d)
             \/ RaiseAiRunCancellation(d)
      PROVE  Ownership'
  <2> USE <1>1 DEF TypeOK, rowVars, HasSettled, HasCancelRequest, Step
  <2>1. CASE DeliverJob(d)
    BY <2>1 DEF DeliverJob
  <2>2. CASE CrashWorker(d)
    BY <2>2 DEF CrashWorker, RunningPhases
  <2>3. CASE ReadBeforeStart(d)
    BY <2>3 DEF ReadBeforeStart, Leave
  <2>4. CASE SaveRunningAiRun(d)
    BY <2>4 DEF SaveRunningAiRun, Leave, IsOutraced, SaveStatus, SaveUnsettledAiRunValues
  <2>5. CASE FailToStart(d)
    BY <2>5 DEF FailToStart, Leave, SaveStatus, SaveUnsettledAiRunValues
  <2>6. CASE InspectCancelRequest(d)
    BY <2>6 DEF InspectCancelRequest
  <2>7. CASE FinishWork(d)
    BY <2>7 DEF FinishWork, FoldRace
  <2>8. CASE ExceedTimeLimit(d)
    BY <2>8 DEF ExceedTimeLimit, FoldRace
  <2>9. CASE WaitOutWatchInterval(d)
    BY <2>9 DEF WaitOutWatchInterval
  <2>10. CASE RaiseAiRunCancellation(d)
    BY <2>10 DEF RaiseAiRunCancellation
  <2>11. CASE BuildTerminalOutcome(d)
    BY <2>11 DEF BuildTerminalOutcome
  <2>12. CASE ReadBeforeTerminal(d)
    BY <2>12 DEF ReadBeforeTerminal
  <2>13. CASE SaveTerminal(d)
    <3>1. StatusOf(outcome[d]) \in TerminalStatuses
      BY StatusOfIsTerminal
    <3>2. CASE IsOutraced
      BY <2>13, <3>2 DEF SaveTerminal, IsOutraced, SaveStatus, SaveUnsettledAiRunValues
    <3>3. CASE SaveStatus(StatusOf(outcome[d]))
      <4>1. ~HasSettled /\ status' = StatusOf(outcome[d]) /\ HasSettled'
        BY <3>1, <3>3 DEF SaveStatus, SaveUnsettledAiRunValues
      <4>2. \A e \in Deliveries : ~Owns(e)
        BY <4>1
      <4>3. /\ pc[d] = "saving" /\ pc' = [pc EXCEPT ![d] = "raising"]
            /\ UNCHANGED <<watch, outcome, raised>>
        BY <2>13, <4>1 DEF SaveTerminal, IsOutraced
      <4>4. raised' = {} /\ \A e \in Deliveries : pc'[e] = "raising" <=> e = d
        BY <4>2, <4>3
      <4>5. status' # "queued"
        BY <4>1 DEF TerminalStatuses
      <4> QED
        BY <4>1, <4>3, <4>4, <4>5
    <3> QED
      BY <2>13, <3>2, <3>3 DEF SaveTerminal
  <2>14. CASE FailToSettle(d)
    <3>1. StatusOf(outcome[d]) \in TerminalStatuses
      BY StatusOfIsTerminal
    <3>2. CASE UNCHANGED rowVars
      BY <2>14, <3>2 DEF FailToSettle, IsOutraced, SaveStatus, SaveUnsettledAiRunValues
    <3>3. CASE SaveStatus(StatusOf(outcome[d]))
      <4>1. ~HasSettled /\ status' = StatusOf(outcome[d]) /\ HasSettled'
        BY <3>1, <3>3 DEF SaveStatus, SaveUnsettledAiRunValues
      <4>2. \A e \in Deliveries : ~Owns(e)
        BY <4>1
      <4> QED
        BY <2>14, <4>1, <4>2 DEF FailToSettle, TerminalStatuses
    <3> QED
      BY <2>14, <3>2, <3>3 DEF FailToSettle
  <2>15. CASE RaiseTerminalCallback(d)
    BY <2>15 DEF RaiseTerminalCallback
  <2>16. CASE RemoveWorkspace(d)
    BY <2>16 DEF RemoveWorkspace, Leave
  <2> QED
    BY <1>6, <2>1, <2>2, <2>3, <2>4, <2>5, <2>6, <2>7, <2>8, <2>9, <2>10, <2>11, <2>12,
       <2>13, <2>14, <2>15, <2>16 DEF ExecuteJob
<1> QED
  BY <1>2, <1>3, <1>4, <1>5, <1>6 DEF Next

\* The ownership of the outcome holds in every state of the lifecycle.
LEMMA OwnershipInvariant == Spec => []Ownership
<1>1. Init => TypeOK
  BY InitTypeOK
<1>2. Init => Ownership
  BY <1>1, DeliveryAssumption DEF Init, Ownership, OwnersSettledTheRun, OneOwner, Owns,
           RaisedIsPast,
              CanceledWasAsked, ClaimedHasStarted, ClaimedPhases, Outcomes, TypeOK
<1> QED
  BY <1>2, OwnershipStep, PTL DEF Spec

--------------------------------------------------------------------------------
(* What a reader of the row may rely on                                     *)

\* At most one delivery raises the run's terminal callback, and the status the
\* callback is about is the one that stands.
THEOREM CallbackOnce == Spec => []OneTruthfulCallback
<1>1. Ownership => OneTruthfulCallback
  BY DEF Ownership, OwnersSettledTheRun, OneOwner, Owns, TypeOK, OneTruthfulCallback
<1> QED
  BY <1>1, OwnershipInvariant, PTL

\* Once a delivery has settled the run, neither a delivery nor a cancel request
\* writes its row again.
THEOREM SettledOnce == Spec => SettledForGood
<1>1. TypeOK /\ [Next]_vars => [HasSettled => UNCHANGED rowVars]_vars
  BY RowStep DEF TypeOK
<1> QED
  BY <1>1, TypeCorrect, PTL DEF Spec, SettledForGood

\* Each step of the lifecycle is a step of AiRunRecord or leaves its variables
\* alone: the run starts before it settles, is canceled only when asked to, and
\* calls back after it has settled.
THEOREM LifecycleImplementsRecord == Spec => ImplementsRecord
<1>1. Init => Record!Init
  BY DEF Init, RowInit, Record!Init, HasCancelRequest
<1>2. Ownership /\ [Next]_vars => [Record!Next]_(Record!vars)
  <2> SUFFICES ASSUME Ownership, [Next]_vars
               PROVE  Record!Next \/ UNCHANGED Record!vars
    OBVIOUS
  <2>0. HasSettled => UNCHANGED rowVars
    BY RowStep DEF Ownership, TypeOK
  <2>1. CASE UNCHANGED vars
    BY <2>1 DEF vars, rowVars, deliveryVars, Record!vars, HasCancelRequest
  <2>2. CASE StallJob
    BY <2>2 DEF StallJob, rowVars, Record!vars, HasCancelRequest
  <2>3. ASSUME NEW r \in Requests, Cancel(r)
        PROVE  Record!Next \/ UNCHANGED Record!vars
    <3>1. UNCHANGED raised
      BY <2>3 DEF Cancel, deliveryVars
    <3>2. UNCHANGED rowVars \/ SaveCancelRequest(r)
      BY <2>3 DEF Cancel, CancellationStep, RegisterCancellation, CancellationFails,
                  ReadBeforeCancelRequest, WriteCancelRequest, IsOutraced
    <3>3. CASE UNCHANGED rowVars
      BY <3>1, <3>3 DEF rowVars, Record!vars, HasCancelRequest
    <3>4. CASE SaveCancelRequest(r)
      <4>1. ~HasSettled /\ UNCHANGED status /\ HasCancelRequest'
        BY <3>4, RowAssumption DEF SaveCancelRequest, SaveUnsettledAiRunValues,
                                   HasCancelRequest
      <4>2. Record!RequestCancel
        BY <3>1, <4>1 DEF Record!RequestCancel, Record!HasSettled,
                          Record!TerminalStatuses, HasSettled, TerminalStatuses
      <4> QED
        BY <4>2 DEF Record!Next
    <3> QED
      BY <3>2, <3>3, <3>4
  <2>4. ASSUME NEW d \in Deliveries, Work(d)
        PROVE  UNCHANGED Record!vars
    BY <2>4 DEF Work, rowVars, deliveryVars, Record!vars, HasCancelRequest
  <2>5. ASSUME NEW d \in Deliveries,
               \/ DeliverJob(d)
               \/ CrashWorker(d)
               \/ ExecuteJob(d)
               \/ WaitOutWatchInterval(d)
               \/ RaiseAiRunCancellation(d)
        PROVE  Record!Next \/ UNCHANGED Record!vars
    <3>1. \/ UNCHANGED rowVars /\ UNCHANGED raised
          \/ /\ SaveStatus("running") /\ UNCHANGED raised
          \/ /\ pc[d] = "saving" /\ SaveStatus(StatusOf(outcome[d]))
             /\ UNCHANGED raised
          \/ /\ pc[d] = "raising" /\ UNCHANGED rowVars
             /\ raised' \in {raised, raised \cup {d}}
      BY <2>5 DEF ExecuteJob, IsOutraced, rowVars, Step, DeliverJob, CrashWorker,
               ReadBeforeStart, SaveRunningAiRun, FailToStart, InspectCancelRequest,
                  FinishWork, ExceedTimeLimit, WaitOutWatchInterval, RaiseAiRunCancellation,
                  BuildTerminalOutcome,
                  ReadBeforeTerminal, SaveTerminal, FailToSettle, RaiseTerminalCallback,
                  RemoveWorkspace
    <3>2. CASE UNCHANGED rowVars /\ UNCHANGED raised
      BY <3>2 DEF rowVars, Record!vars, HasCancelRequest
    <3>3. CASE SaveStatus("running") /\ UNCHANGED raised
      <4>1. ~HasSettled /\ status' = "running" /\ UNCHANGED <<cancelRequestedAt, raised>>
        BY <3>3 DEF SaveStatus, SaveUnsettledAiRunValues
      <4>2. status \in {"queued", "running"}
        BY <4>1 DEF Ownership, TypeOK, RowTypeOK, Statuses, HasSettled
      <4> QED
        BY <4>1, <4>2 DEF Record!Next, Record!Start, Record!vars, HasCancelRequest
    <3>4. CASE /\ pc[d] = "saving" /\ SaveStatus(StatusOf(outcome[d]))
               /\ UNCHANGED raised
      <4>1. /\ ~HasSettled /\ status' = StatusOf(outcome[d])
            /\ UNCHANGED <<cancelRequestedAt, raised>>
        BY <3>4 DEF SaveStatus, SaveUnsettledAiRunValues
      <4>2. status = "running"
        BY <3>4, <4>1 DEF Ownership, TypeOK, RowTypeOK, Statuses, HasSettled,
                          ClaimedHasStarted, ClaimedPhases
      <4>3. status' = "canceled" => HasCancelRequest
        <5>1. StatusOf(outcome[d]) = "canceled" => outcome[d] = "canceled"
          BY DEF StatusOf
        <5> QED
          BY <4>1, <5>1 DEF Ownership, CanceledWasAsked
      <4>4. StatusOf(outcome[d]) \in Record!TerminalStatuses
        BY StatusOfIsTerminal DEF TerminalStatuses, Record!TerminalStatuses
      <4>5. Record!Settle(StatusOf(outcome[d]))
        BY <4>1, <4>2, <4>3 DEF Record!Settle, HasCancelRequest
      <4> QED
        BY <4>4, <4>5 DEF Record!Next
    <3>5. CASE /\ pc[d] = "raising" /\ UNCHANGED rowVars
               /\ raised' \in {raised, raised \cup {d}}
      <4>1. HasSettled
        BY <3>5 DEF Ownership, OwnersSettledTheRun, Owns
      <4>2. raised = {}
        BY <3>5 DEF Ownership, OneOwner, Owns, RaisedIsPast, TypeOK
      <4>3. CASE raised' = raised
        BY <3>5, <4>3 DEF rowVars, Record!vars, HasCancelRequest
      <4>4. CASE raised' = raised \cup {d}
        <5>1. UNCHANGED <<status, HasCancelRequest>> /\ (raised' # {}) = TRUE
          BY <3>5, <4>4 DEF rowVars, HasCancelRequest
        <5>2. Record!CallBack
          BY <4>1, <4>2, <5>1 DEF Record!CallBack, Record!HasSettled,
             Record!TerminalStatuses, HasSettled, TerminalStatuses
        <5> QED
          BY <5>2 DEF Record!Next
      <4> QED
        BY <3>5, <4>3, <4>4
    <3> QED
      BY <3>1, <3>2, <3>3, <3>4, <3>5
  <2> QED
    BY <2>1, <2>2, <2>3, <2>4, <2>5 DEF Next
<1> QED
  BY <1>1, <1>2, OwnershipInvariant, PTL DEF Spec, ImplementsRecord, Record!Spec

--------------------------------------------------------------------------------
(* The copies a run leaves                                                  *)

\* Nothing keeps the directory of a run from being removed.
CopiesCanBeRemoved == "disk" \notin Faults

\* A work that still runs is one its delivery waits for, or one that was outrun.
BusyIsRacedOrOutrun == \A d \in Deliveries : IsBusy(d) => pc[d] = "racing" \/ d \in outrun

\* A copy is written by a busy work, whose delivery removes it or let it run on.
LEMMA CopyStep ==
  ASSUME CopiesCanBeRemoved, TypeOK, BusyIsRacedOrOutrun, CopyHasARemover, [Next]_vars
  PROVE  BusyIsRacedOrOutrun' /\ CopyHasARemover'
<1> USE DEF BusyIsRacedOrOutrun, CopyHasARemover, WillRemove, IsBusy, TypeOK, WorkTypeOK
<1>1. CASE UNCHANGED vars
  BY <1>1 DEF vars, workVars, deliveryVars
<1>2. CASE StallJob
  BY <1>2 DEF StallJob, workVars
<1>3. ASSUME NEW r \in Requests, Cancel(r)
      PROVE  BusyIsRacedOrOutrun' /\ CopyHasARemover'
  BY <1>3 DEF Cancel, workVars, deliveryVars
<1>4. ASSUME NEW d \in Deliveries, Work(d)
      PROVE  BusyIsRacedOrOutrun' /\ CopyHasARemover'
  <2>1. /\ UNCHANGED <<pc, outrun>>
        /\ work[d] \in BusyPhases
        /\ \E phase : work' = [work EXCEPT ![d] = phase]
        /\ workspaceHeld' # workspaceHeld => work[d] = "writing"
    BY <1>4 DEF Work, WorkStep, ThrowOutOfWork, deliveryVars, BusyPhases, Turn, SaveStep,
       SelectSuggestibleFields, PrepareMedia, FetchMedium, StoreMedium, WriteMediumFile,
       UploadCopies, UploadNothing, AskModel, SaveReadings, InspectReadings,
       ResolveFieldConsensus, ScoreSettledFields
  <2>2. pc[d] = "racing" \/ d \in outrun
    BY <2>1
  <2> QED
    BY <2>1, <2>2
<1>5. ASSUME NEW d \in Deliveries,
             \/ DeliverJob(d)
             \/ CrashWorker(d)
             \/ ExecuteJob(d)
             \/ WaitOutWatchInterval(d)
             \/ RaiseAiRunCancellation(d)
      PROVE  BusyIsRacedOrOutrun' /\ CopyHasARemover'
  <2> USE DEF workVars, Step
  <2>1. CASE DeliverJob(d)
    BY <2>1 DEF DeliverJob
  <2>2. CASE CrashWorker(d)
    BY <2>2 DEF CrashWorker, Turn, RunningPhases, BusyPhases
  <2>3. CASE ReadBeforeStart(d)
    BY <2>3 DEF ReadBeforeStart, Leave
  <2>4. CASE SaveRunningAiRun(d)
    BY <2>4 DEF SaveRunningAiRun, Leave
  <2>5. CASE FailToStart(d)
    BY <2>5 DEF FailToStart, Leave
  <2>6. CASE InspectCancelRequest(d)
    BY <2>6 DEF InspectCancelRequest, Turn
  <2>7. CASE FinishWork(d)
    BY <2>7 DEF FinishWork, FoldRace, BusyPhases
  <2>8. CASE ExceedTimeLimit(d)
    BY <2>8 DEF ExceedTimeLimit, FoldRace
  <2>9. CASE WaitOutWatchInterval(d)
    BY <2>9 DEF WaitOutWatchInterval
  <2>10. CASE RaiseAiRunCancellation(d)
    BY <2>10 DEF RaiseAiRunCancellation
  <2>11. CASE BuildTerminalOutcome(d)
    BY <2>11 DEF BuildTerminalOutcome
  <2>12. CASE ReadBeforeTerminal(d)
    BY <2>12 DEF ReadBeforeTerminal
  <2>13. CASE SaveTerminal(d)
    BY <2>13 DEF SaveTerminal
  <2>14. CASE FailToSettle(d)
    BY <2>14 DEF FailToSettle
  <2>15. CASE RaiseTerminalCallback(d)
    BY <2>15 DEF RaiseTerminalCallback
  <2>16. CASE RemoveWorkspace(d)
    BY <2>16 DEF RemoveWorkspace, Leave, CopiesCanBeRemoved
  <2> QED
    BY <1>5, <2>1, <2>2, <2>3, <2>4, <2>5, <2>6, <2>7, <2>8, <2>9, <2>10, <2>11, <2>12,
       <2>13, <2>14, <2>15, <2>16 DEF ExecuteJob
<1> QED
  BY <1>1, <1>2, <1>3, <1>4, <1>5 DEF Next

\* Where directories can be removed, a temporary copy is left only by a process
\* that died or by a work that ran on past its limit: no failed query, failed
\* work, cancellation or redelivery leaves one.
THEOREM CopiesAreRemoved ==
  ASSUME CopiesCanBeRemoved
  PROVE  Spec => []CopyHasARemover
<1>1. Init => BusyIsRacedOrOutrun /\ CopyHasARemover
  BY DEF Init, WorkInit, BusyIsRacedOrOutrun, CopyHasARemover, IsBusy, BusyPhases
<1>2. TypeOK /\ BusyIsRacedOrOutrun /\ CopyHasARemover /\ [Next]_vars
        => BusyIsRacedOrOutrun' /\ CopyHasARemover'
  BY CopyStep, CopiesCanBeRemoved
<1> QED
  BY <1>1, <1>2, TypeCorrect, PTL DEF Spec

================================================================================
