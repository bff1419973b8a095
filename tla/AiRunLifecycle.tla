---------------------------- MODULE AiRunLifecycle -----------------------------
(***************************************************************************)
(* One run from the queue to its terminal callback: BaseAiRunJobWorker as  *)
(* every delivery of the run's job executes it, the watch that looks for a *)
(* cancellation beside the work, the client's cancel requests, and BullMQ, *)
(* which may take the job from a worker that stalled and deliver it again. *)
(*                                                                         *)
(* A query is one action, so deliveries, watches, works and requests       *)
(* interleave between any two of them.  The reading of the row a recorder  *)
(* makes after its write has no effect of its own and belongs to the write.*)
(***************************************************************************)
EXTENDS AiRunCancellation, AssetMediaExtractionWork

VARIABLES
    job,        \* BullMQ's job: "waiting", "active" or "ended"
    holder,     \* the delivery whose worker holds the job's lock, or None
    pc,         \* pc[d]: where executeJob of delivery d stands
    watch,      \* watch[d]: the cancellation watch of delivery d
    outcome,    \* outcome[d]: what delivery d is about to settle the run on
    outrun,     \* the deliveries whose work lost to the time limit
    raised      \* the deliveries that handed a terminal callback to the queue

deliveryVars == <<job, holder, pc, watch, outcome, outrun, raised>>

vars == <<rowVars, request, workVars, deliveryVars>>

JobStates == {"waiting", "active", "ended"}

RunningPhases == {"claiming", "starting", "inspecting", "racing", "folding",
                  "settling", "saving", "raising", "removing"}

DeliveryPhases == RunningPhases \cup {"queued", "ended", "dead"}

\* "waiting" out the interval, "reading" the row; "heard" and "silent" are
\* what the watch answers, true and false.
WatchPhases == {"off", "waiting", "reading", "heard", "silent"}

Outcomes == {"answered", "threw", "outrun", "canceled"}

ASSUME DeliveryAssumption == None \notin Deliveries \cup Outcomes

TypeOK ==
    /\ RowTypeOK
    /\ CancellationTypeOK
    /\ WorkTypeOK
    /\ job \in JobStates
    /\ holder \in Deliveries \cup {None}
    /\ pc \in [Deliveries -> DeliveryPhases]
    /\ watch \in [Deliveries -> WatchPhases]
    /\ outcome \in [Deliveries -> Outcomes \cup {None}]
    /\ outrun \subseteq Deliveries
    /\ raised \subseteq Deliveries

Init ==
    /\ RowInit
    /\ CancellationInit
    /\ WorkInit
    /\ job = "waiting"
    /\ holder = None
    /\ pc = [d \in Deliveries |-> "queued"]
    /\ watch = [d \in Deliveries |-> "off"]
    /\ outcome = [d \in Deliveries |-> None]
    /\ outrun = {}
    /\ raised = {}

\* recordTerminalAiRunState: a work that ran out of time failed like one that
\* threw, under another reason code.
StatusOf(result) ==
    CASE result = "canceled" -> "canceled"
      [] result = "answered" -> "succeeded"
      [] OTHER -> "failed"

Step(d, from, to) ==
    /\ pc[d] = from
    /\ pc' = [pc EXCEPT ![d] = to]

\* executeJob leaves; the job ends with it unless BullMQ took it back.
Leave(d, from) ==
    /\ Step(d, from, "ended")
    /\ job' = IF holder = d /\ job = "active" THEN "ended" ELSE job

--------------------------------------------------------------------------------
(* BullMQ                                                                   *)

\* The deliveries not made yet are all alike, so the next one is any of them.
NextDelivery == CHOOSE d \in Deliveries : pc[d] = "queued"

DeliverJob(d) ==
    /\ job = "waiting"
    /\ d = NextDelivery
    /\ Step(d, "queued", "claiming")
    /\ job' = "active"
    /\ holder' = d
    /\ UNCHANGED <<rowVars, request, workVars, watch, outcome, outrun, raised>>

\* The lock of the job expired, and the job is delivered again while it has
\* deliveries left.  Its first worker may be dead or only slow.
StallJob ==
    /\ "stall" \in Faults
    /\ job = "active"
    /\ job' = IF \E d \in Deliveries : pc[d] = "queued" THEN "waiting" ELSE "ended"
    /\ UNCHANGED <<rowVars, request, workVars, holder, pc, watch, outcome,
                   outrun, raised>>

\* The process of a worker dies with everything it was doing.
CrashWorker(d) ==
    /\ "crash" \in Faults
    /\ pc[d] \in RunningPhases \/ IsBusy(d)
    /\ pc' = [pc EXCEPT ![d] = "dead"]
    /\ Turn(d, "off")
    /\ watch' = [watch EXCEPT ![d] = "silent"]
    /\ UNCHANGED <<rowVars, request, aborted, steps, modelCalls, workspaceHeld,
                   job, holder, outcome, outrun, raised>>

--------------------------------------------------------------------------------
(* The claim                                                                *)

\* saveRunningAiRunOnce, its reading: a settled run is left alone, and so is
\* its workspace.
ReadBeforeStart(d) ==
    /\ IF HasSettled
          THEN Leave(d, "claiming")
          ELSE Step(d, "claiming", "starting") /\ UNCHANGED job
    /\ UNCHANGED <<rowVars, request, workVars, holder, watch, outcome, outrun,
                   raised>>

\* Its conditional write, which a run that is already running accepts too.
SaveRunningAiRun(d) ==
    /\ \/ SaveStatus("running") /\ Step(d, "starting", "inspecting") /\ UNCHANGED job
       \/ IsOutraced /\ Leave(d, "starting")
    /\ UNCHANGED <<request, workVars, holder, watch, outcome, outrun, raised>>

\* A query of the claim throws, before or after its write, outside the try
\* that removes the workspace; the job has a single attempt.
FailToStart(d) ==
    /\ "database" \in Faults
    /\ Leave(d, "claiming") \/ Leave(d, "starting")
    /\ \/ UNCHANGED rowVars
       \/ pc[d] = "starting" /\ SaveStatus("running")
    /\ UNCHANGED <<request, workVars, holder, watch, outcome, outrun, raised>>

--------------------------------------------------------------------------------
(* The work, its time limit and the watch                                   *)

\* Faulty form: the work begins at once and the watch is all there is.
InspectCancelRequest_Skipped(d) ==
    /\ Step(d, "inspecting", "racing")
    /\ Turn(d, "selecting")
    /\ watch' = [watch EXCEPT ![d] = "waiting"]
    /\ UNCHANGED <<rowVars, request, aborted, steps, modelCalls, workspaceHeld,
                   job, holder, outcome, outrun, raised>>

\* The first reading of cancel_requested_at, before any work: a query that
\* fails counts as no request.
InspectCancelRequest(d) ==
    /\ \/ /\ HasCancelRequest
          /\ Step(d, "inspecting", "settling")
          /\ outcome' = [outcome EXCEPT ![d] = "canceled"]
          /\ UNCHANGED <<work, watch>>
       \/ /\ ~HasCancelRequest \/ "database" \in Faults
          /\ Step(d, "inspecting", "racing")
          /\ Turn(d, "selecting")
          /\ watch' = [watch EXCEPT ![d] = "waiting"]
          /\ UNCHANGED outcome
    /\ UNCHANGED <<rowVars, request, aborted, steps, modelCalls, workspaceHeld,
                   job, holder, outrun, raised>>

\* The race is over: the watch is told to stop, which a watch in the middle of
\* its reading hears only after it.
FoldRace(d, result) ==
    /\ Step(d, "racing", "folding")
    /\ outcome' = [outcome EXCEPT ![d] = result]
    /\ watch' = [watch EXCEPT ![d] = IF @ = "waiting" THEN "silent" ELSE @]

\* The work came first, with a result or with an error.
FinishWork(d) ==
    /\ work[d] \in {"answered", "threw"}
    /\ FoldRace(d, work[d])
    /\ UNCHANGED <<rowVars, request, workVars, job, holder, outrun, raised>>

\* Faulty form: the work is told, and then waited for.
ExceedTimeLimit_Waits(d) ==
    /\ IsBusy(d)
    /\ pc[d] = "racing"
    /\ aborted' = [aborted EXCEPT ![d] = TRUE]
    /\ UNCHANGED <<rowVars, request, work, steps, modelCalls, workspaceHeld,
                   deliveryVars>>

\* The time limit came first: the work is told, and left to itself.
ExceedTimeLimit(d) ==
    /\ IsBusy(d)
    /\ FoldRace(d, "outrun")
    /\ aborted' = [aborted EXCEPT ![d] = TRUE]
    /\ outrun' = outrun \cup {d}
    /\ UNCHANGED <<rowVars, request, work, steps, modelCalls, workspaceHeld, job,
                   holder, raised>>

\* The interval of the watch has passed while the race is on.
WaitOutWatchInterval(d) ==
    /\ pc[d] = "racing"
    /\ watch[d] = "waiting"
    /\ watch' = [watch EXCEPT ![d] = "reading"]
    /\ UNCHANGED <<rowVars, request, workVars, job, holder, pc, outcome, outrun,
                   raised>>

\* The reading of the watch comes back, maybe after the race: a request raises
\* the signal of the work, none sends the watch back to wait or, when it was
\* told to stop, ends it; a reading that fails ends it too.
RaiseAiRunCancellation(d) ==
    /\ watch[d] = "reading"
    /\ \/ /\ HasCancelRequest
          /\ watch' = [watch EXCEPT ![d] = "heard"]
          /\ aborted' = [aborted EXCEPT ![d] = TRUE]
       \/ /\ ~HasCancelRequest
          /\ watch' = [watch EXCEPT ![d] = IF pc[d] = "racing" THEN "waiting" ELSE "silent"]
          /\ UNCHANGED aborted
       \/ /\ "database" \in Faults
          /\ watch' = [watch EXCEPT ![d] = "silent"]
          /\ UNCHANGED aborted
    /\ UNCHANGED <<rowVars, request, work, steps, modelCalls, workspaceHeld, job,
                   holder, pc, outcome, outrun, raised>>

\* Faulty form: a work that was told to stop counts as canceled.
BuildTerminalOutcome_BySignal(d) ==
    /\ watch[d] \in {"heard", "silent"}
    /\ Step(d, "folding", "settling")
    /\ outcome' = [outcome EXCEPT ![d] = IF aborted[d] THEN "canceled" ELSE @]
    /\ UNCHANGED <<rowVars, request, workVars, job, holder, watch, outrun, raised>>

\* buildAiRunTerminalOutcome: what the watch answered decides before what the
\* work answered.
BuildTerminalOutcome(d) ==
    /\ watch[d] \in {"heard", "silent"}
    /\ Step(d, "folding", "settling")
    /\ outcome' = [outcome EXCEPT ![d] = IF watch[d] = "heard" THEN "canceled" ELSE @]
    /\ UNCHANGED <<rowVars, request, workVars, job, holder, watch, outrun, raised>>

--------------------------------------------------------------------------------
(* The terminal write, the callback and the removal                         *)

ReadBeforeTerminal(d) ==
    /\ Step(d, "settling", IF HasSettled THEN "removing" ELSE "saving")
    /\ UNCHANGED <<rowVars, request, workVars, job, holder, watch, outcome,
                   outrun, raised>>

\* The conditional write of the outcome: the run is this writer's, or it is not.
SaveTerminal(d) ==
    /\ \/ SaveStatus(StatusOf(outcome[d])) /\ Step(d, "saving", "raising")
       \/ IsOutraced /\ Step(d, "saving", "removing")
    /\ UNCHANGED <<request, workVars, job, holder, watch, outcome, outrun, raised>>

\* Faulty form: the error of the query passes no finally.
FailToSettle_SkipsRemoval(d) ==
    /\ "database" \in Faults
    /\ Leave(d, "settling") \/ Leave(d, "saving")
    /\ UNCHANGED <<rowVars, request, workVars, holder, watch, outcome, outrun, raised>>

\* A query of the terminal write throws, before or after its effect, through
\* the finally that removes the workspace and past the callback.
FailToSettle(d) ==
    /\ "database" \in Faults
    /\ Step(d, "settling", "removing") \/ Step(d, "saving", "removing")
    /\ \/ UNCHANGED rowVars
       \/ pc[d] = "saving" /\ SaveStatus(StatusOf(outcome[d]))
    /\ UNCHANGED <<request, workVars, job, holder, watch, outcome, outrun, raised>>

\* Faulty form: only a success is worth a callback.
RaiseTerminalCallback_SuccessOnly(d) ==
    /\ Step(d, "raising", "removing")
    /\ raised' = IF status = "succeeded" THEN raised \cup {d} ELSE raised
    /\ UNCHANGED <<rowVars, request, workVars, job, holder, watch, outcome, outrun>>

\* Only the writer that settled the run raises; a queue that refuses is logged
\* and nothing else.
RaiseTerminalCallback(d) ==
    /\ Step(d, "raising", "removing")
    /\ raised' \in {raised \cup {d}} \cup (IF "enqueue" \in Faults THEN {raised} ELSE {})
    /\ UNCHANGED <<rowVars, request, workVars, job, holder, watch, outcome, outrun>>

\* The finally of executeJob; a directory that cannot be removed is logged.
RemoveWorkspace(d) ==
    /\ Leave(d, "removing")
    /\ workspaceHeld' \in {FALSE} \cup (IF "disk" \in Faults THEN {workspaceHeld} ELSE {})
    /\ UNCHANGED <<rowVars, request, work, aborted, steps, modelCalls, holder,
                   watch, outcome, outrun, raised>>

--------------------------------------------------------------------------------

\* The steps of executeJob that need nothing but their turn.
ExecuteJob(d) ==
    \/ ReadBeforeStart(d)
    \/ SaveRunningAiRun(d)
    \/ FailToStart(d)
    \/ InspectCancelRequest(d)
    \/ FinishWork(d)
    \/ ExceedTimeLimit(d)
    \/ BuildTerminalOutcome(d)
    \/ ReadBeforeTerminal(d)
    \/ SaveTerminal(d)
    \/ FailToSettle(d)
    \/ RaiseTerminalCallback(d)
    \/ RemoveWorkspace(d)

Work(d) ==
    /\ WorkStep(d) \/ ("provider" \in Faults /\ ThrowOutOfWork(d))
    /\ UNCHANGED <<rowVars, request, deliveryVars>>

Cancel(r) ==
    /\ CancellationStep(r)
    /\ UNCHANGED <<workVars, deliveryVars>>

Next ==
    \/ StallJob
    \/ \E d \in Deliveries :
          \/ DeliverJob(d)
          \/ ExecuteJob(d)
          \/ WaitOutWatchInterval(d)
          \/ RaiseAiRunCancellation(d)
          \/ Work(d)
          \/ CrashWorker(d)
    \/ \E r \in Requests : Cancel(r)

Spec == Init /\ [][Next]_vars

\* The worker process takes its turns, its timers fire and its queries return.
\* Nothing is promised of the work, of the client or of the watch's interval.
Fairness ==
    /\ WF_vars(\E d \in Deliveries : DeliverJob(d))
    /\ \A d \in Deliveries : WF_vars(ExecuteJob(d)) /\ WF_vars(RaiseAiRunCancellation(d))

FairSpec == Spec /\ Fairness

--------------------------------------------------------------------------------
(* What the row and the callback promise                                    *)

\* A settled run never changes again, whichever delivery, redelivery or cancel
\* request was between its reading of the row and its write.
SettledForGood == [][HasSettled => UNCHANGED rowVars]_vars

\* At most one of the run's deliveries raises its terminal callback, and it
\* does so about the status that stands: the writer whose conditional write was
\* accepted owns the run, however many deliveries reached theirs.
OneTruthfulCallback ==
    \A d \in raised :
        /\ \A e \in raised : e = d
        /\ status = StatusOf(outcome[d])

\* Every delivery and every work is over.
AllOver ==
    /\ \A d \in Deliveries : pc[d] \in {"queued", "ended", "dead"} /\ ~IsBusy(d)
    /\ job = "ended"

\* The status, the request and the callback of the row behave as AiRunRecord
\* says a run behaves: it is never settled straight from the queue, never
\* canceled unasked, and its callback is never raised before it has settled.
Record == INSTANCE AiRunRecord WITH
    cancelRequested <- HasCancelRequest,
    calledBack <- raised # {}

ImplementsRecord == Record!Spec

\* A run whose cancellation was on its row before any delivery claimed it ends
\* canceled and has never called the model: the reading that looks for it comes
\* after the claim, and no delivery skips it.
CanceledInQueueEndsCanceled ==
    (status = "queued" /\ HasCancelRequest) ~>
        [](status = "canceled" /\ modelCalls = {})

--------------------------------------------------------------------------------
(* What the run leaves behind                                               *)

\* A delivery that is still to pass the finally that removes the workspace.
WillRemove(d) ==
    pc[d] \in {"inspecting", "racing", "folding", "settling", "saving", "raising",
               "removing"}

\* Where directories can be removed, a temporary copy exists only while some
\* delivery is still to remove it, or was left in one of the two ways the
\* worker's comment admits: a process died, or a work ran on past its limit.
\* Failed queries, failed works and redeliveries leave none.
CopyHasARemover ==
    workspaceHeld => \E d \in Deliveries : WillRemove(d) \/ pc[d] = "dead" \/ d \in outrun

--------------------------------------------------------------------------------
(* What must happen                                                         *)

\* A run that was accepted settles, though its work may never answer.
RunSettles == (status = "queued") ~> HasSettled

\* A run that settled calls its client back.
SettledRunCallsBack == HasSettled ~> (raised # {})

\* BaseAiRunJobWorker: a settled run that a delivery leaves alone is one whose
\* writer "has already called".
SettledRunHasCalledBack == AllOver /\ HasSettled => raised # {}

\* BaseAiRunJobWorker: the lifecycle "is written for at-least-once delivery",
\* so delivering the job again is no reason for a run to fail.  Where nothing
\* the work awaits fails, only the time limit is.
RedeliveryFailsNoRun == status = "failed" => outrun # {}

================================================================================
