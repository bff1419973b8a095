---------------------------- MODULE AiRunRetention -----------------------------
(***************************************************************************)
(* The two clocks of a run: its content is emptied on the shorter          *)
(* (AiRunContentPurger) and its decision trace is removed on the longer    *)
(* (AiRunTracePurger), by scheduled sweeps that may overlap and fail.      *)
(*                                                                         *)
(* Time is counted in days.  A run's content is its request, its result    *)
(* and the raw answers of its model calls; its trace is rows of the        *)
(* TraceTables.  A sweep reads a batch of ids in one query and writes it   *)
(* in one transaction, and neither asks whether a run has settled, or      *)
(* whether a work it has outlived is still writing.                        *)
(***************************************************************************)
EXTENDS Integers, Sequences, FiniteSets, FiniteSetsExt

CONSTANTS
    TraceTables,            \* the tables a trace is kept in
    Sweepers,               \* the workers a sweep may be handed to
    ContentDayCount,
    TraceDayCount,
    AiRunCountPerBatch,
    MaximumBatchCount,
    MaximumAiRunCount,      \* bound: runs accepted
    MaximumDay,             \* bound: days
    MaximumSweepFaultCount, \* bound: sweeps that fail
    Nil

ASSUME RetentionAssumption ==
    /\ "ai_model_calls" \in TraceTables
    /\ ContentDayCount \in Nat
    /\ TraceDayCount \in Nat
    /\ AiRunCountPerBatch \in Nat \ {0}
    /\ MaximumBatchCount \in Nat \ {0}
    /\ MaximumAiRunCount \in Nat
    /\ MaximumDay \in Nat
    /\ MaximumSweepFaultCount \in Nat

VARIABLES
    day,
    aiRuns,     \* the rows of ai_runs, their ids the places in the sequence
    sweeps,     \* the sweeps under way
    sweepFaultCount

retentionVars == <<day, aiRuns, sweeps, sweepFaultCount>>

Clocks == {"content", "trace"}

AiRunIds == 1..MaximumAiRunCount

Days == 0..MaximumDay

\* A canceled run is a failed one here.
AiRunStatuses == {"queued", "running", "succeeded", "failed"}

\* isAtWork: whether a process is at work on the run, under whatever status.
\* contentSweptUnfinished and traceSweptUnfinished are history: whether the run was
\* unfinished when its stamp was set.
AiRunRows ==
    [status : AiRunStatuses, acceptedAt : Days,
     request : BOOLEAN, result : BOOLEAN, answer : BOOLEAN,
     trace : SUBSET TraceTables, isAtWork : BOOLEAN,
     contentPurgedAt : Days \cup {Nil}, tracePurgedAt : Days \cup {Nil},
     contentSweptUnfinished : BOOLEAN, traceSweptUnfinished : BOOLEAN]

IdleSweep ==
    [phase |-> "idle", clock |-> Nil, now |-> 0, remainingBatchCount |-> 0,
     aiRunIds |-> {}]

RetentionTypeOK ==
    /\ day \in Days
    /\ aiRuns \in Seq(AiRunRows) /\ Len(aiRuns) <= MaximumAiRunCount
    /\ DOMAIN sweeps = Sweepers
    /\ \A s \in Sweepers :
        /\ sweeps[s].phase \in {"idle", "finding", "saving"}
        /\ sweeps[s].clock \in Clocks \cup {Nil}
        /\ sweeps[s].now \in Days
        /\ sweeps[s].remainingBatchCount \in 0..MaximumBatchCount
        /\ sweeps[s].aiRunIds \subseteq DOMAIN aiRuns
    /\ sweepFaultCount \in 0..MaximumSweepFaultCount

RetentionInit ==
    /\ day = 0
    /\ aiRuns = <<>>
    /\ sweeps = [s \in Sweepers |-> IdleSweep]
    /\ sweepFaultCount = 0

\* It has not settled, or a work it was settled over goes on.
IsUnfinished(aiRun) == aiRun.status \in {"queued", "running"} \/ aiRun.isAtWork

HoldsContent(aiRun) == aiRun.request \/ aiRun.result \/ aiRun.answer

--------------------------------------------------------------------------------
(* The runs, as their acceptance and their jobs write them                   *)

\* Only runs whose trace comes due within the bound on the days.
AcceptAiRun ==
    /\ Len(aiRuns) < MaximumAiRunCount
    /\ day + TraceDayCount < MaximumDay
    /\ aiRuns' = Append(aiRuns,
        [status |-> "queued", acceptedAt |-> day,
         request |-> TRUE, result |-> FALSE, answer |-> FALSE,
         trace |-> {}, isAtWork |-> FALSE,
         contentPurgedAt |-> Nil, tracePurgedAt |-> Nil,
         contentSweptUnfinished |-> FALSE, traceSweptUnfinished |-> FALSE])
    /\ UNCHANGED <<day, sweeps, sweepFaultCount>>

SaveAiRun(id, aiRun) ==
    /\ aiRuns' = [aiRuns EXCEPT ![id] = aiRun]
    /\ UNCHANGED <<day, sweeps, sweepFaultCount>>

\* The claim of a delivery, which takes a run another was at as well.  It reads the
\* request it works from, and does no work when that was emptied.
StartAiRun(id) ==
    /\ aiRuns[id].status \in {"queued", "running"}
    /\ SaveAiRun(id, [aiRuns[id] EXCEPT
        !.status = "running", !.isAtWork = @ \/ aiRuns[id].request])

\* A row of the trace; a model call's carries the raw answer.  A work that was
\* outrun by its time limit, by a cancellation or by another delivery's failure
\* goes on writing.  Over a success none does but one that still has its first step
\* before it, which the recorded one refuses while it stands.
RecordTrace(id, table) ==
    /\ aiRuns[id].isAtWork
    /\ aiRuns[id].status = "succeeded" => aiRuns[id].tracePurgedAt # Nil
    /\ table \notin aiRuns[id].trace
    /\ SaveAiRun(id, [aiRuns[id] EXCEPT
        !.trace = @ \cup {table},
        !.answer = @ \/ table = "ai_model_calls"])

\* The terminal write.  A run succeeds by a work that returned, and it fails, or is
\* canceled, whatever becomes of the work.
FinishAiRun(id, hasResult) ==
    /\ aiRuns[id].status = "running"
    /\ hasResult => aiRuns[id].isAtWork
    /\ SaveAiRun(id, [aiRuns[id] EXCEPT
        !.status = IF hasResult THEN "succeeded" ELSE "failed",
        !.result = hasResult])

\* The work returns, throws, or goes with its process.
StopWork(id) ==
    /\ aiRuns[id].isAtWork
    /\ SaveAiRun(id, [aiRuns[id] EXCEPT !.isAtWork = FALSE])

PassDay ==
    /\ day < MaximumDay
    /\ day' = day + 1
    /\ UNCHANGED <<aiRuns, sweeps, sweepFaultCount>>

--------------------------------------------------------------------------------
(* The sweeps                                                               *)

\* Faulty form: the instant is the job's, written when it was scheduled.
SweepInstant_OfSchedule == 0

\* Read from the clock once per execution.
SweepInstant == day

\* Any worker that is free: which one makes no difference.
FreeSweeper == CHOOSE s \in Sweepers : sweeps[s].phase = "idle"

StartSweep(clock) ==
    /\ \E s \in Sweepers : sweeps[s].phase = "idle"
    /\ sweeps' = [sweeps EXCEPT ![FreeSweeper] =
        [phase |-> "finding", clock |-> clock, now |-> SweepInstant,
         remainingBatchCount |-> MaximumBatchCount, aiRunIds |-> {}]]
    /\ UNCHANGED <<day, aiRuns>>

IsUnderWay(clock) == \E s \in Sweepers : sweeps[s].clock = clock

\* A firing of the schedule, or another attempt of a job whose sweep failed.
BeginSweep(clock) ==
    /\ ~IsUnderWay(clock)
    /\ StartSweep(clock)
    /\ UNCHANGED sweepFaultCount

\* The queue takes the job from a worker it has not heard of, which goes on.
RedeliverSweep(clock) ==
    /\ IsUnderWay(clock)
    /\ sweepFaultCount < MaximumSweepFaultCount
    /\ StartSweep(clock)
    /\ sweepFaultCount' = sweepFaultCount + 1

IsExpired(aiRun, sweep) ==
    CASE sweep.clock = "content" ->
            /\ aiRun.contentPurgedAt = Nil
            /\ aiRun.acceptedAt < sweep.now - ContentDayCount
      [] sweep.clock = "trace" ->
            /\ aiRun.tracePurgedAt = Nil
            /\ aiRun.acceptedAt < sweep.now - TraceDayCount

\* The ids of one batch, the oldest first.  Runs accepted on one day come in
\* any order.
ExpiredBatches(s) ==
    LET expired == {id \in DOMAIN aiRuns : IsExpired(aiRuns[id], sweeps[s])}
    IN  {batch \in SUBSET expired :
            /\ Cardinality(batch) = Min({AiRunCountPerBatch, Cardinality(expired)})
            /\ \A id \in batch, other \in expired \ batch :
                aiRuns[id].acceptedAt <= aiRuns[other].acceptedAt}

\* The sweep is over when nothing is left to purge.
FindExpiredAiRunIds(s) ==
    /\ sweeps[s].phase = "finding"
    /\ \E batch \in ExpiredBatches(s) :
        sweeps' = [sweeps EXCEPT ![s] =
            IF batch = {} THEN IdleSweep
            ELSE [@ EXCEPT !.phase = "saving", !.aiRunIds = batch]]
    /\ UNCHANGED <<day, aiRuns, sweepFaultCount>>

\* Faulty form: the run's own columns are emptied and its calls' are not.
EmptiedContent_OfRunOnly(aiRun, s) ==
    [aiRun EXCEPT
        !.request = FALSE, !.result = FALSE,
        !.contentPurgedAt = sweeps[s].now,
        !.contentSweptUnfinished = IsUnfinished(aiRun)]

EmptiedContent(aiRun, s) ==
    [aiRun EXCEPT
        !.request = FALSE, !.result = FALSE, !.answer = FALSE,
        !.contentPurgedAt = sweeps[s].now,
        !.contentSweptUnfinished = IsUnfinished(aiRun)]

\* The rows of the calls go with the answers they carry.
DeletedTrace(aiRun, s) ==
    [aiRun EXCEPT
        !.trace = {}, !.answer = FALSE,
        !.tracePurgedAt = sweeps[s].now,
        !.traceSweptUnfinished = IsUnfinished(aiRun)]

\* One transaction: every row of the batch, whatever another sweep did to it
\* since it was found.  The sweep is over when its batches are spent.
SavePurge(s) ==
    LET sweep == sweeps[s]
        Purged(aiRun) ==
            IF sweep.clock = "content" THEN EmptiedContent(aiRun, s)
            ELSE DeletedTrace(aiRun, s)
    IN  /\ sweep.phase = "saving"
        /\ aiRuns' = [id \in DOMAIN aiRuns |->
            IF id \in sweep.aiRunIds THEN Purged(aiRuns[id]) ELSE aiRuns[id]]
        /\ sweeps' = [sweeps EXCEPT ![s] =
            IF sweep.remainingBatchCount = 1 THEN IdleSweep
            ELSE [sweep EXCEPT !.phase = "finding", !.aiRunIds = {},
                               !.remainingBatchCount = @ - 1]]
        /\ UNCHANGED <<day, sweepFaultCount>>

\* A query throws and its transaction is rolled back, or the process dies.
FailSweep(s) ==
    /\ sweeps[s].phase # "idle"
    /\ sweepFaultCount < MaximumSweepFaultCount
    /\ sweepFaultCount' = sweepFaultCount + 1
    /\ sweeps' = [sweeps EXCEPT ![s] = IdleSweep]
    /\ UNCHANGED <<day, aiRuns>>

--------------------------------------------------------------------------------

AiRunStep ==
    \/ AcceptAiRun
    \/ \E id \in DOMAIN aiRuns :
        \/ StartAiRun(id)
        \/ \E table \in TraceTables : RecordTrace(id, table)
        \/ \E hasResult \in BOOLEAN : FinishAiRun(id, hasResult)
        \/ StopWork(id)

SweepStep ==
    \/ \E clock \in Clocks : BeginSweep(clock) \/ RedeliverSweep(clock)
    \/ \E s \in Sweepers :
        FindExpiredAiRunIds(s) \/ SavePurge(s) \/ FailSweep(s)

RetentionNext == AiRunStep \/ PassDay \/ SweepStep

\* The schedule of each clock fires, and a sweep goes on with what it began.
RetentionFairness ==
    /\ \A clock \in Clocks : WF_retentionVars(BeginSweep(clock))
    /\ \A s \in Sweepers :
        WF_retentionVars(FindExpiredAiRunIds(s) \/ SavePurge(s))

RetentionSpec ==
    RetentionInit /\ [][RetentionNext]_retentionVars /\ RetentionFairness

--------------------------------------------------------------------------------
(* Properties                                                               *)

\* A stamp tells the truth, however sweeps overlap and fail: nothing is purged
\* before its own clock is out, and a run that had settled and was worked on by
\* nobody when its stamp was set never holds content, or a row of its trace, again
\* (AiRunContentPurger: the stamp says that the request, the result and every
\* call's raw answer are gone).  A work that outlives the horizon does write under
\* the stamp, whether its run has settled or not.
RetentionIsKept ==
    \A id \in DOMAIN aiRuns :
        LET aiRun == aiRuns[id]
        IN  /\ aiRun.contentPurgedAt # Nil =>
                /\ aiRun.acceptedAt + ContentDayCount < aiRun.contentPurgedAt
                /\ HoldsContent(aiRun) => aiRun.contentSweptUnfinished
            /\ aiRun.tracePurgedAt # Nil =>
                /\ aiRun.acceptedAt + TraceDayCount < aiRun.tracePurgedAt
                /\ aiRun.trace # {} => aiRun.traceSweptUnfinished

\* Time and again no run past a horizon is left unstamped: the bounds of a batch
\* and of a sweep, failures and overlaps put a run off, and none starves another
\* (BaseAiRunPurgeJobWorker: the instant is read per
\* execution, because one carried in the job would purge once and never again).
ExpiredRunIsPurged ==
    []<>(\A id \in DOMAIN aiRuns :
            /\ aiRuns[id].acceptedAt < day - ContentDayCount =>
                aiRuns[id].contentPurgedAt # Nil
            /\ aiRuns[id].acceptedAt < day - TraceDayCount =>
                aiRuns[id].tracePurgedAt # Nil)

================================================================================
