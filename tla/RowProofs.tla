------------------------------- MODULE RowProofs -------------------------------
(***************************************************************************)
(* What holds of a run's row and of what is kept under it, for any number  *)
(* of writers, sweeps and readings: the guard of the settled row           *)
(* (AiRunRowGuard), the two retention clocks (AiRunRetention), a run read  *)
(* back in queries that no transaction ties together (AiRunReading), and a *)
(* walk over the pages of a client's runs (AiRunListing).                  *)
(***************************************************************************)
EXTENDS AiRunRowGuard, AiRunRetention, AiRunReading, AiRunListing,
    FiniteSetTheorems, SequenceTheorems, TLAPS

--------------------------------------------------------------------------------
(* The guard of the settled row                                             *)

GuardedRows ==
    [status : GuardedStatuses, filled : SUBSET WritableColumns,
     writer : {"acceptance", "recorder", "update", "instance"}]

RecordingRows ==
    [phase : {"idle", "saving"}, status : GuardedStatuses \cup {Unstated},
     given : SUBSET WritableColumns, named : SUBSET WritableColumns]

GuardTyped ==
    /\ guarded \in GuardedRows
    /\ recordings \in [Recordings -> RecordingRows]
    /\ instance \in GuardedStatuses \cup {Unstated}
    /\ settledAs \in TerminalStatuses \cup {Unstated}
    /\ isMovedStale \in BOOLEAN

\* What the recorder is about to write carries the evidence of its status, and a
\* write without a status takes none away.
RecordingsCarryEvidence ==
    \A w \in Recordings : recordings[w].phase = "saving" =>
        /\ Evidence(recordings[w].status) \ StatedEvidence \subseteq recordings[w].given
        /\ recordings[w].status = Unstated => recordings[w].named = {"cancelRequestedAt"}

\* A row that is settled has been remembered as such.
SettledIsRemembered ==
    IsTerminalAiRunStatus(guarded.status) => settledAs # Unstated

GuardInvariant ==
    /\ GuardTyped
    /\ RecordingsCarryEvidence
    /\ SettledIsRemembered
    /\ SettledRowStands

\* A write that states no status is no write of a status.
LEMMA UnstatedIsNoStatus ==
  /\ Unstated \notin GuardedStatuses /\ Unstated \notin TerminalStatuses
  /\ TerminalStatuses \subseteq GuardedStatuses
  BY GuardAssumption DEF GuardedStatuses

\* The columns that record a status may be written, and the request to cancel is none
\* of them.
LEMMA EvidenceIsWritable ==
  ASSUME NEW status \in GuardedStatuses \cup {Unstated}
  PROVE  /\ Evidence(status) \subseteq WritableColumns
         /\ "cancelRequestedAt" \notin Evidence(status)
<1>1. CASE status \in {"queued", Unstated}
  <2>1. Evidence(status) = {}
    BY <1>1, GuardAssumption DEF Evidence, GuardedStatuses, TerminalStatuses
  <2> QED
    BY <2>1
<1>2. CASE status = "running"
  BY <1>2 DEF Evidence, WritableColumns, InstantColumns
<1>3. CASE status = "succeeded"
  BY <1>3 DEF Evidence, WritableColumns, InstantColumns, StatedEvidence
<1>4. CASE status = "failed"
  BY <1>4 DEF Evidence, WritableColumns, InstantColumns, StatedEvidence
<1>5. CASE status = "canceled"
  BY <1>5 DEF Evidence, WritableColumns, InstantColumns, StatedEvidence
<1> QED
  BY <1>1, <1>2, <1>3, <1>4, <1>5 DEF GuardedStatuses, TerminalStatuses

\* A call states a status, or asks for a cancellation and nothing else.
LEMMA CallsAreStated ==
  ASSUME NEW call \in Calls
  PROVE  /\ call.status \in GuardedStatuses \cup {Unstated}
         /\ call.status = Unstated => DOMAIN call.columns = {"cancelRequestedAt"}
<1>1. CASE call \in {[status |-> Unstated, columns |-> columns] :
                        columns \in [{"cancelRequestedAt"} -> ColumnForms]}
  BY <1>1
<1>2. CASE \E status \in GuardedStatuses \ {"queued"} :
           \E names \in (SUBSET Evidence(status)) \cup {Evidence(status) \cup {"requestBody"}} :
                call \in {[status |-> status, columns |-> columns] :
                            columns \in [names -> ColumnForms]}
  BY <1>2, GuardAssumption
<1> QED
  BY <1>1, <1>2 DEF Calls

\* The statement remembers the first status it settles the row under.
LEMMA StatementRemembers ==
  ASSUME GuardTyped, NEW row \in GuardedRows, Write(row)
  PROVE  /\ guarded' = row /\ settledAs' \in TerminalStatuses \cup {Unstated}
         /\ SettledIsRemembered'
         /\ settledAs # Unstated => settledAs' = settledAs
         /\ settledAs = Unstated /\ settledAs' # Unstated => row.status = settledAs'
  BY UnstatedIsNoStatus DEF GuardTyped, Write, SettledIsRemembered, IsTerminalAiRunStatus

\* Reading the row changes nothing of it.
LEMMA FindOngoingStep ==
  ASSUME GuardInvariant, NEW w \in Recordings, NEW call \in Calls, FindOngoingAiRun(w, call)
  PROVE  GuardInvariant'
<1> DEFINE given == {c \in DOMAIN call.columns : call.columns[c] = "given"}
           recording == [phase |-> "saving", status |-> call.status, given |-> given,
                         named |-> DOMAIN call.columns]
<1>1. /\ DOMAIN call.columns \subseteq WritableColumns
      /\ Evidence(call.status) \subseteq DOMAIN call.columns
      /\ \A c \in Evidence(call.status) \ StatedEvidence : call.columns[c] = "given"
      /\ recordings' = [recordings EXCEPT ![w] = recording]
      /\ UNCHANGED <<guarded, instance, settledAs, isMovedStale>>
  BY DEF FindOngoingAiRun, IsRecordable
<1>2. recording \in RecordingRows
  BY <1>1, CallsAreStated DEF RecordingRows
<1>3. Evidence(call.status) \ StatedEvidence \subseteq given
  BY <1>1
<1>4. /\ recording.status = call.status /\ recording.given = given
      /\ recording.named = DOMAIN call.columns
  OBVIOUS
<1>5. call.status = Unstated => recording.named = {"cancelRequestedAt"}
  BY <1>4, CallsAreStated
<1> HIDE DEF recording, given
<1>6. /\ recordings' \in [Recordings -> RecordingRows] /\ recordings'[w] = recording
      /\ \A v \in Recordings : v # w => recordings'[v] = recordings[v]
  BY <1>1, <1>2 DEF GuardInvariant, GuardTyped
<1>7. GuardTyped'
  BY <1>1, <1>6 DEF GuardInvariant, GuardTyped
<1>8. RecordingsCarryEvidence'
  BY <1>3, <1>4, <1>5, <1>6 DEF GuardInvariant, RecordingsCarryEvidence
<1>9. SettledIsRemembered' /\ SettledRowStands'
  BY <1>1 DEF GuardInvariant, SettledIsRemembered, SettledRowStands
<1> QED
  BY <1>7, <1>8, <1>9 DEF GuardInvariant

\* The row moves under the condition that it has not settled by then.
LEMMA SaveTransitionStep ==
  ASSUME GuardInvariant, NEW w \in Recordings, SaveAiRunTransition(w)
  PROVE  GuardInvariant'
<1> USE DEF GuardInvariant
<1> DEFINE call == recordings[w]
           status == IF call.status = Unstated THEN guarded.status ELSE call.status
           row == [status |-> status,
                   filled |-> (guarded.filled \ call.named) \cup call.given,
                   writer |-> IF call.status = Unstated THEN guarded.writer ELSE "recorder"]
<1>1. /\ call.phase = "saving"
      /\ recordings' = [recordings EXCEPT ![w] = NoRecording]
      /\ UNCHANGED <<instance, isMovedStale>>
      /\ \/ IsTerminalAiRunStatus(guarded.status) /\ UNCHANGED <<guarded, settledAs>>
         \/ ~IsTerminalAiRunStatus(guarded.status) /\ Write(row)
  BY DEF SaveAiRunTransition
<1>2. /\ recordings' \in [Recordings -> RecordingRows]
      /\ \A v \in Recordings : recordings'[v] = recordings[v] \/ recordings'[v].phase = "idle"
  BY <1>1 DEF GuardTyped, NoRecording, RecordingRows
<1>3. RecordingsCarryEvidence'
  <2>1. \A v \in Recordings : recordings'[v].phase = "saving" => recordings'[v] = recordings[v]
    BY <1>2
  <2> QED
    BY <2>1 DEF RecordingsCarryEvidence
<1>4. CASE IsTerminalAiRunStatus(guarded.status) /\ UNCHANGED <<guarded, settledAs>>
  BY <1>1, <1>2, <1>3, <1>4 DEF GuardTyped, SettledIsRemembered, SettledRowStands
<1>5. CASE ~IsTerminalAiRunStatus(guarded.status) /\ Write(row)
  <2>1. call \in RecordingRows /\ guarded \in GuardedRows
    BY DEF GuardTyped
  <2>2. row \in GuardedRows
    BY <2>1 DEF RecordingRows, GuardedRows
  <2>3. row.writer = "recorder" => Evidence(row.status) \ StatedEvidence \subseteq row.filled
    <3>1. CASE call.status = Unstated
      <4>1. row.status = guarded.status /\ row.writer = guarded.writer
        BY <3>1
      <4>2. call.named = {"cancelRequestedAt"}
        BY <1>1, <3>1 DEF RecordingsCarryEvidence
      <4>3. "cancelRequestedAt" \notin Evidence(guarded.status)
        BY <2>1, EvidenceIsWritable DEF GuardedRows
      <4>4. row.writer = "recorder" =>
                Evidence(guarded.status) \ StatedEvidence \subseteq guarded.filled
        BY <4>1 DEF SettledRowStands
      <4> QED
        BY <4>1, <4>2, <4>3, <4>4
    <3>2. CASE call.status # Unstated
      <4>1. row.status = call.status
        BY <3>2
      <4>2. Evidence(call.status) \ StatedEvidence \subseteq call.given
        BY <1>1 DEF RecordingsCarryEvidence
      <4> QED
        BY <4>1, <4>2
    <3> QED
      BY <3>1, <3>2
  <2> HIDE DEF row
  <2>4. GuardTyped' /\ SettledIsRemembered'
    BY <1>1, <1>2, <1>5, <2>2, StatementRemembers DEF GuardTyped
  <2>5. SettledRowStands'
    <3>1. ~isMovedStale => settledAs = Unstated
      BY <1>5, UnstatedIsNoStatus
         DEF SettledRowStands, GuardTyped, IsTerminalAiRunStatus
    <3> QED
      BY <1>1, <1>5, <2>2, <2>3, <3>1, StatementRemembers DEF SettledRowStands
  <2> QED
    BY <1>3, <2>4, <2>5
<1> QED
  BY <1>1, <1>4, <1>5

\* An update by a condition reaches the row only where the guard lets it.
LEMMA UpdateStep ==
  ASSUME GuardInvariant,
         NEW names \in SUBSET WrittenNames, NEW condition \in Conditions,
         NEW status \in GuardedStatuses, UpdateAiRuns(names, condition, status)
  PROVE  GuardInvariant'
<1> USE DEF GuardInvariant
<1> DEFINE row == [guarded EXCEPT !.status = status, !.writer = "update"]
<1>1. UNCHANGED <<recordings, instance, isMovedStale>>
  BY DEF UpdateAiRuns
<1>2. RecordingsCarryEvidence'
  BY <1>1 DEF RecordingsCarryEvidence
<1>3. CASE {"AiRunStatusId", "ai_run_status_id"} \cap names = {}
  <2>1. Write(guarded) /\ guarded \in GuardedRows
    BY <1>3 DEF UpdateAiRuns, GuardTyped
  <2>2. guarded' = guarded /\ settledAs' = settledAs
    BY <2>1 DEF Write, SettledIsRemembered
  <2> QED
    BY <1>1, <1>2, <2>2 DEF GuardTyped, SettledIsRemembered, SettledRowStands
<1>4. CASE {"AiRunStatusId", "ai_run_status_id"} \cap names # {}
  <2>1. WritesAiRunStatus(names)
    BY <1>4 DEF WritesAiRunStatus, AiRunAttribute
  <2>2. ~IsTerminalAiRunStatus(guarded.status)
    BY <2>1 DEF UpdateAiRuns, IsLetPast
  <2>3. Write(row)
    BY <1>4 DEF UpdateAiRuns
  <2>4. row \in GuardedRows /\ row.writer = "update"
    BY DEF GuardTyped, GuardedRows
  <2> HIDE DEF row
  <2>5. GuardTyped' /\ SettledIsRemembered'
    BY <1>1, <2>3, <2>4, StatementRemembers DEF GuardTyped
  <2>6. ~isMovedStale => settledAs = Unstated
    BY <2>2, UnstatedIsNoStatus DEF SettledRowStands, GuardTyped, IsTerminalAiRunStatus
  <2>7. SettledRowStands'
    BY <1>1, <2>3, <2>4, <2>6, StatementRemembers DEF SettledRowStands
  <2> QED
    BY <1>2, <2>5, <2>7
<1> QED
  BY <1>3, <1>4

\* An instance that was read settled is not moved; one read before the row settled is,
\* and is remembered.
LEMMA SaveInstanceStep ==
  ASSUME GuardInvariant, NEW status \in GuardedStatuses, SaveInstance(status)
  PROVE  GuardInvariant'
<1> USE DEF GuardInvariant
<1> DEFINE row == [guarded EXCEPT !.status = status, !.writer = "instance"]
<1>1. /\ Write(row) /\ instance' = status /\ UNCHANGED recordings
      /\ isMovedStale' = (isMovedStale \/ IsTerminalAiRunStatus(guarded.status))
  BY DEF SaveInstance
<1>2. row \in GuardedRows /\ row.writer = "instance"
  BY DEF GuardTyped, GuardedRows
<1>3. isMovedStale' \in BOOLEAN
  BY <1>1
<1> HIDE DEF row
<1>4. GuardTyped' /\ SettledIsRemembered'
  BY <1>1, <1>2, <1>3, StatementRemembers DEF GuardTyped
<1>5. RecordingsCarryEvidence'
  BY <1>1 DEF RecordingsCarryEvidence
<1>6. ~isMovedStale' => ~isMovedStale /\ settledAs = Unstated
  BY <1>1, UnstatedIsNoStatus DEF SettledRowStands, GuardTyped, IsTerminalAiRunStatus
<1>7. SettledRowStands'
  BY <1>1, <1>2, <1>6, StatementRemembers DEF SettledRowStands
<1> QED
  BY <1>4, <1>5, <1>7

\* The invariant holds in every state of the guarded row.
THEOREM GuardInvariantHolds == GuardSpec => []GuardInvariant
<1>1. GuardInit => GuardInvariant
  <2> SUFFICES ASSUME GuardInit PROVE GuardInvariant
    OBVIOUS
  <2>1. guarded \in GuardedRows
    BY DEF GuardInit, GuardedRows, GuardedStatuses
  <2>2. recordings \in [Recordings -> RecordingRows]
        /\ \A w \in Recordings : recordings[w].phase = "idle"
    BY DEF GuardInit, NoRecording, RecordingRows
  <2>3. SettledIsRemembered /\ SettledRowStands
    BY DEF GuardInit, SettledIsRemembered, SettledRowStands, IsTerminalAiRunStatus,
           TerminalStatuses
  <2> QED
    BY <2>1, <2>2, <2>3 DEF GuardInit, GuardInvariant, GuardTyped, RecordingsCarryEvidence
<1>2. GuardInvariant /\ [GuardNext]_guardVars => GuardInvariant'
  <2> SUFFICES ASSUME GuardInvariant, [GuardNext]_guardVars
               PROVE  GuardInvariant'
    OBVIOUS
  <2>1. CASE FindInstance \/ UNCHANGED guardVars
    <3>1. /\ UNCHANGED <<guarded, recordings, settledAs, isMovedStale>>
          /\ instance' \in GuardedStatuses \cup {Unstated}
      BY <2>1 DEF FindInstance, guardVars, GuardInvariant, GuardTyped, GuardedRows
    <3> QED
      BY <3>1 DEF GuardInvariant, GuardTyped, RecordingsCarryEvidence, SettledIsRemembered,
                  SettledRowStands
  <2>2. CASE GuardNext /\ ~FindInstance
    <3> HIDE DEF GuardInvariant
    <3> QED
      BY <2>2, FindOngoingStep, SaveTransitionStep, UpdateStep, SaveInstanceStep DEF GuardNext
  <2> QED
    BY <2>1, <2>2
<1> QED
  BY <1>1, <1>2, PTL DEF GuardSpec

\* The row, the recordings under way and what was remembered are what the code keeps.
THEOREM GuardTypeCorrect == GuardSpec => []GuardTypeOK
<1>1. GuardInvariant => GuardTypeOK
  BY DEF GuardInvariant, GuardTyped, GuardTypeOK, GuardedRows, RecordingRows
<1> QED
  BY <1>1, GuardInvariantHolds, PTL

\* A run that has settled keeps its status against every writer but an instance read
\* before, and what the recorder wrote carries its evidence, for any number of
\* recordings at once (the hooks of AiRun, AiRunStatusRecorder.saveAiRunTransition).
THEOREM SettledRowIsKept == GuardSpec => []SettledRowStands
  BY GuardInvariantHolds, PTL DEF GuardInvariant

--------------------------------------------------------------------------------
(* The two retention clocks                                                 *)

PurgeStampIsTrue(aiRun) ==
    /\ aiRun.contentPurgedAt # Nil =>
        /\ aiRun.acceptedAt + ContentDayCount < aiRun.contentPurgedAt
        /\ HoldsContent(aiRun) \/ IsUnfinished(aiRun) => aiRun.contentSweptUnfinished
    /\ aiRun.tracePurgedAt # Nil =>
        /\ aiRun.acceptedAt + TraceDayCount < aiRun.tracePurgedAt
        /\ aiRun.trace # {} \/ IsUnfinished(aiRun) => aiRun.traceSweptUnfinished

DayCountOf(clock) == IF clock = "content" THEN ContentDayCount ELSE TraceDayCount

Sweeps ==
    [phase : {"idle", "finding", "saving"}, clock : Clocks \cup {Nil}, now : Days,
     remainingBatchCount : 0..MaximumBatchCount, aiRunIds : SUBSET AiRunIds]

RetentionTyped ==
    /\ day \in Days
    /\ aiRuns \in Seq(AiRunRows) /\ Len(aiRuns) <= MaximumAiRunCount
    /\ sweeps \in [Sweepers -> Sweeps]
    /\ sweepFaultCount \in 0..MaximumSweepFaultCount

\* A sweep under way is one of a clock, and every id it found is of a run its clock
\* is out for.
SweepsAreDue ==
    \A s \in Sweepers :
        /\ sweeps[s].phase # "idle" =>
            sweeps[s].clock \in Clocks /\ sweeps[s].remainingBatchCount > 0
        /\ \A id \in sweeps[s].aiRunIds :
            /\ id \in 1..Len(aiRuns)
            /\ aiRuns[id].acceptedAt + DayCountOf(sweeps[s].clock) < sweeps[s].now

RetentionInvariant ==
    /\ RetentionTyped
    /\ SweepsAreDue
    /\ \A id \in 1..Len(aiRuns) : PurgeStampIsTrue(aiRuns[id])

\* The rows of the table are numbered from one without a gap.
LEMMA RunsAreNumbered ==
  ASSUME RetentionTyped
  PROVE  /\ Len(aiRuns) \in Nat /\ DOMAIN aiRuns = 1..Len(aiRuns)
         /\ 1..Len(aiRuns) \subseteq AiRunIds
         /\ \A id \in 1..Len(aiRuns) : aiRuns[id] \in AiRunRows
  BY RetentionAssumption DEF RetentionTyped, AiRunIds

\* What a run's own writes do to its row.
LEMMA RunRowStep ==
  ASSUME RetentionInvariant, NEW id \in 1..Len(aiRuns), NEW aiRun \in AiRunRows,
         SaveAiRun(id, aiRun), PurgeStampIsTrue(aiRun),
         aiRun.acceptedAt = aiRuns[id].acceptedAt
  PROVE  RetentionInvariant'
<1> USE DEF RetentionInvariant
<1>1. /\ aiRuns' \in Seq(AiRunRows) /\ Len(aiRuns') = Len(aiRuns)
      /\ aiRuns'[id] = aiRun
      /\ \A other \in 1..Len(aiRuns) : other # id => aiRuns'[other] = aiRuns[other]
      /\ UNCHANGED <<day, sweeps, sweepFaultCount>>
  BY RunsAreNumbered DEF SaveAiRun, RetentionTyped
<1>2. RetentionTyped'
  BY <1>1 DEF RetentionTyped
<1>3. SweepsAreDue'
  <2>1. \A other \in 1..Len(aiRuns) : aiRuns'[other].acceptedAt = aiRuns[other].acceptedAt
    BY <1>1
  <2> QED
    BY <1>1, <2>1 DEF SweepsAreDue
<1>4. \A other \in 1..Len(aiRuns') : PurgeStampIsTrue(aiRuns'[other])
  BY <1>1
<1>5. (\A other \in 1..Len(aiRuns) : PurgeStampIsTrue(aiRuns[other]))'
  BY <1>4 DEF PurgeStampIsTrue, HoldsContent, IsUnfinished
<1> QED
  BY <1>2, <1>3, <1>5

\* A run that is unfinished has been told of in its stamps, so it may write on.
LEMMA RunStep ==
  ASSUME RetentionInvariant, NEW id \in DOMAIN aiRuns,
         \/ StartAiRun(id)
         \/ \E table \in TraceTables : RecordTrace(id, table)
         \/ \E hasResult \in BOOLEAN : FinishAiRun(id, hasResult)
         \/ StopWork(id)
  PROVE  RetentionInvariant'
<1>1. id \in 1..Len(aiRuns) /\ aiRuns[id] \in AiRunRows /\ PurgeStampIsTrue(aiRuns[id])
  BY RunsAreNumbered DEF RetentionInvariant
<1>2. CASE StartAiRun(id)
  <2> DEFINE aiRun == [aiRuns[id] EXCEPT
                !.status = "running", !.isAtWork = @ \/ aiRuns[id].request]
  <2>1. SaveAiRun(id, aiRun) /\ IsUnfinished(aiRuns[id])
    BY <1>2 DEF StartAiRun, IsUnfinished
  <2>2. aiRun \in AiRunRows /\ aiRun.acceptedAt = aiRuns[id].acceptedAt
    BY <1>1 DEF AiRunRows, AiRunStatuses
  <2>3. PurgeStampIsTrue(aiRun)
    BY <1>1, <2>1 DEF PurgeStampIsTrue, HoldsContent, IsUnfinished, AiRunRows
  <2> HIDE DEF aiRun
  <2> QED
    BY <1>1, <2>1, <2>2, <2>3, RunRowStep
<1>3. CASE \E table \in TraceTables : RecordTrace(id, table)
  <2>1. PICK table \in TraceTables : RecordTrace(id, table)
    BY <1>3
  <2> DEFINE aiRun == [aiRuns[id] EXCEPT
                !.trace = @ \cup {table},
                !.answer = @ \/ table = "ai_model_calls"]
  <2>2. SaveAiRun(id, aiRun) /\ IsUnfinished(aiRuns[id])
    BY <2>1 DEF RecordTrace, IsUnfinished
  <2>3. /\ aiRun \in AiRunRows /\ aiRun.acceptedAt = aiRuns[id].acceptedAt
        /\ aiRun.contentPurgedAt = aiRuns[id].contentPurgedAt
        /\ aiRun.tracePurgedAt = aiRuns[id].tracePurgedAt
        /\ aiRun.contentSweptUnfinished = aiRuns[id].contentSweptUnfinished
        /\ aiRun.traceSweptUnfinished = aiRuns[id].traceSweptUnfinished
    BY <1>1 DEF AiRunRows
  <2>4. PurgeStampIsTrue(aiRun)
    BY <1>1, <2>2, <2>3 DEF PurgeStampIsTrue, IsUnfinished
  <2> HIDE DEF aiRun
  <2> QED
    BY <1>1, <2>2, <2>3, <2>4, RunRowStep
<1>4. CASE \E hasResult \in BOOLEAN : FinishAiRun(id, hasResult)
  <2>1. PICK hasResult \in BOOLEAN : FinishAiRun(id, hasResult)
    BY <1>4
  <2> DEFINE status == IF hasResult THEN "succeeded" ELSE "failed"
             aiRun == [aiRuns[id] EXCEPT !.status = status, !.result = hasResult]
  <2>2. SaveAiRun(id, aiRun) /\ IsUnfinished(aiRuns[id])
    BY <2>1 DEF FinishAiRun, IsUnfinished
  <2>3. /\ aiRun \in AiRunRows /\ aiRun.acceptedAt = aiRuns[id].acceptedAt
        /\ aiRun.contentPurgedAt = aiRuns[id].contentPurgedAt
        /\ aiRun.tracePurgedAt = aiRuns[id].tracePurgedAt
        /\ aiRun.contentSweptUnfinished = aiRuns[id].contentSweptUnfinished
        /\ aiRun.traceSweptUnfinished = aiRuns[id].traceSweptUnfinished
    BY <1>1 DEF AiRunRows, AiRunStatuses
  <2>4. PurgeStampIsTrue(aiRun)
    BY <1>1, <2>2, <2>3 DEF PurgeStampIsTrue
  <2> HIDE DEF aiRun
  <2> QED
    BY <1>1, <2>2, <2>3, <2>4, RunRowStep
<1>5. CASE StopWork(id)
  <2> DEFINE aiRun == [aiRuns[id] EXCEPT !.isAtWork = FALSE]
  <2>1. SaveAiRun(id, aiRun) /\ IsUnfinished(aiRuns[id])
    BY <1>5 DEF StopWork, IsUnfinished
  <2>2. aiRun \in AiRunRows /\ aiRun.acceptedAt = aiRuns[id].acceptedAt
    BY <1>1 DEF AiRunRows
  <2>3. PurgeStampIsTrue(aiRun)
    BY <1>1, <2>1 DEF PurgeStampIsTrue, HoldsContent, AiRunRows
  <2> HIDE DEF aiRun
  <2> QED
    BY <1>1, <2>1, <2>2, <2>3, RunRowStep
<1> QED
  BY <1>2, <1>3, <1>4, <1>5

\* A new row carries the policy of the day and no stamp.
LEMMA AcceptStep ==
  ASSUME RetentionInvariant, AcceptAiRun
  PROVE  RetentionInvariant'
<1> USE DEF RetentionInvariant
<1> DEFINE aiRun ==
        [status |-> "queued", acceptedAt |-> day,
         request |-> TRUE, result |-> FALSE, answer |-> FALSE,
         trace |-> {}, isAtWork |-> FALSE,
         contentPurgedAt |-> Nil, tracePurgedAt |-> Nil,
         contentSweptUnfinished |-> FALSE, traceSweptUnfinished |-> FALSE]
<1>1. /\ Len(aiRuns) < MaximumAiRunCount /\ aiRuns' = Append(aiRuns, aiRun)
      /\ UNCHANGED <<day, sweeps, sweepFaultCount>>
  BY DEF AcceptAiRun
<1>2. aiRun \in AiRunRows /\ PurgeStampIsTrue(aiRun)
  BY DEF AiRunRows, AiRunStatuses, PurgeStampIsTrue, RetentionTyped
<1> HIDE DEF aiRun
<1>3. /\ aiRuns' \in Seq(AiRunRows) /\ Len(aiRuns') = Len(aiRuns) + 1
      /\ aiRuns'[Len(aiRuns) + 1] = aiRun
      /\ \A id \in 1..Len(aiRuns) : aiRuns'[id] = aiRuns[id]
      /\ Len(aiRuns) \in Nat
  BY <1>1, <1>2, RunsAreNumbered DEF RetentionTyped
<1>4. RetentionTyped'
  BY <1>1, <1>3, RetentionAssumption DEF RetentionTyped
<1>5. SweepsAreDue'
  <2> SUFFICES ASSUME NEW s \in Sweepers
               PROVE  /\ sweeps[s].phase # "idle" =>
                            sweeps[s].clock \in Clocks /\ sweeps[s].remainingBatchCount > 0
                      /\ \A id \in sweeps[s].aiRunIds :
                            /\ id \in 1..Len(aiRuns')
                            /\ aiRuns'[id].acceptedAt + DayCountOf(sweeps[s].clock)
                                    < sweeps[s].now
    BY <1>1 DEF SweepsAreDue, DayCountOf
  <2> QED
    BY <1>3 DEF SweepsAreDue
<1>6. \A id \in 1..Len(aiRuns') : PurgeStampIsTrue(aiRuns'[id])
  BY <1>2, <1>3
<1>7. (\A id \in 1..Len(aiRuns) : PurgeStampIsTrue(aiRuns[id]))'
  BY <1>6 DEF PurgeStampIsTrue, HoldsContent, IsUnfinished
<1> QED
  BY <1>4, <1>5, <1>7

\* A sweep that moves while the runs stand.
LEMMA SweepMoves ==
  ASSUME RetentionInvariant, NEW s \in Sweepers, NEW sweep \in Sweeps,
         sweeps' = [sweeps EXCEPT ![s] = sweep],
         UNCHANGED <<day, aiRuns>>, sweepFaultCount' \in 0..MaximumSweepFaultCount,
         sweep.phase # "idle" => sweep.clock \in Clocks /\ sweep.remainingBatchCount > 0,
         \A id \in sweep.aiRunIds :
            /\ id \in 1..Len(aiRuns)
            /\ aiRuns[id].acceptedAt + DayCountOf(sweep.clock) < sweep.now
  PROVE  RetentionInvariant'
<1> USE DEF RetentionInvariant
<1>1. /\ sweeps' \in [Sweepers -> Sweeps] /\ sweeps'[s] = sweep
      /\ \A other \in Sweepers : other # s => sweeps'[other] = sweeps[other]
  BY DEF RetentionTyped
<1>2. RetentionTyped'
  BY <1>1 DEF RetentionTyped
<1>3. SweepsAreDue'
  BY <1>1 DEF SweepsAreDue, DayCountOf
<1>4. (\A id \in 1..Len(aiRuns) : PurgeStampIsTrue(aiRuns[id]))'
  BY DEF PurgeStampIsTrue, HoldsContent, IsUnfinished
<1> QED
  BY <1>2, <1>3, <1>4

\* A sweep that is over holds no run.
LEMMA IdleSweepIsASweep ==
  IdleSweep \in Sweeps /\ IdleSweep.phase = "idle" /\ IdleSweep.aiRunIds = {}
  BY RetentionAssumption DEF IdleSweep, Sweeps, Days

\* A sweep, or its redelivery, begins with the clock it is given and no run.
LEMMA StartSweepStep ==
  ASSUME RetentionInvariant, NEW clock \in Clocks, BeginSweep(clock) \/ RedeliverSweep(clock)
  PROVE  RetentionInvariant'
<1> DEFINE s == FreeSweeper
           sweep == [phase |-> "finding", clock |-> clock, now |-> SweepInstant,
                     remainingBatchCount |-> MaximumBatchCount, aiRunIds |-> {}]
<1>1. /\ s \in Sweepers
      /\ sweeps' = [sweeps EXCEPT ![s] = sweep]
      /\ UNCHANGED <<day, aiRuns>>
  BY DEF BeginSweep, RedeliverSweep, StartSweep, FreeSweeper
<1>2. sweepFaultCount' \in 0..MaximumSweepFaultCount
  BY RetentionAssumption DEF BeginSweep, RedeliverSweep, RetentionInvariant, RetentionTyped
<1>3. /\ sweep \in Sweeps /\ sweep.clock = clock /\ sweep.aiRunIds = {}
      /\ sweep.remainingBatchCount > 0
  BY RetentionAssumption DEF Sweeps, SweepInstant, RetentionInvariant, RetentionTyped
<1> HIDE DEF s, sweep
<1> QED
  BY <1>1, <1>2, <1>3, SweepMoves

\* A batch is of runs the clock is out for.
LEMMA FindStep ==
  ASSUME RetentionInvariant, NEW s \in Sweepers, FindExpiredAiRunIds(s)
  PROVE  RetentionInvariant'
<1>1. PICK batch \in ExpiredBatches(s) :
        sweeps' = [sweeps EXCEPT ![s] =
            IF batch = {} THEN IdleSweep
            ELSE [@ EXCEPT !.phase = "saving", !.aiRunIds = batch]]
  BY DEF FindExpiredAiRunIds
<1>2. /\ sweeps[s].phase = "finding" /\ sweeps[s] \in Sweeps
      /\ sweeps[s].clock \in Clocks /\ sweeps[s].remainingBatchCount > 0
      /\ UNCHANGED <<day, aiRuns, sweepFaultCount>>
      /\ sweepFaultCount \in 0..MaximumSweepFaultCount
  BY DEF FindExpiredAiRunIds, RetentionInvariant, RetentionTyped, SweepsAreDue
<1>3. \A id \in batch : id \in DOMAIN aiRuns /\ IsExpired(aiRuns[id], sweeps[s])
  BY DEF ExpiredBatches
<1>4. ASSUME NEW id \in batch
      PROVE  /\ id \in 1..Len(aiRuns) /\ id \in AiRunIds
             /\ aiRuns[id].acceptedAt + DayCountOf(sweeps[s].clock) < sweeps[s].now
  <2>1. id \in 1..Len(aiRuns) /\ id \in AiRunIds /\ aiRuns[id].acceptedAt \in Int
    BY <1>3, RunsAreNumbered, RetentionAssumption DEF RetentionInvariant, AiRunRows, Days
  <2>2. sweeps[s].now \in Int /\ ContentDayCount \in Int /\ TraceDayCount \in Int
    BY <1>2, RetentionAssumption DEF Sweeps, Days
  <2>3. CASE sweeps[s].clock = "content"
    <3>1. aiRuns[id].acceptedAt < sweeps[s].now - ContentDayCount
      BY <1>3, <2>3 DEF IsExpired
    <3> QED
      BY <2>1, <2>2, <2>3, <3>1 DEF DayCountOf
  <2>4. CASE sweeps[s].clock = "trace"
    <3>1. aiRuns[id].acceptedAt < sweeps[s].now - TraceDayCount
      BY <1>3, <2>4 DEF IsExpired
    <3> QED
      BY <2>1, <2>2, <2>4, <3>1 DEF DayCountOf
  <2> QED
    BY <1>2, <2>3, <2>4 DEF Clocks
<1>5. CASE batch = {}
  <2>1. sweeps' = [sweeps EXCEPT ![s] = IdleSweep]
    BY <1>1, <1>5
  <2> QED
    BY <1>2, <2>1, IdleSweepIsASweep, SweepMoves
<1>6. CASE batch # {}
  <2> DEFINE sweep == [sweeps[s] EXCEPT !.phase = "saving", !.aiRunIds = batch]
  <2>1. sweeps' = [sweeps EXCEPT ![s] = sweep]
    BY <1>1, <1>6
  <2>2. /\ sweep \in Sweeps /\ sweep.aiRunIds = batch /\ sweep.clock = sweeps[s].clock
        /\ sweep.now = sweeps[s].now
        /\ sweep.remainingBatchCount = sweeps[s].remainingBatchCount
    BY <1>2, <1>4 DEF Sweeps
  <2> HIDE DEF sweep
  <2> QED
    BY <1>2, <1>4, <2>1, <2>2, SweepMoves
<1> QED
  BY <1>5, <1>6

\* A purge empties what its stamp says is gone.
LEMMA PurgedRow ==
  ASSUME RetentionInvariant, NEW s \in Sweepers, sweeps[s].phase = "saving",
         NEW id \in sweeps[s].aiRunIds,
         NEW purged,
         purged = IF sweeps[s].clock = "content" THEN EmptiedContent(aiRuns[id], s)
                  ELSE DeletedTrace(aiRuns[id], s)
  PROVE  /\ purged \in AiRunRows /\ PurgeStampIsTrue(purged)
         /\ purged.acceptedAt = aiRuns[id].acceptedAt
<1>1. /\ id \in 1..Len(aiRuns) /\ aiRuns[id] \in AiRunRows
      /\ PurgeStampIsTrue(aiRuns[id])
      /\ aiRuns[id].acceptedAt + DayCountOf(sweeps[s].clock) < sweeps[s].now
      /\ sweeps[s].now \in Days
  <2>1. id \in 1..Len(aiRuns)
        /\ aiRuns[id].acceptedAt + DayCountOf(sweeps[s].clock) < sweeps[s].now
    BY DEF RetentionInvariant, SweepsAreDue
  <2> QED
    BY <2>1, RunsAreNumbered DEF RetentionInvariant, RetentionTyped, Sweeps
<1>2. IsUnfinished(aiRuns[id]) \in BOOLEAN
  BY DEF IsUnfinished
<1>3. CASE sweeps[s].clock = "content"
  <2>1. /\ purged \in AiRunRows /\ purged.acceptedAt = aiRuns[id].acceptedAt
        /\ purged.request = FALSE /\ purged.result = FALSE /\ purged.answer = FALSE
        /\ purged.contentPurgedAt = sweeps[s].now
        /\ purged.contentSweptUnfinished = IsUnfinished(aiRuns[id])
        /\ purged.status = aiRuns[id].status /\ purged.isAtWork = aiRuns[id].isAtWork
        /\ purged.trace = aiRuns[id].trace
        /\ purged.tracePurgedAt = aiRuns[id].tracePurgedAt
        /\ purged.traceSweptUnfinished = aiRuns[id].traceSweptUnfinished
    BY <1>1, <1>2, <1>3 DEF EmptiedContent, AiRunRows
  <2>2. purged.acceptedAt + ContentDayCount < purged.contentPurgedAt
    BY <1>1, <1>3, <2>1 DEF DayCountOf
  <2>3. HoldsContent(purged) \/ IsUnfinished(purged) => purged.contentSweptUnfinished
    BY <2>1 DEF HoldsContent, IsUnfinished
  <2>4. purged.tracePurgedAt # Nil =>
            /\ purged.acceptedAt + TraceDayCount < purged.tracePurgedAt
            /\ purged.trace # {} \/ IsUnfinished(purged) => purged.traceSweptUnfinished
    BY <1>1, <2>1 DEF PurgeStampIsTrue, IsUnfinished
  <2> QED
    BY <2>1, <2>2, <2>3, <2>4 DEF PurgeStampIsTrue
<1>4. CASE sweeps[s].clock # "content"
  <2>1. /\ purged \in AiRunRows /\ purged.acceptedAt = aiRuns[id].acceptedAt
        /\ purged.request = aiRuns[id].request /\ purged.result = aiRuns[id].result
        /\ purged.answer = FALSE
        /\ purged.contentPurgedAt = aiRuns[id].contentPurgedAt
        /\ purged.contentSweptUnfinished = aiRuns[id].contentSweptUnfinished
        /\ purged.status = aiRuns[id].status /\ purged.isAtWork = aiRuns[id].isAtWork
        /\ purged.trace = {}
        /\ purged.tracePurgedAt = sweeps[s].now
        /\ purged.traceSweptUnfinished = IsUnfinished(aiRuns[id])
    BY <1>1, <1>2, <1>4 DEF DeletedTrace, AiRunRows
  <2>2. purged.acceptedAt + TraceDayCount < purged.tracePurgedAt
    BY <1>1, <1>4, <2>1 DEF DayCountOf
  <2>3. purged.trace # {} \/ IsUnfinished(purged) => purged.traceSweptUnfinished
    BY <2>1 DEF IsUnfinished
  <2>4. purged.contentPurgedAt # Nil =>
            /\ purged.acceptedAt + ContentDayCount < purged.contentPurgedAt
            /\ HoldsContent(purged) \/ IsUnfinished(purged) => purged.contentSweptUnfinished
    BY <1>1, <2>1 DEF PurgeStampIsTrue, HoldsContent, IsUnfinished
  <2> QED
    BY <2>1, <2>2, <2>3, <2>4 DEF PurgeStampIsTrue
<1> QED
  BY <1>3, <1>4

\* A sweep stamps what is ripe by its own clock, and only what it has found.
LEMMA SavePurgeStep ==
  ASSUME RetentionInvariant, NEW s \in Sweepers, SavePurge(s)
  PROVE  RetentionInvariant'
<1> DEFINE Purged(aiRun) == IF sweeps[s].clock = "content" THEN EmptiedContent(aiRun, s)
                            ELSE DeletedTrace(aiRun, s)
           sweep == IF sweeps[s].remainingBatchCount = 1 THEN IdleSweep
                    ELSE [sweeps[s] EXCEPT !.phase = "finding", !.aiRunIds = {},
                                           !.remainingBatchCount = @ - 1]
<1>1. /\ sweeps[s].phase = "saving"
      /\ aiRuns' = [id \in DOMAIN aiRuns |->
            IF id \in sweeps[s].aiRunIds THEN Purged(aiRuns[id]) ELSE aiRuns[id]]
      /\ sweeps' = [sweeps EXCEPT ![s] = sweep]
      /\ UNCHANGED <<day, sweepFaultCount>>
  <2>1. sweeps' = [sweeps EXCEPT ![s] = sweep]
    BY DEF SavePurge
  <2>2. aiRuns' = [id \in DOMAIN aiRuns |->
            IF id \in sweeps[s].aiRunIds THEN Purged(aiRuns[id]) ELSE aiRuns[id]]
    BY DEF SavePurge
  <2>3. sweeps[s].phase = "saving" /\ UNCHANGED <<day, sweepFaultCount>>
    BY DEF SavePurge
  <2> QED
    BY <2>1, <2>2, <2>3
<1>2. ASSUME NEW id \in 1..Len(aiRuns)
      PROVE  /\ aiRuns'[id] \in AiRunRows /\ PurgeStampIsTrue(aiRuns'[id])
             /\ aiRuns'[id].acceptedAt = aiRuns[id].acceptedAt
  <2>1. CASE id \in sweeps[s].aiRunIds
    <3>1. aiRuns'[id] = Purged(aiRuns[id])
      BY <1>1, <2>1, RunsAreNumbered DEF RetentionInvariant
    <3> QED
      BY <1>1, <2>1, <3>1, PurgedRow
  <2>2. CASE id \notin sweeps[s].aiRunIds
    <3>1. aiRuns'[id] = aiRuns[id]
      BY <1>1, <2>2, RunsAreNumbered DEF RetentionInvariant
    <3> QED
      BY <3>1, RunsAreNumbered DEF RetentionInvariant
  <2> QED
    BY <2>1, <2>2
<1>3. aiRuns' \in [1..Len(aiRuns) -> AiRunRows] /\ Len(aiRuns) \in Nat
  <2>1. DOMAIN aiRuns = 1..Len(aiRuns) /\ Len(aiRuns) \in Nat
    BY RunsAreNumbered DEF RetentionInvariant
  <2>2. aiRuns' = [id \in 1..Len(aiRuns) |-> aiRuns'[id]]
    BY <1>1, <2>1
  <2> QED
    BY <1>2, <2>1, <2>2
<1>4. aiRuns' \in Seq(AiRunRows) /\ Len(aiRuns') = Len(aiRuns)
  BY <1>3
<1>5. /\ sweep \in Sweeps /\ sweep.aiRunIds = {}
      /\ sweep.phase # "idle" => sweep.clock \in Clocks /\ sweep.remainingBatchCount > 0
  <2>1. /\ sweeps[s] \in Sweeps /\ sweeps[s].clock \in Clocks
        /\ sweeps[s].remainingBatchCount > 0
        /\ sweeps[s].remainingBatchCount \in 0..MaximumBatchCount
    BY <1>1 DEF RetentionInvariant, RetentionTyped, SweepsAreDue, Sweeps
  <2>2. CASE sweeps[s].remainingBatchCount = 1
    BY <2>2, IdleSweepIsASweep
  <2>3. CASE sweeps[s].remainingBatchCount # 1
    <3>1. /\ sweeps[s].remainingBatchCount - 1 \in 0..MaximumBatchCount
          /\ sweeps[s].remainingBatchCount - 1 > 0
      BY <2>1, <2>3, RetentionAssumption
    <3>2. /\ sweep \in Sweeps /\ sweep.aiRunIds = {} /\ sweep.clock = sweeps[s].clock
          /\ sweep.remainingBatchCount = sweeps[s].remainingBatchCount - 1
      BY <2>1, <2>3, <3>1 DEF Sweeps
    <3> QED
      BY <2>1, <3>1, <3>2
  <2> QED
    BY <2>2, <2>3
<1> HIDE DEF sweep, Purged
<1>6. /\ sweeps' \in [Sweepers -> Sweeps] /\ sweeps'[s] = sweep
      /\ \A other \in Sweepers : other # s => sweeps'[other] = sweeps[other]
  BY <1>1, <1>5 DEF RetentionInvariant, RetentionTyped
<1>7. RetentionTyped'
  BY <1>1, <1>4, <1>6 DEF RetentionInvariant, RetentionTyped
<1>8. SweepsAreDue'
  <2> SUFFICES ASSUME NEW other \in Sweepers
               PROVE  /\ sweeps'[other].phase # "idle" =>
                            /\ sweeps'[other].clock \in Clocks
                            /\ sweeps'[other].remainingBatchCount > 0
                      /\ \A id \in sweeps'[other].aiRunIds :
                            /\ id \in 1..Len(aiRuns')
                            /\ aiRuns'[id].acceptedAt + DayCountOf(sweeps'[other].clock)
                                    < sweeps'[other].now
    BY DEF SweepsAreDue, DayCountOf
  <2>1. CASE other = s
    BY <1>5, <1>6, <2>1
  <2>2. CASE other # s
    BY <1>2, <1>4, <1>6, <2>2 DEF RetentionInvariant, SweepsAreDue
  <2> QED
    BY <2>1, <2>2
<1>9. \A id \in 1..Len(aiRuns') : PurgeStampIsTrue(aiRuns'[id])
  BY <1>2, <1>4
<1>10. (\A id \in 1..Len(aiRuns) : PurgeStampIsTrue(aiRuns[id]))'
  BY <1>9 DEF PurgeStampIsTrue, HoldsContent, IsUnfinished
<1> QED
  BY <1>7, <1>8, <1>10 DEF RetentionInvariant

\* The invariant holds in every state of the retention.
THEOREM RetentionInvariantHolds ==
  RetentionInit /\ [][RetentionNext]_retentionVars => []RetentionInvariant
<1>1. RetentionInit => RetentionInvariant
  <2> SUFFICES ASSUME RetentionInit PROVE RetentionInvariant
    OBVIOUS
  <2>1. RetentionTyped /\ SweepsAreDue
    BY IdleSweepIsASweep, RetentionAssumption
       DEF RetentionInit, RetentionTyped, SweepsAreDue, Days
  <2>2. \A id \in 1..Len(aiRuns) : FALSE
    BY DEF RetentionInit
  <2> QED
    BY <2>1, <2>2 DEF RetentionInvariant
<1>2. RetentionInvariant /\ [RetentionNext]_retentionVars => RetentionInvariant'
  <2> SUFFICES ASSUME RetentionInvariant, [RetentionNext]_retentionVars
               PROVE  RetentionInvariant'
    OBVIOUS
  <2>1. CASE PassDay \/ UNCHANGED retentionVars
    <3>1. UNCHANGED <<aiRuns, sweeps, sweepFaultCount>> /\ day' \in Days
      <4>1. CASE PassDay
        BY <4>1, RetentionAssumption DEF PassDay, RetentionInvariant, RetentionTyped, Days
      <4>2. CASE UNCHANGED retentionVars
        BY <4>2 DEF retentionVars, RetentionInvariant, RetentionTyped
      <4> QED
        BY <2>1, <4>1, <4>2
    <3> QED
      BY <3>1 DEF RetentionInvariant, RetentionTyped, SweepsAreDue, DayCountOf,
                  PurgeStampIsTrue, HoldsContent, IsUnfinished
  <2>2. CASE AiRunStep
    BY <2>2, AcceptStep, RunStep DEF AiRunStep
  <2>3. CASE SweepStep
    <3>1. ASSUME NEW s \in Sweepers, FailSweep(s)
          PROVE  RetentionInvariant'
      <4>1. /\ sweeps' = [sweeps EXCEPT ![s] = IdleSweep]
            /\ sweepFaultCount' \in 0..MaximumSweepFaultCount
            /\ UNCHANGED <<day, aiRuns>>
        BY <3>1, RetentionAssumption DEF FailSweep, RetentionInvariant, RetentionTyped
      <4> QED
        BY <4>1, IdleSweepIsASweep, SweepMoves
    <3> QED
      BY <2>3, <3>1, StartSweepStep, FindStep, SavePurgeStep DEF SweepStep
  <2> QED
    BY <2>1, <2>2, <2>3 DEF RetentionNext
<1> QED
  BY <1>1, <1>2, PTL

\* The runs, the sweeps and the ids they hold are what the code keeps.
THEOREM RetentionTypeCorrect == RetentionSpec => []RetentionTypeOK
<1>1. RetentionInvariant => RetentionTypeOK
  <2> SUFFICES ASSUME RetentionInvariant PROVE RetentionTypeOK
    OBVIOUS
  <2>1. \A s \in Sweepers : sweeps[s].aiRunIds \subseteq 1..Len(aiRuns)
    BY DEF RetentionInvariant, SweepsAreDue
  <2> QED
    BY <2>1, RunsAreNumbered DEF RetentionInvariant, RetentionTyped, RetentionTypeOK, Sweeps
<1> QED
  BY <1>1, RetentionInvariantHolds, PTL DEF RetentionSpec

\* Whatever sweeps overlap and fail, nothing is purged before its clock is out, and a
\* run that had settled and was worked on by nobody when it was stamped holds nothing
\* the stamp says is gone, for any horizons, batches and number of sweeps
\* (AiRunContentPurger, AiRunTracePurger).
THEOREM StampsAreTrue == RetentionSpec => []RetentionIsKept
<1>1. RetentionInvariant => RetentionIsKept
  BY RunsAreNumbered DEF RetentionInvariant, RetentionIsKept, PurgeStampIsTrue
<1> QED
  BY <1>1, RetentionInvariantHolds, PTL DEF RetentionSpec

--------------------------------------------------------------------------------
(* A run read back                                                          *)

Phases == {"unasked", "opening", "finding", "reading", "closing", "answered", "failed"}

ReadingRows ==
    [phase : Phases, question : Questions \cup {Nothing}, row : RunRows \cup {Nothing},
     seen : SUBSET Nat, left : SUBSET Tables, isReported : BOOLEAN,
     exitCode : {0, 1, 2, Nothing}]

ReadingTyped ==
    /\ run \in RunRows
    /\ work \in Works
    /\ workedTo \in 0..Len(work)
    /\ trace \subseteq 1..workedTo
    /\ readings \in [Askers -> ReadingRows]

\* The run: a success has its result and the whole of its work, and what was written
\* under a run is there until its purge.
RunIsWhole ==
    /\ run.status = "succeeded" =>
        workedTo = Len(work) /\ (run.contentPurgedAt \/ run.resultBody)
    /\ run.failureReasonCode <=> run.status = "failed"
    /\ ~run.tracePurgedAt => trace = 1..workedTo

\* The row of a reading is the run as it was: settled, it is the run as it is.
RowWasTheRun(reading) ==
    reading.row # Nothing =>
        /\ HasSettled(reading.row) => reading.row.status = run.status
        /\ reading.row.status = "succeeded" =>
            reading.row.contentPurgedAt \/ reading.row.resultBody
        /\ reading.row.failureReasonCode <=> reading.row.status = "failed"
        /\ reading.question \notin {"stranger", "malformed"}

\* Every table that was read of a run that had succeeded was read whole.
TablesWereRead(reading) ==
    /\ reading.row # Nothing /\ reading.row.status = "succeeded"
    /\ reading.phase # "failed" /\ reading.exitCode \in {0, Nothing}
    => \A table \in TablesRead(reading.question) \ reading.left :
        run.tracePurgedAt \/ RowsOf(table) \subseteq reading.seen

\* What a phase says of the rest of a reading.
PhaseIsTrue(reading) ==
    /\ reading.phase # "unasked" => reading.question \in Questions
    /\ reading.phase \in {"unasked", "opening", "finding"} => reading.row = Nothing
    /\ reading.phase \in {"unasked", "opening", "finding", "reading"} =>
        reading.exitCode = Nothing /\ ~reading.isReported
    /\ reading.phase \in {"opening", "closing"} => IsOperator(reading.question)
    /\ reading.phase \in {"finding", "reading"} => reading.question # "malformed"
    /\ reading.phase \in {"opening", "finding"} =>
        reading.left = TablesRead(reading.question)
    /\ reading.phase \in {"closing", "answered", "failed"} => reading.left = {}
    /\ IsOperator(reading.question) /\ reading.phase \in {"closing", "answered"} =>
        /\ reading.isReported <=> reading.exitCode = 0
        /\ reading.exitCode = 2 => reading.question = "malformed"

ReadingIsTrue(reading) ==
    /\ reading.seen \subseteq 1..workedTo
    /\ RowWasTheRun(reading)
    /\ TablesWereRead(reading)
    /\ PhaseIsTrue(reading)

ReadingInvariant ==
    /\ ReadingTyped
    /\ RunIsWhole
    /\ \A a \in Askers : ReadingIsTrue(readings[a])

\* The rows a run has written are numbered from one without a gap.
LEMMA WorkIsNumbered ==
  ASSUME ReadingTyped
  PROVE  Len(work) \in Nat /\ DOMAIN work = 1..Len(work) /\ workedTo \in Nat
  BY ReadingAssumption DEF ReadingTyped

\* A question reads tables there are.
LEMMA TablesAreTables ==
  ASSUME NEW question \in Questions
  PROVE  TablesRead(question) \subseteq Tables
<1>1. CASE question \in {"client", "callback"}
  BY <1>1 DEF TablesRead, Tables
<1>2. CASE question = "client expanding steps"
  BY <1>2 DEF TablesRead, OperatorCommands
<1>3. CASE question \in OperatorCommands
  BY <1>3 DEF TablesRead, Tables, OperatorCommands
<1>4. CASE question \in {"stranger", "malformed"}
  BY <1>4 DEF TablesRead, OperatorCommands
<1> QED
  BY <1>1, <1>2, <1>3, <1>4 DEF Questions, Kinds

\* The run moves, and what was answered stays true: a settled status is kept, the
\* work goes on and a purge is not undone.
LEMMA RunMoves ==
  ASSUME ReadingInvariant, UNCHANGED <<work, readings>>,
         run' \in RunRows, workedTo' \in workedTo..Len(work), trace' \subseteq 1..workedTo',
         RunIsWhole',
         HasSettled(run) => run'.status = run.status,
         run.tracePurgedAt => run'.tracePurgedAt
  PROVE  ReadingInvariant'
<1>1. workedTo' \in 0..Len(work) /\ 1..workedTo \subseteq 1..workedTo'
  BY WorkIsNumbered DEF ReadingInvariant
<1>2. ReadingTyped'
  BY <1>1 DEF ReadingInvariant, ReadingTyped
<1>3. ASSUME NEW a \in Askers
      PROVE  ReadingIsTrue(readings[a])'
  <2>1. ReadingIsTrue(readings[a])
    BY DEF ReadingInvariant
  <2>2. readings'[a] = readings[a]
    OBVIOUS
  <2>3. readings[a].seen \subseteq 1..workedTo'
    BY <1>1, <2>1 DEF ReadingIsTrue
  <2>4. RowWasTheRun(readings[a])'
    BY <2>1, <2>2 DEF ReadingIsTrue, RowWasTheRun, HasSettled
  <2>5. TablesWereRead(readings[a])'
    BY <2>1, <2>2 DEF ReadingIsTrue, TablesWereRead, RowsOf
  <2>6. PhaseIsTrue(readings[a])'
    BY <2>1, <2>2 DEF ReadingIsTrue, PhaseIsTrue
  <2> QED
    BY <2>2, <2>3, <2>4, <2>5, <2>6 DEF ReadingIsTrue
<1> QED
  BY <1>2, <1>3 DEF ReadingInvariant

\* A reading moves, and the run stands.
LEMMA ReadingMoves ==
  ASSUME ReadingInvariant, NEW a \in Askers, NEW reading \in ReadingRows,
         SetReading(a, reading), ReadingIsTrue(reading)
  PROVE  ReadingInvariant'
<1>1. /\ readings' = [readings EXCEPT ![a] = reading]
      /\ UNCHANGED <<run, work, trace, workedTo>>
  BY DEF SetReading
<1>2. /\ readings' \in [Askers -> ReadingRows] /\ readings'[a] = reading
      /\ \A other \in Askers : other # a => readings'[other] = readings[other]
  BY <1>1 DEF ReadingInvariant, ReadingTyped
<1>3. ReadingTyped' /\ RunIsWhole'
  BY <1>1, <1>2 DEF ReadingInvariant, ReadingTyped, RunIsWhole
<1>4. ASSUME NEW other \in Askers
      PROVE  ReadingIsTrue(readings[other])'
  <2>1. ReadingIsTrue(readings'[other])
    BY <1>2 DEF ReadingInvariant
  <2>2. RowWasTheRun(readings[other])'
    BY <1>1, <2>1 DEF ReadingIsTrue, RowWasTheRun, HasSettled
  <2>3. TablesWereRead(readings[other])'
    BY <1>1, <2>1 DEF ReadingIsTrue, TablesWereRead, RowsOf
  <2>4. PhaseIsTrue(readings[other])'
    BY <2>1 DEF ReadingIsTrue, PhaseIsTrue
  <2> QED
    BY <1>1, <2>1, <2>2, <2>3, <2>4 DEF ReadingIsTrue
<1> QED
  BY <1>3, <1>4 DEF ReadingInvariant

\* A step of the run or of its retention adds to what may be read, and an asker under
\* way keeps what it has.
LEMMA ReadRunStep ==
  ASSUME ReadingInvariant,
         StartRun \/ WriteTrace \/ (\E status \in SettledStatuses : SettleRun(status))
         \/ PurgeContent \/ PurgeTrace
  PROVE  ReadingInvariant'
<1> USE DEF ReadingInvariant
<1>1. /\ run \in RunRows /\ workedTo \in Nat /\ Len(work) \in Nat /\ workedTo <= Len(work)
      /\ trace \subseteq 1..workedTo
  BY WorkIsNumbered DEF ReadingTyped
<1>2. workedTo \in workedTo..Len(work)
  BY <1>1
<1>3. CASE StartRun
  <2>1. /\ run' \in RunRows /\ run'.status = "running" /\ run.status = "queued"
        /\ run'.failureReasonCode = run.failureReasonCode
        /\ run'.tracePurgedAt = run.tracePurgedAt
        /\ UNCHANGED <<work, trace, workedTo, readings>>
    BY <1>1, <1>3 DEF StartRun, RunRows
  <2>2. RunIsWhole'
    BY <2>1 DEF RunIsWhole
  <2> QED
    BY <1>1, <1>2, <2>1, <2>2, RunMoves DEF HasSettled, SettledStatuses
<1>4. CASE WriteTrace
  <2>1. /\ workedTo < Len(work) /\ workedTo' = workedTo + 1
        /\ trace' = trace \cup {workedTo'} /\ UNCHANGED <<run, work, readings>>
    BY <1>4 DEF WriteTrace
  <2>2. workedTo' \in workedTo..Len(work) /\ 1..workedTo' = (1..workedTo) \cup {workedTo'}
    BY <1>1, <2>1
  <2>3. trace' \subseteq 1..workedTo'
    BY <1>1, <2>1, <2>2
  <2>4. run.status # "succeeded"
    BY <1>1, <2>1 DEF RunIsWhole
  <2>5. RunIsWhole'
    BY <2>1, <2>2, <2>4 DEF RunIsWhole
  <2> QED
    BY <1>1, <2>1, <2>2, <2>3, <2>5, RunMoves
<1>5. CASE \E status \in SettledStatuses : SettleRun(status)
  <2>1. PICK status \in SettledStatuses : SettleRun(status)
    BY <1>5
  <2>2. /\ run.status = "running" /\ (status = "succeeded" => workedTo = Len(work))
        /\ UNCHANGED <<work, trace, workedTo, readings>>
    BY <2>1 DEF SettleRun
  <2>3. /\ run' \in RunRows /\ run'.status = status
        /\ run'.resultBody = (status = "succeeded")
        /\ run'.failureReasonCode = (status = "failed")
        /\ run'.tracePurgedAt = run.tracePurgedAt
    BY <1>1, <2>1 DEF SettleRun, RunRows
  <2>4. RunIsWhole'
    BY <2>2, <2>3 DEF RunIsWhole
  <2> QED
    BY <1>1, <1>2, <2>2, <2>3, <2>4, RunMoves DEF HasSettled, SettledStatuses
<1>6. CASE PurgeContent
  <2>1. /\ run' \in RunRows /\ run'.status = run.status
        /\ run'.contentPurgedAt = TRUE
        /\ run'.failureReasonCode = run.failureReasonCode
        /\ run'.tracePurgedAt = run.tracePurgedAt
        /\ UNCHANGED <<work, trace, workedTo, readings>>
    BY <1>1, <1>6 DEF PurgeContent, RunRows
  <2>2. RunIsWhole'
    BY <2>1 DEF RunIsWhole
  <2> QED
    BY <1>1, <1>2, <2>1, <2>2, RunMoves
<1>7. CASE PurgeTrace
  <2>1. /\ run' \in RunRows /\ run'.status = run.status
        /\ run'.contentPurgedAt = run.contentPurgedAt
        /\ run'.resultBody = run.resultBody
        /\ run'.failureReasonCode = run.failureReasonCode
        /\ run'.tracePurgedAt = TRUE /\ trace' = {}
        /\ UNCHANGED <<work, workedTo, readings>>
    BY <1>1, <1>7 DEF PurgeTrace, RunRows
  <2>2. RunIsWhole'
    BY <2>1 DEF RunIsWhole
  <2> QED
    BY <1>1, <1>2, <2>1, <2>2, RunMoves
<1> QED
  BY <1>3, <1>4, <1>5, <1>6, <1>7

\* A question begins with nothing read.
LEMMA OpenReadingStep ==
  ASSUME ReadingInvariant, NEW a \in Askers,
         (\E question \in Questions : Ask(a, question)) \/ ActivateSequelize(a)
  PROVE  ReadingInvariant'
<1>1. readings[a] \in ReadingRows /\ ReadingIsTrue(readings[a])
  BY DEF ReadingInvariant, ReadingTyped
<1>2. ASSUME NEW question \in Questions, Ask(a, question)
      PROVE  ReadingInvariant'
  <2> DEFINE reading == [NoReading EXCEPT
                !.phase = IF IsOperator(question) THEN "opening" ELSE "finding",
                !.question = question,
                !.left = TablesRead(question)]
  <2>1. SetReading(a, reading)
    BY <1>2 DEF Ask
  <2>2. /\ reading.phase = IF IsOperator(question) THEN "opening" ELSE "finding"
        /\ reading.question = question /\ reading.left = TablesRead(question)
        /\ reading.row = Nothing /\ reading.seen = {}
        /\ reading.isReported = FALSE /\ reading.exitCode = Nothing
        /\ reading \in ReadingRows
    BY TablesAreTables DEF NoReading, ReadingRows, Phases
  <2> HIDE DEF reading
  <2>3. PhaseIsTrue(reading)
    BY <2>2 DEF PhaseIsTrue, IsOperator
  <2>4. ReadingIsTrue(reading)
    BY <2>2, <2>3 DEF ReadingIsTrue, RowWasTheRun, TablesWereRead
  <2> QED
    BY <2>1, <2>2, <2>4, ReadingMoves
<1>3. CASE ActivateSequelize(a) /\ readings[a].question = "malformed"
  <2> DEFINE reading == [readings[a] EXCEPT !.phase = "closing", !.exitCode = 2, !.left = {}]
  <2>1. SetReading(a, reading) /\ readings[a].phase = "opening"
    BY <1>3 DEF ActivateSequelize
  <2>2. /\ reading.phase = "closing" /\ reading.question = "malformed"
        /\ reading.left = {} /\ reading.exitCode = 2
        /\ reading.row = readings[a].row /\ reading.seen = readings[a].seen
        /\ reading.isReported = readings[a].isReported
        /\ reading \in ReadingRows
    BY <1>1, <1>3 DEF ReadingRows, Phases
  <2> HIDE DEF reading
  <2>3. /\ reading.row = Nothing /\ ~reading.isReported
        /\ reading.question \in Questions /\ IsOperator(reading.question)
    BY <1>1, <2>1, <2>2 DEF ReadingIsTrue, PhaseIsTrue, Questions, IsOperator
  <2>4. PhaseIsTrue(reading)
    BY <2>2, <2>3 DEF PhaseIsTrue
  <2>5. ReadingIsTrue(reading)
    BY <1>1, <2>2, <2>3, <2>4 DEF ReadingIsTrue, RowWasTheRun, TablesWereRead
  <2> QED
    BY <2>1, <2>2, <2>5, ReadingMoves
<1>4. CASE ActivateSequelize(a) /\ readings[a].question # "malformed"
  <2> DEFINE reading == [readings[a] EXCEPT !.phase = "finding"]
  <2>1. SetReading(a, reading) /\ readings[a].phase = "opening"
    BY <1>4 DEF ActivateSequelize
  <2>2. /\ reading.phase = "finding" /\ reading.question = readings[a].question
        /\ reading.left = readings[a].left /\ reading.exitCode = readings[a].exitCode
        /\ reading.row = readings[a].row /\ reading.seen = readings[a].seen
        /\ reading.isReported = readings[a].isReported
        /\ reading \in ReadingRows
    BY <1>1 DEF ReadingRows, Phases
  <2> HIDE DEF reading
  <2>3. PhaseIsTrue(reading) /\ reading.row = Nothing
    BY <1>1, <1>4, <2>1, <2>2 DEF ReadingIsTrue, PhaseIsTrue
  <2>4. ReadingIsTrue(reading)
    BY <1>1, <2>2, <2>3 DEF ReadingIsTrue, RowWasTheRun, TablesWereRead
  <2> QED
    BY <2>1, <2>2, <2>4, ReadingMoves
<1> QED
  BY <1>2, <1>3, <1>4

\* The row of a settled run is the run for good.
LEMMA FindAiRunStep ==
  ASSUME ReadingInvariant, NEW a \in Askers, FindAiRun(a)
  PROVE  ReadingInvariant'
<1>1. readings[a] \in ReadingRows /\ ReadingIsTrue(readings[a])
  BY DEF ReadingInvariant, ReadingTyped
<1>2. PICK isFound \in IsFound(readings[a].question) :
        SetReading(a,
            IF isFound THEN [readings[a] EXCEPT !.phase = "reading", !.row = run]
            ELSE FindNothing(readings[a]))
  BY DEF FindAiRun
<1>3. /\ readings[a].phase = "finding" /\ readings[a].row = Nothing
      /\ readings[a].exitCode = Nothing /\ ~readings[a].isReported
      /\ readings[a].question \in Questions /\ readings[a].question # "malformed"
      /\ readings[a].left = TablesRead(readings[a].question)
  BY <1>1 DEF FindAiRun, ReadingIsTrue, PhaseIsTrue
<1>4. CASE isFound
  <2> DEFINE reading == [readings[a] EXCEPT !.phase = "reading", !.row = run]
  <2>1. SetReading(a, reading)
    BY <1>2, <1>4
  <2>2. /\ reading.phase = "reading" /\ reading.question = readings[a].question
        /\ reading.left = readings[a].left /\ reading.exitCode = readings[a].exitCode
        /\ reading.row = run /\ reading.seen = readings[a].seen
        /\ reading.isReported = readings[a].isReported
        /\ reading \in ReadingRows
    BY <1>1 DEF ReadingInvariant, ReadingTyped, ReadingRows, Phases
  <2>3. readings[a].question # "stranger"
    BY <1>2, <1>4 DEF IsFound
  <2> HIDE DEF reading
  <2>4. PhaseIsTrue(reading)
    BY <1>3, <2>2 DEF PhaseIsTrue
  <2>5. RowWasTheRun(reading)
    BY <1>3, <2>2, <2>3 DEF RowWasTheRun, ReadingInvariant, RunIsWhole
  <2>6. TablesWereRead(reading)
    BY <1>3, <2>2 DEF TablesWereRead
  <2>7. ReadingIsTrue(reading)
    BY <1>1, <2>2, <2>4, <2>5, <2>6 DEF ReadingIsTrue
  <2> QED
    BY <2>1, <2>2, <2>7, ReadingMoves
<1>5. CASE ~isFound
  <2> DEFINE reading == FindNothing(readings[a])
  <2>1. SetReading(a, reading)
    BY <1>2, <1>5
  <2>2. /\ reading.question = readings[a].question
        /\ reading.left = {} /\ reading.row = Nothing /\ reading.seen = readings[a].seen
        /\ reading \in ReadingRows
    BY <1>1, <1>3 DEF FindNothing, ReadingRows, Phases
  <2>3. ASSUME IsOperator(readings[a].question)
        PROVE  PhaseIsTrue(reading)
    <3>1. reading.phase = "closing" /\ reading.isReported = TRUE /\ reading.exitCode = 0
      BY <1>1, <2>3 DEF FindNothing, ReadingRows
    <3> HIDE DEF reading
    <3> QED
      BY <1>3, <2>2, <2>3, <3>1 DEF PhaseIsTrue
  <2>4. ASSUME ~IsOperator(readings[a].question)
        PROVE  PhaseIsTrue(reading)
    <3>1. reading.phase = "answered"
      BY <1>1, <2>4 DEF FindNothing, ReadingRows
    <3> HIDE DEF reading
    <3> QED
      BY <1>3, <2>2, <2>4, <3>1 DEF PhaseIsTrue
  <2> HIDE DEF reading
  <2>5. ReadingIsTrue(reading)
    BY <1>1, <2>2, <2>3, <2>4 DEF ReadingIsTrue, RowWasTheRun, TablesWereRead
  <2> QED
    BY <2>1, <2>2, <2>5, ReadingMoves
<1> QED
  BY <1>4, <1>5

\* A table read of a run that has succeeded is read whole, unless it was purged.
LEMMA ReadTableStep ==
  ASSUME ReadingInvariant, NEW a \in Askers, NEW table \in Tables, ReadTable(a, table)
  PROVE  ReadingInvariant'
<1> DEFINE reading == [readings[a] EXCEPT
              !.left = @ \ {table}, !.seen = @ \cup (trace \cap RowsOf(table))]
<1>1. /\ readings[a] \in ReadingRows /\ ReadingIsTrue(readings[a])
      /\ trace \subseteq 1..workedTo /\ workedTo \in Nat
  BY WorkIsNumbered DEF ReadingInvariant, ReadingTyped
<1>2. SetReading(a, reading) /\ readings[a].phase = "reading"
  BY DEF ReadTable, MayRead
<1>3. trace \subseteq Nat
  BY <1>1
<1>4. /\ reading.phase = "reading" /\ reading.question = readings[a].question
      /\ reading.left = readings[a].left \ {table}
      /\ reading.seen = readings[a].seen \cup (trace \cap RowsOf(table))
      /\ reading.row = readings[a].row /\ reading.exitCode = readings[a].exitCode
      /\ reading.isReported = readings[a].isReported
      /\ reading \in ReadingRows
  BY <1>1, <1>2, <1>3 DEF ReadingRows
<1> HIDE DEF reading
<1>5. RowWasTheRun(reading)
  BY <1>1, <1>4 DEF ReadingIsTrue, RowWasTheRun
<1>6. PhaseIsTrue(reading)
  BY <1>1, <1>2, <1>4 DEF ReadingIsTrue, PhaseIsTrue
<1>7. TablesWereRead(reading)
  <2> SUFFICES ASSUME reading.row # Nothing, reading.row.status = "succeeded",
                      reading.exitCode \in {0, Nothing},
                      NEW other \in TablesRead(reading.question) \ reading.left,
                      ~run.tracePurgedAt
               PROVE  RowsOf(other) \subseteq reading.seen
    BY DEF TablesWereRead
  <2>1. CASE other = table
    <3>1. run.status = "succeeded"
      BY <1>1, <1>4 DEF ReadingIsTrue, RowWasTheRun, HasSettled, SettledStatuses
    <3>2. trace = DOMAIN work
      BY <3>1, WorkIsNumbered DEF ReadingInvariant, RunIsWhole
    <3> QED
      BY <1>4, <2>1, <3>2 DEF RowsOf
  <2>2. CASE other # table
    BY <1>1, <1>2, <1>4, <2>2 DEF ReadingIsTrue, TablesWereRead
  <2> QED
    BY <2>1, <2>2
<1>8. reading.seen \subseteq 1..workedTo
  BY <1>1, <1>4 DEF ReadingIsTrue
<1>9. ReadingIsTrue(reading)
  BY <1>5, <1>6, <1>7, <1>8 DEF ReadingIsTrue
<1> QED
  BY <1>2, <1>4, <1>9, ReadingMoves

\* A reading ends: told when its tables are read, failed when a query or the
\* connection does.
LEMMA EndReadingStep ==
  ASSUME ReadingInvariant, NEW a \in Askers,
         AnswerReading(a) \/ FailQuery(a) \/ FailConnection(a) \/ CloseSequelize(a)
  PROVE  ReadingInvariant'
<1>1. readings[a] \in ReadingRows /\ ReadingIsTrue(readings[a])
  BY DEF ReadingInvariant, ReadingTyped
<1>2. \E phase \in {"closing", "answered", "failed"}, isReported \in BOOLEAN,
         exitCode \in {0, 1, Nothing, readings[a].exitCode} :
        /\ SetReading(a, [readings[a] EXCEPT !.phase = phase, !.isReported = isReported,
                                             !.exitCode = exitCode, !.left = {}])
        /\ readings[a].phase # "unasked"
        /\ phase = "closing" => IsOperator(readings[a].question)
        /\ phase # "failed" /\ exitCode \in {0, Nothing} =>
            /\ readings[a].left = {}
            /\ readings[a].exitCode \in {0, Nothing} /\ readings[a].phase # "failed"
        /\ phase # "failed" /\ IsOperator(readings[a].question) =>
            /\ isReported <=> exitCode = 0
            /\ exitCode = 2 => readings[a].question = "malformed"
  <2> DEFINE Ended(phase, isReported, exitCode) ==
                [readings[a] EXCEPT !.phase = phase, !.isReported = isReported,
                                    !.exitCode = exitCode, !.left = {}]
  <2>1. CASE AnswerReading(a) /\ IsOperator(readings[a].question)
    <3>1. /\ readings[a].phase = "reading" /\ readings[a].left = {}
          /\ readings[a].exitCode = Nothing
          /\ SetReading(a, [readings[a] EXCEPT !.phase = "closing", !.isReported = TRUE,
                                               !.exitCode = 0])
      BY <1>1, <2>1 DEF AnswerReading, ReadingIsTrue, PhaseIsTrue
    <3>2. [readings[a] EXCEPT !.phase = "closing", !.isReported = TRUE, !.exitCode = 0]
            = Ended("closing", TRUE, 0)
      BY <1>1, <3>1 DEF ReadingRows
    <3> WITNESS "closing" \in {"closing", "answered", "failed"}, TRUE \in BOOLEAN,
                0 \in {0, 1, Nothing, readings[a].exitCode}
    <3> QED
      BY <2>1, <3>1, <3>2
  <2>2. CASE AnswerReading(a) /\ ~IsOperator(readings[a].question)
    <3>1. /\ readings[a].phase = "reading" /\ readings[a].left = {}
          /\ readings[a].exitCode = Nothing /\ readings[a].isReported \in BOOLEAN
          /\ SetReading(a, [readings[a] EXCEPT !.phase = "answered"])
      BY <1>1, <2>2 DEF AnswerReading, ReadingIsTrue, PhaseIsTrue, ReadingRows
    <3>2. [readings[a] EXCEPT !.phase = "answered"]
            = Ended("answered", readings[a].isReported, readings[a].exitCode)
      BY <1>1, <3>1 DEF ReadingRows
    <3> QED
      BY <2>2, <3>1, <3>2
  <2>3. CASE FailQuery(a) /\ IsOperator(readings[a].question)
    <3>1. /\ readings[a].phase \in {"finding", "reading"} /\ ~readings[a].isReported
          /\ readings[a].isReported \in BOOLEAN
          /\ SetReading(a, [readings[a] EXCEPT !.phase = "closing", !.exitCode = 1,
                                               !.left = {}])
      BY <1>1, <2>3 DEF FailQuery, ReadingIsTrue, PhaseIsTrue, ReadingRows
    <3>2. [readings[a] EXCEPT !.phase = "closing", !.exitCode = 1, !.left = {}]
            = Ended("closing", FALSE, 1)
      BY <1>1, <3>1 DEF ReadingRows
    <3>3. 1 \notin {0, Nothing}
      BY ReadingAssumption
    <3> WITNESS "closing" \in {"closing", "answered", "failed"}, FALSE \in BOOLEAN,
                1 \in {0, 1, Nothing, readings[a].exitCode}
    <3> QED
      BY <2>3, <3>1, <3>2, <3>3
  <2>4. CASE FailQuery(a) /\ ~IsOperator(readings[a].question)
    <3>1. /\ readings[a].phase \in {"finding", "reading"}
          /\ readings[a].isReported \in BOOLEAN
          /\ SetReading(a, [readings[a] EXCEPT !.phase = "failed", !.left = {}])
      BY <1>1, <2>4 DEF FailQuery, ReadingRows
    <3>2. [readings[a] EXCEPT !.phase = "failed", !.left = {}]
            = Ended("failed", readings[a].isReported, readings[a].exitCode)
      BY <1>1, <3>1 DEF ReadingRows
    <3> QED
      BY <2>4, <3>1, <3>2
  <2>5. CASE FailConnection(a)
    <3>1. /\ readings[a].phase \in {"opening", "closing"}
          /\ readings[a].isReported \in BOOLEAN
          /\ SetReading(a, [readings[a] EXCEPT !.phase = "failed", !.exitCode = 1,
                                               !.left = {}])
      BY <1>1, <2>5 DEF FailConnection, ReadingRows
    <3>2. [readings[a] EXCEPT !.phase = "failed", !.exitCode = 1, !.left = {}]
            = Ended("failed", readings[a].isReported, 1)
      BY <1>1, <3>1 DEF ReadingRows
    <3> QED
      BY <3>1, <3>2
  <2>6. CASE CloseSequelize(a)
    <3>1. /\ readings[a].phase = "closing" /\ readings[a].left = {}
          /\ readings[a].isReported \in BOOLEAN
          /\ IsOperator(readings[a].question)
          /\ readings[a].isReported <=> readings[a].exitCode = 0
          /\ readings[a].exitCode = 2 => readings[a].question = "malformed"
          /\ SetReading(a, [readings[a] EXCEPT !.phase = "answered"])
      BY <1>1, <2>6 DEF CloseSequelize, ReadingIsTrue, PhaseIsTrue, ReadingRows
    <3>2. [readings[a] EXCEPT !.phase = "answered"]
            = Ended("answered", readings[a].isReported, readings[a].exitCode)
      BY <1>1, <3>1 DEF ReadingRows
    <3> QED
      BY <3>1, <3>2
  <2> QED
    BY <2>1, <2>2, <2>3, <2>4, <2>5, <2>6
<1>3. PICK phase \in {"closing", "answered", "failed"}, isReported \in BOOLEAN,
           exitCode \in {0, 1, Nothing, readings[a].exitCode} :
        /\ SetReading(a, [readings[a] EXCEPT !.phase = phase, !.isReported = isReported,
                                             !.exitCode = exitCode, !.left = {}])
        /\ readings[a].phase # "unasked"
        /\ phase = "closing" => IsOperator(readings[a].question)
        /\ phase # "failed" /\ exitCode \in {0, Nothing} =>
            /\ readings[a].left = {}
            /\ readings[a].exitCode \in {0, Nothing} /\ readings[a].phase # "failed"
        /\ phase # "failed" /\ IsOperator(readings[a].question) =>
            /\ isReported <=> exitCode = 0
            /\ exitCode = 2 => readings[a].question = "malformed"
  BY <1>2
<1> DEFINE reading == [readings[a] EXCEPT !.phase = phase, !.isReported = isReported,
                                          !.exitCode = exitCode, !.left = {}]
<1>4. /\ reading.phase = phase /\ reading.question = readings[a].question
      /\ reading.left = {} /\ reading.exitCode = exitCode
      /\ reading.row = readings[a].row /\ reading.seen = readings[a].seen
      /\ reading.isReported = isReported
      /\ reading \in ReadingRows
  BY <1>1 DEF ReadingRows, Phases
<1>5. SetReading(a, reading)
  BY <1>3
<1> HIDE DEF reading
<1>6. PhaseIsTrue(reading)
  BY <1>1, <1>3, <1>4 DEF ReadingIsTrue, PhaseIsTrue
<1>7. TablesWereRead(reading)
  BY <1>1, <1>3, <1>4 DEF ReadingIsTrue, TablesWereRead
<1>8. ReadingIsTrue(reading)
  BY <1>1, <1>4, <1>6, <1>7 DEF ReadingIsTrue, RowWasTheRun
<1> QED
  BY <1>4, <1>5, <1>8, ReadingMoves

\* The invariant holds in every state of the readings.
THEOREM ReadingInvariantHolds == ReadingSpec => []ReadingInvariant
<1>1. ReadingInit => ReadingInvariant
  <2> SUFFICES ASSUME ReadingInit PROVE ReadingInvariant
    OBVIOUS
  <2>1. /\ run \in RunRows /\ run.status = "queued" /\ run.failureReasonCode = FALSE
        /\ work \in Works /\ trace = {} /\ workedTo = 0
        /\ readings = [a \in Askers |-> NoReading]
    BY DEF ReadingInit, RunRows
  <2>2. NoReading \in ReadingRows
    BY DEF NoReading, ReadingRows, Phases
  <2>3. ReadingTyped
    BY <2>1, <2>2, ReadingAssumption DEF ReadingTyped
  <2>4. RunIsWhole
    BY <2>1 DEF RunIsWhole
  <2>5. /\ NoReading.phase = "unasked" /\ NoReading.row = Nothing /\ NoReading.seen = {}
        /\ NoReading.isReported = FALSE /\ NoReading.exitCode = Nothing
    BY DEF NoReading
  <2>6. ReadingIsTrue(NoReading)
    BY <2>5 DEF ReadingIsTrue, RowWasTheRun, TablesWereRead, PhaseIsTrue
  <2> QED
    BY <2>1, <2>3, <2>4, <2>6 DEF ReadingInvariant
<1>2. ReadingInvariant /\ [ReadingNext]_readingVars => ReadingInvariant'
  <2> SUFFICES ASSUME ReadingInvariant, [ReadingNext]_readingVars
               PROVE  ReadingInvariant'
    OBVIOUS
  <2>1. CASE UNCHANGED readingVars
    <3>1. UNCHANGED <<run, work, trace, workedTo, readings>>
      BY <2>1 DEF readingVars
    <3>2. /\ run \in RunRows /\ workedTo \in workedTo..Len(work)
          /\ trace \subseteq 1..workedTo
      BY WorkIsNumbered DEF ReadingInvariant, ReadingTyped
    <3>3. RunIsWhole'
      BY <3>1 DEF ReadingInvariant, RunIsWhole
    <3> QED
      BY <3>1, <3>2, <3>3, RunMoves
  <2>2. CASE ReadingNext
    BY <2>2, ReadRunStep, OpenReadingStep, FindAiRunStep, ReadTableStep, EndReadingStep
       DEF ReadingNext
  <2> QED
    BY <2>1, <2>2
<1> QED
  BY <1>1, <1>2, PTL DEF ReadingSpec

\* The run, what is written under it and the readings are what the code keeps.
THEOREM ReadingTypeCorrect == ReadingSpec => []ReadingTypeOK
<1>1. ReadingInvariant => ReadingTypeOK
  BY DEF ReadingInvariant, ReadingTyped, ReadingIsTrue, ReadingTypeOK, ReadingRows, Phases
<1> QED
  BY <1>1, ReadingInvariantHolds, PTL

\* For any works, and any number of readings side by side, an answer is one story of the
\* run: what it says of a settled run is never taken back, a success is shown whole until
\* a purge, and an operator's exit code says what the command came to
\* (AiRunGetRenderer, AiRunResponseBuilder, AiRunOperatorCommandExecutor).
THEOREM AnswersTellOneStory == ReadingSpec => []AnswersAreOneStory
<1>1. ReadingInvariant => AnswersAreOneStory
  <2> SUFFICES ASSUME ReadingInvariant, NEW a \in Askers
               PROVE  LET reading == readings[a]
                          row == reading.row
                      IN  /\ IsTold(reading) /\ row # Nothing =>
                              /\ HasSettled(row) => row.status = run.status
                              /\ row.status = "succeeded" =>
                                  /\ row.contentPurgedAt \/ row.resultBody
                                  /\ \A table \in TablesRead(reading.question) :
                                      run.tracePurgedAt \/ RowsOf(table) \subseteq reading.seen
                              /\ row.failureReasonCode <=> row.status = "failed"
                          /\ reading.question \in {"stranger", "malformed"} => row = Nothing
                          /\ IsOperator(reading.question) /\ reading.phase = "answered" =>
                              /\ reading.isReported <=> reading.exitCode = 0
                              /\ reading.exitCode = 2 => reading.question = "malformed"
    BY DEF AnswersAreOneStory
  <2>1. RowWasTheRun(readings[a]) /\ TablesWereRead(readings[a]) /\ PhaseIsTrue(readings[a])
    BY DEF ReadingInvariant, ReadingIsTrue
  <2>2. ASSUME IsTold(readings[a]), readings[a].row # Nothing,
               readings[a].row.status = "succeeded",
               NEW table \in TablesRead(readings[a].question)
        PROVE  run.tracePurgedAt \/ RowsOf(table) \subseteq readings[a].seen
    <3>1. readings[a].left = {}
      BY <2>1, <2>2 DEF IsTold, PhaseIsTrue
    <3> QED
      BY <2>1, <2>2, <3>1 DEF IsTold, TablesWereRead
  <2> QED
    BY <2>1, <2>2 DEF RowWasTheRun, PhaseIsTrue
<1> QED
  BY <1>1, ReadingInvariantHolds, PTL

--------------------------------------------------------------------------------
(* A walk over the pages                                                    *)

PageRows == [id : Nat, status : ListedStatuses]

ShownRows == [id : Nat, status : ListedStatuses, lastStep : 1..LastStep \cup {NoValue}]

WalkRows ==
    [phase : {"unasked", "asking", "answering", "ended", "refused"},
     query : Queries \cup {NoValue}, cursor : Cursors \cup {NoValue},
     page : Seq(PageRows), shown : Seq(ShownRows), owed : SUBSET Nat]

ListingTyped ==
    /\ listed \in Seq(ListedRuns) /\ Len(listed) <= MaximumListedCount
    /\ walk \in WalkRows
    /\ walk.owed \subseteq DOMAIN listed

IsWalking == walk.phase \in {"asking", "answering"}

\* A run is shown, or will be, below the cursor it is asked for under.
IsShown(id) == \E n \in DOMAIN walk.shown : walk.shown[n].id = id
IsPaged(id) == \E n \in DOMAIN walk.page : walk.page[n].id = id

\* The rows of a page or of a walk are of the runs there are, the newest first.
AreNewestFirst(rows) ==
    /\ \A n \in DOMAIN rows : rows[n].id \in DOMAIN listed
    /\ \A m, n \in DOMAIN rows : m < n => rows[n].id < rows[m].id

\* A run that was shown or read as succeeded is so for good.
SuccessStands(rows) ==
    \A n \in DOMAIN rows :
        rows[n].status = "succeeded" => listed[rows[n].id].status = "succeeded"

\* What a walk has shown lies at its cursor or before it in the order of the pages.
WalkIsInOrder ==
    /\ AreNewestFirst(walk.shown) /\ AreNewestFirst(walk.page)
    /\ IsWalking =>
        /\ walk.query \in Queries /\ IsValidQuery(walk.query)
        /\ \A n \in DOMAIN walk.shown :
            walk.cursor # NoValue /\ walk.cursor <= walk.shown[n].id
    /\ walk.phase = "answering" =>
        /\ \A n \in DOMAIN walk.page : IsBefore(walk.page[n].id, walk.cursor)
        /\ Len(walk.page) <= RunCount(walk.query) + 1
    /\ walk.phase # "answering" => walk.page = <<>>

\* A run that is owed has been shown, or lies behind the cursor; once a page was read,
\* it is on the page, or the page is full and the run older than all of it.
OwedIsToCome ==
    /\ walk.phase = "asking" =>
        \A id \in walk.owed : IsShown(id) \/ IsBefore(id, walk.cursor)
    /\ walk.phase = "answering" =>
        \A id \in walk.owed :
            \/ IsShown(id) \/ IsPaged(id)
            \/ /\ Len(walk.page) = RunCount(walk.query) + 1
               /\ \A n \in DOMAIN walk.page : id < walk.page[n].id
    /\ IsWalking => \A id \in walk.owed : Matches(listed[id], walk.query)

RowsStandAsShown ==
    /\ SuccessStands(walk.page) /\ SuccessStands(walk.shown)
    /\ \A n \in DOMAIN walk.shown :
        walk.shown[n].status = "succeeded" =>
            walk.shown[n].lastStep = LastCompletedStep(listed[walk.shown[n].id])

ListingInvariant ==
    /\ ListingTyped
    /\ WalkIsInOrder
    /\ OwedIsToCome
    /\ RowsStandAsShown
    /\ walk.phase = "ended" => \A id \in walk.owed : IsShown(id)

--------------------------------------------------------------------------------
(* The order of a page                                                      *)

\* The n-th newest of some runs is one of them, and every one of them is the n-th for
\* some n: counting the runs that are as new is one-to-one, and so onto.
LEMMA NewestAreFirst ==
  ASSUME NEW bound \in Nat, NEW ids \in SUBSET (1..bound)
  PROVE  /\ Cardinality(ids) \in Nat
         /\ NewestFirst(ids) \in Seq(ids) /\ Len(NewestFirst(ids)) = Cardinality(ids)
         /\ \A n \in 1..Cardinality(ids) : AsNew(ids, NewestFirst(ids)[n]) = n
         /\ \A m, n \in 1..Cardinality(ids) :
                m < n => NewestFirst(ids)[n] < NewestFirst(ids)[m]
         /\ \A id \in ids : \E n \in 1..Cardinality(ids) : NewestFirst(ids)[n] = id
<1> DEFINE count == Cardinality(ids)
           Newer(id) == {other \in ids : other >= id}
           rank == [id \in ids |-> AsNew(ids, id)]
<1>0. ids \subseteq Nat /\ \A i, j \in ids : i < j \/ i = j \/ j < i
  OBVIOUS
<1>1. IsFiniteSet(ids) /\ count \in Nat
  <2>1. IsFiniteSet(1..bound)
    BY FS_Interval
  <2> QED
    BY <2>1, FS_Subset, FS_CardinalityType
<1>2. IsFiniteSet(1..count) /\ Cardinality(1..count) = count
  BY <1>1, FS_Interval
<1>3. ASSUME NEW id \in ids
      PROVE  IsFiniteSet(Newer(id)) /\ AsNew(ids, id) \in 1..count
  <2>1. Newer(id) \subseteq ids /\ id \in Newer(id)
    OBVIOUS
  <2>2. IsFiniteSet(Newer(id)) /\ Cardinality(Newer(id)) <= count
    BY <1>1, <2>1, FS_Subset
  <2>3. Cardinality(Newer(id)) \in Nat /\ Cardinality(Newer(id)) # 0
    BY <2>1, <2>2, FS_CardinalityType, FS_EmptySet
  <2> QED
    BY <1>1, <2>2, <2>3 DEF AsNew
<1>4. ASSUME NEW older \in ids, NEW newer \in ids, older < newer
      PROVE  AsNew(ids, newer) < AsNew(ids, older)
  <2>1. Newer(newer) \subseteq Newer(older) /\ Newer(newer) # Newer(older)
    <3>1. older \in Newer(older) /\ older \notin Newer(newer)
      BY <1>0, <1>4
    <3>2. \A other \in ids : other >= newer => other >= older
      BY <1>0, <1>4
    <3> QED
      BY <3>1, <3>2
  <2>2. IsFiniteSet(Newer(older)) /\ IsFiniteSet(Newer(newer))
    BY <1>3
  <2>3. Cardinality(Newer(newer)) <= Cardinality(Newer(older))
    BY <2>1, <2>2, FS_Subset
  <2>4. Cardinality(Newer(newer)) # Cardinality(Newer(older))
    BY <2>1, <2>2, FS_Subset
  <2> QED
    BY <1>3, <2>3, <2>4 DEF AsNew
<1>5. rank \in Injection(ids, 1..count)
  <2>1. rank \in [ids -> 1..count]
    BY <1>3
  <2>2. \A i, j \in ids : rank[i] = rank[j] => i = j
    <3> SUFFICES ASSUME NEW i \in ids, NEW j \in ids, rank[i] = rank[j] PROVE i = j
      OBVIOUS
    <3>1. AsNew(ids, i) \in Nat /\ AsNew(ids, i) = AsNew(ids, j)
      <4>1. AsNew(ids, i) \in 1..count
        BY <1>3
      <4>2. AsNew(ids, i) = AsNew(ids, j)
        OBVIOUS
      <4> HIDE DEF count
      <4> QED
        BY <1>1, <4>1, <4>2
    <3>2. ~(i < j) /\ ~(j < i)
      BY <1>4, <3>1
    <3> QED
      BY <1>0, <3>2
  <2> QED
    BY <2>1, <2>2 DEF Injection, IsInjective
<1>6. rank \in Surjection(ids, 1..count)
  BY <1>1, <1>2, <1>5, FS_Injection
<1>7. \A n \in 1..count : \E id \in ids : AsNew(ids, id) = n
  BY <1>6 DEF Surjection
<1> DEFINE newest == NewestFirst(ids)
<1>8. \A n \in 1..count : newest[n] \in ids /\ AsNew(ids, newest[n]) = n
  BY <1>7 DEF NewestFirst
<1>9. newest \in Seq(ids) /\ Len(newest) = count
  BY <1>1, <1>8 DEF NewestFirst
<1>10. \A m, n \in 1..count : m < n => newest[n] < newest[m]
  <2> SUFFICES ASSUME NEW m \in 1..count, NEW n \in 1..count, m < n
               PROVE  newest[n] < newest[m]
    OBVIOUS
  <2>1. newest[m] \in ids /\ newest[n] \in ids
    BY <1>8
  <2> HIDE DEF newest
  <2>2. AsNew(ids, newest[m]) = m /\ AsNew(ids, newest[n]) = n
    BY <1>8
  <2>3. newest[n] # newest[m]
    BY <1>1, <2>2
  <2>4. ASSUME newest[m] < newest[n] PROVE FALSE
    <3>1. AsNew(ids, newest[n]) < AsNew(ids, newest[m])
      BY <1>4, <2>1, <2>4
    <3> QED
      BY <1>1, <2>2, <3>1
  <2> QED
    BY <1>0, <2>1, <2>3, <2>4
<1>11. \A id \in ids : \E n \in 1..count : newest[n] = id
  <2> SUFFICES ASSUME NEW id \in ids PROVE \E n \in 1..count : newest[n] = id
    OBVIOUS
  <2>1. AsNew(ids, id) \in 1..count
    BY <1>3
  <2>2. newest[AsNew(ids, id)] \in ids
        /\ AsNew(ids, newest[AsNew(ids, id)]) = AsNew(ids, id)
    BY <1>8, <2>1
  <2> HIDE DEF newest
  <2>3. newest[AsNew(ids, id)] = id
    <3> DEFINE found == newest[AsNew(ids, id)]
    <3>1. found \in ids /\ AsNew(ids, found) = AsNew(ids, id) /\ AsNew(ids, id) \in Nat
      BY <1>1, <2>1, <2>2
    <3> HIDE DEF found
    <3>2. ~(found < id) /\ ~(id < found)
      BY <1>4, <3>1
    <3>3. found = id
      BY <1>0, <3>1, <3>2
    <3> QED
      BY <3>3 DEF found
  <2> QED
    BY <2>1, <2>3
<1> QED
  BY <1>1, <1>8, <1>9, <1>10, <1>11

\* The furthest completed step is one of the steps.
LEMMA LastStepIsAStep ==
  ASSUME NEW aiRun \in ListedRuns
  PROVE  LastCompletedStep(aiRun) \in 1..LastStep \cup {NoValue}
<1> DEFINE steps == aiRun.completedSteps
<1>1. CASE steps = {}
  BY <1>1 DEF LastCompletedStep
<1>2. CASE steps # {}
  <2>1. steps \in SUBSET (1..LastStep) /\ LastStep \in Nat
    BY ListingAssumption DEF ListedRuns
  <2>2. PICK index \in steps : AsNew(steps, index) = 1
    <3>0. IsFiniteSet(1..LastStep)
      BY <2>1, FS_Interval
    <3>1. IsFiniteSet(steps) /\ Cardinality(steps) \in Nat /\ Cardinality(steps) # 0
      BY <1>2, <2>1, <3>0, FS_Subset, FS_CardinalityType, FS_EmptySet
    <3>2. 1 \in 1..Cardinality(steps)
      BY <3>1
    <3>3. /\ NewestFirst(steps) \in Seq(steps)
          /\ Len(NewestFirst(steps)) = Cardinality(steps)
          /\ AsNew(steps, NewestFirst(steps)[1]) = 1
      BY <2>1, <3>2, NewestAreFirst
    <3> QED
      BY <3>2, <3>3
  <2>3. \A other \in steps : other <= index
    <3> SUFFICES ASSUME NEW other \in steps, index < other PROVE FALSE
      BY <2>1
    <3>1. /\ {other} \subseteq {step \in steps : step >= index}
          /\ {other} # {step \in steps : step >= index}
      BY <2>1
    <3>2. IsFiniteSet({step \in steps : step >= index})
      <4>1. IsFiniteSet(1..LastStep) /\ {step \in steps : step >= index} \subseteq 1..LastStep
        BY <2>1, FS_Interval
      <4> QED
        BY <4>1, FS_Subset
    <3>3. Cardinality({other}) = 1
      BY FS_Singleton
    <3> QED
      BY <2>2, <3>1, <3>2, <3>3, FS_Subset DEF AsNew
  <2>4. LastCompletedStep(aiRun) \in steps
    BY <1>2, <2>3 DEF LastCompletedStep
  <2> QED
    BY <2>1, <2>4
<1> QED
  BY <1>1, <1>2

\* What slice and a limit leave.
LEMMA FirstOfASequence ==
  ASSUME NEW S, NEW sequence \in Seq(S), NEW count \in Nat
  PROVE  LET first == FirstOf(count, sequence)
         IN  /\ first \in Seq(S)
             /\ Len(first) = IF Len(sequence) < count THEN Len(sequence) ELSE count
             /\ \A n \in DOMAIN first : n \in DOMAIN sequence /\ first[n] = sequence[n]
<1> DEFINE length == IF Len(sequence) < count THEN Len(sequence) ELSE count
<1>1. length \in Nat /\ length <= Len(sequence) /\ 1 \in Int /\ length \in Int
  OBVIOUS
<1>2. \A n \in 1..length : sequence[n] \in S
  BY <1>1
<1> HIDE DEF length
<1>3. /\ SubSeq(sequence, 1, length) \in Seq(S)
      /\ Len(SubSeq(sequence, 1, length)) = IF 1 <= length THEN length - 1 + 1 ELSE 0
      /\ \A n \in 1..(length - 1 + 1) :
            SubSeq(sequence, 1, length)[n] = sequence[1 + n - 1]
  BY <1>1, <1>2, SubSeqProperties
<1>4. FirstOf(count, sequence) = SubSeq(sequence, 1, length)
  BY DEF FirstOf, length
<1>5. Len(FirstOf(count, sequence)) = length
  BY <1>1, <1>3, <1>4
<1> QED
  BY <1>1, <1>3, <1>4, <1>5 DEF length

--------------------------------------------------------------------------------
(* The steps of a walk                                                      *)

\* The walk that has not begun is a value of its type.
LEMMA NoWalkIsAWalk ==
  /\ NoWalk \in WalkRows
  /\ NoWalk.phase = "unasked" /\ NoWalk.query = NoValue /\ NoWalk.cursor = NoValue
  /\ NoWalk.page = <<>> /\ NoWalk.shown = <<>> /\ NoWalk.owed = {}
BY DEF NoWalk, WalkRows

\* The table is a sequence, and each of its runs has one of the listed statuses.
LEMMA RunsAreListed ==
  ASSUME ListingTyped
  PROVE  /\ Len(listed) \in Nat /\ DOMAIN listed = 1..Len(listed)
         /\ \A id \in DOMAIN listed : id \in Nat /\ listed[id] \in ListedRuns
BY DEF ListingTyped

\* What a run does beside a walk adds runs, and leaves those that succeeded as they are.
LEMMA RunsGoOn ==
  ASSUME ListingTyped,
         \/ \E client \in ApiClients : AcceptListed(client)
         \/ \E id \in {i \in DOMAIN listed : listed[i].ApiClientId = Caller} :
                \/ StartListed(id) \/ CompleteStep(id) \/ OverstayListed(id)
                \/ \E status \in ListedSettledStatuses : SettleListed(id, status)
  PROVE  /\ listed' \in Seq(ListedRuns) /\ Len(listed') <= MaximumListedCount
         /\ DOMAIN listed \subseteq DOMAIN listed'
         /\ \A id \in DOMAIN listed :
                listed[id].status = "succeeded" => listed'[id] = listed[id]
         /\ WalkGoesOn
<1>0. /\ listed \in Seq(ListedRuns) /\ Len(listed) <= MaximumListedCount
      /\ Len(listed) \in Nat /\ MaximumListedCount \in Nat
  BY RunsAreListed, ListingAssumption DEF ListingTyped
<1>1. ASSUME NEW client \in ApiClients, AcceptListed(client)
      PROVE  /\ listed' \in Seq(ListedRuns) /\ Len(listed') <= MaximumListedCount
             /\ DOMAIN listed \subseteq DOMAIN listed'
             /\ \A id \in DOMAIN listed : listed'[id] = listed[id]
             /\ WalkGoesOn
  <2> DEFINE aiRun == [ApiClientId |-> client, status |-> "queued", isOverdue |-> FALSE,
                       completedSteps |-> {}]
  <2>1. aiRun \in ListedRuns
    BY DEF ListedRuns, ListedStatuses
  <2>2. listed' = Append(listed, aiRun) /\ Len(listed) < MaximumListedCount /\ WalkGoesOn
    BY <1>1 DEF AcceptListed
  <2> HIDE DEF aiRun
  <2> QED
    BY <1>0, <2>1, <2>2
<1>2. ASSUME NEW id \in DOMAIN listed, NEW aiRun \in ListedRuns,
             listed[id].status # "succeeded", SaveListed(id, aiRun)
      PROVE  /\ listed' \in Seq(ListedRuns) /\ Len(listed') <= MaximumListedCount
             /\ DOMAIN listed \subseteq DOMAIN listed'
             /\ \A other \in DOMAIN listed :
                    listed[other].status = "succeeded" => listed'[other] = listed[other]
             /\ WalkGoesOn
  BY <1>0, <1>2 DEF SaveListed
<1>3. ASSUME NEW id \in {i \in DOMAIN listed : listed[i].ApiClientId = Caller},
             \/ StartListed(id) \/ CompleteStep(id)
             \/ OverstayListed(id)
             \/ \E status \in ListedSettledStatuses : SettleListed(id, status)
      PROVE  \E aiRun \in ListedRuns :
                listed[id].status # "succeeded" /\ SaveListed(id, aiRun)
  <2>1. listed[id] \in ListedRuns
    BY RunsAreListed
  <2>2. CASE StartListed(id)
    BY <2>1, <2>2 DEF StartListed, ListedRuns, ListedStatuses, ListedSettledStatuses
  <2>3. CASE CompleteStep(id)
    <3>1. PICK index \in 1..LastStep :
            SaveListed(id, [listed[id] EXCEPT !.completedSteps = 1..index])
      BY <2>3 DEF CompleteStep
    <3>2. 1..index \subseteq 1..LastStep
      BY ListingAssumption
    <3>3. [listed[id] EXCEPT !.completedSteps = 1..index] \in ListedRuns
      BY <2>1, <3>2 DEF ListedRuns
    <3> QED
      BY <2>3, <3>1, <3>3 DEF CompleteStep
  <2>4. CASE \E status \in ListedSettledStatuses : SettleListed(id, status)
    <3>1. PICK status \in ListedSettledStatuses : SettleListed(id, status)
      BY <2>4
    <3>2. [listed[id] EXCEPT !.status = status, !.isOverdue = FALSE] \in ListedRuns
      BY <2>1 DEF ListedRuns, ListedStatuses
    <3> QED
      BY <3>1, <3>2 DEF SettleListed
  <2>5. CASE OverstayListed(id)
    BY <2>1, <2>5
       DEF OverstayListed, IsUnsettled, ListedRuns, ListedStatuses, ListedSettledStatuses
  <2> QED
    BY <1>3, <2>2, <2>3, <2>4, <2>5
<1> QED
  BY <1>1, <1>2, <1>3

\* A walk goes on beside the runs: it is owed less, and what it showed stands.
LEMMA RunsStep ==
  ASSUME ListingInvariant,
         \/ \E client \in ApiClients : AcceptListed(client)
         \/ \E id \in {i \in DOMAIN listed : listed[i].ApiClientId = Caller} :
                \/ StartListed(id) \/ CompleteStep(id) \/ OverstayListed(id)
                \/ \E status \in ListedSettledStatuses : SettleListed(id, status)
  PROVE  ListingInvariant'
<1>1. /\ listed' \in Seq(ListedRuns) /\ Len(listed') <= MaximumListedCount
      /\ DOMAIN listed \subseteq DOMAIN listed'
      /\ \A id \in DOMAIN listed :
            listed[id].status = "succeeded" => listed'[id] = listed[id]
      /\ WalkGoesOn
  BY RunsGoOn DEF ListingInvariant
<1>2. walk \in WalkRows /\ walk.owed \subseteq DOMAIN listed
  BY DEF ListingInvariant, ListingTyped
<1>3. /\ walk' \in WalkRows
      /\ walk'.phase = walk.phase /\ walk'.query = walk.query /\ walk'.cursor = walk.cursor
      /\ walk'.page = walk.page /\ walk'.shown = walk.shown
      /\ walk'.owed \subseteq walk.owed
      /\ IsWalking => \A id \in walk'.owed : Matches(listed'[id], walk.query)
  BY <1>1, <1>2 DEF WalkGoesOn, WalkRows, IsWalking
<1>4. ListingTyped'
  BY <1>1, <1>2, <1>3 DEF ListingTyped
<1>5. WalkIsInOrder'
  BY <1>1, <1>3 DEF ListingInvariant, WalkIsInOrder, AreNewestFirst, IsWalking
<1>6. /\ \A id : IsShown(id)' = IsShown(id) /\ IsPaged(id)' = IsPaged(id)
      /\ IsWalking' = IsWalking
  BY <1>3 DEF IsShown, IsPaged, IsWalking
<1>7. OwedIsToCome'
  BY <1>3, <1>6 DEF ListingInvariant, OwedIsToCome
<1>8. RowsStandAsShown'
  <2>1. \A n \in DOMAIN walk.shown : walk.shown[n].id \in DOMAIN listed
    BY DEF ListingInvariant, WalkIsInOrder, AreNewestFirst
  <2>2. \A n \in DOMAIN walk.page : walk.page[n].id \in DOMAIN listed
    BY DEF ListingInvariant, WalkIsInOrder, AreNewestFirst
  <2>3. \A id \in DOMAIN listed : listed[id].status = "succeeded" =>
            LastCompletedStep(listed'[id]) = LastCompletedStep(listed[id])
    BY <1>1
  <2> QED
    BY <1>1, <1>3, <2>1, <2>2, <2>3
       DEF ListingInvariant, RowsStandAsShown, SuccessStands
<1> QED
  BY <1>3, <1>4, <1>5, <1>6, <1>7, <1>8 DEF ListingInvariant

\* A walk begins with nothing shown, and is owed what matches below its cursor.
LEMMA AskFirstStep ==
  ASSUME ListingInvariant, NEW query \in Queries, NEW cursor \in FirstCursors,
         AskFirstPage(query, cursor)
  PROVE  ListingInvariant'
<1>1. listed' = listed /\ listed \in Seq(ListedRuns) /\ Len(listed) <= MaximumListedCount
  BY DEF AskFirstPage, ListingInvariant, ListingTyped
<1>2. DOMAIN listed \subseteq Nat
  BY RunsAreListed DEF ListingInvariant
<1>3. CASE ~IsValidQuery(query)
  <2>1. /\ walk' \in WalkRows /\ walk'.phase = "refused"
        /\ walk'.page = <<>> /\ walk'.shown = <<>> /\ walk'.owed = {}
    BY <1>3, NoWalkIsAWalk DEF AskFirstPage, WalkRows
  <2> QED
    BY <1>1, <2>1 DEF ListingInvariant, ListingTyped, WalkIsInOrder, AreNewestFirst,
           OwedIsToCome, RowsStandAsShown, SuccessStands, IsWalking
<1>4. CASE IsValidQuery(query)
  <2> DEFINE owed == {id \in DOMAIN listed :
                        Matches(listed[id], query) /\ IsBefore(id, cursor)}
  <2>1. cursor \in Cursors \cup {NoValue}
    BY ListingAssumption DEF Cursors
  <2>2. walk' = [NoWalk EXCEPT !.phase = "asking", !.query = query, !.cursor = cursor,
                               !.owed = owed]
    BY <1>4 DEF AskFirstPage
  <2>3. owed \in SUBSET Nat
    BY <1>2
  <2> HIDE DEF owed
  <2>4. /\ walk' \in WalkRows /\ walk'.phase = "asking"
        /\ walk'.query = query /\ walk'.cursor = cursor
        /\ walk'.page = <<>> /\ walk'.shown = <<>> /\ walk'.owed = owed
    BY <2>1, <2>2, <2>3, NoWalkIsAWalk DEF WalkRows
  <2>5. \A id \in owed : /\ id \in DOMAIN listed
                        /\ Matches(listed[id], query) /\ IsBefore(id, cursor)
    BY DEF owed
  <2> QED
    BY <1>1, <1>4, <2>4, <2>5 DEF ListingInvariant, ListingTyped, WalkIsInOrder, AreNewestFirst,
           OwedIsToCome, RowsStandAsShown, SuccessStands, IsWalking
<1> QED
  BY <1>3, <1>4

\* A cursor that names no run of the caller ends the walk before a page is read.
LEMMA RefuseCursorStep ==
  ASSUME ListingInvariant, RefuseCursor
  PROVE  ListingInvariant'
<1>1. /\ listed' = listed /\ walk \in WalkRows /\ walk.phase = "asking"
      /\ walk' = [walk EXCEPT !.phase = "refused"]
  BY DEF RefuseCursor, ListingInvariant, ListingTyped
<1>2. /\ walk' \in WalkRows /\ walk'.phase = "refused"
      /\ walk'.page = walk.page /\ walk'.shown = walk.shown /\ walk'.owed = walk.owed
  BY <1>1 DEF WalkRows
<1> QED
  BY <1>1, <1>2 DEF ListingInvariant, ListingTyped, WalkIsInOrder, AreNewestFirst,
         OwedIsToCome, RowsStandAsShown, SuccessStands, IsWalking

\* A query that is let through asks for one run at least, and for no more than the most.
LEMMA RunCountIsAPage ==
  ASSUME NEW query \in Queries, IsValidQuery(query)
  PROVE  RunCount(query) \in Nat \ {0} /\ RunCount(query) <= MaximumRunCount
BY ListingAssumption DEF IsValidQuery, IsLeftOutOr, RunCount

\* A page is read: what it holds is found, newest first, and what it lacks is older.
LEMMA FindPageStep ==
  ASSUME ListingInvariant, FindAiRuns
  PROVE  ListingInvariant'
<1> DEFINE found == {id \in DOMAIN listed :
                IsBefore(id, walk.cursor) /\ Matches(listed[id], walk.query)}
           newest == NewestFirst(found)
           probed == FirstOf(RunCount(walk.query) + 1, newest)
           page == [n \in DOMAIN probed |->
                [id |-> probed[n], status |-> listed[probed[n]].status]]
<1>1. /\ listed' = listed /\ walk \in WalkRows /\ walk.phase = "asking"
      /\ walk' = [walk EXCEPT !.phase = "answering", !.page = page]
      /\ walk.query \in Queries /\ IsValidQuery(walk.query)
      /\ walk.owed \subseteq DOMAIN listed
  BY DEF FindAiRuns, ListingInvariant, ListingTyped, WalkIsInOrder, IsWalking
<1>2. RunCount(walk.query) \in Nat
  BY <1>1, RunCountIsAPage
<1>3. /\ Len(listed) \in Nat /\ DOMAIN listed = 1..Len(listed)
      /\ \A id \in DOMAIN listed : id \in Nat /\ listed[id] \in ListedRuns
  BY RunsAreListed DEF ListingInvariant
<1>4. found \in SUBSET (1..Len(listed))
  BY <1>3
<1> DEFINE count == Cardinality(found)
<1>5. /\ count \in Nat /\ newest \in Seq(found) /\ Len(newest) = count
      /\ \A m, n \in 1..count : m < n => newest[n] < newest[m]
      /\ \A id \in found : \E n \in 1..count : newest[n] = id
  <2> HIDE DEF found
  <2> QED
    BY <1>3, <1>4, NewestAreFirst
<1>6. \A id \in found : /\ id \in DOMAIN listed /\ IsBefore(id, walk.cursor)
                       /\ Matches(listed[id], walk.query)
  OBVIOUS
<1>7. \A id \in walk.owed : IsShown(id) \/ id \in found
  BY <1>1 DEF ListingInvariant, OwedIsToCome, IsWalking
<1> HIDE DEF found, newest, count
<1>8. /\ probed \in Seq(found)
      /\ Len(probed) = IF count < RunCount(walk.query) + 1 THEN count
                       ELSE RunCount(walk.query) + 1
      /\ \A n \in DOMAIN probed : n \in DOMAIN newest /\ probed[n] = newest[n]
  BY <1>2, <1>5, FirstOfASequence
<1> HIDE DEF probed
<1>9. /\ DOMAIN probed = 1..Len(probed) /\ Len(probed) \in Nat
      /\ \A n \in DOMAIN probed : probed[n] \in found
  BY <1>8
<1>10. /\ page \in Seq(PageRows) /\ Len(page) = Len(probed) /\ DOMAIN page = DOMAIN probed
       /\ \A n \in DOMAIN page : /\ page[n].id = probed[n]
                                 /\ page[n].status = listed[probed[n]].status
  <2>1. \A n \in DOMAIN probed :
            /\ probed[n] \in Nat
            /\ listed[probed[n]].status \in ListedStatuses
    BY <1>3, <1>6, <1>9 DEF ListedRuns
  <2>2. \A n \in DOMAIN probed :
            [id |-> probed[n], status |-> listed[probed[n]].status] \in PageRows
    BY <2>1 DEF PageRows
  <2> QED
    BY <1>9, <2>2
<1> HIDE DEF page
<1>11. /\ walk' \in WalkRows /\ walk'.phase = "answering" /\ walk'.page = page
       /\ walk'.query = walk.query /\ walk'.cursor = walk.cursor
       /\ walk'.shown = walk.shown /\ walk'.owed = walk.owed
  BY <1>1, <1>10 DEF WalkRows
<1>12. ListingTyped'
  BY <1>1, <1>11 DEF ListingInvariant, ListingTyped
<1>13. WalkIsInOrder'
  <2>1. \A m, n \in DOMAIN page : m < n => page[n].id < page[m].id
    BY <1>5, <1>8, <1>9, <1>10
  <2>2. \A n \in DOMAIN page :
            page[n].id \in DOMAIN listed /\ IsBefore(page[n].id, walk.cursor)
    BY <1>6, <1>9, <1>10
  <2>3. Len(page) <= RunCount(walk.query) + 1
    BY <1>2, <1>5, <1>8, <1>10
  <2> QED
    BY <1>1, <1>11, <2>1, <2>2, <2>3
       DEF ListingInvariant, WalkIsInOrder, AreNewestFirst, IsWalking
<1>14. OwedIsToCome'
  <2>1. \A id : IsShown(id)' = IsShown(id)
    BY <1>11 DEF IsShown
  <2>2. ASSUME NEW id \in found, ~\E n \in DOMAIN page : page[n].id = id
        PROVE  /\ Len(page) = RunCount(walk.query) + 1
               /\ \A n \in DOMAIN page : id < page[n].id
    <3>1. PICK place \in 1..count : newest[place] = id
      BY <1>5
    <3>2. place \notin DOMAIN probed
      BY <1>8, <1>10, <2>2, <3>1
    <3>3. place > Len(probed)
      BY <1>5, <1>9, <3>2
    <3>4. Len(probed) = RunCount(walk.query) + 1
      BY <1>2, <1>5, <1>8, <3>3
    <3>5. \A n \in DOMAIN probed : newest[place] < newest[n]
      BY <1>5, <1>8, <1>9, <3>3
    <3> QED
      BY <1>8, <1>10, <3>1, <3>4, <3>5
  <2>3. \A id \in walk.owed : Matches(listed[id], walk.query)
    BY <1>1 DEF ListingInvariant, OwedIsToCome, IsWalking
  <2> QED
    BY <1>1, <1>7, <1>11, <2>1, <2>2, <2>3 DEF OwedIsToCome, IsPaged
<1>15. RowsStandAsShown'
  BY <1>1, <1>10, <1>11 DEF ListingInvariant, RowsStandAsShown, SuccessStands
<1> QED
  BY <1>11, <1>12, <1>13, <1>14, <1>15 DEF ListingInvariant

\* What one sequence behind another holds, and where.
LEMMA OneBehindTheOther ==
  ASSUME NEW S, NEW first \in Seq(S), NEW second \in Seq(S)
  PROVE  LET both == first \o second
         IN  /\ both \in Seq(S) /\ Len(both) = Len(first) + Len(second)
             /\ DOMAIN both = 1..(Len(first) + Len(second))
             /\ \A n \in DOMAIN first : n \in DOMAIN both /\ both[n] = first[n]
             /\ \A n \in DOMAIN second :
                    Len(first) + n \in DOMAIN both /\ both[Len(first) + n] = second[n]
             /\ \A n \in DOMAIN both :
                    n \in DOMAIN first \/ n - Len(first) \in DOMAIN second
<1> DEFINE both == first \o second
<1>1. /\ both \in Seq(S) /\ Len(both) = Len(first) + Len(second)
      /\ \A n \in 1..(Len(first) + Len(second)) :
            both[n] = IF n <= Len(first) THEN first[n] ELSE second[n - Len(first)]
  BY ConcatProperties
<1>2. /\ Len(first) \in Nat /\ DOMAIN first = 1..Len(first)
      /\ Len(second) \in Nat /\ DOMAIN second = 1..Len(second)
  OBVIOUS
<1> HIDE DEF both
<1>3. DOMAIN both = 1..(Len(first) + Len(second))
  BY <1>1
<1>4. \A n \in DOMAIN first : n \in DOMAIN both /\ both[n] = first[n]
  BY <1>1, <1>2, <1>3
<1>5. ASSUME NEW n \in DOMAIN second
      PROVE  Len(first) + n \in DOMAIN both /\ both[Len(first) + n] = second[n]
  <2>1. /\ Len(first) + n \in 1..(Len(first) + Len(second))
        /\ ~(Len(first) + n <= Len(first)) /\ (Len(first) + n) - Len(first) = n
    BY <1>2
  <2> QED
    BY <1>1, <1>3, <2>1
<1>6. \A n \in DOMAIN both : n \in DOMAIN first \/ n - Len(first) \in DOMAIN second
  BY <1>2, <1>3
<1> QED
  BY <1>1, <1>3, <1>4, <1>5, <1>6 DEF both

\* A page is shown: the walk has what it held, and goes on below it or is over.
LEMMA AnswerPageStep ==
  ASSUME ListingInvariant, AnswerPage
  PROVE  ListingInvariant'
<1> DEFINE count == RunCount(walk.query)
           paged == FirstOf(count, walk.page)
           rows == [n \in DOMAIN paged |-> AiRunRow(paged[n])]
           shown == walk.shown \o rows
           IsLast == Len(walk.page) <= count
<1>1. /\ listed' = listed /\ listed \in Seq(ListedRuns) /\ Len(listed) <= MaximumListedCount
      /\ walk \in WalkRows /\ walk.phase = "answering"
      /\ walk' = [walk EXCEPT !.phase = IF NextCursor = NoValue THEN "ended" ELSE "asking",
                              !.cursor = NextCursor, !.page = <<>>, !.shown = shown]
      /\ walk.query \in Queries /\ IsValidQuery(walk.query)
      /\ walk.owed \subseteq DOMAIN listed
  BY DEF AnswerPage, ListingInvariant, ListingTyped, WalkIsInOrder, IsWalking
<1>2. count \in Nat \ {0}
  BY <1>1, RunCountIsAPage
<1>3. /\ walk.page \in Seq(PageRows) /\ walk.shown \in Seq(ShownRows)
      /\ Len(walk.page) \in Nat /\ Len(walk.shown) \in Nat
      /\ DOMAIN walk.page = 1..Len(walk.page) /\ DOMAIN walk.shown = 1..Len(walk.shown)
      /\ Len(walk.page) <= count + 1
  BY <1>1 DEF WalkRows, ListingInvariant, WalkIsInOrder
<1>4. /\ paged \in Seq(PageRows)
      /\ Len(paged) = IF IsLast THEN Len(walk.page) ELSE count
      /\ \A n \in DOMAIN paged : n \in DOMAIN walk.page /\ paged[n] = walk.page[n]
  <2>1. /\ paged \in Seq(PageRows)
        /\ Len(paged) = IF Len(walk.page) < count THEN Len(walk.page) ELSE count
        /\ \A n \in DOMAIN paged : n \in DOMAIN walk.page /\ paged[n] = walk.page[n]
    BY <1>2, <1>3, FirstOfASequence
  <2> HIDE DEF paged
  <2> QED
    BY <1>2, <1>3, <2>1
<1> HIDE DEF paged
<1>5. /\ DOMAIN listed \subseteq Nat
      /\ \A id \in DOMAIN listed : listed[id] \in ListedRuns
  BY RunsAreListed DEF ListingInvariant
<1>6. /\ \A n \in DOMAIN walk.page :
            /\ walk.page[n] \in PageRows /\ walk.page[n].id \in DOMAIN listed
            /\ IsBefore(walk.page[n].id, walk.cursor)
      /\ \A m, n \in DOMAIN walk.page : m < n => walk.page[n].id < walk.page[m].id
      /\ \A n \in DOMAIN walk.shown :
            /\ walk.shown[n] \in ShownRows /\ walk.shown[n].id \in DOMAIN listed
            /\ walk.cursor # NoValue /\ walk.cursor <= walk.shown[n].id
      /\ \A m, n \in DOMAIN walk.shown : m < n => walk.shown[n].id < walk.shown[m].id
  BY <1>1, <1>3 DEF ListingInvariant, WalkIsInOrder, AreNewestFirst, IsWalking
<1>7. /\ rows \in Seq(ShownRows) /\ Len(rows) = Len(paged) /\ Len(rows) \in Nat
      /\ DOMAIN rows = 1..Len(rows)
      /\ \A n \in DOMAIN rows :
            /\ n \in DOMAIN walk.page
            /\ rows[n].id = walk.page[n].id /\ rows[n].status = walk.page[n].status
            /\ rows[n].lastStep = LastCompletedStep(listed[rows[n].id])
  <2>1. ASSUME NEW n \in DOMAIN paged
        PROVE  /\ AiRunRow(paged[n]) \in ShownRows
               /\ AiRunRow(paged[n]).id = walk.page[n].id
               /\ AiRunRow(paged[n]).status = walk.page[n].status
               /\ AiRunRow(paged[n]).lastStep = LastCompletedStep(listed[walk.page[n].id])
    <3>1. /\ paged[n] = walk.page[n] /\ walk.page[n] \in PageRows
          /\ walk.page[n].id \in DOMAIN listed
      BY <1>4, <1>6
    <3>2. LastCompletedStep(listed[walk.page[n].id]) \in 1..LastStep \cup {NoValue}
      BY <1>5, <3>1, LastStepIsAStep
    <3> QED
      BY <3>1, <3>2 DEF AiRunRow, ShownRows, PageRows
  <2>2. DOMAIN paged = 1..Len(paged) /\ Len(paged) \in Nat
    BY <1>4
  <2>3. rows \in Seq(ShownRows) /\ Len(rows) = Len(paged) /\ DOMAIN rows = DOMAIN paged
    BY <2>1, <2>2
  <2>4. \A n \in DOMAIN rows : rows[n] = AiRunRow(paged[n])
    OBVIOUS
  <2> HIDE DEF rows
  <2> QED
    BY <1>4, <2>1, <2>2, <2>3, <2>4
<1> HIDE DEF rows
<1>8. /\ shown \in Seq(ShownRows) /\ Len(shown) = Len(walk.shown) + Len(rows)
      /\ DOMAIN shown = 1..(Len(walk.shown) + Len(rows))
      /\ \A n \in DOMAIN walk.shown : n \in DOMAIN shown /\ shown[n] = walk.shown[n]
      /\ \A n \in DOMAIN rows :
            Len(walk.shown) + n \in DOMAIN shown /\ shown[Len(walk.shown) + n] = rows[n]
      /\ \A n \in DOMAIN shown :
            n \in DOMAIN walk.shown \/ n - Len(walk.shown) \in DOMAIN rows
  BY <1>3, <1>7, OneBehindTheOther
<1> HIDE DEF shown
<1>9. /\ IsLast => NextCursor = NoValue
      /\ ~IsLast => /\ Len(walk.page) = count + 1
                    /\ count \in DOMAIN walk.page /\ count + 1 \in DOMAIN walk.page
                    /\ NextCursor = walk.page[count].id
                    /\ NextCursor \in Cursors /\ NextCursor # NoValue
  <2>1. CASE IsLast
    BY <2>1 DEF NextCursor
  <2>2. CASE ~IsLast
    <3>1. /\ Len(walk.page) = count + 1
          /\ count \in DOMAIN walk.page /\ count + 1 \in DOMAIN walk.page
      BY <1>2, <1>3, <2>2
    <3>2. NextCursor = walk.page[count].id
      BY <2>2 DEF NextCursor
    <3>3. NextCursor \in DOMAIN listed
      BY <1>6, <3>1, <3>2
    <3>4. DOMAIN listed \subseteq Cursors /\ NoValue \notin Nat
      BY <1>1, <1>5, ListingAssumption DEF Cursors
    <3> QED
      BY <1>5, <3>1, <3>2, <3>3, <3>4
  <2> QED
    BY <2>1, <2>2
<1>10. /\ walk' \in WalkRows
       /\ walk'.phase = IF IsLast THEN "ended" ELSE "asking"
       /\ walk'.cursor = NextCursor /\ walk'.page = <<>> /\ walk'.shown = shown
       /\ walk'.query = walk.query /\ walk'.owed = walk.owed
  <2>1. NextCursor \in Cursors \cup {NoValue} /\ (NextCursor = NoValue <=> IsLast)
    BY <1>9
  <2>2. shown \in Seq(ShownRows) /\ <<>> \in Seq(PageRows)
    BY <1>8
  <2> DEFINE phase == IF NextCursor = NoValue THEN "ended" ELSE "asking"
  <2>3. phase \in {"ended", "asking"} /\ phase = IF IsLast THEN "ended" ELSE "asking"
    BY <2>1
  <2>4. walk' = [walk EXCEPT !.phase = phase, !.cursor = NextCursor, !.page = <<>>,
                             !.shown = shown]
    BY <1>1
  <2> HIDE DEF IsLast, phase
  <2> QED
    BY <1>1, <2>1, <2>2, <2>3, <2>4 DEF WalkRows
<1>11. ListingTyped'
  BY <1>1, <1>10 DEF ListingTyped
<1>12. \A n \in DOMAIN rows :
            /\ rows[n].id \in DOMAIN listed
            /\ \A m \in DOMAIN walk.shown : rows[n].id < walk.shown[m].id
            /\ ~IsLast => NextCursor <= rows[n].id
  <2> SUFFICES ASSUME NEW n \in DOMAIN rows
               PROVE  /\ rows[n].id \in DOMAIN listed
                      /\ \A m \in DOMAIN walk.shown : rows[n].id < walk.shown[m].id
                      /\ ~IsLast => NextCursor <= rows[n].id
    OBVIOUS
  <2>1. rows[n].id = walk.page[n].id /\ n \in DOMAIN walk.page
    BY <1>7
  <2>2. rows[n].id \in DOMAIN listed /\ rows[n].id \in Nat
    BY <1>5, <1>6, <2>1
  <2>3. ASSUME NEW m \in DOMAIN walk.shown PROVE rows[n].id < walk.shown[m].id
    <3>1. /\ walk.cursor # NoValue /\ walk.cursor <= walk.shown[m].id
          /\ IsBefore(walk.page[n].id, walk.cursor) /\ walk.shown[m].id \in Nat
      BY <1>5, <1>6, <2>1
    <3>2. walk.cursor \in Nat
      BY <1>1, <3>1 DEF WalkRows, Cursors
    <3> QED
      BY <2>1, <2>2, <3>1, <3>2 DEF IsBefore
  <2>4. ASSUME ~IsLast PROVE NextCursor <= rows[n].id
    <3>1. n \in 1..count
      BY <1>2, <1>4, <1>7, <2>4
    <3>2. n = count \/ walk.page[count].id < walk.page[n].id
      <4>1. count \in DOMAIN walk.page
        BY <1>9, <2>4
      <4> HIDE DEF count
      <4>2. n = count \/ n < count
        BY <1>2, <3>1
      <4> QED
        BY <1>6, <2>1, <4>1, <4>2
    <3>3. walk.page[count].id \in Nat
      BY <1>5, <1>6, <1>9, <2>4
    <3> QED
      BY <1>9, <2>1, <2>2, <2>4, <3>2, <3>3
  <2> QED
    BY <2>2, <2>3, <2>4
<1>13. WalkIsInOrder'
  <2>1. ASSUME NEW n \in DOMAIN shown
        PROVE  /\ shown[n].id \in DOMAIN listed
               /\ ~IsLast => NextCursor <= shown[n].id
    <3>1. CASE n \in DOMAIN walk.shown
      <4>1. shown[n] = walk.shown[n]
        BY <1>8, <3>1
      <4>2. /\ walk.shown[n].id \in DOMAIN listed /\ walk.cursor # NoValue
            /\ walk.cursor <= walk.shown[n].id /\ walk.shown[n].id \in Nat
        BY <1>5, <1>6, <3>1
      <4>3. ASSUME ~IsLast PROVE NextCursor <= walk.shown[n].id
        <5>1. /\ IsBefore(NextCursor, walk.cursor) /\ NextCursor \in Nat
              /\ walk.cursor \in Nat
          BY <1>1, <1>5, <1>6, <1>9, <4>2, <4>3 DEF WalkRows, Cursors
        <5> QED
          BY <4>2, <5>1 DEF IsBefore
      <4> QED
        BY <4>1, <4>2, <4>3
    <3>2. CASE n - Len(walk.shown) \in DOMAIN rows
      <4>1. Len(walk.shown) + (n - Len(walk.shown)) = n
        BY <1>3, <1>8
      <4>2. shown[n] = rows[n - Len(walk.shown)]
        BY <1>8, <3>2, <4>1
      <4> QED
        BY <1>12, <3>2, <4>2
    <3> QED
      BY <1>8, <3>1, <3>2
  <2>2. ASSUME NEW m \in DOMAIN shown, NEW n \in DOMAIN shown, m < n
        PROVE  shown[n].id < shown[m].id
    <3> DEFINE before == Len(walk.shown)
    <3>1. /\ before \in Nat /\ m \in Nat /\ n \in Nat
          /\ \A k \in DOMAIN shown : k \in DOMAIN walk.shown <=> k <= before
          /\ \A k \in DOMAIN shown : k - before \in DOMAIN rows <=> k > before
      BY <1>3, <1>7, <1>8
    <3>2. /\ \A k \in DOMAIN shown : k <= before => shown[k] = walk.shown[k]
          /\ \A k \in DOMAIN shown : k > before => shown[k] = rows[k - before]
      <4>1. \A k \in DOMAIN shown : before + (k - before) = k
        BY <1>8, <3>1
      <4> QED
        BY <1>8, <3>1, <4>1
    <3>3. CASE n <= before
      <4>1. m \in DOMAIN walk.shown /\ n \in DOMAIN walk.shown
        BY <2>2, <3>1, <3>3
      <4> QED
        BY <1>6, <1>8, <2>2, <4>1
    <3>4. CASE m <= before /\ n > before
      BY <1>12, <3>1, <3>2, <3>4
    <3>5. CASE m > before
      <4> DEFINE p == m - before
                 q == n - before
      <4>1. n > before
        BY <2>2, <3>1, <3>5
      <4>2. p \in DOMAIN rows /\ q \in DOMAIN rows /\ p < q
        BY <2>2, <3>1, <3>5, <4>1
      <4>3. shown[m] = rows[p] /\ shown[n] = rows[q]
        BY <3>2, <3>5, <4>1
      <4> HIDE DEF p, q
      <4> QED
        BY <1>6, <1>7, <4>2, <4>3
    <3> QED
      BY <3>1, <3>3, <3>4, <3>5
  <2> QED
    BY <1>1, <1>9, <1>10, <2>1, <2>2 DEF WalkIsInOrder, AreNewestFirst, IsWalking
<1>14. ASSUME NEW id \in walk.owed
       PROVE  IsShown(id)' \/ (~IsLast /\ IsBefore(id, NextCursor))
  <2>1. IsShown(id)' <=> \E n \in DOMAIN shown : shown[n].id = id
    BY <1>10 DEF IsShown
  <2>2. CASE IsShown(id)
    BY <1>8, <2>1, <2>2 DEF IsShown
  <2>3. CASE IsPaged(id)
    <3>1. PICK n \in DOMAIN walk.page : walk.page[n].id = id
      BY <2>3 DEF IsPaged
    <3>2. CASE n \in DOMAIN rows
      BY <1>7, <1>8, <2>1, <3>1, <3>2
    <3>3. CASE n \notin DOMAIN rows
      <4>1. ~IsLast /\ n = count + 1
        BY <1>2, <1>3, <1>4, <1>7, <3>3
      <4>2. walk.page[n].id < walk.page[count].id
        BY <1>2, <1>6, <1>9, <4>1
      <4> QED
        BY <1>9, <3>1, <4>1, <4>2 DEF IsBefore
    <3> QED
      BY <3>2, <3>3
  <2>4. CASE /\ Len(walk.page) = count + 1
             /\ \A n \in DOMAIN walk.page : id < walk.page[n].id
    <3>1. ~IsLast
      BY <1>2, <2>4
    <3> QED
      BY <1>9, <2>4, <3>1 DEF IsBefore
  <2> QED
    BY <1>1, <2>2, <2>3, <2>4 DEF ListingInvariant, OwedIsToCome
<1>15. OwedIsToCome' /\ (walk'.phase = "ended" => \A id \in walk'.owed : IsShown(id)')
  <2>1. \A id \in walk.owed : Matches(listed[id], walk.query)
    BY <1>1 DEF ListingInvariant, OwedIsToCome, IsWalking
  <2> QED
    BY <1>1, <1>10, <1>14, <2>1 DEF OwedIsToCome
<1>16. RowsStandAsShown'
  <2>1. ASSUME NEW n \in DOMAIN shown, shown[n].status = "succeeded"
        PROVE  /\ listed[shown[n].id].status = "succeeded"
               /\ shown[n].lastStep = LastCompletedStep(listed[shown[n].id])
    <3>1. CASE n \in DOMAIN walk.shown
      BY <1>8, <2>1, <3>1 DEF ListingInvariant, RowsStandAsShown, SuccessStands
    <3>2. CASE n - Len(walk.shown) \in DOMAIN rows
      <4>1. Len(walk.shown) + (n - Len(walk.shown)) = n
        BY <1>3, <1>8
      <4>2. shown[n] = rows[n - Len(walk.shown)]
        BY <1>8, <3>2, <4>1
      <4> QED
        BY <1>7, <2>1, <3>2, <4>2 DEF ListingInvariant, RowsStandAsShown, SuccessStands
    <3> QED
      BY <1>8, <3>1, <3>2
  <2> QED
    BY <1>1, <1>10, <2>1 DEF RowsStandAsShown, SuccessStands
<1> QED
  BY <1>11, <1>13, <1>15, <1>16 DEF ListingInvariant

\* The invariant of a walk holds in every state, for any runs, clients and queries.
THEOREM ListingInvariantHolds == ListingSpec => []ListingInvariant
<1>1. ListingInit => ListingInvariant
  <2> SUFFICES ASSUME ListingInit PROVE ListingInvariant
    OBVIOUS
  <2>1. listed = <<>> /\ walk = NoWalk /\ MaximumListedCount \in Nat
    BY ListingAssumption DEF ListingInit
  <2> QED
    BY <2>1, NoWalkIsAWalk DEF ListingInvariant, ListingTyped, WalkIsInOrder, AreNewestFirst,
           OwedIsToCome, RowsStandAsShown, SuccessStands, IsWalking
<1>2. ListingInvariant /\ UNCHANGED listingVars => ListingInvariant'
  BY DEF listingVars, ListingInvariant, ListingTyped, WalkIsInOrder, AreNewestFirst,
         OwedIsToCome, RowsStandAsShown, SuccessStands, IsWalking, IsShown, IsPaged
<1>3. ListingInvariant /\ [ListingNext]_listingVars => ListingInvariant'
  BY <1>2, AskFirstStep, RefuseCursorStep, FindPageStep, AnswerPageStep, RunsStep DEF ListingNext
<1> QED
  BY <1>1, <1>3, PTL DEF ListingSpec

\* The runs and the walk over them are what the code keeps.
THEOREM ListingTypeCorrect == ListingSpec => []ListingTypeOK
<1>1. ListingInvariant => ListingTypeOK
  <2> SUFFICES ASSUME ListingInvariant PROVE ListingTypeOK
    OBVIOUS
  <2>1. Len(walk.page) <= MaximumRunCount + 1
    <3>1. MaximumRunCount \in Nat /\ Len(<<>>) = 0
      BY ListingAssumption
    <3>2. CASE walk.phase = "answering"
      <4>1. /\ walk.query \in Queries /\ IsValidQuery(walk.query)
            /\ Len(walk.page) <= RunCount(walk.query) + 1 /\ Len(walk.page) \in Nat
        BY <3>2 DEF ListingInvariant, WalkIsInOrder, IsWalking, ListingTyped, WalkRows
      <4>2. RunCount(walk.query) \in Nat /\ RunCount(walk.query) <= MaximumRunCount
        BY <4>1, RunCountIsAPage
      <4> QED
        BY <3>1, <4>1, <4>2
    <3>3. CASE walk.phase # "answering"
      BY <3>1, <3>3 DEF ListingInvariant, WalkIsInOrder
    <3> QED
      BY <3>2, <3>3
  <2> QED
    BY <2>1 DEF ListingInvariant, ListingTyped, WalkRows, ListingTypeOK
<1> QED
  BY <1>1, ListingInvariantHolds, PTL

\* A client that follows the cursors is shown every run that matched all along, once and
\* newest first, for any runs, queries and sizes of a page, whatever is accepted, settles
\* or overstays meanwhile (AiRunPageResponseBuilder.buildCursorCondition).
THEOREM WalkShowsEveryRun == ListingSpec => []WalkIsComplete
<1>1. ListingInvariant => WalkIsComplete
  BY DEF ListingInvariant, WalkIsInOrder, AreNewestFirst, RowsStandAsShown, IsShown,
         WalkIsComplete
<1> QED
  BY <1>1, ListingInvariantHolds, PTL

================================================================================
