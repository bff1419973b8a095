------------------------------ MODULE AiRunReading ------------------------------
(***************************************************************************)
(* Reading one run back while it is worked on, settles and is purged: by   *)
(* the client that owns it and by another (AiRunGetRenderer), for the body *)
(* of the terminal callback (AiRunTerminalCallbackDeliverer), and by an    *)
(* operator's command (AiRunOperatorCommandExecutor), which is a process   *)
(* of its own.                                                             *)
(*                                                                         *)
(* A reading is the query of the run's row and then, side by side and in   *)
(* no transaction, those of the tables under it; what is answered is       *)
(* built when the last of them has come back.  Of the tables under a run   *)
(* the rows' order is kept, and of the row whether its columns are stated. *)
(***************************************************************************)
EXTENDS Naturals, Sequences

CONSTANTS
    Askers,     \* the readings that may be under way at once
    Works,      \* the tables a work of the run writes a row of, in order
    Nothing     \* no answer, no exit code

Tables == {"ai_run_steps", "ai_model_calls", "ai_run_field_outcomes"}

ASSUME ReadingAssumption ==
    /\ Works \subseteq Seq(Tables)
    /\ Nothing \notin Nat

VARIABLES
    run,        \* the row of ai_runs
    work,       \* the work of the run, chosen when it is accepted
    trace,      \* the rows under the run, as places in work
    workedTo,   \* how far the work has come
    readings    \* readings[a]: one reading

readingVars == <<run, work, trace, workedTo, readings>>

SettledStatuses == {"succeeded", "failed", "canceled"}

RunRows ==
    [status : {"queued", "running"} \cup SettledStatuses,
     resultBody : BOOLEAN, failureReasonCode : BOOLEAN,
     contentPurgedAt : BOOLEAN, tracePurgedAt : BOOLEAN]

OperatorCommands == {"stalled", "failed-since", "run", "correlation"}

Kinds == {"client", "client expanding steps", "stranger", "callback"} \cup OperatorCommands

\* A command whose name or parameter is refused asks nothing.
Questions == Kinds \cup {"malformed"}

IsOperator(question) == question \in OperatorCommands \cup {"malformed"}

\* The tables read under the row that was found.
TablesRead(question) ==
    CASE question \in {"client", "callback"} -> {"ai_model_calls", "ai_run_field_outcomes"}
      [] question = "client expanding steps" -> Tables
      [] question \in OperatorCommands -> {"ai_run_steps", "ai_model_calls"}
      [] OTHER -> {}

NoReading ==
    [phase |-> "unasked", question |-> Nothing, row |-> Nothing, seen |-> {},
     left |-> {}, isReported |-> FALSE, exitCode |-> Nothing]

ReadingTypeOK ==
    /\ run \in RunRows
    /\ work \in Works
    /\ workedTo \in 0..Len(work)
    /\ trace \subseteq 1..workedTo
    /\ DOMAIN readings = Askers
    /\ \A a \in Askers :
        /\ readings[a].phase \in
            {"unasked", "opening", "finding", "reading", "closing", "answered", "failed"}
        /\ readings[a].question \in Questions \cup {Nothing}
        /\ readings[a].row \in RunRows \cup {Nothing}
        /\ readings[a].seen \subseteq 1..workedTo
        /\ readings[a].left \subseteq Tables
        /\ readings[a].exitCode \in {0, 1, 2, Nothing}

ReadingInit ==
    /\ run = [status |-> "queued", resultBody |-> FALSE, failureReasonCode |-> FALSE,
              contentPurgedAt |-> FALSE, tracePurgedAt |-> FALSE]
    /\ work \in Works
    /\ trace = {}
    /\ workedTo = 0
    /\ readings = [a \in Askers |-> NoReading]

HasSettled(row) == row.status \in SettledStatuses

RowsOf(table) == {n \in DOMAIN work : work[n] = table}

--------------------------------------------------------------------------------
(* The run                                                                  *)

StartRun ==
    /\ run.status = "queued"
    /\ run' = [run EXCEPT !.status = "running"]
    /\ UNCHANGED <<work, trace, workedTo, readings>>

\* A work that was outrun by the time limit or a cancellation goes on.
WriteTrace ==
    /\ run.status # "queued"
    /\ workedTo < Len(work)
    /\ workedTo' = workedTo + 1
    /\ trace' = trace \cup {workedTo'}
    /\ UNCHANGED <<run, work, readings>>

\* One update: a success carries its result and needs the work's end, a failure
\* its reason.
SettleRun(status) ==
    /\ run.status = "running"
    /\ status = "succeeded" => workedTo = Len(work)
    /\ run' = [run EXCEPT
        !.status = status,
        !.resultBody = status = "succeeded",
        !.failureReasonCode = status = "failed"]
    /\ UNCHANGED <<work, trace, workedTo, readings>>

PurgeContent ==
    /\ ~run.contentPurgedAt
    /\ run' = [run EXCEPT !.contentPurgedAt = TRUE, !.resultBody = FALSE]
    /\ UNCHANGED <<work, trace, workedTo, readings>>

\* One transaction over all tables under the run.
PurgeTrace ==
    /\ ~run.tracePurgedAt
    /\ run' = [run EXCEPT !.tracePurgedAt = TRUE]
    /\ trace' = {}
    /\ UNCHANGED <<work, workedTo, readings>>

--------------------------------------------------------------------------------
(* A reading                                                                *)

SetReading(a, reading) ==
    /\ readings' = [readings EXCEPT ![a] = reading]
    /\ UNCHANGED <<run, work, trace, workedTo>>

\* An operator's process opens the database first; the callback is raised for a
\* run that has settled.
Ask(a, question) ==
    /\ readings[a].phase = "unasked"
    /\ question = "callback" => HasSettled(run)
    /\ SetReading(a, [NoReading EXCEPT
        !.phase = IF IsOperator(question) THEN "opening" ELSE "finding",
        !.question = question,
        !.left = TablesRead(question)])

\* The arguments are judged once the database is open, and before it is read.
ActivateSequelize(a) ==
    /\ readings[a].phase = "opening"
    /\ SetReading(a,
        IF readings[a].question = "malformed"
        THEN [readings[a] EXCEPT !.phase = "closing", !.exitCode = 2, !.left = {}]
        ELSE [readings[a] EXCEPT !.phase = "finding"])

\* What a command's condition asks of the row as it is.
MeetsCondition(question) ==
    CASE question = "stalled" -> ~HasSettled(run)
      [] question = "failed-since" -> run.status = "failed"
      [] OTHER -> TRUE

\* A client names its run.  A command's run key or correlation id may name another,
\* and its instant or its limit may leave the run out.
IsFound(question) ==
    CASE question \in {"client", "client expanding steps", "callback"} -> {TRUE}
      [] question = "stranger" \/ ~MeetsCondition(question) -> {FALSE}
      [] OTHER -> BOOLEAN

\* What a reading that found no run comes to: an error that does not say whether
\* there is one, or an operator's report that nothing was found.
FindNothing(reading) ==
    IF IsOperator(reading.question)
    THEN [reading EXCEPT !.phase = "closing", !.left = {}, !.isReported = TRUE,
                         !.exitCode = 0]
    ELSE [reading EXCEPT !.phase = "answered", !.left = {}]

FindAiRun(a) ==
    /\ readings[a].phase = "finding"
    /\ \E isFound \in IsFound(readings[a].question) :
        SetReading(a,
            IF isFound THEN [readings[a] EXCEPT !.phase = "reading", !.row = run]
            ELSE FindNothing(readings[a]))

\* Faulty form: the tables are read beside the row.
MayRead_BesideTheRow(phase) == phase \in {"finding", "reading"}

\* The tables are read under the row that was found.
MayRead(phase) == phase = "reading"

ReadTable(a, table) ==
    /\ MayRead(readings[a].phase)
    /\ table \in readings[a].left
    /\ SetReading(a, [readings[a] EXCEPT
        !.left = @ \ {table}, !.seen = @ \cup (trace \cap RowsOf(table))])

\* buildFoundAiRunResponse, buildAiRunRows and the report.
AnswerReading(a) ==
    /\ readings[a].phase = "reading"
    /\ readings[a].left = {}
    /\ SetReading(a,
        IF IsOperator(readings[a].question)
        THEN [readings[a] EXCEPT !.phase = "closing", !.isReported = TRUE, !.exitCode = 0]
        ELSE [readings[a] EXCEPT !.phase = "answered"])

\* A query throws: a client is answered an error and a callback is tried again; an
\* operator's command ends under 1 without a report.
FailQuery(a) ==
    /\ readings[a].phase \in {"finding", "reading"}
    /\ SetReading(a,
        IF IsOperator(readings[a].question)
        THEN [readings[a] EXCEPT !.phase = "closing", !.exitCode = 1, !.left = {}]
        ELSE [readings[a] EXCEPT !.phase = "failed", !.left = {}])

\* The database does not open or does not close: the error is caught nowhere, and
\* the process ends under 1 whatever was reported.
FailConnection(a) ==
    /\ readings[a].phase \in {"opening", "closing"}
    /\ SetReading(a, [readings[a] EXCEPT !.phase = "failed", !.exitCode = 1, !.left = {}])

\* Only then is the exit code the process's.
CloseSequelize(a) ==
    /\ readings[a].phase = "closing"
    /\ SetReading(a, [readings[a] EXCEPT !.phase = "answered"])

ReadingNext ==
    \/ StartRun
    \/ WriteTrace
    \/ \E status \in SettledStatuses : SettleRun(status)
    \/ PurgeContent
    \/ PurgeTrace
    \/ \E a \in Askers :
        \/ \E question \in Questions : Ask(a, question)
        \/ ActivateSequelize(a)
        \/ FindAiRun(a)
        \/ \E table \in Tables : ReadTable(a, table)
        \/ AnswerReading(a)
        \/ FailQuery(a)
        \/ FailConnection(a)
        \/ CloseSequelize(a)

ReadingSpec == ReadingInit /\ [][ReadingNext]_readingVars

--------------------------------------------------------------------------------
(* Properties                                                               *)

\* The answer is complete, and it is not an operator's that failed.
IsTold(reading) == reading.phase = "answered" /\ reading.exitCode \in {0, Nothing}

\* An answer that says a run has settled is never taken back; one that says it
\* succeeded shows every row of its work that was asked for, and its result, until
\* a purge removes them, though the row and the tables under it are read apart; a
\* failure is told by failed runs alone (AiRunResponseBuilder).  A client that
\* does not own the run is answered as if there were none, and an operator's
\* command that exits with 0 has reported what it found, with 2 has read nothing
\* (AiRunOperatorCommandExecutor).
AnswersAreOneStory ==
    \A a \in Askers :
        LET reading == readings[a]
            row == reading.row
        IN  /\ IsTold(reading) /\ row # Nothing =>
                /\ HasSettled(row) => row.status = run.status
                /\ row.status = "succeeded" =>
                    /\ row.contentPurgedAt \/ row.resultBody
                    /\ \A table \in TablesRead(reading.question) :
                        run.tracePurgedAt \/ RowsOf(table) \subseteq reading.seen
                /\ row.failureReasonCode <=> row.status = "failed"
            /\ reading.question \in {"stranger", "malformed"} => row = Nothing
            /\ IsOperator(reading.question) /\ reading.phase = "answered" =>
                /\ reading.isReported <=> reading.exitCode = 0
                /\ reading.exitCode = 2 => reading.question = "malformed"

\* An answer to a client about a canceled run shows every model call the run will
\* ever hold, until a purge removes them, because nothing is recorded after the stop
\* (AiRunResponseBuilder.findAiModelCalls: nothing has to be excluded).
SpendingStandsAtTheStop ==
    \A a \in Askers :
        LET reading == readings[a]
        IN  (/\ IsTold(reading) /\ ~IsOperator(reading.question)
             /\ reading.row # Nothing /\ reading.row.status = "canceled"
             /\ ~run.tracePurgedAt)
            => trace \cap RowsOf("ai_model_calls") \subseteq reading.seen

================================================================================
