----------------------------- MODULE AiRunRowGuard -----------------------------
(***************************************************************************)
(* The rule that a settled run is never moved, at the row: what the hooks  *)
(* of the model AiRun let past of the writes that reach it, by             *)
(* AiRunStatusRecorder, by an update of many rows and by an instance that  *)
(* was read and is saved.                                                  *)
(*                                                                         *)
(* Of a column the row keeps whether it holds anything.  A condition is    *)
(* named for what it compiles to; a path that reaches no hook (hooks:      *)
(* false, raw SQL, increment, a fabricated instance) is left out.          *)
(***************************************************************************)

CONSTANTS
    Recordings,     \* the recorder's calls that may be under way at once
    Unstated        \* no status among the values of a call

TerminalStatuses == {"succeeded", "failed", "canceled"}

GuardedStatuses == {"queued", "running"} \cup TerminalStatuses

ASSUME GuardAssumption == Unstated \notin GuardedStatuses

VARIABLES
    guarded,        \* the row of ai_runs
    recordings,     \* recordings[w]: between its reading and its update
    instance,       \* the row as a caller of the model read it
    settledAs,      \* history: the status the run first settled under
    isMovedStale    \* history: whether an instance read before that moved it

guardVars == <<guarded, recordings, instance, settledAs, isMovedStale>>

IsTerminalAiRunStatus(status) == status \in TerminalStatuses

\* AI_RUN_STATUS_EVIDENCE_FIELD_NAMES_HASH
Evidence(status) ==
    CASE status = "running" -> {"startedAt"}
      [] status = "succeeded" -> {"resultBody", "finishedAt"}
      [] status = "failed" ->
            {"failureReasonCode", "failureParameters", "finishedAt"}
      [] status = "canceled" -> {"canceledAt", "finishedAt"}
      [] OTHER -> {}

\* The evidence that is stated, and may be stated as nothing.
StatedEvidence == {"resultBody", "failureParameters"}

InstantColumns == {"startedAt", "finishedAt", "canceledAt", "cancelRequestedAt"}

WritableColumns ==
    InstantColumns \cup StatedEvidence \cup {"failureReasonCode", "engineLabel"}

\* What a caller may hand over: a value, null, or a blank text or an unreadable
\* instant.
ColumnForms == {"given", "null", "blank"}

\* The values of a call of the recorder: a status with its evidence in any form, or
\* some of it left out, or with a column no call writes; or a cancel request.
Calls ==
    LET Values(status, names) ==
            {[status |-> status, columns |-> columns] : columns \in [names -> ColumnForms]}
    IN  Values(Unstated, {"cancelRequestedAt"}) \cup
        (UNION {UNION {Values(s, names) :
                    names \in (SUBSET Evidence(s)) \cup {Evidence(s) \cup {"requestBody"}}} :
            s \in GuardedStatuses \ {"queued"}})

\* The columns a caller of the model may name: the status, by its attribute and
\* by its field, one that is no transition's, and a name of nothing.
WrittenNames == {"AiRunStatusId", "ai_run_status_id", "contentPurgedAt", "unknown"}

\* What the condition of an update compiles to.
Conditions == {"unsettledById", "byId", "reordered"}

GuardTypeOK ==
    /\ guarded.status \in GuardedStatuses
    /\ guarded.filled \subseteq WritableColumns
    /\ guarded.writer \in {"acceptance", "recorder", "update", "instance"}
    /\ \A w \in Recordings : recordings[w].phase \in {"idle", "saving"}
    /\ instance \in GuardedStatuses \cup {Unstated}
    /\ settledAs \in TerminalStatuses \cup {Unstated}
    /\ isMovedStale \in BOOLEAN

NoRecording == [phase |-> "idle", status |-> Unstated, given |-> {}, named |-> {}]

GuardInit ==
    /\ guarded = [status |-> "queued", filled |-> {}, writer |-> "acceptance"]
    /\ recordings = [w \in Recordings |-> NoRecording]
    /\ instance = Unstated
    /\ settledAs = Unstated
    /\ isMovedStale = FALSE

\* The statement, on the row as it is by then.
Write(row) ==
    /\ guarded' = row
    /\ settledAs' = IF settledAs = Unstated /\ IsTerminalAiRunStatus(row.status)
                    THEN row.status ELSE settledAs

--------------------------------------------------------------------------------
(* The hooks                                                                *)

\* The attribute a written name resolves to, or Unstated.
AiRunAttribute(name) ==
    CASE name \in {"AiRunStatusId", "ai_run_status_id"} -> "AiRunStatusId"
      [] name = "contentPurgedAt" -> name
      [] OTHER -> Unstated

\* Faulty form: the status is known by its attribute name alone.
WritesAiRunStatus_ByAttribute(names) == "AiRunStatusId" \in names

WritesAiRunStatus(names) ==
    \E name \in names : AiRunAttribute(name) = "AiRunStatusId"

\* beforeBulkUpdate: a name of no attribute is refused, and a status may be
\* written under the one condition the model builds itself.
IsLetPast(names, condition) ==
    /\ \A name \in names : AiRunAttribute(name) # Unstated
    /\ WritesAiRunStatus(names) => condition = "unsettledById"

\* beforeUpdate: judged by the status the instance was read with.
LeavesTerminalAiRunStatus(previous, status) ==
    status # previous /\ IsTerminalAiRunStatus(previous)

--------------------------------------------------------------------------------
(* AiRunStatusRecorder                                                      *)

\* The refusals of saveOngoingAiRun, before it reads the run.
IsRecordable(call) ==
    /\ DOMAIN call.columns \subseteq WritableColumns
    /\ Evidence(call.status) \subseteq DOMAIN call.columns
    /\ \A c \in Evidence(call.status) \ StatedEvidence : call.columns[c] = "given"
    /\ \A c \in DOMAIN call.columns \cap InstantColumns : call.columns[c] # "blank"

\* The reading before the write: a settled run is refused.
FindOngoingAiRun(w, call) ==
    /\ recordings[w].phase = "idle"
    /\ IsRecordable(call)
    /\ ~IsTerminalAiRunStatus(guarded.status)
    /\ recordings' = [recordings EXCEPT ![w] =
        [phase |-> "saving",
         status |-> call.status,
         given |-> {c \in DOMAIN call.columns : call.columns[c] = "given"},
         named |-> DOMAIN call.columns]]
    /\ UNCHANGED <<guarded, instance, settledAs, isMovedStale>>

\* The write, through the hook and under its condition: the row moves, or the
\* writer was outraced.
SaveAiRunTransition(w) ==
    LET call == recordings[w]
        status == IF call.status = Unstated THEN guarded.status ELSE call.status
    IN  /\ call.phase = "saving"
        /\ recordings' = [recordings EXCEPT ![w] = NoRecording]
        /\ IF IsTerminalAiRunStatus(guarded.status)
              THEN UNCHANGED <<guarded, settledAs>>
              ELSE Write([status |-> status,
                          filled |-> (guarded.filled \ call.named) \cup call.given,
                          writer |-> IF call.status = Unstated THEN guarded.writer
                                     ELSE "recorder"])
        /\ UNCHANGED <<instance, isMovedStale>>

--------------------------------------------------------------------------------
(* The other callers of the model                                           *)

\* AiRun.update: a stamp of a purge, or a status.
UpdateAiRuns(names, condition, status) ==
    /\ IsLetPast(names, condition)
    /\ condition = "unsettledById" => ~IsTerminalAiRunStatus(guarded.status)
    /\ Write(IF {"AiRunStatusId", "ai_run_status_id"} \cap names = {} THEN guarded
             ELSE [guarded EXCEPT !.status = status, !.writer = "update"])
    /\ UNCHANGED <<recordings, instance, isMovedStale>>

FindInstance ==
    /\ instance' = guarded.status
    /\ UNCHANGED <<guarded, recordings, settledAs, isMovedStale>>

\* A column that was not changed is not written.
SaveInstance(status) ==
    /\ instance # Unstated
    /\ status # instance
    /\ ~LeavesTerminalAiRunStatus(instance, status)
    /\ Write([guarded EXCEPT !.status = status, !.writer = "instance"])
    /\ isMovedStale' = (isMovedStale \/ IsTerminalAiRunStatus(guarded.status))
    /\ instance' = status
    /\ UNCHANGED recordings

GuardNext ==
    \/ \E w \in Recordings :
        \/ \E call \in Calls : FindOngoingAiRun(w, call)
        \/ SaveAiRunTransition(w)
    \/ \E names \in SUBSET WrittenNames \ {{}}, condition \in Conditions,
          status \in GuardedStatuses :
        UpdateAiRuns(names, condition, status)
    \/ FindInstance
    \/ \E status \in GuardedStatuses : SaveInstance(status)

GuardSpec == GuardInit /\ [][GuardNext]_guardVars

--------------------------------------------------------------------------------
(* Properties                                                               *)

\* A run that has settled keeps the status it settled under whatever reaches the
\* model, unless an instance that was read before is saved after; and a status
\* the recorder wrote carries its evidence (AiRun: a run never leaves succeeded,
\* failed or canceled, and AiRunStatusRecorder: a status is refused the call
\* carries no evidence for).
SettledRowStands ==
    /\ settledAs # Unstated /\ ~isMovedStale => guarded.status = settledAs
    /\ guarded.writer = "recorder" =>
        Evidence(guarded.status) \ StatedEvidence \subseteq guarded.filled

================================================================================
