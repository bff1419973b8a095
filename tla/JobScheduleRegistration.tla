------------------------ MODULE JobScheduleRegistration -------------------------
(***************************************************************************)
(* The schedules Redis holds, the scripts that write and remove them, and  *)
(* the check of a daemon that boots (JobScheduleRegistrationInspector): it *)
(* opens the queue of every scheduler, reads the schedules each holds,     *)
(* closes them (RegisteredJobScheduleReader) and names the declared ones   *)
(* it did not find, all raced against a deadline.                          *)
(*                                                                         *)
(* A scheduler stands for its class, its queue and the id it declares.  A  *)
(* Redis that does not answer makes every call to it wait.                 *)
(***************************************************************************)
EXTENDS Naturals, FiniteSets

CONSTANTS
    Schedulers,             \* what the scan of the schedulers' folder finds
    RetiredIds,             \* ids of schedulers that are declared no more
    MaximumScriptCount,     \* bound: executions of the scripts
    MaximumSilenceCount,    \* bound: how often Redis stops answering
    Untold                  \* no report

ASSUME RegistrationAssumption ==
    /\ IsFiniteSet(Schedulers)
    /\ RetiredIds \cap Schedulers = {}
    /\ MaximumScriptCount \in Nat
    /\ MaximumSilenceCount \in Nat
    /\ Untold \notin {"missing", "unreadable"}

VARIABLES
    registered,     \* registered[s]: the schedule ids the queue of s holds
    script,         \* the script under way
    silence,        \* whether Redis answers, and how often it has not
    inspection,     \* the check of the boot
    queueReads,     \* queueReads[s]: its reading of the queue of s
    everHeld        \* history: for each queue, what it held at every instant of the
                    \* check, and what it held at some

registrationVars ==
    <<registered, script, silence, inspection, queueReads, everHeld>>

Unheld == [always |-> [s \in Schedulers |-> {}], ever |-> [s \in Schedulers |-> {}]]

ScheduleIds == Schedulers \cup RetiredIds

\* AppJobSchedulerService.collectScheduleInputs
DeclaredSchedulerIds == Schedulers

RegistrationTypeOK ==
    /\ registered \in [Schedulers -> SUBSET ScheduleIds]
    /\ script.kind \in {"none", "start", "stop"}
    /\ script.left \subseteq Schedulers
    /\ silence.isSilent \in BOOLEAN
    /\ inspection.phase \in {"booting", "inspecting", "told"}
    /\ inspection.report \in {"missing", "unreadable", Untold}
    /\ inspection.missing \subseteq Schedulers
    /\ \A s \in Schedulers :
        /\ queueReads[s].phase \in {"unopened", "open", "closing", "over"}
        /\ queueReads[s].found \subseteq ScheduleIds

RegistrationInit ==
    /\ registered \in [Schedulers -> SUBSET ScheduleIds]
    /\ script = [kind |-> "none", left |-> {}, count |-> 0]
    /\ silence = [isSilent |-> FALSE, count |-> 0]
    /\ inspection = [phase |-> "booting", report |-> Untold, missing |-> {}]
    /\ queueReads = [s \in Schedulers |->
        [phase |-> "unopened", found |-> {}, hasFailed |-> FALSE]]
    /\ everHeld = Unheld

--------------------------------------------------------------------------------
(* Redis, and the scripts                                                   *)

\* What the check under way could have seen.
Hold(contents) ==
    /\ registered' = contents
    /\ everHeld' =
        IF inspection.phase # "inspecting" THEN everHeld
        ELSE [always |-> [s \in Schedulers |-> everHeld.always[s] \cap contents[s]],
              ever |-> [s \in Schedulers |-> everHeld.ever[s] \cup contents[s]]]

StartScript(kind) ==
    /\ script.kind = "none"
    /\ script.count < MaximumScriptCount
    /\ script' = [kind |-> kind, left |-> Schedulers, count |-> script.count + 1]
    /\ UNCHANGED <<registered, silence, inspection, queueReads, everHeld>>

\* One of the responses the script waits for.  A call that failed may have had
\* its effect; the script goes on with the others and throws when all are there.
AnswerScript(s, hasEffect) ==
    LET left == script.left \ {s}
    IN  /\ s \in script.left
        /\ ~silence.isSilent
        /\ script' = [script EXCEPT
            !.left = left, !.kind = IF left = {} THEN "none" ELSE @]
        /\ IF ~hasEffect THEN Hold(registered)
           ELSE IF script.kind = "start"
           THEN Hold([registered EXCEPT ![s] = @ \cup {s}])
           ELSE Hold([registered EXCEPT ![s] = @ \ {s}])
        /\ UNCHANGED <<silence, inspection, queueReads>>

FallSilent ==
    /\ ~silence.isSilent
    /\ silence.count < MaximumSilenceCount
    /\ silence' = [isSilent |-> TRUE, count |-> silence.count + 1]
    /\ UNCHANGED <<registered, script, inspection, queueReads, everHeld>>

AnswerAgain ==
    /\ silence.isSilent
    /\ silence' = [silence EXCEPT !.isSilent = FALSE]
    /\ UNCHANGED <<registered, script, inspection, queueReads, everHeld>>

--------------------------------------------------------------------------------
(* The check                                                                *)

UnchangedRedis == UNCHANGED <<registered, script, silence, everHeld>>

BeginInspection ==
    /\ inspection.phase = "booting"
    /\ inspection' = [inspection EXCEPT !.phase = "inspecting"]
    /\ everHeld' = [always |-> registered, ever |-> registered]
    /\ UNCHANGED <<registered, script, silence, queueReads>>

Tell(report, missing) ==
    inspection' = [phase |-> "told", report |-> report, missing |-> missing]

\* The first rejection decides the race; one that comes after it is heard by
\* nobody.
Reject ==
    IF inspection.phase = "inspecting" THEN Tell("unreadable", {})
    ELSE UNCHANGED inspection

\* Before any queue is opened: the folder cannot be scanned.
FailToLoadSchedulerCtors ==
    /\ inspection.phase = "inspecting"
    /\ \A s \in Schedulers : queueReads[s].phase = "unopened"
    /\ Tell("unreadable", {})
    /\ queueReads' = [s \in Schedulers |-> [queueReads[s] EXCEPT !.phase = "over"]]
    /\ UnchangedRedis

\* A reading that was given up on goes on.
CreateScheduler(s) ==
    /\ inspection.phase # "booting"
    /\ queueReads[s].phase = "unopened"
    /\ ~silence.isSilent
    /\ queueReads' = [queueReads EXCEPT ![s].phase = "open"]
    /\ UNCHANGED inspection
    /\ UnchangedRedis

FailToCreateScheduler(s) ==
    /\ inspection.phase # "booting"
    /\ queueReads[s].phase = "unopened"
    /\ ~silence.isSilent
    /\ queueReads' = [queueReads EXCEPT ![s].phase = "over"]
    /\ Reject
    /\ UnchangedRedis

\* getJobSchedulers, which may be refused; the queue is closed on either path.
ReadSchedulerIdsInQueue(s, hasFailed) ==
    /\ queueReads[s].phase = "open"
    /\ ~silence.isSilent
    /\ queueReads' = [queueReads EXCEPT ![s] =
        [phase |-> "closing",
         found |-> IF hasFailed THEN {} ELSE registered[s],
         hasFailed |-> hasFailed]]
    /\ UNCHANGED inspection
    /\ UnchangedRedis

\* Faulty form: what is registered and not declared is told as missing.
MissingSchedulerIds_Undeclared(found) == found \ DeclaredSchedulerIds

MissingSchedulerIds(found) == DeclaredSchedulerIds \ found

\* The last queue to be closed ends the reading; a close that fails rejects it.
TeardownScheduler(s, hasFailed) ==
    /\ queueReads[s].phase = "closing"
    /\ ~silence.isSilent
    /\ queueReads' = [queueReads EXCEPT ![s].phase = "over"]
    /\ IF hasFailed \/ queueReads[s].hasFailed THEN Reject
       ELSE IF /\ inspection.phase = "inspecting"
               /\ \A other \in Schedulers \ {s} : queueReads[other].phase = "over"
       THEN LET missing ==
                    MissingSchedulerIds(UNION {queueReads[q].found : q \in Schedulers})
            IN  Tell(IF missing = {} THEN Untold ELSE "missing", missing)
       ELSE UNCHANGED inspection
    /\ UnchangedRedis

\* REGISTRATION_READ_DEADLINE_MILLISECOND
RefuseRegistrationAtDeadline ==
    /\ inspection.phase = "inspecting"
    /\ Tell("unreadable", {})
    /\ UNCHANGED queueReads
    /\ UnchangedRedis

--------------------------------------------------------------------------------

InspectQueue(s) ==
    \/ CreateScheduler(s)
    \/ FailToCreateScheduler(s)
    \/ \E hasFailed \in BOOLEAN :
        ReadSchedulerIdsInQueue(s, hasFailed) \/ TeardownScheduler(s, hasFailed)

RegistrationNext ==
    \/ \E kind \in {"start", "stop"} : StartScript(kind)
    \/ \E s \in Schedulers, hasEffect \in BOOLEAN : AnswerScript(s, hasEffect)
    \/ FallSilent
    \/ AnswerAgain
    \/ BeginInspection
    \/ FailToLoadSchedulerCtors
    \/ \E s \in Schedulers : InspectQueue(s)
    \/ RefuseRegistrationAtDeadline

RegistrationSpec == RegistrationInit /\ [][RegistrationNext]_registrationVars

\* The deadline passes whatever Redis does; calls to a Redis that answers end.
RegistrationFairness ==
    /\ WF_registrationVars(RefuseRegistrationAtDeadline)
    /\ \A s \in Schedulers : WF_registrationVars(InspectQueue(s))

--------------------------------------------------------------------------------
(* Properties                                                               *)

\* What a boot is told is so, though scripts write and remove schedules while it
\* looks and its queues are read at different instants: a schedule is called missing
\* only if its queue lacked it at some instant of the check, and silence means every
\* declared one was held at some (JobScheduleRegistrationInspector.inspectRegisteredSchedules).
ReportIsTrue ==
    inspection.phase = "told" =>
        /\ inspection.report = "missing" =>
            /\ inspection.missing # {}
            /\ \A s \in inspection.missing : s \notin everHeld.always[s]
        /\ inspection.report = Untold =>
            \A s \in Schedulers : \E q \in Schedulers : s \in everHeld.ever[q]

\* Every boot that begins its check ends it with a true report, though Redis may never
\* answer, and no queue it opened stays open while Redis answers, even when the reading
\* was given up on (JobScheduleRegistrationInspector: every path ends in a log line and a null;
\* RegisteredJobScheduleReader: every queue it opens, it closes).
EveryBootIsTold ==
    inspection.phase = "inspecting" ~>
        /\ inspection.phase = "told" /\ ReportIsTrue
        /\ silence.isSilent \/ \A s \in Schedulers : queueReads[s].phase = "over"

================================================================================
