----------------------- MODULE TerminalCallbackDelivery ------------------------
(***************************************************************************)
(* The job that posts one run's terminal callback: BullMQ starts attempts, *)
(* DeliverRunCallbackJobWorker executes each of them through               *)
(* AiRunTerminalCallbackDeliverer, and throws so that the queue retries.   *)
(* Attempt n is the n-th time the job became active; a worker that stalled *)
(* may still be executing an earlier attempt.                              *)
(***************************************************************************)
EXTENDS Naturals

CONSTANTS
    AttemptLimit,   \* TERMINAL_CALLBACK_ATTEMPT_COUNT
    StallLimit,     \* how often BullMQ takes the job back from a worker
    RedirectLimit,  \* DEFAULT_MAXIMUM_REDIRECT_COUNT
    None,           \* no row, and no answer yet
    Faults          \* which of CallbackFaultKinds may happen

\*   stall     the lock of a worker expires while it may still be working
\*   crash     the process of a worker dies
\*   database  a query fails
CallbackFaultKinds == {"stall", "crash", "database"}

\* A 2xx, any other status, and no status at all.
ClientAnswers == {"accepted", "declined", "incomplete"}

ASSUME CallbackAssumption ==
    /\ AttemptLimit \in Nat \ {0}
    /\ StallLimit \in Nat
    /\ RedirectLimit \in Nat
    /\ Faults \subseteq CallbackFaultKinds
    /\ None \notin ClientAnswers

\* Every start is a failed or completed attempt or one that was taken back.
Attempts == 1..(AttemptLimit + StallLimit)

VARIABLES
    job,                \* the state of BullMQ's job
    attemptsStarted,    \* job.attemptsStarted
    attemptsMade,       \* job.attemptsMade
    stalledCount,       \* how often the job was taken back
    deliverable,        \* whether the client's row allows the callback now
    phase,              \* phase[n]: where the execution of attempt n stands
    redirects,          \* redirects[n]: the redirects attempt n has followed
    answer,             \* answer[n]: what attempt n was answered
    row,                \* row[n]: the status of its ai_run_callback_deliveries row
    heard               \* the attempts whose request the client took

queueVars == <<job, attemptsStarted, attemptsMade, stalledCount>>
attemptVars == <<phase, redirects, answer, row, heard>>
vars == <<queueVars, deliverable, attemptVars>>

JobStates == {"waiting", "active", "delayed", "completed", "failed"}
AttemptPhases == {"off", "judging", "sending", "recording", "answering",
                  "refused", "ended", "dead"}

TypeOK ==
    /\ job \in JobStates
    /\ attemptsStarted \in 0..(AttemptLimit + StallLimit)
    /\ attemptsMade \in 0..AttemptLimit
    /\ stalledCount \in 0..(StallLimit + 1)
    /\ deliverable \in BOOLEAN
    /\ phase \in [Attempts -> AttemptPhases]
    /\ redirects \in [Attempts -> 0..RedirectLimit]
    /\ answer \in [Attempts -> ClientAnswers \cup {None}]
    /\ row \in [Attempts -> ClientAnswers \cup {None}]
    /\ heard \subseteq Attempts

Init ==
    /\ job = "waiting"
    /\ attemptsStarted = 0
    /\ attemptsMade = 0
    /\ stalledCount = 0
    /\ deliverable \in BOOLEAN
    /\ phase = [n \in Attempts |-> "off"]
    /\ redirects = [n \in Attempts |-> 0]
    /\ answer = [n \in Attempts |-> None]
    /\ row = [n \in Attempts |-> None]
    /\ heard = {}

--------------------------------------------------------------------------------
(* BullMQ                                                                   *)

StartAttempt ==
    /\ job = "waiting"
    /\ job' = "active"
    /\ attemptsStarted' = attemptsStarted + 1
    /\ phase' = [phase EXCEPT ![attemptsStarted + 1] = "judging"]
    /\ UNCHANGED <<attemptsMade, stalledCount, deliverable, redirects, answer, row,
                   heard>>

ElapseBackoff ==
    /\ job = "delayed"
    /\ job' = "waiting"
    /\ UNCHANGED <<attemptsStarted, attemptsMade, stalledCount, deliverable,
                   attemptVars>>

StallJob ==
    /\ "stall" \in Faults
    /\ job = "active"
    /\ stalledCount' = stalledCount + 1
    /\ job' = IF stalledCount < StallLimit THEN "waiting" ELSE "failed"
    /\ UNCHANGED <<attemptsStarted, attemptsMade, deliverable, attemptVars>>

\* The attempt whose worker holds the lock.
Holds(n) == job = "active" /\ n = attemptsStarted

\* executeJob returned.  A worker that lost the lock moves nothing.
Complete(n) ==
    /\ job' = IF Holds(n) THEN "completed" ELSE job
    /\ UNCHANGED <<attemptsStarted, attemptsMade, stalledCount>>

\* executeJob threw.
Fail(n) ==
    /\ IF Holds(n)
          THEN /\ attemptsMade' = attemptsMade + 1
               /\ job' = IF attemptsMade + 1 < AttemptLimit THEN "delayed" ELSE "failed"
          ELSE UNCHANGED <<attemptsMade, job>>
    /\ UNCHANGED <<attemptsStarted, stalledCount>>

CrashWorker(n) ==
    /\ "crash" \in Faults
    /\ phase[n] \in {"judging", "sending", "recording", "answering"}
    /\ phase' = [phase EXCEPT ![n] = "dead"]
    /\ UNCHANGED <<queueVars, deliverable, redirects, answer, row, heard>>

\* An operator registers another prefix or secret for the client, or a run's
\* answer stops being readable.
ChangeClient ==
    /\ deliverable' = ~deliverable
    /\ UNCHANGED <<queueVars, attemptVars>>

--------------------------------------------------------------------------------
(* One attempt                                                              *)

MoveTo(n, from, to) ==
    /\ phase[n] = from
    /\ phase' = [phase EXCEPT ![n] = to]

\* Faulty form: nothing is asked of what was read.
JudgeTarget_Unjudged(n) ==
    /\ MoveTo(n, "judging", "sending")
    /\ UNCHANGED <<queueVars, deliverable, redirects, answer, row, heard>>

\* The run and its client are read and judged, the body built and signed.  A
\* refusal is returned, not thrown, and leaves no row.
JudgeTarget(n) ==
    /\ \/ deliverable /\ MoveTo(n, "judging", "sending") /\ UNCHANGED queueVars
       \/ ~deliverable /\ MoveTo(n, "judging", "refused") /\ Complete(n)
    /\ UNCHANGED <<deliverable, redirects, answer, row, heard>>

\* The client answers, or does not; it may have taken a request whose answer
\* never came back.
ReceiveAnswer(n) ==
    /\ MoveTo(n, "sending", "recording")
    /\ \E a \in ClientAnswers :
          /\ answer' = [answer EXCEPT ![n] = a]
          /\ \/ a # "declined" /\ heard' = heard \cup {n}
             \/ a # "accepted" /\ UNCHANGED heard
    /\ UNCHANGED <<queueVars, deliverable, redirects, row>>

\* The client answers with a redirect that stays under its prefix; one that
\* does not, or one too many, is the answer "declined".
FollowRedirect(n) ==
    /\ phase[n] = "sending"
    /\ redirects[n] < RedirectLimit
    /\ redirects' = [redirects EXCEPT ![n] = @ + 1]
    /\ UNCHANGED <<queueVars, deliverable, phase, answer, row, heard>>

\* The row of the attempt, whatever came back.
SaveTerminalCallbackDelivery(n) ==
    /\ MoveTo(n, "recording", "answering")
    /\ row' = [row EXCEPT ![n] = answer[n]]
    /\ UNCHANGED <<queueVars, deliverable, redirects, answer, heard>>

\* Faulty forms: an attempt that did not land returns like any other; an
\* attempt that landed is thrown too; one that was never answered is waited for.
ConcludeAttempt_NeverThrows(n) ==
    /\ MoveTo(n, "answering", "ended")
    /\ Complete(n)
    /\ UNCHANGED <<deliverable, redirects, answer, row, heard>>

ConcludeAttempt_AlwaysThrows(n) ==
    /\ MoveTo(n, "answering", "ended")
    /\ Fail(n)
    /\ UNCHANGED <<deliverable, redirects, answer, row, heard>>

ConcludeAttempt_WaitsForAnswer(n) ==
    /\ MoveTo(n, "answering", "ended")
    /\ \/ answer[n] = "accepted" /\ Complete(n)
       \/ answer[n] = "declined" /\ Fail(n)
    /\ UNCHANGED <<deliverable, redirects, answer, row, heard>>

\* shouldRetryTerminalCallback: what did not land is thrown.
ConcludeAttempt(n) ==
    /\ MoveTo(n, "answering", "ended")
    /\ IF answer[n] = "accepted" THEN Complete(n) ELSE Fail(n)
    /\ UNCHANGED <<deliverable, redirects, answer, row, heard>>

\* A query throws: nothing was sent yet, or what was sent goes unrecorded.
FailQuery(n) ==
    /\ "database" \in Faults
    /\ MoveTo(n, "judging", "ended") \/ MoveTo(n, "recording", "ended")
    /\ Fail(n)
    /\ UNCHANGED <<deliverable, redirects, answer, row, heard>>

--------------------------------------------------------------------------------

ExecuteJob(n) ==
    \/ JudgeTarget(n)
    \/ ReceiveAnswer(n)
    \/ SaveTerminalCallbackDelivery(n)
    \/ ConcludeAttempt(n)
    \/ FailQuery(n)

RunQueue == StartAttempt \/ ElapseBackoff

Next ==
    \/ RunQueue
    \/ StallJob
    \/ ChangeClient
    \/ \E n \in Attempts :
          \/ ExecuteJob(n)
          \/ FollowRedirect(n)
          \/ CrashWorker(n)

Spec == Init /\ [][Next]_vars

\* The queue serves the job and its timers; the queries return, and the request
\* has one timeout for all its redirects.
Fairness ==
    /\ WF_vars(RunQueue)
    /\ \A n \in Attempts : WF_vars(ExecuteJob(n))

\* A worker that died is noticed when its lock expires.
NoticeDeadWorker ==
    /\ \E n \in Attempts : Holds(n) /\ phase[n] = "dead"
    /\ StallJob

RecoveringSpec == Spec /\ Fairness /\ WF_vars(NoticeDeadWorker)

--------------------------------------------------------------------------------

HasEnded == job \in {"completed", "failed"}

\* The job completes only over a row that says the client accepted or a refusal
\* to call at all, and fails only when every attempt it may make failed or its
\* workers stalled too often: no attempt is lost between the worker, which
\* throws or returns, and the queue, which counts.
EndIsAccountedFor ==
    /\ job = "completed" =>
          \E n \in Attempts : row[n] = "accepted" \/ phase[n] = "refused"
    /\ job = "failed" => attemptsMade = AttemptLimit \/ stalledCount > StallLimit

\* While no worker stalls, an attempt recorded as accepted is the last one: a
\* client that answered 2xx is not called again.
AcceptedIsLast ==
    stalledCount = 0 =>
        \A m, n \in Attempts : m < n /\ row[m] = "accepted" => phase[n] = "off"

\* From the moment a client's URL stops being deliverable for good, an attempt
\* that has not begun never reaches it, though one under way still may.
NoCallAfterWithdrawal ==
    \A n \in Attempts :
        [](phase[n] = "off" /\ [](~deliverable) => [](n \notin heard))

\* The job ends whatever the client does, and whatever worker dies.
JobEnds == <>HasEnded

================================================================================
