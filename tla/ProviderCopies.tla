----------------------------- MODULE ProviderCopies ----------------------------
(***************************************************************************)
(* The copies of clients' media at a provider: a run uploads its media and *)
(* writes one provider_uploaded_files row for each                         *)
(* (AiRunMediaProviderUploader), and a daily sweep asks the provider to    *)
(* delete the copies whose time is up and stamps the rows of those that    *)
(* are gone (ProviderUploadedFilePurger).  Sweeps may overlap: a job that  *)
(* stalled is executed again beside its first execution.  One instant is a *)
(* day.                                                                    *)
(***************************************************************************)
EXTENDS Naturals, FiniteSets

CONSTANTS
    Files,                  \* the media of all runs, each with its own handle
    RunOf,                  \* RunOf[f]: the run of medium f
    Stuck,                  \* the files whose delete can only raise
    Sweeps,                 \* the executions of the purge job
    FileCountPerBatch,      \* PROVIDER_UPLOADED_FILE_COUNT_PER_BATCH
    MaximumBatchCount,      \* MAXIMUM_BATCH_COUNT
    UnstatedExpiryDayCount, \* UNSTATED_EXPIRY_DAY_COUNT
    RunDayCount,            \* how many days a run within its limit may touch
    ClockLimit,             \* the last day a model runs to
    Expiries,               \* what a provider may state: a day, or None
    None,                   \* no expiry, no stamp
    Faults                  \* which of CopyFaultKinds may happen

\*   provider  a call to the provider raises, maybe after its effect
\*   database  a query fails
\*   crash     a process dies
CopyFaultKinds == {"provider", "database", "crash"}

Runs == {RunOf[f] : f \in Files}
MediaOf(r) == {f \in Files : RunOf[f] = r}
Days == 0..ClockLimit

ASSUME CopyAssumption ==
    /\ IsFiniteSet(Files)
    /\ Stuck \subseteq Files
    /\ FileCountPerBatch \in Nat \ {0}
    /\ MaximumBatchCount \in Nat \ {0}
    /\ UnstatedExpiryDayCount \in Nat
    /\ RunDayCount \in 0..UnstatedExpiryDayCount
    /\ ClockLimit \in Nat
    /\ None \notin Nat
    /\ Expiries \subseteq Nat \cup {None}
    /\ Faults \subseteq CopyFaultKinds

VARIABLES
    clock,
    phase,          \* phase[r]: where the upload step of run r stands
    uploadedAt,     \* uploadedAt[r]: the one instant of all rows of run r
    sent,           \* the files a provider was handed
    pending,        \* the files whose row is being written
    copies,         \* the files a provider holds
    expiresAt,      \* expiresAt[f]: the expiry the provider stated, or None
    rows,           \* the files that have a row
    purgedAt,       \* purgedAt[f]: provider_purged_at of the row, or None
    sweep           \* sweep[s]: what execution s of the purge holds

runVars == <<phase, uploadedAt, sent, pending, expiresAt, rows>>
vars == <<clock, runVars, copies, purgedAt, sweep>>

RunPhases == {"idle", "uploading", "recording", "reading", "over"}

SweepStates ==
    [phase : {"off", "finding", "asking", "abandoned"},
     now : Days,
     remainingBatchCount : 0..MaximumBatchCount,
     purgedFileCount : Nat,
     batchCount : Nat,
     left : SUBSET Files,       \* the files of the batch still to be asked about
     gone : SUBSET Files]       \* those of it whose copies are confirmed gone

NoSweep == [phase |-> "off", now |-> 0, remainingBatchCount |-> 0,
            purgedFileCount |-> 0, batchCount |-> 0, left |-> {}, gone |-> {}]

TypeOK ==
    /\ clock \in Days
    /\ phase \in [Runs -> RunPhases]
    /\ uploadedAt \in [Runs -> Days]
    /\ expiresAt \in [Files -> Expiries \cup {None}]
    /\ purgedAt \in [Files -> Days \cup {None}]
    /\ sent \subseteq Files
    /\ pending \subseteq sent
    /\ copies \subseteq sent
    /\ rows \subseteq sent
    /\ sweep \in [Sweeps -> SweepStates]
    /\ \A s \in Sweeps : sweep[s].phase = "asking" => sweep[s].remainingBatchCount > 0

Init ==
    /\ clock = 0
    /\ phase = [r \in Runs |-> "idle"]
    /\ uploadedAt = [r \in Runs |-> 0]
    /\ expiresAt = [f \in Files |-> None]
    /\ purgedAt = [f \in Files |-> None]
    /\ sent = {}
    /\ pending = {}
    /\ copies = {}
    /\ rows = {}
    /\ sweep = [s \in Sweeps |-> NoSweep]

ElapseDay ==
    /\ clock < ClockLimit
    /\ clock' = clock + 1
    /\ UNCHANGED <<runVars, copies, purgedAt, sweep>>

--------------------------------------------------------------------------------
(* The upload step of a run                                                 *)

MoveTo(r, from, to) ==
    /\ phase[r] = from
    /\ phase' = [phase EXCEPT ![r] = to]

UploadAiRunMedia(r) ==
    /\ MoveTo(r, "idle", "uploading")
    /\ uploadedAt' = [uploadedAt EXCEPT ![r] = clock]
    /\ UNCHANGED <<clock, sent, pending, copies, expiresAt, rows, purgedAt, sweep>>

\* The driver hands over one file.  Only when all are handed over does it
\* return, and the rows begin to be written, all at once.
PrepareAttachedFile(f) ==
    LET r == RunOf[f]
        media == MediaOf(r)
    IN  /\ f \notin sent
        /\ sent' = sent \cup {f}
        /\ copies' = copies \cup {f}
        /\ \E expiry \in Expiries : expiresAt' = [expiresAt EXCEPT ![f] = expiry]
        /\ IF media \subseteq sent'
              THEN MoveTo(r, "uploading", "recording") /\ pending' = pending \cup media
              ELSE MoveTo(r, "uploading", "uploading") /\ UNCHANGED pending
        /\ UNCHANGED <<clock, uploadedAt, rows, purgedAt, sweep>>

\* An expiry that is not after the upload is not recorded but thrown.
IsRecordable(f) == expiresAt[f] # None => expiresAt[f] > uploadedAt[RunOf[f]]

SaveProviderUploadedFile(f) ==
    LET r == RunOf[f]
    IN  /\ f \in pending
        /\ IsRecordable(f)
        /\ pending' = pending \ {f}
        /\ rows' = rows \cup {f}
        /\ phase' = [phase EXCEPT ![r] =
                        IF @ = "recording" /\ MediaOf(r) \subseteq rows' THEN "reading" ELSE @]
        /\ UNCHANGED <<clock, uploadedAt, sent, copies, expiresAt, purgedAt, sweep>>

\* One row is refused, for its expiry or for the name the provider gave the copy: the
\* step throws, and the other rows are written still.
FailToRecord(f) ==
    /\ f \in pending
    /\ Faults \cap {"database", "provider"} # {} \/ ~IsRecordable(f)
    /\ pending' = pending \ {f}
    /\ phase' = [phase EXCEPT ![RunOf[f]] = "over"]
    /\ UNCHANGED <<clock, uploadedAt, sent, copies, expiresAt, rows, purgedAt, sweep>>

\* An upload raises, maybe after the provider took the file: what was handed
\* over before it has no row, and gets none.
FailToUpload(f) ==
    /\ "provider" \in Faults
    /\ f \notin sent
    /\ MoveTo(RunOf[f], "uploading", "over")
    /\ \/ UNCHANGED <<sent, copies>>
       \/ sent' = sent \cup {f} /\ copies' = copies \cup {f}
    /\ UNCHANGED <<clock, uploadedAt, pending, expiresAt, rows, purgedAt, sweep>>

\* The run has no more use for its copies, or its process died.
EndRun(r) ==
    /\ phase[r] = "reading" \/ ("crash" \in Faults /\ phase[r] \in {"uploading", "recording"})
    /\ MoveTo(r, phase[r], "over")
    /\ pending' = pending \ MediaOf(r)
    /\ UNCHANGED <<clock, uploadedAt, sent, copies, expiresAt, rows, purgedAt, sweep>>

\* The provider drops a copy on its own clock.
ExpireAtProvider(f) ==
    /\ f \in copies
    /\ expiresAt[f] \in Nat
    /\ expiresAt[f] <= clock
    /\ copies' = copies \ {f}
    /\ UNCHANGED <<clock, runVars, purgedAt, sweep>>

--------------------------------------------------------------------------------
(* The sweep                                                                *)

\* Faulty form: a copy nobody dated is past its time at once.
IsPastItsTime_UndatedAtOnce(f, now) ==
    IF expiresAt[f] = None THEN TRUE ELSE expiresAt[f] < now

\* Past the expiry the provider stated or, when it stated none, past ours.
IsPastItsTime(f, now) ==
    IF expiresAt[f] = None
        THEN uploadedAt[RunOf[f]] + UnstatedExpiryDayCount < now
        ELSE expiresAt[f] < now

\* Faulty form: rows that are stamped are found again.
ExpiredRows_StampedToo(now) == {f \in rows : IsPastItsTime(f, now)}

\* The WHERE of findExpiredProviderUploadedFiles.
ExpiredRows(now) == {f \in rows : purgedAt[f] = None /\ IsPastItsTime(f, now)}

\* Its ORDER BY and LIMIT: as many as fit, none left out for a younger one.
OldestBatches(found) ==
    {batch \in SUBSET found :
        /\ \/ Cardinality(batch) = FileCountPerBatch
           \/ Cardinality(batch) < FileCountPerBatch /\ batch = found
        /\ \A f \in batch : \A g \in found \ batch :
              uploadedAt[RunOf[f]] <= uploadedAt[RunOf[g]]}

SweepStep(s, next) ==
    /\ sweep' = [sweep EXCEPT ![s] = next]
    /\ UNCHANGED <<clock, runVars>>

\* The schedule fires, or the queue delivers a stalled sweep again; the clock
\* is read once.
FireSweep(s) ==
    /\ sweep[s].phase \in {"off", "abandoned"}
    /\ SweepStep(s, [NoSweep EXCEPT !.phase = "finding", !.now = clock,
                                    !.remainingBatchCount = MaximumBatchCount])
    /\ UNCHANGED <<copies, purgedAt>>

\* One batch, unless none is left to make or nothing is found.
FindExpiredProviderUploadedFiles(s) ==
    LET found == ExpiredRows(sweep[s].now)
    IN  /\ sweep[s].phase = "finding"
        /\ \/ /\ sweep[s].remainingBatchCount = 0 \/ found = {}
              /\ SweepStep(s, NoSweep)
           \/ /\ sweep[s].remainingBatchCount > 0 /\ found # {}
              /\ \E batch \in OldestBatches(found) :
                    SweepStep(s, [sweep[s] EXCEPT !.phase = "asking", !.left = batch,
                                                  !.gone = {}])
        /\ UNCHANGED <<copies, purgedAt>>

\* The file is deleted, or the provider knows no such file.
DeleteProviderCopy(s, f) ==
    /\ f \in sweep[s].left \ Stuck
    /\ copies' = copies \ {f}
    /\ SweepStep(s, [sweep[s] EXCEPT !.left = @ \ {f}, !.gone = @ \cup {f}])
    /\ UNCHANGED purgedAt

\* Faulty form: an answer that establishes nothing counts as gone.
FailToDelete_CountsAsGone(s, f) ==
    /\ f \in sweep[s].left
    /\ "provider" \in Faults \/ f \in Stuck
    /\ SweepStep(s, [sweep[s] EXCEPT !.left = @ \ {f}, !.gone = @ \cup {f}])
    /\ UNCHANGED <<copies, purgedAt>>

\* The delete raises, maybe after its effect, or there is no driver to ask: the
\* row is left as it was.
FailToDelete(s, f) ==
    /\ f \in sweep[s].left
    /\ \/ "provider" \in Faults /\ copies' \in {copies, copies \ {f}}
       \/ f \in Stuck /\ UNCHANGED copies
    /\ SweepStep(s, [sweep[s] EXCEPT !.left = @ \ {f}])
    /\ UNCHANGED purgedAt

\* What a finished batch leaves the sweep with.
NextBatch(w) ==
    [w EXCEPT !.phase = "finding",
              !.remainingBatchCount = @ - 1,
              !.purgedFileCount = @ + Cardinality(w.gone),
              !.batchCount = @ + 1,
              !.gone = {}]

IsBatchOver(w) == w.phase = "asking" /\ w.left = {}

\* The one UPDATE of a batch: the date is the sweep's.
SaveProviderPurgeStamp(s) ==
    /\ IsBatchOver(sweep[s])
    /\ sweep[s].gone # {}
    /\ purgedAt' = [f \in Files |->
                       IF f \in sweep[s].gone THEN sweep[s].now ELSE purgedAt[f]]
    /\ SweepStep(s, NextBatch(sweep[s]))
    /\ UNCHANGED copies

\* Faulty form: a batch that settled nothing is followed by the next.
StopAtUnsettledBatch_GoesOn(s) ==
    /\ IsBatchOver(sweep[s])
    /\ sweep[s].gone = {}
    /\ SweepStep(s, NextBatch(sweep[s]))
    /\ UNCHANGED <<copies, purgedAt>>

\* A batch of which nothing could be confirmed gone ends the sweep.
StopAtUnsettledBatch(s) ==
    /\ IsBatchOver(sweep[s])
    /\ sweep[s].gone = {}
    /\ SweepStep(s, NoSweep)
    /\ UNCHANGED <<copies, purgedAt>>

\* The process dies or a query throws, the stamp's after its effect perhaps.
AbandonSweep(s) ==
    /\ Faults \cap {"crash", "database"} # {}
    /\ sweep[s].phase \in {"finding", "asking"}
    /\ SweepStep(s, [NoSweep EXCEPT !.phase = "abandoned"])
    /\ UNCHANGED <<copies, purgedAt>>

--------------------------------------------------------------------------------

ContinueSweep(s) ==
    \/ FindExpiredProviderUploadedFiles(s)
    \/ \E f \in Files : DeleteProviderCopy(s, f) \/ FailToDelete(s, f)
    \/ SaveProviderPurgeStamp(s)
    \/ StopAtUnsettledBatch(s)

Next ==
    \/ ElapseDay
    \/ \E r \in Runs : UploadAiRunMedia(r) \/ EndRun(r)
    \/ \E f \in Files :
          \/ PrepareAttachedFile(f)
          \/ SaveProviderUploadedFile(f)
          \/ FailToRecord(f)
          \/ FailToUpload(f)
          \/ ExpireAtProvider(f)
    \/ \E s \in Sweeps : FireSweep(s) \/ ContinueSweep(s) \/ AbandonSweep(s)

Spec == Init /\ [][Next]_vars

\* The schedule fires for ever and a sweep under way goes on; a provider that
\* is asked again and again answers some time; sweeps are abandoned for a while
\* at most.
Fairness ==
    /\ \A s \in Sweeps : WF_vars(FireSweep(s)) /\ WF_vars(ContinueSweep(s))
    /\ \A s \in Sweeps : \A f \in Files : SF_vars(DeleteProviderCopy(s, f))
    /\ <>[][\A s \in Sweeps : ~AbandonSweep(s)]_vars

FairSpec == Spec /\ Fairness

--------------------------------------------------------------------------------

\* A row that is stamped says that the copy is gone, and it is: whatever calls
\* failed after their effect, whatever sweep died between its calls and its
\* stamp, and however many sweeps asked at once.
StampedCopyIsGone == \A f \in Files : purgedAt[f] # None => f \notin copies

\* A provider that cannot be reached costs a sweep one batch of calls: each
\* batch the sweep went on from took a copy back.
OutageCostsOneBatch ==
    \A s \in Sweeps : sweep[s].batchCount <= sweep[s].purgedFileCount

\* No copy is taken from a run that is within its time limit, unless the
\* provider had dated it, and the date had come: no sweep, whichever run's files
\* it finds, is ahead of a run that is still reading.
CopyStaysForItsRun ==
    [][\A f \in copies \ copies' :
          LET r == RunOf[f]
          IN  \/ phase[r] = "over" /\ f \notin pending
              \/ clock > uploadedAt[r] + RunDayCount
              \/ expiresAt[f] \in Nat /\ expiresAt[f] <= clock]_vars

\* Fewer files than a batch holds are stuck.
FewAreStuck == Cardinality(Stuck) < FileCountPerBatch

\* While fewer files are stuck than a batch holds, every recorded copy whose
\* time is up is taken back and its row stamped: no failing file, younger or
\* older, keeps the sweeps from it for ever.
RipeCopyIsTakenBack ==
    FewAreStuck =>
        \A f \in Files \ Stuck :
            (f \in rows /\ IsPastItsTime(f, clock)) ~> (purgedAt[f] # None)

================================================================================
