-------------------------- MODULE ProviderCopiesProofs -------------------------
(***************************************************************************)
(* What holds of ProviderCopies for any media and any number of sweeps,    *)
(* under any faults.  A copy that is gone does not come back, because a    *)
(* file is handed over once: so what a sweep has confirmed stays true      *)
(* until it stamps it, whatever happens in between.  And what a sweep has  *)
(* found ripe stays ripe, because neither the expiry nor the upload's date *)
(* of a file changes once it has a row.                                    *)
(***************************************************************************)
EXTENDS ProviderCopies, FiniteSetTheorems, TLAPS

\* The steps of a run's upload, of the providers and of the calendar.
RunStep ==
    \/ ElapseDay
    \/ \E r \in Runs : UploadAiRunMedia(r) \/ EndRun(r)
    \/ \E f \in Files :
          \/ PrepareAttachedFile(f)
          \/ SaveProviderUploadedFile(f)
          \/ FailToRecord(f)
          \/ FailToUpload(f)
          \/ ExpireAtProvider(f)

\* The steps of a sweep.
PurgeStep(s) == FireSweep(s) \/ ContinueSweep(s) \/ AbandonSweep(s)

\* A step is one of a run or one of a sweep.
LEMMA StepsAreOfRunsOrSweeps ==
  Next <=> RunStep \/ \E s \in Sweeps : PurgeStep(s)
BY DEF Next, RunStep, PurgeStep

--------------------------------------------------------------------------------
(* Types                                                                    *)

\* A batch is a part of what was found.
LEMMA BatchIsFound ==
  ASSUME NEW found, NEW batch \in OldestBatches(found)
  PROVE  batch \subseteq found
BY DEF OldestBatches

\* What a batch confirmed gone can be counted.
LEMMA BatchGoneCount ==
  ASSUME NEW w \in SweepStates
  PROVE  /\ Cardinality(w.gone) \in Nat
         /\ w.gone # {} => Cardinality(w.gone) >= 1
<1>1. IsFiniteSet(w.gone)
  BY CopyAssumption, FS_Subset DEF SweepStates
<1> QED
  BY <1>1, FS_CardinalityType, FS_EmptySet

\* The steps of the runs keep the types.
LEMMA RunStepTypeOK == TypeOK /\ RunStep => TypeOK'
<1> SUFFICES ASSUME TypeOK, RunStep
             PROVE  TypeOK'
  OBVIOUS
<1> USE CopyAssumption DEF TypeOK, runVars, MoveTo, RunPhases, Days, MediaOf
<1>1. CASE ElapseDay
  BY <1>1 DEF ElapseDay
<1>2. ASSUME NEW r \in Runs, UploadAiRunMedia(r)
      PROVE  TypeOK'
  BY <1>2 DEF UploadAiRunMedia
<1>3. ASSUME NEW r \in Runs, EndRun(r)
      PROVE  TypeOK'
  BY <1>3 DEF EndRun
<1>4. ASSUME NEW f \in Files, PrepareAttachedFile(f)
      PROVE  TypeOK'
  BY <1>4 DEF PrepareAttachedFile
<1>5. ASSUME NEW f \in Files, SaveProviderUploadedFile(f)
      PROVE  TypeOK'
  BY <1>5 DEF SaveProviderUploadedFile
<1>6. ASSUME NEW f \in Files, FailToRecord(f)
      PROVE  TypeOK'
  BY <1>6 DEF FailToRecord
<1>7. ASSUME NEW f \in Files, FailToUpload(f)
      PROVE  TypeOK'
  BY <1>7 DEF FailToUpload
<1>8. ASSUME NEW f \in Files, ExpireAtProvider(f)
      PROVE  TypeOK'
  BY <1>8 DEF ExpireAtProvider
<1> QED
  BY <1>1, <1>2, <1>3, <1>4, <1>5, <1>6, <1>7, <1>8 DEF RunStep

\* A sweep that is set to a typed record leaves the types as they were.
LEMMA SweepStepTypeOK ==
  ASSUME TypeOK, NEW s \in Sweeps, NEW next \in SweepStates,
         next.phase = "asking" => next.remainingBatchCount > 0,
         SweepStep(s, next),
         copies' \subseteq copies,
         purgedAt' \in [Files -> Days \cup {None}]
  PROVE  TypeOK'
<1>1. sweep' \in [Sweeps -> SweepStates]
  BY DEF SweepStep, TypeOK
<1>2. \A t \in Sweeps : sweep'[t].phase = "asking" => sweep'[t].remainingBatchCount > 0
  BY DEF SweepStep, TypeOK
<1>3. UNCHANGED <<clock, runVars>>
  BY DEF SweepStep
<1> QED
  BY <1>1, <1>2, <1>3 DEF TypeOK, runVars

\* The steps of a sweep keep the types.
LEMMA PurgeStepTypeOK ==
  ASSUME TypeOK, NEW s \in Sweeps, PurgeStep(s)
  PROVE  TypeOK'
<1> DEFINE w == sweep[s]
<1>1. /\ w \in SweepStates
      /\ w.phase = "asking" => w.remainingBatchCount > 0
      /\ purgedAt \in [Files -> Days \cup {None}]
      /\ clock \in Days
  BY DEF TypeOK
<1>2. NoSweep \in SweepStates
  BY CopyAssumption DEF NoSweep, SweepStates, Days
<1> HIDE DEF w
<1>3. CASE FireSweep(s)
  <2>1. [NoSweep EXCEPT !.phase = "finding", !.now = clock,
                        !.remainingBatchCount = MaximumBatchCount] \in SweepStates
    <3>1. MaximumBatchCount \in 0..MaximumBatchCount
      BY CopyAssumption
    <3> QED
      BY <1>1, <3>1 DEF NoSweep, SweepStates
  <2> QED
    BY <1>1, <1>3, <2>1, SweepStepTypeOK DEF FireSweep, NoSweep
<1>4. CASE FindExpiredProviderUploadedFiles(s)
  <2>1. CASE SweepStep(s, NoSweep)
    BY <1>1, <1>2, <1>4, <2>1, SweepStepTypeOK DEF FindExpiredProviderUploadedFiles, NoSweep
  <2>2. ASSUME w.remainingBatchCount > 0,
               NEW batch \in OldestBatches(ExpiredRows(w.now)),
               SweepStep(s, [w EXCEPT !.phase = "asking", !.left = batch, !.gone = {}])
        PROVE  TypeOK'
    <3>1. batch \subseteq Files
      BY BatchIsFound DEF ExpiredRows, TypeOK
    <3>2. [w EXCEPT !.phase = "asking", !.left = batch, !.gone = {}] \in SweepStates
      BY <1>1, <3>1 DEF SweepStates
    <3>3. UNCHANGED <<copies, purgedAt>>
      BY <1>4 DEF FindExpiredProviderUploadedFiles
    <3> QED
      BY <1>1, <2>2, <3>2, <3>3, SweepStepTypeOK DEF SweepStates
  <2> QED
    BY <1>4, <2>1, <2>2 DEF FindExpiredProviderUploadedFiles, w
<1>5. ASSUME NEW f \in Files, DeleteProviderCopy(s, f)
      PROVE  TypeOK'
  <2>1. [w EXCEPT !.left = @ \ {f}, !.gone = @ \cup {f}] \in SweepStates
    BY <1>1 DEF SweepStates
  <2> QED
    BY <1>1, <1>5, <2>1, SweepStepTypeOK DEF DeleteProviderCopy, SweepStates, w
<1>6. ASSUME NEW f \in Files, FailToDelete(s, f)
      PROVE  TypeOK'
  <2>1. [w EXCEPT !.left = @ \ {f}] \in SweepStates
    BY <1>1 DEF SweepStates
  <2> QED
    BY <1>1, <1>6, <2>1, SweepStepTypeOK DEF FailToDelete, SweepStates, w
<1>7. CASE SaveProviderPurgeStamp(s)
  <2>1. w.phase = "asking" /\ Cardinality(w.gone) \in Nat
    BY <1>1, <1>7, BatchGoneCount DEF SaveProviderPurgeStamp, IsBatchOver, w
  <2>2. NextBatch(w) \in SweepStates /\ NextBatch(w).phase = "finding"
    <3>1. /\ w.remainingBatchCount - 1 \in 0..MaximumBatchCount
          /\ w.purgedFileCount + Cardinality(w.gone) \in Nat
          /\ w.batchCount + 1 \in Nat
      BY <1>1, <2>1, CopyAssumption DEF SweepStates
    <3> QED
      BY <1>1, <3>1 DEF NextBatch, SweepStates
  <2>3. purgedAt' \in [Files -> Days \cup {None}]
    BY <1>1, <1>7 DEF SaveProviderPurgeStamp, SweepStates, w
  <2> QED
    BY <1>1, <1>7, <2>2, <2>3, SweepStepTypeOK DEF SaveProviderPurgeStamp, w
<1>8. CASE StopAtUnsettledBatch(s)
  BY <1>1, <1>2, <1>8, SweepStepTypeOK DEF StopAtUnsettledBatch, NoSweep
<1>9. CASE AbandonSweep(s)
  <2>1. [NoSweep EXCEPT !.phase = "abandoned"] \in SweepStates
    BY CopyAssumption DEF NoSweep, SweepStates, Days
  <2> QED
    BY <1>1, <1>9, <2>1, SweepStepTypeOK DEF AbandonSweep, NoSweep
<1> QED
  BY <1>3, <1>4, <1>5, <1>6, <1>7, <1>8, <1>9 DEF PurgeStep, ContinueSweep

\* The copies, the rows and the sweeps have their types, for any number of
\* media, runs and sweeps.
THEOREM CopyTypeCorrect == Spec => []TypeOK
<1>1. Init => TypeOK
  BY CopyAssumption DEF Init, TypeOK, RunPhases, Days, NoSweep, SweepStates
<1>2. TypeOK /\ [Next]_vars => TypeOK'
  <2>1. TypeOK /\ UNCHANGED vars => TypeOK'
    BY DEF TypeOK, vars, runVars
  <2> QED
    BY <2>1, StepsAreOfRunsOrSweeps, RunStepTypeOK, PurgeStepTypeOK
<1> QED
  BY <1>1, <1>2, PTL DEF Spec

--------------------------------------------------------------------------------
(* The invariant                                                            *)

SentHasBegun == \A f \in sent : phase[RunOf[f]] # "idle"

FoundHasARow == \A s \in Sweeps : sweep[s].left \cup sweep[s].gone \subseteq rows

ConfirmedIsGone == \A s \in Sweeps : sweep[s].gone \cap copies = {}

StampedWasSent == \A f \in Files : purgedAt[f] # None => f \in sent \ copies

LeftIsRipe ==
    \A s \in Sweeps :
        /\ sweep[s].now <= clock
        /\ \A f \in sweep[s].left : IsPastItsTime(f, sweep[s].now)

PurgeInvariant ==
    /\ SentHasBegun
    /\ FoundHasARow
    /\ ConfirmedIsGone
    /\ StampedWasSent
    /\ LeftIsRipe
    /\ OutageCostsOneBatch

\* A run's upload step leaves what was handed over before as it is dated, and
\* adds no copy of a file that was handed over before.
SentIsKept ==
    /\ clock <= clock'
    /\ UNCHANGED <<purgedAt, sweep>>
    /\ sent \subseteq sent'
    /\ rows \subseteq rows'
    /\ copies' \cap sent \subseteq copies
    /\ \A f \in sent : /\ phase'[RunOf[f]] # "idle"
                       /\ uploadedAt'[RunOf[f]] = uploadedAt[RunOf[f]]
                       /\ expiresAt'[f] = expiresAt[f]

\* A run adds copies and takes none back.
LEMMA RunStepKeepsTheSent ==
  ASSUME TypeOK, SentHasBegun, RunStep
  PROVE  SentIsKept /\ SentHasBegun'
<1> USE CopyAssumption DEF TypeOK, SentHasBegun, SentIsKept, runVars, MoveTo, MediaOf, Days
<1>1. \A f \in Files : RunOf[f] \in Runs
  BY DEF Runs
<1>2. CASE ElapseDay
  BY <1>2 DEF ElapseDay
<1>3. ASSUME NEW r \in Runs, UploadAiRunMedia(r)
      PROVE  SentIsKept /\ SentHasBegun'
  BY <1>1, <1>3 DEF UploadAiRunMedia
<1>4. ASSUME NEW r \in Runs, EndRun(r)
      PROVE  SentIsKept /\ SentHasBegun'
  BY <1>1, <1>4 DEF EndRun
<1>5. ASSUME NEW f \in Files, PrepareAttachedFile(f)
      PROVE  SentIsKept /\ SentHasBegun'
  BY <1>1, <1>5 DEF PrepareAttachedFile
<1>6. ASSUME NEW f \in Files, SaveProviderUploadedFile(f)
      PROVE  SentIsKept /\ SentHasBegun'
  BY <1>1, <1>6 DEF SaveProviderUploadedFile
<1>7. ASSUME NEW f \in Files, FailToRecord(f)
      PROVE  SentIsKept /\ SentHasBegun'
  BY <1>1, <1>7 DEF FailToRecord
<1>8. ASSUME NEW f \in Files, FailToUpload(f)
      PROVE  SentIsKept /\ SentHasBegun'
  BY <1>1, <1>8 DEF FailToUpload
<1>9. ASSUME NEW f \in Files, ExpireAtProvider(f)
      PROVE  SentIsKept /\ SentHasBegun'
  BY <1>1, <1>9 DEF ExpireAtProvider
<1> QED
  BY <1>2, <1>3, <1>4, <1>5, <1>6, <1>7, <1>8, <1>9 DEF RunStep

\* A step that takes no copy back keeps the invariant of the sweeps.
LEMMA RunStepInvariant ==
  ASSUME TypeOK, TypeOK', PurgeInvariant, SentIsKept, SentHasBegun'
  PROVE  PurgeInvariant'
<1> USE DEF SentIsKept
<1>1. FoundHasARow'
  BY DEF PurgeInvariant, FoundHasARow
<1>2. ConfirmedIsGone'
  BY DEF PurgeInvariant, ConfirmedIsGone, FoundHasARow, TypeOK
<1>3. StampedWasSent'
  BY DEF PurgeInvariant, StampedWasSent, TypeOK
<1>4. LeftIsRipe'
  <2>1. ASSUME NEW s \in Sweeps
        PROVE  (sweep[s].now <= clock)'
    BY DEF PurgeInvariant, LeftIsRipe, TypeOK, SweepStates, Days
  <2>2. ASSUME NEW s \in Sweeps, NEW f \in sweep[s].left
        PROVE  IsPastItsTime(f, sweep[s].now)'
    <3>1. f \in sent /\ IsPastItsTime(f, sweep[s].now)
      BY DEF PurgeInvariant, LeftIsRipe, FoundHasARow, TypeOK
    <3> QED
      BY <3>1 DEF IsPastItsTime
  <2> QED
    BY <2>1, <2>2 DEF LeftIsRipe
<1>5. OutageCostsOneBatch'
  BY DEF PurgeInvariant, OutageCostsOneBatch
<1> QED
  BY <1>1, <1>2, <1>3, <1>4, <1>5 DEF PurgeInvariant


\* A step of one sweep leaves the dates and the rows of the files alone.
LEMMA RipenessIsKept ==
  ASSUME UNCHANGED <<clock, runVars>>
  PROVE  \A f \in Files : \A n : IsPastItsTime(f, n)' <=> IsPastItsTime(f, n)
BY DEF runVars, IsPastItsTime

\* The parts of the invariant that a step of a sweep may disturb, said of the
\* record it leaves behind.
LEMMA SweepStepInvariant ==
  ASSUME TypeOK, PurgeInvariant, NEW s \in Sweeps, NEW next \in SweepStates,
         SweepStep(s, next),
         next.left \cup next.gone \subseteq rows,
         next.gone \cap copies' = {},
         next.now <= clock,
         \A f \in next.left : IsPastItsTime(f, next.now),
         next.batchCount <= next.purgedFileCount,
         copies' \subseteq copies,
         \A f \in Files : purgedAt'[f] # None => f \in sent \ copies'
  PROVE  PurgeInvariant'
<1>1. /\ UNCHANGED <<clock, runVars>>
      /\ sweep' = [sweep EXCEPT ![s] = next]
  BY DEF SweepStep
<1>2. sweep'[s] = next /\ \A t \in Sweeps \ {s} : sweep'[t] = sweep[t]
  BY <1>1 DEF TypeOK
<1>3. SentHasBegun'
  BY <1>1 DEF PurgeInvariant, SentHasBegun, runVars
<1>4. FoundHasARow'
  BY <1>1, <1>2 DEF PurgeInvariant, FoundHasARow, runVars
<1>5. ConfirmedIsGone'
  BY <1>2 DEF PurgeInvariant, ConfirmedIsGone
<1>6. StampedWasSent'
  BY <1>1 DEF StampedWasSent, runVars
<1>7. LeftIsRipe'
  <2>1. ASSUME NEW t \in Sweeps
        PROVE  (sweep[t].now <= clock)'
    BY <1>1, <1>2 DEF PurgeInvariant, LeftIsRipe
  <2>2. ASSUME NEW t \in Sweeps, NEW f \in sweep'[t].left
        PROVE  IsPastItsTime(f, sweep[t].now)'
    <3>1. f \in Files
      BY <1>2, <2>2 DEF PurgeInvariant, FoundHasARow, TypeOK
    <3>2. CASE t = s
      BY <1>1, <1>2, <2>2, <3>1, <3>2 DEF IsPastItsTime, runVars
    <3>3. CASE t # s
      <4>1. IsPastItsTime(f, sweep[t].now) /\ sweep'[t] = sweep[t]
        BY <1>2, <2>2, <3>3 DEF PurgeInvariant, LeftIsRipe
      <4> QED
        BY <1>1, <4>1 DEF IsPastItsTime, runVars
    <3> QED
      BY <3>2, <3>3
  <2> QED
    BY <2>1, <2>2 DEF LeftIsRipe
<1>8. OutageCostsOneBatch'
  BY <1>2 DEF PurgeInvariant, OutageCostsOneBatch
<1> QED
  BY <1>3, <1>4, <1>5, <1>6, <1>7, <1>8 DEF PurgeInvariant

\* A step of a sweep keeps the invariant, for itself and for the other sweeps.
LEMMA PurgeStepInvariant ==
  ASSUME TypeOK, TypeOK', PurgeInvariant, NEW s \in Sweeps, PurgeStep(s)
  PROVE  PurgeInvariant'
<1> DEFINE w == sweep[s]
<1>1. /\ w \in SweepStates
      /\ sweep'[s] \in SweepStates
      /\ clock \in Nat
      /\ rows \subseteq Files /\ rows \subseteq sent
  BY DEF TypeOK, Days
<1>2. /\ w.left \cup w.gone \subseteq rows
      /\ w.gone \cap copies = {}
      /\ w.now <= clock
      /\ \A f \in w.left : IsPastItsTime(f, w.now)
      /\ w.batchCount <= w.purgedFileCount
      /\ \A f \in Files : purgedAt[f] # None => f \in sent \ copies
  BY DEF PurgeInvariant, FoundHasARow, ConfirmedIsGone, LeftIsRipe, OutageCostsOneBatch,
         StampedWasSent
<1>3. ASSUME NEW next, SweepStep(s, next)
      PROVE  next \in SweepStates
  BY <1>1, <1>3 DEF SweepStep, TypeOK
<1>4. CASE UNCHANGED <<copies, purgedAt>> /\ SweepStep(s, NoSweep)
  BY <1>1, <1>2, <1>3, <1>4, SweepStepInvariant DEF NoSweep
<1> HIDE DEF w
<1>5. CASE FireSweep(s)
  <2> DEFINE next == [NoSweep EXCEPT !.phase = "finding", !.now = clock,
                                     !.remainingBatchCount = MaximumBatchCount]
  <2>1. SweepStep(s, next) /\ UNCHANGED <<copies, purgedAt>>
    BY <1>5 DEF FireSweep
  <2>2. /\ next.left = {} /\ next.gone = {} /\ next.now = clock
        /\ next.batchCount = 0 /\ next.purgedFileCount = 0
    BY DEF NoSweep
  <2>3. next \in SweepStates
    BY <1>3, <2>1
  <2> HIDE DEF next
  <2> QED
    BY <1>1, <1>2, <2>1, <2>2, <2>3, SweepStepInvariant
<1>6. CASE AbandonSweep(s)
  BY <1>1, <1>2, <1>3, <1>6, SweepStepInvariant DEF AbandonSweep, NoSweep
<1>7. CASE StopAtUnsettledBatch(s)
  BY <1>4, <1>7 DEF StopAtUnsettledBatch
<1>8. CASE FindExpiredProviderUploadedFiles(s)
  <2>1. UNCHANGED <<copies, purgedAt>>
    BY <1>8 DEF FindExpiredProviderUploadedFiles
  <2>2. ASSUME NEW batch \in OldestBatches(ExpiredRows(w.now)),
               SweepStep(s, [w EXCEPT !.phase = "asking", !.left = batch, !.gone = {}])
        PROVE  PurgeInvariant'
    <3> DEFINE next == [w EXCEPT !.phase = "asking", !.left = batch, !.gone = {}]
    <3>1. \A f \in batch : f \in rows /\ IsPastItsTime(f, w.now)
      BY BatchIsFound DEF ExpiredRows
    <3>2. /\ next.left = batch /\ next.gone = {} /\ next.now = w.now
          /\ next.batchCount = w.batchCount
          /\ next.purgedFileCount = w.purgedFileCount
      BY <1>1 DEF SweepStates
    <3>3. next \in SweepStates /\ SweepStep(s, next)
      BY <1>3, <2>2
    <3> HIDE DEF next
    <3> QED
      BY <1>2, <2>1, <3>1, <3>2, <3>3, SweepStepInvariant
  <2> QED
    BY <1>4, <1>8, <2>1, <2>2 DEF FindExpiredProviderUploadedFiles, w
<1>9. ASSUME NEW f \in Files, DeleteProviderCopy(s, f)
      PROVE  PurgeInvariant'
  <2> DEFINE next == [w EXCEPT !.left = @ \ {f}, !.gone = @ \cup {f}]
  <2>1. /\ f \in w.left
        /\ copies' = copies \ {f}
        /\ UNCHANGED purgedAt
        /\ SweepStep(s, next)
    BY <1>9 DEF DeleteProviderCopy, w
  <2>2. /\ next.left = w.left \ {f} /\ next.gone = w.gone \cup {f} /\ next.now = w.now
        /\ next.batchCount = w.batchCount
        /\ next.purgedFileCount = w.purgedFileCount
    BY <1>1 DEF SweepStates
  <2>3. next \in SweepStates
    BY <1>3, <2>1
  <2> HIDE DEF next
  <2> QED
    BY <1>2, <2>1, <2>2, <2>3, SweepStepInvariant
<1>10. ASSUME NEW f \in Files, FailToDelete(s, f)
       PROVE  PurgeInvariant'
  <2> DEFINE next == [w EXCEPT !.left = @ \ {f}]
  <2>1. /\ copies' \subseteq copies
        /\ UNCHANGED purgedAt
        /\ SweepStep(s, next)
    BY <1>10 DEF FailToDelete, w
  <2>2. /\ next.left = w.left \ {f} /\ next.gone = w.gone /\ next.now = w.now
        /\ next.batchCount = w.batchCount
        /\ next.purgedFileCount = w.purgedFileCount
    BY <1>1 DEF SweepStates
  <2>3. next \in SweepStates
    BY <1>3, <2>1
  <2> HIDE DEF next
  <2> QED
    BY <1>2, <2>1, <2>2, <2>3, SweepStepInvariant
<1>11. CASE SaveProviderPurgeStamp(s)
  <2> DEFINE next == NextBatch(w)
  <2>1. /\ w.gone # {} /\ w.left = {}
        /\ UNCHANGED copies
        /\ purgedAt' = [f \in Files |-> IF f \in w.gone THEN w.now ELSE purgedAt[f]]
        /\ SweepStep(s, next)
    BY <1>11 DEF SaveProviderPurgeStamp, IsBatchOver, w
  <2>2. Cardinality(w.gone) \in Nat /\ Cardinality(w.gone) >= 1
    BY <1>1, <2>1, BatchGoneCount
  <2>3. /\ next.left = {} /\ next.gone = {} /\ next.now = w.now
        /\ next.batchCount = w.batchCount + 1
        /\ next.purgedFileCount = w.purgedFileCount + Cardinality(w.gone)
    BY <1>1, <2>1 DEF SweepStates, NextBatch
  <2>4. next \in SweepStates
    BY <1>3, <2>1
  <2>5. next.batchCount <= next.purgedFileCount
    BY <1>1, <1>2, <2>2, <2>3 DEF SweepStates
  <2>6. \A f \in Files : purgedAt'[f] # None => f \in sent \ copies'
    BY <1>1, <1>2, <2>1
  <2> HIDE DEF next
  <2> QED
    BY <1>2, <2>1, <2>3, <2>4, <2>5, <2>6, SweepStepInvariant
<1> QED
  BY <1>5, <1>6, <1>7, <1>8, <1>9, <1>10, <1>11 DEF PurgeStep, ContinueSweep


--------------------------------------------------------------------------------
(* The theorems                                                             *)

\* Typed states that satisfy the invariant step to such states.
LEMMA InvariantStep ==
  TypeOK /\ TypeOK' /\ PurgeInvariant /\ [Next]_vars => PurgeInvariant'
<1>1. ASSUME PurgeInvariant, UNCHANGED vars
      PROVE  PurgeInvariant'
  BY <1>1 DEF vars, runVars, PurgeInvariant, SentHasBegun, FoundHasARow, ConfirmedIsGone,
              StampedWasSent, LeftIsRipe, IsPastItsTime, OutageCostsOneBatch
<1>2. ASSUME TypeOK, TypeOK', PurgeInvariant, RunStep
      PROVE  PurgeInvariant'
  BY <1>2, RunStepKeepsTheSent, RunStepInvariant DEF PurgeInvariant
<1> QED
  BY <1>1, <1>2, PurgeStepInvariant, StepsAreOfRunsOrSweeps

\* The invariant holds in every state of the copies.
LEMMA InvariantHolds == Spec => []PurgeInvariant
<1>1. Init => PurgeInvariant
  BY DEF Init, NoSweep, PurgeInvariant, SentHasBegun, FoundHasARow, ConfirmedIsGone,
         StampedWasSent, LeftIsRipe, OutageCostsOneBatch
<1> QED
  BY <1>1, InvariantStep, CopyTypeCorrect, PTL DEF Spec

\* A stamped row says the truth: its copy is gone, whatever call failed after
\* its effect, whatever sweep died and however many sweeps ran at once.
THEOREM StampIsTrue == Spec => []StampedCopyIsGone
<1>1. PurgeInvariant => StampedCopyIsGone
  BY DEF PurgeInvariant, StampedWasSent, StampedCopyIsGone
<1> QED
  BY <1>1, InvariantHolds, PTL

\* A sweep goes on only from batches of which it took something back.
THEOREM SweepStopsAtAnOutage == Spec => []OutageCostsOneBatch
<1>1. PurgeInvariant => OutageCostsOneBatch
  BY DEF PurgeInvariant
<1> QED
  BY <1>1, InvariantHolds, PTL

\* What may be taken from a run: nothing before the run is over or its limit is
\* past, unless the provider itself dated the copy.
MayBeTaken(f) ==
    \/ phase[RunOf[f]] = "over" /\ f \notin pending
    \/ clock > uploadedAt[RunOf[f]] + RunDayCount
    \/ expiresAt[f] \in Nat /\ expiresAt[f] <= clock

\* What a sweep found ripe may be taken.
LEMMA RipeMayBeTaken ==
  ASSUME TypeOK, PurgeInvariant, NEW s \in Sweeps, NEW f \in sweep[s].left
  PROVE  MayBeTaken(f)
<1>1. /\ f \in Files
      /\ RunOf[f] \in Runs
      /\ IsPastItsTime(f, sweep[s].now)
      /\ sweep[s].now <= clock
  BY DEF PurgeInvariant, FoundHasARow, LeftIsRipe, TypeOK, Runs
<1>2. /\ sweep[s].now \in Nat
      /\ clock \in Nat
      /\ uploadedAt[RunOf[f]] \in Nat
      /\ expiresAt[f] \in Nat \cup {None}
  <2>1. Days \subseteq Nat
    BY CopyAssumption DEF Days
  <2>2. sweep[s] \in SweepStates
    BY DEF TypeOK
  <2>3. Expiries \subseteq Nat \cup {None}
    BY CopyAssumption
  <2>4. sweep[s].now \in Nat
    BY <2>1, <2>2 DEF SweepStates
  <2>5. clock \in Nat /\ uploadedAt[RunOf[f]] \in Nat
    BY <1>1, <2>1 DEF TypeOK
  <2>6. expiresAt[f] \in Nat \cup {None}
    BY <1>1, <2>3 DEF TypeOK
  <2> QED
    BY <2>4, <2>5, <2>6
<1>3. CASE expiresAt[f] = None
  <2>1. uploadedAt[RunOf[f]] + UnstatedExpiryDayCount < sweep[s].now
    BY <1>1, <1>3 DEF IsPastItsTime
  <2> QED
    BY <1>1, <1>2, <2>1, CopyAssumption DEF MayBeTaken
<1>4. CASE expiresAt[f] # None
  BY <1>1, <1>2, <1>4 DEF IsPastItsTime, MayBeTaken
<1> QED
  BY <1>3, <1>4

\* No sweep takes a copy from a run that is within its time limit before the
\* provider's own date: what it found ripe was dated when it was found, and no
\* date of a recorded file changes.
THEOREM NoCopyIsTakenEarly == Spec => CopyStaysForItsRun
<1>1. ASSUME TypeOK, PurgeInvariant, [Next]_vars, NEW f \in copies \ copies'
      PROVE  MayBeTaken(f)
  <2>1. f \in Files
    BY <1>1 DEF TypeOK
  <2>2. CASE RunStep
    <3>1. PICK g \in Files : ExpireAtProvider(g)
      BY <1>1, <2>2 DEF RunStep, ElapseDay, UploadAiRunMedia, EndRun, PrepareAttachedFile,
                        SaveProviderUploadedFile, FailToRecord, FailToUpload
    <3> QED
      BY <1>1, <3>1 DEF ExpireAtProvider, MayBeTaken
  <2>3. ASSUME NEW s \in Sweeps, PurgeStep(s)
        PROVE  MayBeTaken(f)
    <3>1. f \in sweep[s].left
      BY <1>1, <2>3 DEF PurgeStep, ContinueSweep, FireSweep, AbandonSweep,
                        FindExpiredProviderUploadedFiles, DeleteProviderCopy, FailToDelete,
                        SaveProviderPurgeStamp, StopAtUnsettledBatch
    <3> QED
      BY <1>1, <3>1, RipeMayBeTaken
  <2>4. CASE UNCHANGED vars
    BY <1>1, <2>4 DEF vars
  <2> QED
    BY <1>1, <2>2, <2>3, <2>4, StepsAreOfRunsOrSweeps
<1>2. TypeOK /\ PurgeInvariant /\ [Next]_vars
        => [\A f \in copies \ copies' :
              LET r == RunOf[f]
              IN  \/ phase[r] = "over" /\ f \notin pending
                  \/ clock > uploadedAt[r] + RunDayCount
                  \/ expiresAt[f] \in Nat /\ expiresAt[f] <= clock]_vars
  BY <1>1 DEF MayBeTaken
<1> QED
  BY <1>2, CopyTypeCorrect, InvariantHolds, PTL DEF Spec, CopyStaysForItsRun

================================================================================
