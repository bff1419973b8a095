----------------------- MODULE AiRunMediaCollectionProofs -----------------------
(***************************************************************************)
(* What holds of the media of a run and of each fetch of one, for any      *)
(* lists of media, limits and budget and under any faults.  A fetch holds  *)
(* at most the response it is reading and those whose cancel rejected; the *)
(* time of a fetch is time of the budget; and what the outcomes, the files *)
(* and the rows say of a medium is one thing.                              *)
(***************************************************************************)
EXTENDS AiRunMediaCollection, TLAPS

FetchShape ==
    [phase : FetchPhases, url : Urls \cup {None}, remainingRedirectCount : Hops,
     allowance : Nat, spent : Nat, chunkCount : 0..MaximumReadChunkCount,
     readByteSize : 0..MaximumReadByteSize, failureReasonCode : FailureCodes \cup {None}]

FetchTyped ==
    /\ fetch \in FetchShape
    /\ fetch.spent <= fetch.allowance
    /\ held \subseteq Hops
    /\ stuck \subseteq held

\* The hops are numbered downwards: what is held was sent before the hop at hand,
\* but for the body that is being read, and nothing is held after the last.
ChainIsHeld ==
    /\ fetch.phase # "reading" => held \subseteq stuck
    /\ fetch.phase = "reading" => held \subseteq stuck \cup {Hop}
    /\ fetch.phase \in {"sending", "reading"} => \A hop \in stuck : hop > Hop

RecordedStages == {"collecting", "fetching", "saving", "collected", "prepared"}

CollectionTyped ==
    /\ media \in DeclaredMedia
    /\ stage \in Stages
    /\ outcomes \in Seq(Outcomes) /\ Len(outcomes) <= Len(media)
    /\ budget \in 0..MediaBudget
    /\ refusal \in MediaReasons \cup {None}
    /\ aborted \in BOOLEAN
    /\ files \subseteq DOMAIN media
    /\ rows \in [DOMAIN media -> RowStates]
    /\ uploaded \subseteq files
    /\ failure \in MediaReasons \cup {"PROVIDER_CALL_FAILED", None}
    /\ fetchTime \in Nat
    /\ clockMoved \in BOOLEAN

\* What each stage of the step takes as settled before it.
StagesKnow ==
    /\ stage \in RecordedStages => IsRecordable
    /\ stage \in {"fetching", "saving"} =>
          /\ Position <= Len(media)
          /\ refusal = None
          /\ Handling(Medium.kind) = "handle"
          /\ IsWithinByteSizeLimit(Medium.byteSize)
    /\ stage \notin {"fetching", "saving", "failed"} => fetch = NoFetch
    /\ stage = "declared" => outcomes = <<>> /\ files = {} /\ refusal = None
    /\ stage \notin {"prepared", "failed"} => uploaded = {}
    /\ stage = "prepared" => refusal = None /\ uploaded = files
    /\ stage # "failed" => failure = None

\* What a fetch spends is still in the budget it was allowed out of.
TimeIsMeasured ==
    /\ fetch.allowance <= budget /\ fetch.allowance <= MediumTimeout
    /\ ~clockMoved => fetchTime + budget = MediaBudget + fetch.spent
    /\ fetchTime <= MediumTimeout * Len(outcomes) + fetch.spent
    /\ fetch.spent = 0 \/ Len(outcomes) < Len(media)

\* A medium was read when its copy is kept, and recorded as readable then.
FilesFollowOutcomes ==
    /\ files \subseteq 1..Position
    /\ stage \notin {"saving", "failed"} => Position \notin files
    /\ \A m \in DOMAIN outcomes : outcomes[m] = "read" <=> m \in files
    /\ stage \in RecordedStages =>
          /\ \A m \in DOMAIN outcomes : rows[m] = "readable" <=> m \in files
          /\ \A m \in DOMAIN media : m > Len(outcomes) => rows[m] = "unfetched"

IsReadPhoto(m) ==
    /\ media[m].kind = "image"
    /\ IsWithinByteSizeLimit(media[m].byteSize)
    /\ outcomes[m] \in {"read", "unread"}

IsIgnoredAudio(m) == media[m].kind = "audio" /\ outcomes[m] = "ignored"

\* As long as nothing refused the run or told it to stop, every medium gone through
\* was a photo to be fetched or an audio to be left out.
OutcomesAreJudged ==
    stage \in RecordedStages /\ refusal = None =>
        /\ Len(media) <= MaximumMediaCount
        /\ ~aborted => \A m \in DOMAIN outcomes : IsReadPhoto(m) \/ IsIgnoredAudio(m)
        /\ stage \in {"collected", "prepared"} =>
              /\ Len(outcomes) = Len(media)
              /\ Handled # {} => MediaThat("read") # {}

RefusalHasItsCause ==
    /\ refusal = "MEDIA_UNSUPPORTED" => Declares("video")
    /\ refusal = "MEDIA_LIMIT_EXCEEDED" => IsOverALimit
    /\ refusal = "MEDIA_UNREADABLE" =>
          /\ stage \in {"collected", "failed"}
          /\ MediaThat("read") = {}
          /\ Declares("image") \/ aborted

CollectionInvariant ==
    /\ FetchTyped
    /\ ChainIsHeld
    /\ CollectionTyped
    /\ StagesKnow
    /\ TimeIsMeasured
    /\ FilesFollowOutcomes
    /\ OutcomesAreJudged
    /\ RefusalHasItsCause
    /\ RefusalIsTruthful

--------------------------------------------------------------------------------
(* One fetch                                                                *)

\* The client between two media holds nothing and has spent nothing.
LEMMA NoFetchIsIdle ==
  /\ NoFetch \in FetchShape
  /\ NoFetch.phase = "idle" /\ NoFetch.allowance = 0 /\ NoFetch.spent = 0
  BY FetchAssumption DEF NoFetch, FetchShape, FetchPhases, Hops

\* Giving up the body at hand leaves nothing held but what is stuck.
LEMMA CancelLeavesTheStuck ==
  ASSUME FetchTyped, ChainIsHeld, fetch.phase \in {"sending", "reading"},
         NEW hasBody, CancelBody(hasBody)
  PROVE  /\ held' = stuck'
         /\ stuck' \subseteq Hops
         /\ \A hop \in stuck' : hop >= Hop
<1>1. Hop \in Hops /\ Hop \in Nat /\ \A hop \in stuck : hop \in Nat
  BY FetchAssumption DEF FetchTyped, FetchShape, Hops, Hop
<1>2. /\ held \subseteq stuck \cup {Hop} /\ stuck \subseteq held /\ held \subseteq Hops
      /\ \A hop \in stuck : hop > Hop
  BY DEF FetchTyped, ChainIsHeld
<1>3. Hop \notin stuck
  BY <1>1, <1>2
<1>4. held' = stuck'
  BY <1>2, <1>3 DEF CancelBody
<1>5. stuck' \subseteq stuck \cup {Hop}
  BY DEF CancelBody
<1> QED
  BY <1>1, <1>2, <1>4, <1>5

\* Failing ends a fetch that holds nothing but what is stuck.
LEMMA FailLeavesTheStuck ==
  ASSUME FetchTyped, NEW code \in FailureCodes, FailFetch(code),
         held' \subseteq stuck', stuck' \subseteq held', held' \subseteq Hops
  PROVE  /\ FetchTyped' /\ ChainIsHeld'
         /\ fetch'.allowance = fetch.allowance /\ fetch'.spent = fetch.spent
<1>1. /\ fetch' \in FetchShape
      /\ fetch'.phase = "failed"
      /\ fetch'.allowance = fetch.allowance /\ fetch'.spent = fetch.spent
  BY DEF FailFetch, FetchTyped, FetchShape, FetchPhases
<1> QED
  BY <1>1 DEF FetchTyped, ChainIsHeld

\* Every step of a fetch gives up what it does not read, and spends no more than it
\* is allowed.
LEMMA FetchStepHolds ==
  ASSUME FetchTyped, ChainIsHeld, FetchStep
  PROVE  /\ FetchTyped' /\ ChainIsHeld'
         /\ fetch'.allowance = fetch.allowance
         /\ fetch.spent <= fetch'.spent
<1> DEFINE Kept == /\ FetchTyped' /\ ChainIsHeld'
                   /\ fetch'.allowance = fetch.allowance
                   /\ fetch.spent <= fetch'.spent
<1>1. /\ fetch.spent \in Nat
      /\ Hop \in Nat /\ Hop \in Hops
      /\ \A hop \in held : hop \in Nat
      /\ stuck \subseteq held
      /\ held \subseteq Hops
      /\ {"MEDIA_FETCH_FAILED", "MEDIA_UNREADABLE"} = FailureCodes
  BY FetchAssumption DEF FetchTyped, FetchShape, Hops, Hop, FailureCodes
<1>2. CASE FailRequest
  BY <1>1, <1>2, FailLeavesTheStuck DEF FailRequest, ChainIsHeld
<1>3. ASSUME NEW response \in Responses, FollowRedirect(response)
      PROVE  Kept
  <2>1. /\ fetch.phase = "sending" /\ Hop > 0
        /\ CancelBody(response.hasBody)
        /\ response.location \in Urls
        /\ fetch' = [fetch EXCEPT !.url = response.location,
                       !.remainingRedirectCount = Hop - 1]
    BY <1>3 DEF FollowRedirect, NamesAnotherUrl, MayFollow, Responses
  <2>2. /\ fetch' \in FetchShape
        /\ fetch'.phase = "sending"
        /\ fetch'.remainingRedirectCount = Hop - 1
        /\ fetch'.allowance = fetch.allowance /\ fetch'.spent = fetch.spent
    <3>1. Hop - 1 \in Hops
      BY <1>1, <2>1, FetchAssumption DEF Hops
    <3> QED
      BY <2>1, <3>1 DEF FetchTyped, FetchShape
  <2>3. held' = stuck' /\ stuck' \subseteq Hops /\ \A hop \in stuck' : hop >= Hop
    BY <2>1, CancelLeavesTheStuck
  <2>4. FetchTyped'
    BY <1>1, <2>2, <2>3 DEF FetchTyped
  <2>5. ChainIsHeld'
    BY <1>1, <2>2, <2>3 DEF ChainIsHeld, Hop, Hops
  <2> QED
    BY <1>1, <2>2, <2>4, <2>5
<1>4. ASSUME NEW response \in Responses,
             \/ RefuseRedirect(response)
             \/ RefuseStatus(response)
             \/ RefuseDeclaredSize(response)
      PROVE  Kept
  <2>1. /\ fetch.phase = "sending"
        /\ CancelBody(response.hasBody)
        /\ FailFetch("MEDIA_FETCH_FAILED") \/ FailFetch("MEDIA_UNREADABLE")
    BY <1>4 DEF RefuseRedirect, RefuseStatus, RefuseDeclaredSize
  <2>2. held' = stuck' /\ stuck' \subseteq Hops
    BY <2>1, CancelLeavesTheStuck
  <2> QED
    BY <1>1, <2>1, <2>2, FailLeavesTheStuck
<1>5. ASSUME NEW response \in Responses, BeginRead(response)
      PROVE  Kept
  <2>1. CASE response.hasBody
    <3>1. /\ fetch.phase = "sending"
          /\ held' = held \cup {Hop} /\ stuck' = stuck
          /\ fetch' = [fetch EXCEPT !.phase = "reading"]
      BY <1>5, <2>1 DEF BeginRead, KeepBody
    <3>2. /\ fetch' \in FetchShape
          /\ fetch'.phase = "reading"
          /\ fetch'.remainingRedirectCount = Hop
          /\ fetch'.allowance = fetch.allowance /\ fetch'.spent = fetch.spent
      BY <3>1 DEF FetchTyped, FetchShape, FetchPhases, Hop
    <3>3. FetchTyped'
      BY <1>1, <3>1, <3>2 DEF FetchTyped
    <3>4. ChainIsHeld'
      BY <3>1, <3>2 DEF ChainIsHeld, Hop
    <3> QED
      BY <1>1, <3>2, <3>3, <3>4
  <2>2. CASE ~response.hasBody
    BY <1>1, <1>5, <2>2, FailLeavesTheStuck DEF BeginRead, KeepBody, ChainIsHeld
  <2> QED
    BY <2>1, <2>2
<1>6. ASSUME NEW byteSize \in 0..MaximumReadByteSize, ReadChunk(byteSize)
      PROVE  Kept
  <2>1. /\ fetch' \in FetchShape
        /\ fetch'.phase = "reading" /\ fetch.phase = "reading"
        /\ fetch'.remainingRedirectCount = Hop
        /\ fetch'.allowance = fetch.allowance /\ fetch'.spent = fetch.spent
        /\ UNCHANGED <<held, stuck>>
    <3>1. /\ fetch.readByteSize + byteSize \in 0..MaximumReadByteSize
          /\ fetch.chunkCount + 1 \in 0..MaximumReadChunkCount
      BY <1>6, FetchAssumption DEF ReadChunk, FitsBounds, FetchTyped, FetchShape
    <3> QED
      BY <1>6, <3>1 DEF ReadChunk, FetchTyped, FetchShape, Hop
  <2> QED
    BY <1>1, <2>1 DEF FetchTyped, ChainIsHeld, Hop
<1>7. ASSUME NEW byteSize \in 0..MaximumReadByteSize, StopReading(byteSize)
      PROVE  Kept
  <2>1. fetch.phase = "reading" /\ CancelBody(TRUE) /\ FailFetch("MEDIA_UNREADABLE")
    BY <1>7 DEF StopReading
  <2>2. held' = stuck' /\ stuck' \subseteq Hops
    BY <2>1, CancelLeavesTheStuck
  <2> QED
    BY <1>1, <2>1, <2>2, FailLeavesTheStuck
<1>8. CASE FinishRead \/ FailRead
  <2>1. fetch.phase = "reading" /\ held' = held \ {Hop} /\ stuck' = stuck
    BY <1>8 DEF FinishRead, FailRead
  <2>2. held' \subseteq stuck' /\ stuck' \subseteq held' /\ held' \subseteq Hops
    BY <1>1, <2>1 DEF ChainIsHeld
  <2>3. CASE FailFetch("MEDIA_UNREADABLE")
    BY <1>1, <2>2, <2>3, FailLeavesTheStuck
  <2>4. CASE fetch' = [fetch EXCEPT !.phase = "fetched"]
    <3>1. /\ fetch' \in FetchShape
          /\ fetch'.phase = "fetched"
          /\ fetch'.allowance = fetch.allowance /\ fetch'.spent = fetch.spent
      BY <2>4 DEF FetchTyped, FetchShape, FetchPhases
    <3> QED
      BY <1>1, <2>2, <3>1 DEF FetchTyped, ChainIsHeld
  <2> QED
    BY <1>8, <2>3, <2>4 DEF FinishRead, FailRead
<1>9. CASE AwaitHost
  <2>1. /\ fetch' \in FetchShape
        /\ fetch'.phase = fetch.phase
        /\ fetch'.remainingRedirectCount = Hop
        /\ fetch'.allowance = fetch.allowance /\ fetch'.spent = fetch.spent + 1
        /\ fetch'.spent <= fetch'.allowance
        /\ UNCHANGED <<held, stuck>>
    BY <1>9 DEF AwaitHost, FetchTyped, FetchShape, Hop
  <2> QED
    BY <1>1, <2>1 DEF FetchTyped, ChainIsHeld, Hop
<1> QED
  BY <1>2, <1>3, <1>4, <1>5, <1>6, <1>7, <1>8, <1>9 DEF FetchStep, ReceiveResponse

--------------------------------------------------------------------------------
(* What a medium is and what going through one does                         *)

\* One medium more costs one limit more: the only two facts about products the budget
\* needs.
LEMMA TimesSuccessor == \A a, b \in Nat : a * b \in Nat /\ a * (b + 1) = a * b + a
  OBVIOUS

\* More media may hold more bytes.
LEMMA TimesGrows == \A a, b, c \in Nat : b <= c => a * b <= a * c
  OBVIOUS

\* A kind with a master row is told by its handling.
LEMMA HandlingTellsTheKind ==
  ASSUME NEW medium \in Media, IsMediaRow(medium)
  PROVE  /\ Handling(medium.kind) = "handle" <=> medium.kind = "image"
         /\ Handling(medium.kind) = "refuse" <=> medium.kind = "video"
         /\ Handling(medium.kind) = "ignore" <=> medium.kind = "audio"
         /\ IsWithinByteSizeLimit(medium.byteSize) <=> medium.byteSize \in 0..MaximumByteSize
<1>1. medium.byteSize \in Int /\ medium.kind \in Kinds
  BY DEF Media, IsMediaRow
<1>2. IsWithinByteSizeLimit(medium.byteSize) <=> medium.byteSize \in 0..MaximumByteSize
  BY <1>1, MediaAssumption DEF IsWithinByteSizeLimit, ComparableWholeNumber, IsMediaRow
<1> QED
  BY <1>1, <1>2 DEF Handling, Kinds, IsMediaRow

\* The sequences of the collection, and the medium it has come to.
LEMMA CollectionIsASequence ==
  ASSUME CollectionTyped
  PROVE  /\ media \in Seq(Media) /\ DOMAIN media = 1..Len(media) /\ Len(media) \in Nat
         /\ DOMAIN outcomes = 1..Len(outcomes) /\ Len(outcomes) \in Nat
         /\ Position \in Nat /\ Position = Len(outcomes) + 1
  BY MediaAssumption DEF CollectionTyped, Position

\* The outcome of the medium at hand goes behind those there are and disturbs none of
\* them.
LEMMA AppendedOutcome ==
  ASSUME CollectionTyped, NEW outcome \in Outcomes, outcomes' = Append(outcomes, outcome)
  PROVE  /\ outcomes' \in Seq(Outcomes)
         /\ Len(outcomes') = Position
         /\ DOMAIN outcomes' = DOMAIN outcomes \cup {Position}
         /\ outcomes'[Position] = outcome
         /\ \A m \in DOMAIN outcomes : outcomes'[m] = outcomes[m] /\ m # Position
         /\ Position' = Position + 1
  BY CollectionIsASequence DEF CollectionTyped, Position

\* What a medium that is gone through unfetched must come to.
LEMMA JudgedMedium ==
  ASSUME CollectionInvariant,
         AtMedium,
         NEW outcome \in Outcomes \ {"read"},
         NEW code \in {"MEDIA_LIMIT_EXCEEDED", "MEDIA_UNSUPPORTED", None},
         outcomes' = Append(outcomes, outcome),
         refusal' = code,
         stage' = "collecting",
         \/ budget' = budget /\ UNCHANGED clockMoved
         \/ budget' \in 0..budget /\ clockMoved' = TRUE,
         UNCHANGED <<fetchVars, media, aborted, files, rows, uploaded, failure, fetchTime>>,
         code = None =>
            /\ refusal = None
            /\ aborted \/ (Medium.kind = "audio" /\ outcome = "ignored"),
         code = "MEDIA_UNSUPPORTED" => Declares("video"),
         code = "MEDIA_LIMIT_EXCEEDED" => IsOverALimit
  PROVE  CollectionInvariant'
<1> USE DEF CollectionInvariant
<1>1. /\ outcomes' \in Seq(Outcomes)
      /\ Len(outcomes') = Position
      /\ DOMAIN outcomes' = DOMAIN outcomes \cup {Position}
      /\ outcomes'[Position] = outcome
      /\ \A m \in DOMAIN outcomes : outcomes'[m] = outcomes[m] /\ m # Position
      /\ Position' = Position + 1
  BY AppendedOutcome
<1>2. /\ DOMAIN media = 1..Len(media) /\ Len(media) \in Nat
      /\ DOMAIN outcomes = 1..Len(outcomes) /\ Len(outcomes) \in Nat
      /\ Position = Len(outcomes) + 1
      /\ stage = "collecting" /\ Position <= Len(media) /\ Position \in DOMAIN media
  BY CollectionIsASequence DEF AtMedium
<1>3. FetchTyped' /\ ChainIsHeld' /\ fetch = NoFetch /\ fetch' = NoFetch
  BY <1>2 DEF FetchTyped, ChainIsHeld, Hop, fetchVars, StagesKnow
<1>4. CollectionTyped'
  <2>1. budget' \in 0..MediaBudget
    BY MediaAssumption DEF CollectionTyped
  <2>2. refusal' \in MediaReasons \cup {None} /\ stage' \in Stages /\ clockMoved' \in BOOLEAN
    BY DEF CollectionTyped, MediaReasons, Stages
  <2>3. outcomes' \in Seq(Outcomes) /\ Len(outcomes') <= Len(media')
    BY <1>1, <1>2
  <2>4. UNCHANGED <<media, aborted, files, rows, uploaded, failure, fetchTime>>
    OBVIOUS
  <2> HIDE DEF CollectionInvariant
  <2>5. CollectionTyped
    BY DEF CollectionInvariant
  <2> QED
    BY <2>1, <2>2, <2>3, <2>4, <2>5 DEF CollectionTyped
<1>5. StagesKnow'
  BY <1>2, <1>3 DEF StagesKnow, RecordedStages, IsRecordable
<1>6. TimeIsMeasured'
  <2>1. budget' \in Nat /\ budget \in Nat /\ fetchTime \in Nat
    BY MediaAssumption DEF CollectionTyped
  <2>2. MediumTimeout * Len(outcomes) <= MediumTimeout * Len(outcomes')
    BY <1>1, <1>2, MediaAssumption, TimesSuccessor
  <2>3. MediumTimeout * Len(outcomes) \in Nat /\ MediumTimeout * Len(outcomes') \in Nat
    BY <1>1, <1>2, MediaAssumption, TimesSuccessor
  <2>4. fetch.spent = 0 /\ fetch.allowance = 0 /\ fetch' = fetch
    BY <1>3, NoFetchIsIdle
  <2>5. fetchTime <= MediumTimeout * Len(outcomes)
    BY <2>1, <2>3, <2>4 DEF TimeIsMeasured
  <2>6. ~clockMoved' => ~clockMoved /\ budget' = budget
    OBVIOUS
  <2>7. ~clockMoved' => fetchTime' + budget' = MediaBudget + fetch'.spent
    <3> SUFFICES ASSUME ~clockMoved'
                 PROVE  fetchTime + budget = MediaBudget + fetch.spent
      BY <2>4, <2>6
    <3> QED
      BY <2>6 DEF TimeIsMeasured
  <2>8. fetchTime' <= MediumTimeout * Len(outcomes') + fetch'.spent
    BY <2>1, <2>2, <2>3, <2>4, <2>5
  <2>9. fetch'.allowance <= budget' /\ fetch'.allowance <= MediumTimeout
    BY <2>1, <2>4, MediaAssumption
  <2> QED
    <3> HIDE DEF CollectionInvariant
    <3> QED
      BY <2>4, <2>7, <2>8, <2>9 DEF TimeIsMeasured
<1>7. FilesFollowOutcomes'
  <2>1. Position \notin files /\ rows[Position] = "unfetched"
    BY <1>2 DEF FilesFollowOutcomes, RecordedStages
  <2> QED
    BY <1>1, <1>2, <2>1 DEF FilesFollowOutcomes, RecordedStages
<1>8. OutcomesAreJudged'
  BY <1>1, <1>2 DEF OutcomesAreJudged, RecordedStages, IsReadPhoto, IsIgnoredAudio, Medium
<1>9. RefusalHasItsCause' /\ RefusalIsTruthful'
  BY <1>2, MediaAssumption
     DEF RefusalHasItsCause, RefusalIsTruthful, Declares, IsOverALimit, StagesKnow,
         MediaReasons
<1> QED
  BY <1>3, <1>4, <1>5, <1>6, <1>7, <1>8, <1>9

\* A collection nothing refused and nothing stopped holds only what may be sent.
LEMMA JudgedMediaAreSound ==
  ASSUME CollectionInvariant, stage \in {"collected", "prepared"}, refusal = None, ~aborted
  PROVE  /\ ~Declares("video") /\ ~IsOverALimit
         /\ Handled = {m \in DOMAIN media : media[m].kind = "image"}
<1>1. /\ DOMAIN outcomes = DOMAIN media
      /\ Len(media) <= MaximumMediaCount
      /\ \A m \in DOMAIN media : media[m] \in Media /\ IsMediaRow(media[m])
      /\ \A m \in DOMAIN media : IsReadPhoto(m) \/ IsIgnoredAudio(m)
  <2>1. IsRecordable
    BY DEF CollectionInvariant, StagesKnow, RecordedStages
  <2>2. /\ Len(outcomes) = Len(media)
        /\ Len(media) <= MaximumMediaCount
        /\ \A m \in DOMAIN outcomes : IsReadPhoto(m) \/ IsIgnoredAudio(m)
    BY DEF CollectionInvariant, OutcomesAreJudged, RecordedStages
  <2>3. /\ media \in Seq(Media) /\ DOMAIN media = 1..Len(media)
        /\ DOMAIN outcomes = 1..Len(outcomes)
    BY CollectionIsASequence DEF CollectionInvariant
  <2>4. \A m \in DOMAIN media : media[m] \in Media
    BY <2>3
  <2> QED
    BY <2>1, <2>2, <2>3, <2>4 DEF IsRecordable
<1>2. \A m \in DOMAIN media :
         IsWithinByteSizeLimit(media[m].byteSize) => media[m].byteSize \in 0..MaximumByteSize
  BY <1>1, HandlingTellsTheKind
<1>3. ~Declares("video")
  BY <1>1 DEF Declares, IsReadPhoto, IsIgnoredAudio
<1>4. ~IsOverALimit
  <2>1. ~(Len(media) > MaximumMediaCount)
    BY <1>1, CollectionIsASequence, MediaAssumption DEF CollectionInvariant
  <2> QED
    BY <1>1, <1>2, <2>1 DEF IsOverALimit, IsReadPhoto, IsIgnoredAudio
<1>5. Handled = {m \in DOMAIN media : media[m].kind = "image"}
  BY <1>1 DEF Handled, MediaThat, IsReadPhoto, IsIgnoredAudio
<1> QED
  BY <1>3, <1>4, <1>5

--------------------------------------------------------------------------------
(* The steps of the collection                                              *)

\* With no medium fetched and no byte spent, every part of the invariant holds.
LEMMA InitCollectionInvariant == Init => CollectionInvariant
<1> SUFFICES ASSUME Init
             PROVE  CollectionInvariant
  OBVIOUS
<1> USE DEF Init, FetchInit
<1>1. /\ media \in Seq(Media) /\ Len(media) \in Nat /\ DOMAIN media = 1..Len(media)
      /\ outcomes \in Seq(Outcomes) /\ Len(outcomes) = 0
  BY MediaAssumption
<1>2. FetchTyped /\ ChainIsHeld
  BY NoFetchIsIdle DEF FetchTyped, ChainIsHeld
<1>3. CollectionTyped
  <2>1. /\ rows \in [DOMAIN media -> RowStates]
        /\ Len(outcomes) <= Len(media)
        /\ budget \in 0..MediaBudget
    BY <1>1, MediaAssumption DEF RowStates
  <2> QED
    BY <1>1, <2>1 DEF CollectionTyped, Stages
<1>4. StagesKnow
  BY DEF StagesKnow, RecordedStages
<1>5. TimeIsMeasured
  <2>1. MediumTimeout * Len(outcomes) = 0
    BY <1>1, MediaAssumption
  <2> QED
    BY <2>1, NoFetchIsIdle, MediaAssumption DEF TimeIsMeasured
<1>6. FilesFollowOutcomes
  BY <1>1 DEF FilesFollowOutcomes, RecordedStages
<1>7. OutcomesAreJudged /\ RefusalHasItsCause /\ RefusalIsTruthful
  BY MediaAssumption
     DEF OutcomesAreJudged, RecordedStages, RefusalHasItsCause, RefusalIsTruthful, MediaReasons
<1> QED
  BY <1>2, <1>3, <1>4, <1>5, <1>6, <1>7 DEF CollectionInvariant

\* The rows are written before the media are counted.
LEMMA RecordStep ==
  ASSUME CollectionInvariant, RecordDeclaredAiRunMedia
  PROVE  CollectionInvariant'
<1> USE DEF CollectionInvariant
<1>1. /\ stage = "declared" /\ IsRecordable
      /\ rows' = [m \in DOMAIN media |-> "unfetched"]
      /\ \/ /\ Len(media) <= MaximumMediaCount
            /\ stage' = "collecting" /\ refusal' = refusal
         \/ /\ ~(Len(media) <= MaximumMediaCount)
            /\ stage' = "collected" /\ refusal' = "MEDIA_LIMIT_EXCEEDED"
      /\ UNCHANGED <<fetch, held, stuck, media, outcomes, budget, aborted, files, uploaded,
                     failure, fetchTime, clockMoved>>
  BY DEF RecordDeclaredAiRunMedia, IsWithinMediaCountLimit, fetchVars
<1>2. /\ outcomes = <<>> /\ Len(outcomes) = 0 /\ DOMAIN outcomes = {} /\ files = {}
      /\ refusal = None /\ uploaded = {} /\ Len(media) \in Nat /\ failure = None
  BY <1>1, CollectionIsASequence DEF StagesKnow
<1>3. FetchTyped' /\ ChainIsHeld'
  BY <1>1 DEF FetchTyped, ChainIsHeld, Hop
<1>4. CollectionTyped'
  BY <1>1, <1>2 DEF CollectionTyped, Stages, RowStates, MediaReasons
<1>5. StagesKnow'
  BY <1>1, <1>2 DEF StagesKnow, IsRecordable
<1>6. TimeIsMeasured'
  BY <1>1 DEF TimeIsMeasured
<1>7. FilesFollowOutcomes'
  BY <1>1, <1>2 DEF FilesFollowOutcomes
<1>8. OutcomesAreJudged'
  BY <1>1, <1>2, MediaAssumption DEF OutcomesAreJudged, MediaReasons
<1>9. RefusalHasItsCause' /\ RefusalIsTruthful'
  BY <1>1, <1>2, MediaAssumption
     DEF RefusalHasItsCause, RefusalIsTruthful, IsOverALimit, MediaReasons
<1> QED
  BY <1>3, <1>4, <1>5, <1>6, <1>7, <1>8, <1>9

\* A step that fails names no reason of its own, and what it leaves stands.
LEMMA ThrowStep ==
  ASSUME CollectionInvariant, FailToRecord \/ FailToStore \/ FailToSave \/ FailToUpload
  PROVE  CollectionInvariant'
<1> USE DEF CollectionInvariant
<1>1. /\ stage \in {"declared", "fetching", "saving", "collected"}
      /\ stage' = "failed" /\ failure' = "PROVIDER_CALL_FAILED"
      /\ UNCHANGED <<fetch, held, stuck, media, outcomes, budget, refusal, aborted, files,
                     rows, fetchTime, clockMoved>>
  BY DEF FailToRecord, FailToStore, FailToSave, FailToUpload, Throw, fetchVars
<1>2. \/ uploaded' = uploaded
      \/ stage = "collected" /\ refusal = None /\ uploaded' \subseteq MediaThat("read")
  BY DEF FailToRecord, FailToStore, FailToSave, FailToUpload
<1>3. FetchTyped' /\ ChainIsHeld'
  BY <1>1 DEF FetchTyped, ChainIsHeld, Hop
<1>4. MediaThat("read") \subseteq files
  BY DEF MediaThat, FilesFollowOutcomes
<1>5. CollectionTyped'
  BY <1>1, <1>2, <1>4 DEF CollectionTyped, Stages
<1>6. StagesKnow' /\ TimeIsMeasured' /\ OutcomesAreJudged'
  BY <1>1 DEF StagesKnow, TimeIsMeasured, OutcomesAreJudged, RecordedStages
<1>7. FilesFollowOutcomes'
  BY <1>1 DEF FilesFollowOutcomes, RecordedStages, Position
<1>8. RefusalHasItsCause'
  BY <1>1 DEF RefusalHasItsCause, Declares, IsOverALimit, MediaThat
<1>9. RefusalIsTruthful'
  <2>1. uploaded' # {} /\ ~aborted => ~Declares("video") /\ ~IsOverALimit
    <3>1. CASE uploaded' = uploaded
      BY <3>1 DEF RefusalIsTruthful
    <3>2. CASE stage = "collected" /\ refusal = None
      BY <3>2, JudgedMediaAreSound
    <3> QED
      BY <1>2, <3>1, <3>2
  <2> QED
    BY <1>1, <2>1 DEF RefusalIsTruthful, MediaReasons, Declares, IsOverALimit
<1> QED
  BY <1>3, <1>5, <1>6, <1>7, <1>8, <1>9

\* What is neither fetched nor refused by a limit.
LEMMA UnfetchedStep ==
  ASSUME CollectionInvariant, SkipMedium \/ RefuseMedium \/ IgnoreMedium \/ RefuseByteSize
  PROVE  CollectionInvariant'
<1>1. /\ stage = "collecting"
      /\ Medium \in Media /\ IsMediaRow(Medium) /\ Position \in DOMAIN media
      /\ refusal # "MEDIA_UNREADABLE" /\ refusal \in MediaReasons \cup {None}
      /\ budget \in Nat
  <2>1. AtMedium
    BY DEF SkipMedium, RefuseMedium, IgnoreMedium, RefuseByteSize
  <2>2. Position \in DOMAIN media /\ stage = "collecting" /\ Medium \in Media
    BY <2>1, CollectionIsASequence DEF AtMedium, CollectionInvariant, Medium
  <2> QED
    BY <2>2, MediaAssumption
       DEF CollectionInvariant, CollectionTyped, StagesKnow, RecordedStages, IsRecordable, Medium,
           RefusalHasItsCause
<1>2. CASE SkipMedium
  <2>1. /\ AtMedium
        /\ refusal = None => aborted
        /\ outcomes' = Append(outcomes, "unread")
        /\ UNCHANGED <<fetchVars, media, stage, budget, refusal, aborted, files, rows, uploaded,
                       failure, fetchTime, clockMoved>>
    BY <1>2 DEF SkipMedium, ShouldCollectMedium
  <2>2. refusal \in {"MEDIA_LIMIT_EXCEEDED", "MEDIA_UNSUPPORTED", None}
    BY <1>1 DEF MediaReasons
  <2>3. /\ refusal = "MEDIA_UNSUPPORTED" => Declares("video")
        /\ refusal = "MEDIA_LIMIT_EXCEEDED" => IsOverALimit
    BY DEF CollectionInvariant, RefusalHasItsCause
  <2>4. "unread" \in Outcomes \ {"read"}
    BY DEF Outcomes
  <2> QED
    BY <1>1, <2>1, <2>2, <2>3, <2>4, JudgedMedium
<1>3. ASSUME NEW outcome \in Outcomes \ {"read"}, NEW code \in {"MEDIA_LIMIT_EXCEEDED", "MEDIA_UNSUPPORTED", None},
             AtMedium, ShouldCollectMedium(aborted),
             AppendCollectedMedium(outcome, code, 0),
             UNCHANGED <<fetchVars, media, aborted, files, rows, uploaded, failure, fetchTime>>,
             code = None => Medium.kind = "audio" /\ outcome = "ignored",
             code = "MEDIA_UNSUPPORTED" => Declares("video"),
             code = "MEDIA_LIMIT_EXCEEDED" => IsOverALimit
      PROVE  CollectionInvariant'
  <2>1. /\ outcomes' = Append(outcomes, outcome)
        /\ refusal' = code
        /\ stage' = "collecting"
        /\ \/ budget' = budget /\ UNCHANGED clockMoved
           \/ budget' \in 0..budget /\ clockMoved' = TRUE
    BY <1>1, <1>3 DEF AppendCollectedMedium
  <2>2. refusal = None
    BY <1>3 DEF ShouldCollectMedium
  <2> QED
    BY <1>3, <2>1, <2>2, JudgedMedium
<1>4. CASE RefuseMedium
  <2>1. Medium.kind = "video"
    BY <1>1, <1>4, HandlingTellsTheKind DEF RefuseMedium
  <2>2. Declares("video")
    BY <1>1, <2>1, Zenon DEF Declares, Medium
  <2> QED
    BY <1>3, <1>4, <2>2, MediaAssumption DEF RefuseMedium, Outcomes, MediaReasons
<1>5. CASE IgnoreMedium
  <2>1. Medium.kind = "audio"
    BY <1>1, <1>5, HandlingTellsTheKind DEF IgnoreMedium
  <2> QED
    BY <1>3, <1>5, <2>1, MediaAssumption DEF IgnoreMedium, Outcomes, MediaReasons
<1>6. CASE RefuseByteSize
  <2>1. Medium.kind = "image" /\ Medium.byteSize \notin 0..MaximumByteSize
    BY <1>1, <1>6, HandlingTellsTheKind DEF RefuseByteSize
  <2>2. IsOverALimit
    BY <1>1, <2>1, Zenon DEF IsOverALimit, Medium
  <2> QED
    BY <1>3, <1>6, <2>2, MediaAssumption DEF RefuseByteSize, Outcomes, MediaReasons
<1> QED
  BY <1>2, <1>4, <1>5, <1>6

\* A fetch is begun out of the budget there is.
LEMMA FetchMediumStep ==
  ASSUME CollectionInvariant, FetchMedium
  PROVE  CollectionInvariant'
<1> USE DEF CollectionInvariant
<1> DEFINE allowance == FetchAllowance(budget)
<1>1. /\ stage = "collecting" /\ stage' = "fetching"
      /\ Position <= Len(media) /\ refusal = None
      /\ Handling(Medium.kind) = "handle" /\ IsWithinByteSizeLimit(Medium.byteSize)
      /\ UNCHANGED <<media, outcomes, budget, refusal, aborted, files, rows, uploaded, failure,
                     fetchTime, clockMoved>>
  BY DEF FetchMedium, AtMedium, ShouldCollectMedium
<1>2. /\ budget \in Nat /\ allowance \in Nat
      /\ allowance <= budget /\ allowance <= MediumTimeout
  BY MediaAssumption DEF CollectionTyped, FetchAllowance, Lesser
<1>3. /\ held' = {} /\ stuck' = {}
      /\ fetch' \in FetchShape /\ fetch'.spent = 0
      /\ fetch'.allowance \in {0, allowance}
  <2> HIDE DEF allowance, CollectionInvariant
  <2>1. CASE /\ held' = {} /\ stuck' = {}
             /\ fetch' = [NoFetch EXCEPT !.phase = "failed",
                            !.failureReasonCode = "MEDIA_FETCH_FAILED"]
    <3>1. /\ fetch' \in FetchShape
          /\ fetch'.spent = NoFetch.spent /\ fetch'.allowance = NoFetch.allowance
      BY <2>1, NoFetchIsIdle DEF FetchShape, FetchPhases, FailureCodes
    <3> QED
      BY <2>1, <3>1, NoFetchIsIdle
  <2>2. ASSUME NEW url \in Urls \cup {None}, StartFetch(url, allowance)
        PROVE  /\ held' = {} /\ stuck' = {}
               /\ fetch' \in FetchShape /\ fetch'.spent = 0
               /\ fetch'.allowance \in {0, allowance}
    <3> DEFINE asked == [NoFetch EXCEPT !.allowance = allowance]
    <3>1. asked \in FetchShape /\ asked.allowance = allowance /\ asked.spent = 0
      BY <1>2, NoFetchIsIdle DEF FetchShape
    <3>2. \/ /\ url \in Urls
             /\ fetch' = [asked EXCEPT !.phase = "sending", !.url = url,
                            !.remainingRedirectCount = MaximumRedirectCount]
          \/ fetch' = [asked EXCEPT !.phase = "failed",
                         !.failureReasonCode = "MEDIA_FETCH_FAILED"]
      BY <2>2 DEF StartFetch, IsFetchableUrl
    <3>3. MaximumRedirectCount \in Hops
      BY FetchAssumption DEF Hops
    <3> HIDE DEF asked
    <3>4. fetch' \in FetchShape /\ fetch'.spent = asked.spent /\ fetch'.allowance = asked.allowance
      BY <3>1, <3>2, <3>3 DEF FetchShape, FetchPhases, FailureCodes
    <3> QED
      BY <2>2, <3>1, <3>4 DEF StartFetch
  <2> QED
    BY <2>1, <2>2 DEF FetchMedium, allowance
<1>4. FetchTyped' /\ ChainIsHeld'
  BY <1>2, <1>3 DEF FetchTyped, ChainIsHeld, FetchShape
<1>5. CollectionTyped'
  BY <1>1 DEF CollectionTyped, Stages
<1>6. StagesKnow'
  <2>1. uploaded = {} /\ IsRecordable /\ failure = None
    BY <1>1 DEF StagesKnow, RecordedStages
  <2> QED
    BY <1>1, <2>1 DEF StagesKnow, RecordedStages, IsRecordable, Position, Medium
<1>7. TimeIsMeasured'
  <2>1. fetch.spent = 0
    BY <1>1, NoFetchIsIdle DEF StagesKnow
  <2>2. fetch'.allowance <= budget' /\ fetch'.allowance <= MediumTimeout /\ fetch'.spent = fetch.spent
    BY <1>1, <1>2, <1>3, <2>1, MediaAssumption
  <2> HIDE DEF CollectionInvariant, allowance
  <2>3. TimeIsMeasured
    BY DEF CollectionInvariant
  <2> QED
    BY <1>1, <2>2, <2>3 DEF TimeIsMeasured
<1>8. FilesFollowOutcomes' /\ OutcomesAreJudged'
  BY <1>1 DEF FilesFollowOutcomes, OutcomesAreJudged, RecordedStages, Position, IsReadPhoto,
     IsIgnoredAudio
<1>9. RefusalHasItsCause' /\ RefusalIsTruthful'
  BY <1>1 DEF RefusalHasItsCause, RefusalIsTruthful, Declares, IsOverALimit, MediaThat
<1> QED
  BY <1>4, <1>5, <1>6, <1>7, <1>8, <1>9

\* A fetch goes on within what it is allowed.
LEMMA ContinueStep ==
  ASSUME CollectionInvariant, ContinueFetch
  PROVE  CollectionInvariant'
<1> USE DEF CollectionInvariant
<1>1. /\ stage = "fetching" /\ FetchStep
      /\ fetchTime' = fetchTime + (fetch'.spent - fetch.spent)
      /\ UNCHANGED <<media, stage, outcomes, budget, refusal, aborted, files, rows, uploaded,
                     failure, clockMoved>>
  BY DEF ContinueFetch
<1>2. /\ FetchTyped' /\ ChainIsHeld'
      /\ fetch'.allowance = fetch.allowance /\ fetch.spent <= fetch'.spent
  BY <1>1, FetchStepHolds
<1>3. fetch.spent \in Nat /\ fetch'.spent \in Nat /\ fetchTime' \in Nat
  BY <1>1, <1>2 DEF FetchTyped, FetchShape, CollectionTyped
<1>4. CollectionTyped'
  BY <1>1, <1>3 DEF CollectionTyped
<1>5. StagesKnow'
  BY <1>1 DEF StagesKnow, RecordedStages, IsRecordable, Position, Medium
<1>6. TimeIsMeasured'
  <2>1. Position <= Len(media) /\ Position = Len(outcomes) + 1
        /\ Len(outcomes) \in Nat /\ Len(media) \in Nat
    BY <1>1, CollectionIsASequence DEF StagesKnow
  <2>2. Len(outcomes') < Len(media')
    BY <1>1, <2>1
  <2>3. MediumTimeout * Len(outcomes) \in Nat
    BY <2>1, TimesSuccessor, MediaAssumption
  <2>4. fetchTime' <= MediumTimeout * Len(outcomes') + fetch'.spent
    BY <1>1, <1>3, <2>3 DEF TimeIsMeasured, CollectionTyped
  <2>5. ~clockMoved' => fetchTime' + budget' = MediaBudget + fetch'.spent
    <3> SUFFICES ASSUME ~clockMoved
                 PROVE  fetchTime' + budget = MediaBudget + fetch'.spent
      BY <1>1
    <3>1. fetchTime + budget = MediaBudget + fetch.spent
      BY DEF TimeIsMeasured
    <3>2. fetchTime \in Nat /\ budget \in Nat /\ MediaBudget \in Nat
      BY MediaAssumption DEF CollectionTyped
    <3> HIDE DEF CollectionInvariant
    <3> QED
      BY <1>1, <1>3, <3>1, <3>2
  <2> QED
    BY <1>1, <1>2, <2>2, <2>4, <2>5 DEF TimeIsMeasured
<1>7. FilesFollowOutcomes' /\ OutcomesAreJudged'
  BY <1>1 DEF FilesFollowOutcomes, OutcomesAreJudged, RecordedStages, Position, IsReadPhoto,
     IsIgnoredAudio
<1>8. RefusalHasItsCause' /\ RefusalIsTruthful'
  BY <1>1 DEF RefusalHasItsCause, RefusalIsTruthful, Declares, IsOverALimit, MediaThat
<1> QED
  BY <1>2, <1>4, <1>5, <1>6, <1>7, <1>8

\* A copy is kept for the medium at hand and for no other.
LEMMA StoreStep ==
  ASSUME CollectionInvariant, StoreFetchedMedium
  PROVE  CollectionInvariant'
<1> USE DEF CollectionInvariant
<1>1. /\ stage = "fetching" /\ stage' = "saving"
      /\ files' \in {files, files \cup {Position}}
      /\ UNCHANGED <<fetch, held, stuck, media, outcomes, budget, refusal, aborted, rows,
                     uploaded, failure, fetchTime, clockMoved>>
  BY DEF StoreFetchedMedium, fetchVars
<1>2. /\ Position \in DOMAIN media /\ Position \notin files
      /\ DOMAIN outcomes = 1..Len(outcomes) /\ Len(outcomes) \in Nat
      /\ Position = Len(outcomes) + 1
      /\ failure = None /\ uploaded = {}
  BY <1>1, CollectionIsASequence DEF StagesKnow, FilesFollowOutcomes
<1>3. FetchTyped' /\ ChainIsHeld' /\ TimeIsMeasured'
  BY <1>1 DEF FetchTyped, ChainIsHeld, Hop, TimeIsMeasured
<1>4. CollectionTyped'
  BY <1>1, <1>2 DEF CollectionTyped, Stages
<1>5. StagesKnow'
  BY <1>1 DEF StagesKnow, RecordedStages, IsRecordable, Position, Medium
<1>6. FilesFollowOutcomes'
  <2>1. Position' = Position
    BY <1>1 DEF Position
  <2>2. files' \subseteq 1..Position
    BY <1>1, <1>2 DEF FilesFollowOutcomes
  <2>3. \A m \in DOMAIN outcomes : m \in files' <=> m \in files
    BY <1>1, <1>2
  <2> QED
    BY <1>1, <2>1, <2>2, <2>3 DEF FilesFollowOutcomes, RecordedStages
<1>7. OutcomesAreJudged'
  BY <1>1 DEF OutcomesAreJudged, RecordedStages, IsReadPhoto, IsIgnoredAudio
<1>8. RefusalHasItsCause' /\ RefusalIsTruthful'
  BY <1>1, <1>2, MediaAssumption
     DEF RefusalHasItsCause, RefusalIsTruthful, Declares, IsOverALimit, MediaThat, StagesKnow,
         MediaReasons
<1> QED
  BY <1>3, <1>4, <1>5, <1>6, <1>7, <1>8

\* The row of a medium says what its copy says, and what its fetch spent leaves the
\* budget.
LEMMA SaveStep ==
  ASSUME CollectionInvariant, SaveFetchedMedium
  PROVE  CollectionInvariant'
<1> USE DEF CollectionInvariant
<1>1. PICK outcome \in {"read", "unread"} :
         /\ outcome = "read" <=> Position \in files
         /\ outcomes' = Append(outcomes, outcome)
         /\ rows' = [rows EXCEPT ![Position] =
                       IF Position \in files THEN "readable" ELSE "unreadable"]
  BY DEF SaveFetchedMedium, AppendCollectedMedium, IsReadable
<1>2. /\ stage = "saving" /\ stage' = "collecting" /\ refusal' = None
      /\ fetch' = NoFetch /\ held' = {} /\ stuck' = {}
      /\ UNCHANGED <<media, aborted, files, uploaded, failure, fetchTime>>
  BY DEF SaveFetchedMedium, AppendCollectedMedium
<1>3. \/ /\ budget' = IF budget > fetch.spent THEN budget - fetch.spent ELSE 0
         /\ clockMoved' = clockMoved
      \/ budget' \in 0..budget /\ clockMoved' = TRUE
  BY DEF SaveFetchedMedium, AppendCollectedMedium
<1>4. /\ outcomes' \in Seq(Outcomes)
      /\ Len(outcomes') = Position
      /\ DOMAIN outcomes' = DOMAIN outcomes \cup {Position}
      /\ outcomes'[Position] = outcome
      /\ \A m \in DOMAIN outcomes : outcomes'[m] = outcomes[m] /\ m # Position
      /\ Position' = Position + 1
  BY <1>1, AppendedOutcome DEF Outcomes
<1>5. /\ DOMAIN media = 1..Len(media) /\ Len(media) \in Nat
      /\ DOMAIN outcomes = 1..Len(outcomes) /\ Len(outcomes) \in Nat
      /\ Position = Len(outcomes) + 1
      /\ Position \in DOMAIN media
      /\ refusal = None /\ failure = None /\ uploaded = {}
      /\ Handling(Medium.kind) = "handle" /\ IsWithinByteSizeLimit(Medium.byteSize)
      /\ IsRecordable
  BY <1>2, CollectionIsASequence DEF StagesKnow, RecordedStages
<1>6. /\ budget \in Nat /\ fetch.spent \in Nat /\ fetchTime \in Nat
      /\ fetch.spent <= budget /\ fetch.spent <= MediumTimeout
  BY MediaAssumption DEF CollectionTyped, FetchTyped, FetchShape, TimeIsMeasured
<1>7. FetchTyped' /\ ChainIsHeld'
  BY <1>2, NoFetchIsIdle DEF FetchTyped, ChainIsHeld
<1>8. CollectionTyped'
  <2>1. budget' \in 0..MediaBudget
    <3>1. budget \in 0..MediaBudget /\ MediaBudget \in Nat
      BY MediaAssumption DEF CollectionTyped
    <3>2. budget' \in 0..budget
      <4> HIDE DEF CollectionInvariant
      <4> QED BY <1>3, <1>6
    <3> QED
      BY <1>6, <3>1, <3>2
  <2>2. clockMoved' \in BOOLEAN
    BY <1>3 DEF CollectionTyped
  <2>3. rows' \in [DOMAIN media -> RowStates]
    BY <1>1 DEF CollectionTyped, RowStates
  <2>4. Len(outcomes') <= Len(media)
    BY <1>4, <1>5
  <2> QED
    BY <1>2, <1>4, <2>1, <2>2, <2>3, <2>4 DEF CollectionTyped, Stages
<1>9. StagesKnow'
  BY <1>2, <1>5 DEF StagesKnow, RecordedStages, IsRecordable
<1>10. TimeIsMeasured'
  <2>1. /\ MediumTimeout * Position = MediumTimeout * Len(outcomes) + MediumTimeout
        /\ MediumTimeout * Position \in Nat /\ MediumTimeout * Len(outcomes) \in Nat
    BY <1>5, TimesSuccessor, MediaAssumption
  <2>2. fetchTime <= MediumTimeout * Len(outcomes')
    BY <1>4, <1>6, <2>1, MediaAssumption DEF TimeIsMeasured
  <2>3. ~clockMoved' => fetchTime + budget' = MediaBudget
    <3>1. ~clockMoved' => ~clockMoved /\ budget' = budget - fetch.spent
      <4>1. budget - fetch.spent = IF budget > fetch.spent THEN budget - fetch.spent ELSE 0
        BY <1>6
      <4> QED
        BY <1>3, <4>1
    <3>2. ~clockMoved => fetchTime + budget = MediaBudget + fetch.spent
      BY DEF TimeIsMeasured
    <3> SUFFICES ASSUME ~clockMoved'
                 PROVE  fetchTime + budget' = MediaBudget
      OBVIOUS
    <3>3. fetchTime + budget = MediaBudget + fetch.spent /\ budget' = budget - fetch.spent
      BY <3>1, <3>2
    <3> QED
      BY <1>6, <3>3, MediaAssumption
  <2>4. budget' \in Nat
    BY <1>8, MediaAssumption DEF CollectionTyped
  <2>5. fetch'.spent = 0 /\ fetch'.allowance = 0
    BY <1>2, NoFetchIsIdle
  <2>6. MediumTimeout * Len(outcomes') \in Nat
    BY <1>4, <2>1
  <2>7. fetchTime' <= MediumTimeout * Len(outcomes') + fetch'.spent
    BY <1>2, <1>6, <2>2, <2>5, <2>6
  <2>8. ~clockMoved' => fetchTime' + budget' = MediaBudget + fetch'.spent
    BY <1>2, <2>3, <2>5, MediaAssumption
  <2>9. fetch'.allowance <= budget' /\ fetch'.allowance <= MediumTimeout
    BY <2>4, <2>5, MediaAssumption
  <2> HIDE DEF CollectionInvariant
  <2> QED
    BY <2>5, <2>7, <2>8, <2>9 DEF TimeIsMeasured
<1>11. FilesFollowOutcomes'
  <2>1. rows'[Position] = "readable" <=> Position \in files
    BY <1>1, <1>5 DEF CollectionTyped
  <2>2. \A m \in DOMAIN media : m # Position => rows'[m] = rows[m]
    BY <1>1 DEF CollectionTyped
  <2>3. /\ files \subseteq 1..Position
        /\ \A m \in DOMAIN outcomes : outcomes[m] = "read" <=> m \in files
        /\ \A m \in DOMAIN outcomes : rows[m] = "readable" <=> m \in files
        /\ \A m \in DOMAIN media : m > Len(outcomes) => rows[m] = "unfetched"
    BY <1>2 DEF FilesFollowOutcomes, RecordedStages
  <2>4. files \subseteq 1..(Position + 1) /\ Position + 1 \notin files
    BY <1>5, <2>3
  <2>5. \A m \in DOMAIN outcomes' : outcomes'[m] = "read" <=> m \in files
    BY <1>1, <1>4, <2>3
  <2>6. \A m \in DOMAIN outcomes' : rows'[m] = "readable" <=> m \in files
    BY <1>4, <1>5, <2>1, <2>2, <2>3
  <2>7. \A m \in DOMAIN media : m > Len(outcomes') => rows'[m] = "unfetched"
    BY <1>4, <1>5, <2>2, <2>3
  <2> QED
    <3> HIDE DEF CollectionInvariant
    <3> QED
      BY <1>2, <1>4, <2>4, <2>5, <2>6, <2>7 DEF FilesFollowOutcomes
<1>12. OutcomesAreJudged'
  <2>1. Medium.kind = "image"
    BY <1>5, CollectionIsASequence, HandlingTellsTheKind DEF Medium, IsRecordable
  <2> QED
    BY <1>1, <1>2, <1>4, <1>5, <2>1
       DEF OutcomesAreJudged, RecordedStages, IsReadPhoto, IsIgnoredAudio, Medium
<1>13. RefusalHasItsCause' /\ RefusalIsTruthful'
  BY <1>2, <1>5, MediaAssumption DEF RefusalHasItsCause, RefusalIsTruthful, MediaReasons
<1> QED
  BY <1>7, <1>8, <1>9, <1>10, <1>11, <1>12, <1>13

\* Every medium was gone through, and a run none of whose photos was read is refused.
LEMMA BuildStep ==
  ASSUME CollectionInvariant, BuildCollectedAiRunMedia
  PROVE  CollectionInvariant'
<1> USE DEF CollectionInvariant
<1>1. /\ stage = "collecting" /\ stage' = "collected"
      /\ Position > Len(media)
      /\ refusal' = UnreadableRefusal(refusal)
      /\ UNCHANGED <<fetch, held, stuck, media, outcomes, budget, aborted, files, rows, uploaded,
                     failure, fetchTime, clockMoved>>
  BY DEF BuildCollectedAiRunMedia, fetchVars
<1>2. /\ Len(outcomes) = Len(media)
      /\ DOMAIN outcomes = DOMAIN media
      /\ refusal # "MEDIA_UNREADABLE"
      /\ failure = None /\ uploaded = {}
  BY <1>1, CollectionIsASequence DEF CollectionTyped, StagesKnow, RefusalHasItsCause
<1>3. \/ refusal' = refusal /\ (refusal = None => Handled = {} \/ MediaThat("read") # {})
      \/ /\ refusal' = "MEDIA_UNREADABLE" /\ refusal = None
         /\ Handled # {} /\ MediaThat("read") = {}
  BY <1>1 DEF UnreadableRefusal
<1>4. FetchTyped' /\ ChainIsHeld' /\ TimeIsMeasured'
  BY <1>1 DEF FetchTyped, ChainIsHeld, Hop, TimeIsMeasured
<1>5. CollectionTyped'
  BY <1>1, <1>3 DEF CollectionTyped, Stages, MediaReasons
<1>6. StagesKnow'
  BY <1>1 DEF StagesKnow, RecordedStages, IsRecordable
<1>7. FilesFollowOutcomes'
  BY <1>1 DEF FilesFollowOutcomes, RecordedStages, Position
<1>8. OutcomesAreJudged'
  BY <1>1, <1>2, <1>3, MediaAssumption
     DEF OutcomesAreJudged, RecordedStages, IsReadPhoto, IsIgnoredAudio, Handled, MediaThat,
         MediaReasons
<1>9. RefusalHasItsCause'
  <2>1. CASE refusal' = refusal
    BY <1>1, <1>2, <2>1 DEF RefusalHasItsCause, Declares, IsOverALimit
  <2>2. CASE /\ refusal' = "MEDIA_UNREADABLE" /\ refusal = None
             /\ Handled # {} /\ MediaThat("read") = {}
    <3>1. Declares("image") \/ aborted
      <4> SUFFICES ASSUME ~aborted
                   PROVE  Declares("image")
        OBVIOUS
      <4>1. PICK m \in DOMAIN outcomes : outcomes[m] \in {"read", "unread"}
        BY <2>2 DEF Handled, MediaThat
      <4>2. IsReadPhoto(m)
        BY <1>1, <2>2, <4>1 DEF OutcomesAreJudged, RecordedStages, IsIgnoredAudio
      <4> QED
        BY <1>2, <4>1, <4>2 DEF Declares, IsReadPhoto
    <3> QED
      BY <1>1, <2>2, <3>1 DEF RefusalHasItsCause, Declares, MediaThat
  <2> QED
    BY <1>3, <2>1, <2>2
<1>10. RefusalIsTruthful'
  BY <1>1, <1>2, MediaAssumption DEF RefusalIsTruthful, MediaReasons
<1> QED
  BY <1>4, <1>5, <1>6, <1>7, <1>8, <1>9, <1>10

\* The run fails under the reason the collection found, with nothing handed over.
LEMMA RefuseCollectedStep ==
  ASSUME CollectionInvariant, RefuseCollectedAiRunMedia
  PROVE  CollectionInvariant'
<1> USE DEF CollectionInvariant
<1>1. /\ stage = "collected" /\ refusal # None
      /\ stage' = "failed" /\ failure' = refusal
      /\ UNCHANGED <<fetch, held, stuck, media, outcomes, budget, refusal, aborted, files, rows,
                     uploaded, fetchTime, clockMoved>>
  BY DEF RefuseCollectedAiRunMedia, fetchVars
<1>2. FetchTyped' /\ ChainIsHeld' /\ TimeIsMeasured'
  BY <1>1 DEF FetchTyped, ChainIsHeld, Hop, TimeIsMeasured
<1>3. CollectionTyped'
  BY <1>1 DEF CollectionTyped, Stages
<1>4. StagesKnow' /\ OutcomesAreJudged'
  BY <1>1 DEF StagesKnow, RecordedStages, OutcomesAreJudged
<1>5. FilesFollowOutcomes'
  BY <1>1 DEF FilesFollowOutcomes, RecordedStages, Position
<1>6. RefusalHasItsCause'
  BY <1>1 DEF RefusalHasItsCause, Declares, IsOverALimit, MediaThat
<1>7. RefusalIsTruthful'
  <2>1. MediaThat("read") = {} => files = {}
    BY <1>1, CollectionIsASequence DEF FilesFollowOutcomes, MediaThat
  <2> QED
    BY <1>1, <2>1
       DEF RefusalIsTruthful, RefusalHasItsCause, StagesKnow, Declares, IsOverALimit
<1> QED
  BY <1>2, <1>3, <1>4, <1>5, <1>6, <1>7

\* What is handed over is what was read.
LEMMA UploadStep ==
  ASSUME CollectionInvariant, UploadAiRunMedia
  PROVE  CollectionInvariant'
<1> USE DEF CollectionInvariant
<1>1. /\ stage = "collected" /\ refusal = None
      /\ stage' = "prepared" /\ uploaded' = MediaThat("read")
      /\ UNCHANGED <<fetch, held, stuck, media, outcomes, budget, refusal, aborted, files, rows,
                     failure, fetchTime, clockMoved>>
  BY DEF UploadAiRunMedia, fetchVars
<1>2. MediaThat("read") = files
  <2>1. files \subseteq 1..Position /\ Position \notin files
    BY <1>1 DEF FilesFollowOutcomes
  <2>2. files \subseteq DOMAIN outcomes
    BY <2>1, CollectionIsASequence
  <2>3. \A m \in DOMAIN outcomes : outcomes[m] = "read" <=> m \in files
    BY DEF FilesFollowOutcomes
  <2> QED
    BY <2>2, <2>3, Zenon DEF MediaThat
<1>3. FetchTyped' /\ ChainIsHeld' /\ TimeIsMeasured'
  BY <1>1 DEF FetchTyped, ChainIsHeld, Hop, TimeIsMeasured
<1>4. CollectionTyped'
  BY <1>1, <1>2 DEF CollectionTyped, Stages
<1>5. StagesKnow'
  BY <1>1, <1>2 DEF StagesKnow, RecordedStages, IsRecordable
<1>6. FilesFollowOutcomes'
  BY <1>1 DEF FilesFollowOutcomes, RecordedStages, Position
<1>7. OutcomesAreJudged'
  BY <1>1 DEF OutcomesAreJudged, RecordedStages, IsReadPhoto, IsIgnoredAudio, Handled, MediaThat
<1>8. RefusalHasItsCause'
  BY <1>1, MediaAssumption DEF RefusalHasItsCause, MediaReasons
<1>9. RefusalIsTruthful'
  BY <1>1, JudgedMediaAreSound, MediaAssumption
     DEF RefusalIsTruthful, StagesKnow, Declares, IsOverALimit, MediaReasons
<1> QED
  BY <1>3, <1>4, <1>5, <1>6, <1>7, <1>8, <1>9

\* The abort signal of the run changes what the steps may do and none of what they
\* hold.
LEMMA AbortStep ==
  ASSUME CollectionInvariant, AbortRun
  PROVE  CollectionInvariant'
<1> USE DEF CollectionInvariant
<1>1. /\ aborted' = TRUE
      /\ UNCHANGED <<fetch, held, stuck, media, stage, outcomes, budget, refusal, files, rows,
                     uploaded, failure, fetchTime, clockMoved>>
  BY DEF AbortRun, fetchVars
<1>2. FetchTyped' /\ ChainIsHeld' /\ TimeIsMeasured'
  BY <1>1 DEF FetchTyped, ChainIsHeld, Hop, TimeIsMeasured
<1>3. CollectionTyped' /\ StagesKnow'
  BY <1>1 DEF CollectionTyped, StagesKnow, RecordedStages, IsRecordable, Position, Medium
<1>4. FilesFollowOutcomes'
  BY <1>1 DEF FilesFollowOutcomes, RecordedStages, Position
<1>5. OutcomesAreJudged'
  BY <1>1 DEF OutcomesAreJudged, RecordedStages, Handled, MediaThat
<1>6. RefusalHasItsCause' /\ RefusalIsTruthful'
  BY <1>1 DEF RefusalHasItsCause, RefusalIsTruthful, Declares, IsOverALimit, MediaThat
<1> QED
  BY <1>2, <1>3, <1>4, <1>5, <1>6

\* The invariant holds in every state of the collection.
LEMMA CollectionInvariantHolds == Spec => []CollectionInvariant
<1>1. CollectionInvariant /\ [Next]_vars => CollectionInvariant'
  <2> SUFFICES ASSUME CollectionInvariant, [Next]_vars
               PROVE  CollectionInvariant'
    OBVIOUS
  <2>1. CASE UNCHANGED vars
    <3>1. UNCHANGED <<fetch, held, stuck, media, stage, outcomes, budget, refusal, aborted,
                      files, rows, uploaded, failure, fetchTime, clockMoved>>
      BY <2>1 DEF vars, fetchVars, collectionVars
    <3>2. FetchTyped' /\ ChainIsHeld' /\ CollectionTyped' /\ StagesKnow' /\ TimeIsMeasured'
      BY <3>1 DEF CollectionInvariant, FetchTyped, ChainIsHeld, Hop, CollectionTyped, StagesKnow,
                  IsRecordable, Position, Medium, TimeIsMeasured
    <3>3. FilesFollowOutcomes' /\ OutcomesAreJudged' /\ RefusalHasItsCause' /\ RefusalIsTruthful'
      BY <3>1 DEF CollectionInvariant, FilesFollowOutcomes, OutcomesAreJudged, IsReadPhoto,
                  IsIgnoredAudio, Handled, MediaThat, RefusalHasItsCause, RefusalIsTruthful,
                  Declares, IsOverALimit, Position
    <3> QED
      BY <3>2, <3>3 DEF CollectionInvariant
  <2> QED
    BY <2>1, RecordStep, ThrowStep, UnfetchedStep, FetchMediumStep, ContinueStep, StoreStep,
       SaveStep, BuildStep, RefuseCollectedStep, UploadStep, AbortStep
       DEF Next
<1> QED
  BY <1>1, InitCollectionInvariant, PTL DEF Spec

--------------------------------------------------------------------------------
(* What follows                                                             *)

\* Every variable of the collection and of its fetches keeps its type.
THEOREM MediaTypeCorrect == Spec => []MediaTypeOK
<1>1. CollectionInvariant => MediaTypeOK
  BY DEF CollectionInvariant, CollectionTyped, FetchTyped, FetchShape, FetchTypeOK, MediaTypeOK
<1> QED
  BY <1>1, CollectionInvariantHolds, PTL

\* A fetch that is over holds no connection but one whose cancel rejected, whatever
\* the hosts answer and however many hops it took (MediaFetchClient).
THEOREM FetchesHoldNothing == Spec => []EveryResponseIsDisposedOf
<1>1. CollectionInvariant => EveryResponseIsDisposedOf
  BY DEF CollectionInvariant, ChainIsHeld, EveryResponseIsDisposedOf
<1> QED
  BY <1>1, CollectionInvariantHolds, PTL

\* However slow the hosts are, the fetches of a run stay inside the step's budget
\* while the clock runs, and each inside its own bound always (AiRunMediaCollector).
THEOREM FetchesKeepTheBudget == Spec => []BudgetIsKept
<1>1. CollectionInvariant => BudgetIsKept
  <2> SUFFICES ASSUME CollectionInvariant
               PROVE  BudgetIsKept
    OBVIOUS
  <2> USE DEF CollectionInvariant
  <2>1. /\ Len(media) \in Nat /\ Len(outcomes) \in Nat /\ Len(outcomes) <= Len(media)
        /\ fetch.spent \in Nat /\ fetchTime \in Nat /\ budget \in Nat
        /\ fetch.spent <= budget /\ fetch.spent <= MediumTimeout
    BY CollectionIsASequence, MediaAssumption
       DEF CollectionTyped, FetchTyped, FetchShape, TimeIsMeasured
  <2>2. ~clockMoved => fetchTime <= MediaBudget
    <3>1. ~clockMoved => fetchTime + budget = MediaBudget + fetch.spent
      BY DEF TimeIsMeasured
    <3> HIDE DEF CollectionInvariant
    <3> QED
      BY <2>1, <3>1, MediaAssumption
  <2>3. fetchTime <= MediumTimeout * Len(media)
    <3>1. /\ fetchTime <= MediumTimeout * Len(outcomes) + fetch.spent
          /\ fetch.spent = 0 \/ Len(outcomes) < Len(media)
      BY DEF TimeIsMeasured
    <3> HIDE DEF CollectionInvariant
    <3>2. MediumTimeout * Len(outcomes) \in Nat /\ MediumTimeout * Len(media) \in Nat
      BY <2>1, TimesSuccessor, MediaAssumption
    <3>3. CASE fetch.spent = 0
      <4>1. MediumTimeout * Len(outcomes) <= MediumTimeout * Len(media)
        BY <2>1, TimesGrows, MediaAssumption
      <4> QED
        BY <2>1, <3>1, <3>2, <3>3, <4>1
    <3>4. CASE Len(outcomes) < Len(media)
      <4>1. MediumTimeout * (Len(outcomes) + 1) <= MediumTimeout * Len(media)
        BY <2>1, <3>4, TimesGrows, MediaAssumption
      <4>2. MediumTimeout * (Len(outcomes) + 1) = MediumTimeout * Len(outcomes) + MediumTimeout
        BY <2>1, TimesSuccessor, MediaAssumption
      <4> QED
        BY <2>1, <3>1, <3>2, <4>1, <4>2, MediaAssumption
    <3> QED
      BY <3>1, <3>3, <3>4
  <2> QED
    BY <2>2, <2>3 DEF BudgetIsKept
<1> QED
  BY <1>1, CollectionInvariantHolds, PTL

\* A run goes past the step with a copy, a row and a place at the provider for the
\* same media, and with every photo of it gone through (AiRunMediaPreparer).
THEOREM PreparedRunStandsComplete == Spec => []PreparedRunIsComplete
<1>1. CollectionInvariant => PreparedRunIsComplete
  <2> SUFFICES ASSUME CollectionInvariant, stage = "prepared"
               PROVE  /\ MediaThat("read") = files
                      /\ uploaded = files
                      /\ \A m \in DOMAIN media : (rows[m] = "readable") = (m \in files)
                      /\ ~aborted =>
                            /\ Handled = {m \in DOMAIN media : media[m].kind = "image"}
                            /\ Handled # {} => files # {}
                            /\ ~Declares("video") /\ ~IsOverALimit
    BY DEF PreparedRunIsComplete
  <2> USE DEF CollectionInvariant
  <2>1. /\ refusal = None /\ uploaded = files
        /\ Len(outcomes) = Len(media)
        /\ Handled # {} => MediaThat("read") # {}
    BY DEF StagesKnow, OutcomesAreJudged, RecordedStages
  <2>2. DOMAIN outcomes = DOMAIN media
    BY <2>1, CollectionIsASequence
  <2>3. MediaThat("read") = files
    BY <2>2 DEF FilesFollowOutcomes, MediaThat, CollectionTyped
  <2>4. \A m \in DOMAIN media : (rows[m] = "readable") = (m \in files)
    BY <2>2 DEF FilesFollowOutcomes, RecordedStages
  <2> QED
    BY <2>1, <2>3, <2>4, JudgedMediaAreSound
<1> QED
  BY <1>1, CollectionInvariantHolds, PTL

\* A run is refused for a reason its request or its fetches have, and nothing it
\* should be refused for is handed to the provider (buildUnreadableRefusal and the
\* limits of AiRunMediaLimitInspector).
THEOREM RefusalsAreTruthful == Spec => []RefusalIsTruthful
  BY CollectionInvariantHolds, PTL DEF CollectionInvariant

================================================================================
