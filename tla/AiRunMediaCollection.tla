------------------------- MODULE AiRunMediaCollection --------------------------
(***************************************************************************)
(* Step 2 of a run (AiRunMediaPreparer, with AiRunMediaRecorder,           *)
(* AiRunMediaCollector and AiRunMediaLimitInspector): the declared media   *)
(* are recorded, fetched one after the other inside a budget of time, kept *)
(* in the run's workspace and handed to the provider, or the run is        *)
(* refused.  Each fetch is one of MediaFetchClient.                        *)
(*                                                                         *)
(* A medium is what its declaration says of it, which nothing has checked  *)
(* before this step: its kind, its size in bytes, and whether it names a   *)
(* key and a media type.  Keys are told apart by position.                 *)
(***************************************************************************)
EXTENDS MediaFetchClient, Sequences

CONSTANTS
    DeclaredMedia,      \* the lists of media a request may declare
    MaximumMediaCount,
    MaximumByteSize,
    MediaBudget,        \* mediaBudgetMilliseconds, in units of time
    MediumTimeout,      \* mediumTimeoutMilliseconds, in units of time
    MediaFaults         \* which of MediaFaultKinds may happen

MediaFaultKinds == {"clock", "disk", "database", "provider"}

Kinds == {"image", "video", "audio", "hologram"}
Media == [kind : Kinds, byteSize : Int \cup {None}, isNamed : BOOLEAN]

MediaReasons == {"MEDIA_LIMIT_EXCEEDED", "MEDIA_UNSUPPORTED", "MEDIA_UNREADABLE"}

ASSUME MediaAssumption ==
    /\ DeclaredMedia \subseteq Seq(Media)
    /\ MaximumMediaCount \in Nat
    /\ MaximumByteSize \in Nat
    /\ MediaBudget \in Nat
    /\ MediumTimeout \in Nat
    /\ MediaFaults \subseteq MediaFaultKinds
    /\ None \notin MediaReasons

VARIABLES
    media,      \* the media the request declares
    stage,      \* where the step stands
    outcomes,   \* what the media gone through came to, in their order
    budget,     \* what is left of the budget
    refusal,    \* the reason the collection refuses the run for, or None
    aborted,    \* whether the run's signal was raised
    files,      \* the media whose copies are in the workspace
    rows,       \* ai_run_media: whether each medium was fetched and is readable
    uploaded,   \* the media handed to the provider
    failure,    \* the reason code the run fails under, or None
    fetchTime,  \* the time spent in fetches
    clockMoved  \* whether the wall clock was set while a medium was measured

collectionVars == <<media, stage, outcomes, budget, refusal, aborted, files,
                    rows, uploaded, failure, fetchTime, clockMoved>>
vars == <<fetchVars, collectionVars>>

Stages == {"declared", "collecting", "fetching", "saving", "collected",
           "prepared", "failed"}

\* A medium of a handled kind is read or unread.
Outcomes == {"read", "unread", "ignored", "refused"}

\* What a row of ai_run_media says: nothing was recorded, not fetched yet, or
\* fetched and readable or not.
RowStates == {None, "unfetched", "readable", "unreadable"}

MediaTypeOK ==
    /\ FetchTypeOK
    /\ media \in DeclaredMedia
    /\ stage \in Stages
    /\ outcomes \in Seq(Outcomes) /\ Len(outcomes) <= Len(media)
    /\ budget \in 0..MediaBudget
    /\ refusal \in MediaReasons \cup {None}
    /\ aborted \in BOOLEAN
    /\ files \subseteq DOMAIN media
    /\ rows \in [DOMAIN media -> RowStates]
    /\ uploaded \subseteq files
    /\ failure \in MediaReasons \cup {"PROVIDER_CALL_FAILED", None}
    /\ fetchTime \in Nat
    /\ clockMoved \in BOOLEAN

Init ==
    /\ FetchInit
    /\ media \in DeclaredMedia
    /\ stage = "declared"
    /\ outcomes = <<>>
    /\ budget = MediaBudget
    /\ refusal = None
    /\ aborted = FALSE
    /\ files = {}
    /\ rows = [m \in DOMAIN media |-> None]
    /\ uploaded = {}
    /\ failure = None
    /\ fetchTime = 0
    /\ clockMoved = FALSE

\* HANDLING_NAME of the kinds that have a master row.
Handling(kind) ==
    CASE kind = "image" -> "handle"
      [] kind = "video" -> "refuse"
      [] kind = "audio" -> "ignore"
      [] OTHER -> None

\* The medium the collection has come to.
Position == Len(outcomes) + 1
Medium == media[Position]

AtMedium ==
    stage = "collecting" /\ Position <= Len(media)

MediaThat(outcome) == {m \in DOMAIN outcomes : outcomes[m] = outcome}

Lesser(a, b) == IF a < b THEN a ELSE b

--------------------------------------------------------------------------------
(* Recording and counting                                                   *)

\* The work of the run throws, and an error that is no AiRunWorkFailure is a
\* failed provider call.
Throw ==
    /\ stage' = "failed"
    /\ failure' = "PROVIDER_CALL_FAILED"

\* buildRecordableValues throws for a medium without a key or a media type.
HasRecordableValues(medium) == medium.isNamed

\* ai_run_media: the kind and the size are NOT NULL, and a kind without a master row
\* has no id to put there.
IsMediaRow(medium) == Handling(medium.kind) # None /\ medium.byteSize # None

\* One insert for all media.
IsRecordable == \A m \in DOMAIN media : HasRecordableValues(media[m]) /\ IsMediaRow(media[m])

\* What a limit is held against; a size under zero is none.
ComparableWholeNumber(value) == IF value >= 0 THEN value ELSE None

IsWithinMediaCountLimit(mediaCount) == mediaCount <= MaximumMediaCount

IsWithinByteSizeLimit(byteSize) ==
    /\ ComparableWholeNumber(byteSize) # None
    /\ ComparableWholeNumber(byteSize) <= MaximumByteSize

\* The rows are written, the workspace is made, and the media are counted.
RecordDeclaredAiRunMedia ==
    /\ stage = "declared"
    /\ IsRecordable
    /\ rows' = [m \in DOMAIN media |-> "unfetched"]
    /\ IF IsWithinMediaCountLimit(Len(media))
          THEN stage' = "collecting" /\ UNCHANGED refusal
          ELSE stage' = "collected" /\ refusal' = "MEDIA_LIMIT_EXCEEDED"
    /\ UNCHANGED <<fetchVars, media, outcomes, budget, aborted, files, uploaded,
                   failure, fetchTime, clockMoved>>

FailToRecord ==
    /\ stage = "declared"
    /\ ~IsRecordable \/ MediaFaults \cap {"database", "disk"} # {}
    /\ Throw
    /\ UNCHANGED <<fetchVars, media, outcomes, budget, refusal, aborted, files,
                   rows, uploaded, fetchTime, clockMoved>>

--------------------------------------------------------------------------------
(* One medium after the other                                               *)

\* Faulty form: only the signal stops the collection.
ShouldCollectMedium_AfterRefusal(signalled) == ~signalled

ShouldCollectMedium(signalled) == refusal = None /\ ~signalled

\* A medium never reached is recorded as unread, whatever its kind.
SkipMedium ==
    /\ AtMedium
    /\ ~ShouldCollectMedium(aborted)
    /\ outcomes' = Append(outcomes, "unread")
    /\ UNCHANGED <<fetchVars, media, stage, budget, refusal, aborted, files, rows,
                   uploaded, failure, fetchTime, clockMoved>>

\* The instants around a medium may be read off a clock that was set between.
AppendCollectedMedium(outcome, code, spent) ==
    /\ outcomes' = Append(outcomes, outcome)
    /\ refusal' = code
    /\ stage' = "collecting"
    /\ \/ /\ budget' = IF budget > spent THEN budget - spent ELSE 0
          /\ UNCHANGED clockMoved
       \/ /\ "clock" \in MediaFaults
          /\ budget' \in 0..budget
          /\ clockMoved' = TRUE

RefuseMedium ==
    /\ AtMedium /\ ShouldCollectMedium(aborted)
    /\ Handling(Medium.kind) = "refuse"
    /\ AppendCollectedMedium("refused", "MEDIA_UNSUPPORTED", 0)
    /\ UNCHANGED <<fetchVars, media, aborted, files, rows, uploaded, failure, fetchTime>>

IgnoreMedium ==
    /\ AtMedium /\ ShouldCollectMedium(aborted)
    /\ Handling(Medium.kind) = "ignore"
    /\ AppendCollectedMedium("ignored", None, 0)
    /\ UNCHANGED <<fetchVars, media, aborted, files, rows, uploaded, failure, fetchTime>>

RefuseByteSize ==
    /\ AtMedium /\ ShouldCollectMedium(aborted)
    /\ Handling(Medium.kind) = "handle" /\ ~IsWithinByteSizeLimit(Medium.byteSize)
    /\ AppendCollectedMedium("unread", "MEDIA_LIMIT_EXCEEDED", 0)
    /\ UNCHANGED <<fetchVars, media, aborted, files, rows, uploaded, failure, fetchTime>>

\* Faulty form: every medium is given the whole of its own timeout.
FetchAllowance_OfMedium(remaining) == MediumTimeout

FetchAllowance(remaining) == Lesser(MediumTimeout, remaining)

\* fetchMediumBytes: a medium left without an allowance is not fetched.
FetchMedium ==
    /\ AtMedium /\ ShouldCollectMedium(aborted)
    /\ Handling(Medium.kind) = "handle" /\ IsWithinByteSizeLimit(Medium.byteSize)
    /\ IF FetchAllowance(budget) = 0
          THEN /\ fetch' = [NoFetch EXCEPT !.phase = "failed",
                              !.failureReasonCode = "MEDIA_FETCH_FAILED"]
               /\ held' = {} /\ stuck' = {}
          ELSE \E url \in Urls \cup {None} : StartFetch(url, FetchAllowance(budget))
    /\ stage' = "fetching"
    /\ UNCHANGED <<media, outcomes, budget, refusal, aborted, files, rows,
                   uploaded, failure, fetchTime, clockMoved>>

ContinueFetch ==
    /\ stage = "fetching"
    /\ FetchStep
    /\ fetchTime' = fetchTime + (fetch'.spent - fetch.spent)
    /\ UNCHANGED <<media, stage, outcomes, budget, refusal, aborted, files, rows,
                   uploaded, failure, clockMoved>>

\* A run that is over by now keeps no copy.
StoreFetchedMedium ==
    /\ stage = "fetching"
    /\ fetch.phase \in {"fetched", "failed"}
    /\ files' = IF fetch.phase = "fetched" /\ ~aborted THEN files \cup {Position} ELSE files
    /\ stage' = "saving"
    /\ UNCHANGED <<fetchVars, media, outcomes, budget, refusal, aborted, rows,
                   uploaded, failure, fetchTime, clockMoved>>

FailToStore ==
    /\ stage = "fetching"
    /\ fetch.phase = "fetched" /\ ~aborted /\ "disk" \in MediaFaults
    /\ Throw
    /\ UNCHANGED <<fetchVars, media, outcomes, budget, refusal, aborted, files,
                   rows, uploaded, fetchTime, clockMoved>>

IsReadable(m) == m \in files

SaveFetchedMedium ==
    /\ stage = "saving"
    /\ rows' = [rows EXCEPT ![Position] =
                  IF IsReadable(Position) THEN "readable" ELSE "unreadable"]
    /\ AppendCollectedMedium(IF IsReadable(Position) THEN "read" ELSE "unread",
                             None, fetch.spent)
    /\ fetch' = NoFetch /\ held' = {} /\ stuck' = {}
    /\ UNCHANGED <<media, aborted, files, uploaded, failure, fetchTime>>

FailToSave ==
    /\ stage = "saving"
    /\ "database" \in MediaFaults
    /\ Throw
    /\ UNCHANGED <<fetchVars, media, outcomes, budget, refusal, aborted, files,
                   rows, uploaded, fetchTime, clockMoved>>

--------------------------------------------------------------------------------
(* The end of the collection                                                *)

Handled == MediaThat("read") \cup MediaThat("unread")

\* Faulty form: a run all of whose media went unread goes on without any.
UnreadableRefusal_Never(code) == code

\* buildUnreadableRefusal, when nothing else refuses the run.
UnreadableRefusal(code) ==
    IF code = None /\ Handled # {} /\ MediaThat("read") = {}
    THEN "MEDIA_UNREADABLE" ELSE code

BuildCollectedAiRunMedia ==
    /\ stage = "collecting" /\ Position > Len(media)
    /\ stage' = "collected"
    /\ refusal' = UnreadableRefusal(refusal)
    /\ UNCHANGED <<fetchVars, media, outcomes, budget, aborted, files, rows,
                   uploaded, failure, fetchTime, clockMoved>>

\* The step's row is written with the reason, and the reason is thrown.
RefuseCollectedAiRunMedia ==
    /\ stage = "collected"
    /\ refusal # None
    /\ stage' = "failed"
    /\ failure' = refusal
    /\ UNCHANGED <<fetchVars, media, outcomes, budget, refusal, aborted, files,
                   rows, uploaded, fetchTime, clockMoved>>

\* The copies are handed over and the step's row is written.
UploadAiRunMedia ==
    /\ stage = "collected"
    /\ refusal = None
    /\ uploaded' = MediaThat("read")
    /\ stage' = "prepared"
    /\ UNCHANGED <<fetchVars, media, outcomes, budget, refusal, aborted, files,
                   rows, failure, fetchTime, clockMoved>>

\* The provider or a query fails: some of the copies may have left by then.
FailToUpload ==
    /\ stage = "collected"
    /\ \/ /\ refusal = None
          /\ MediaFaults \cap {"provider", "database"} # {}
          /\ uploaded' \in SUBSET MediaThat("read")
       \/ refusal # None /\ "database" \in MediaFaults /\ UNCHANGED uploaded
    /\ Throw
    /\ UNCHANGED <<fetchVars, media, outcomes, budget, refusal, aborted, files,
                   rows, fetchTime, clockMoved>>

\* The run is canceled or past its limit.
AbortRun ==
    /\ ~aborted
    /\ stage \notin {"prepared", "failed"}
    /\ aborted' = TRUE
    /\ UNCHANGED <<fetchVars, media, stage, outcomes, budget, refusal, files,
                   rows, uploaded, failure, fetchTime, clockMoved>>

Next ==
    \/ RecordDeclaredAiRunMedia
    \/ FailToRecord
    \/ SkipMedium
    \/ RefuseMedium
    \/ IgnoreMedium
    \/ RefuseByteSize
    \/ FetchMedium
    \/ ContinueFetch
    \/ StoreFetchedMedium
    \/ FailToStore
    \/ SaveFetchedMedium
    \/ FailToSave
    \/ BuildCollectedAiRunMedia
    \/ RefuseCollectedAiRunMedia
    \/ UploadAiRunMedia
    \/ FailToUpload
    \/ AbortRun

Spec == Init /\ [][Next]_vars

--------------------------------------------------------------------------------
(* Properties                                                               *)

Declares(kind) == \E m \in DOMAIN media : media[m].kind = kind
IsOverALimit ==
    \/ Len(media) > MaximumMediaCount
    \/ \E m \in DOMAIN media :
        media[m].kind = "image" /\ media[m].byteSize \notin 0..MaximumByteSize

\* The fetches of a run together never spend more than the budget of the step,
\* however slow the hosts are, unless the clock was set while one was measured;
\* then what each medium is given still bounds them.
BudgetIsKept ==
    /\ ~clockMoved => fetchTime <= MediaBudget
    /\ fetchTime <= MediumTimeout * Len(media)

\* A run that goes on past this step names as readable exactly the media whose
\* copies it keeps, and unless it was told to stop, every photo is read or
\* named as unreadable, no audio is named, one photo at least was read if one
\* was sent, and the request held nothing this version refuses.
PreparedRunIsComplete ==
    stage = "prepared" =>
        /\ MediaThat("read") = files
        /\ uploaded = files
        /\ \A m \in DOMAIN media : (rows[m] = "readable") = (m \in files)
        /\ ~aborted =>
              /\ Handled = {m \in DOMAIN media : media[m].kind = "image"}
              /\ Handled # {} => files # {}
              /\ ~Declares("video") /\ ~IsOverALimit

\* Nothing of a request that holds a video or passes a limit reaches the
\* provider, and a run that fails names a cause its request or its fetches
\* have, unless it was told to stop.
RefusalIsTruthful ==
    /\ uploaded # {} /\ ~aborted => ~Declares("video") /\ ~IsOverALimit
    /\ failure = "MEDIA_UNSUPPORTED" => Declares("video")
    /\ failure = "MEDIA_LIMIT_EXCEEDED" => IsOverALimit
    /\ failure = "MEDIA_UNREADABLE" => files = {} /\ (Declares("image") \/ aborted)
    /\ failure \in MediaReasons => uploaded = {}

\* Claimed of a kind that names no master row: "the run is refused for it one
\* step later and with more to say" (AiRunMediaRecorder.js:214-216), under
\* MEDIA_UNSUPPORTED (AiRunMediaCollector.js:59-66).
UnrecognizedKindIsRefusedByName ==
    stage = "failed" /\ Declares("hologram") => failure \in MediaReasons

================================================================================
