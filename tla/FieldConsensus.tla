----------------------------- MODULE FieldConsensus ----------------------------
(***************************************************************************)
(* What a run computes (AssetMediaExtractionRunner over                    *)
(* SuggestibleFieldSelector, AssetMediaReadingFetcher,                     *)
(* AssetFieldReadingInspector, FieldConsensusResolver,                     *)
(* AssetFieldConfidenceScorer, AiRunStepRecorder and                       *)
(* AiRunFieldOutcomeRecorder): the fields a model may suggest are          *)
(* selected, the model is asked ReadingCount times, each reading that came *)
(* back is inspected against the client's schema, a field settles on the   *)
(* value that more than half of the readings asked for agree on, what      *)
(* settled is scored, and every required or settled field has one outcome  *)
(* row.  Step 2, the media, is AiRunMediaCollection; a query that fails    *)
(* outside a call is left to AssetMediaExtractionWork.                     *)
(***************************************************************************)
EXTENDS AssetMediaReadingCalls

CONSTANTS
    Schemas,            \* the field schemas clients send: sequences of entries
    NumberText,         \* NumberText[text]: a number's own text, for every text of one
    NumberOf,           \* NumberOf[text]: that number
    LengthOf,           \* LengthOf[text]: how long a text is
    RecordablePaths,    \* the paths FIELD_PATH_PATTERN takes
    Weight,             \* Weight[kind]: in percent, for every evidence kind
    FieldState          \* FieldState[kind]: the state of a field that rests on it

EvidenceKinds == DOMAIN Weight

\* The kinds of value a model may be asked for.
SuggestibleValueKinds == {"text", "number", "select"}

FieldStatuses == {"missing"} \cup {FieldState[kind] : kind \in EvidenceKinds}

\* The full confidence, in the units of the last of its four decimals.
FullConfidence == 10000

\* What the INTEGER of a count holds.
MaximumReadingCount == 2147483647

\* ASSET_FIELD_REJECTION_REASON_CODE, of those an item of a reading is dropped under.
RejectionReasonCodes ==
    {"field-path-outside-schema", "evidence-kind-outside-schema", "reason-absent",
     "select-option-not-offered", "number-failed-expected-form", "number-out-of-range",
     "value-over-max-length", "source-medium-not-sent"}

\* What the entries of a schema may hold: bounds are numbers, and the numbers between
\* them are written.
IsEntry(entry) ==
    /\ IsASequence(entry.options)
    /\ \A bound \in {entry.minimum, entry.maximum, entry.maxLength} \ {Absent} : bound \in Int
    /\ entry.kind = "number" =>
          MinimumNumber(entry)..MaximumNumber(entry) \subseteq DOMAIN WholeNumberText

ASSUME ConsensusAssumption ==
    /\ \A kind \in EvidenceKinds : Weight[kind] \in 1..100
    /\ EvidenceKinds = {EvidenceKindNames[n] : n \in DOMAIN EvidenceKindNames}
    /\ DOMAIN FieldState = EvidenceKinds
    /\ \A kind \in EvidenceKinds : FieldState[kind] # "missing"
    /\ Absent \notin EvidenceKinds \cup RecordablePaths \cup RejectionReasonCodes
    /\ ReadingCount <= MaximumReadingCount
    /\ \A fields \in Schemas : IsArray(fields) /\ \A entry \in Range(fields) : IsEntry(entry)
    /\ DOMAIN NumberOf = DOMAIN NumberText
    /\ Absent \notin Range(NumberText)
    /\ \A n \in DOMAIN WholeNumberText :
          /\ WholeNumberText[n] \in DOMAIN NumberOf
          /\ NumberOf[WholeNumberText[n]] = Unit * n
    /\ \A draw \in Draws : \A n \in DOMAIN StubText[draw] : LengthOf[StubText[draw][n]] = n

VARIABLES
    schema,         \* the schema of this run: a sequence of entries
    phase,          \* which step is under way
    allowed,        \* what step 4 leaves of the readings that came back
    settled,        \* the fields a majority settled
    unsaved,        \* the outcome rows a step has still to write
    fieldOutcomes,  \* the outcome rows
    steps           \* the rows of ai_run_steps

consensusVars == <<callVars, schema, phase, allowed, settled, unsaved, fieldOutcomes, steps>>

Phases == {"selecting", "binding", "composing", "called", "inspecting", "resolving",
           "missing", "scoring", "scored", "answered", "threw"}

ConsensusInit ==
    /\ CallsInit
    /\ schema \in Schemas
    /\ phase = "selecting"
    /\ allowed = <<>>
    /\ settled = {}
    /\ unsaved = {}
    /\ fieldOutcomes = {}
    /\ steps = {}

Proceed(from, to) ==
    /\ phase = from
    /\ phase' = to

\* A rejection whose path is not one is dropped off the row.
RecordableRejections(rejections) == {r \in rejections : r.path \in RecordablePaths}

SaveAiRunStep(index, outcomeCode, rejections) ==
    steps' = steps \cup
        {[stepIndex |-> index, outcomeCode |-> outcomeCode,
          rejections |-> RecordableRejections(rejections),
          hasReasonCode |-> rejections # {}]}

--------------------------------------------------------------------------------
(* Steps 1 and 3: the fields and the readings                               *)

\* An entry with a path, of a kind a model may be asked for.
IsSuggestible(entry) == entry.path # "" /\ entry.kind \in SuggestibleValueKinds

\* What the keyless driver supplies for a schema is something.
ASSUME SuppliedAssumption ==
    \A fields \in Schemas :
        LET suggestible == RestrictValues(fields, IsSuggestible)
        IN  \A drawOf \in DigestedNumbers(suggestible) :
                Absent \notin {FieldReadings(suggestible, ReadableMediaKeys, drawOf),
                               SuppliedFunctionCalls(suggestible, drawOf)}

\* A run without such a field is answered at once, with nothing.
SelectSuggestibleFieldSchema ==
    LET fields == RestrictValues(schema, IsSuggestible)
    IN  /\ Proceed("selecting", IF fields = <<>> THEN "answered" ELSE "binding")
        /\ schema' = fields
        /\ SaveAiRunStep(1, IF fields = <<>> THEN "no_fields_kept" ELSE "fields_kept", {})
        /\ UNCHANGED <<callVars, allowed, settled, unsaved, fieldOutcomes>>

EnsureAiAgentModelBinding ==
    /\ Proceed("binding", IF IsBound THEN "composing" ELSE "threw")
    /\ UNCHANGED <<callVars, schema, allowed, settled, unsaved, fieldOutcomes, steps>>

RefusePrompt ==
    /\ ~(IsComposable /\ OffersReadingTool)
    /\ Proceed("composing", "threw")
    /\ UNCHANGED <<callVars, schema, allowed, settled, unsaved, fieldOutcomes, steps>>

FetchReadingsConcurrently ==
    /\ IsComposable
    /\ OffersReadingTool
    /\ Proceed("composing", "called")
    /\ TakeReadings(schema)
    /\ UNCHANGED <<schema, allowed, settled, unsaved, fieldOutcomes, steps>>

\* The calls go on beside the run, and after it threw.
FetchOneReading ==
    /\ phase \in {"called", "threw"}
    /\ CallStep
    /\ UNCHANGED <<schema, phase, allowed, settled, unsaved, fieldOutcomes, steps>>

RaiseSignal ==
    /\ phase # "answered"
    /\ AbortReadings
    /\ UNCHANGED <<schema, phase, allowed, settled, unsaved, fieldOutcomes, steps>>

RejectReadings ==
    /\ HasThrown
    /\ Proceed("called", "threw")
    /\ UNCHANGED <<callVars, schema, allowed, settled, unsaved, fieldOutcomes, steps>>

\* A run that was called off goes on without a reading.
EnsureSomeReadingTaken ==
    /\ IsFulfilled
    /\ IF Taken = {} /\ ~isAborted
       THEN Proceed("called", "threw") /\ UNCHANGED steps
       ELSE /\ Proceed("called", "inspecting")
            /\ SaveAiRunStep(3, "readings_returned", {})
    /\ UNCHANGED <<callVars, schema, allowed, settled, unsaved, fieldOutcomes>>

--------------------------------------------------------------------------------
(* Step 4: what the schema allows                                           *)

SchemaPaths == {schema[n].path : n \in DOMAIN schema}

\* What an item on a path the schema does not have is held against.
NoEntry ==
    [path |-> "", kind |-> Absent, isRequired |-> FALSE, options |-> <<>>,
     minimum |-> Absent, maximum |-> Absent, maxLength |-> Absent]

\* A path declared twice keeps the first entry.
EntryOf(path) ==
    IF path \in SchemaPaths
    THEN schema[FirstOf({n \in DOMAIN schema : schema[n].path = path})]
    ELSE NoEntry

CarriesRecognizedEvidenceKind(item) == item.evidence \in EvidenceKinds

CarriesReason(item) == item.hasReason

CarriesOfferedSelectOption(item, entry) ==
    entry.kind = "select" => \E n \in DOMAIN entry.options : entry.options[n] = item.value

\* A number, or a text that is written as one.
ComparableNumber(value) ==
    IF value.text \in DOMAIN NumberText THEN NumberText[value.text] ELSE Absent

CarriesExpectedNumberForm(item, entry) ==
    entry.kind = "number" => ComparableNumber(item.value) # Absent

\* The bounds of an entry that states them.
FallsWithinStatedRange(item, entry) ==
    entry.kind = "number" /\ ComparableNumber(item.value) # Absent =>
        /\ entry.minimum # Absent => NumberOf[item.value.text] >= entry.minimum
        /\ entry.maximum # Absent => NumberOf[item.value.text] <= entry.maximum

\* Only a text has a length.
FallsWithinStatedMaxLength(item, entry) ==
    entry.maxLength # Absent /\ item.value.type = "string" =>
        LengthOf[item.value.text] <= entry.maxLength

SentMedia == {ReadableMediaKeys[n] : n \in DOMAIN ReadableMediaKeys}

CitesSentMediaOnly(item) == item.media # {} /\ item.media \subseteq SentMedia

Check(isAllowed, reasonCode) == [isAllowed |-> isAllowed, reasonCode |-> reasonCode]

\* Faulty form: nobody asks about the evidence kind.
InspectionEntries_AnyEvidence(item) ==
    LET entry == EntryOf(item.path)
    IN  <<Check(entry # NoEntry, "field-path-outside-schema"),
          Check(CarriesReason(item), "reason-absent"),
          Check(CarriesOfferedSelectOption(item, entry), "select-option-not-offered"),
          Check(CarriesExpectedNumberForm(item, entry), "number-failed-expected-form"),
          Check(FallsWithinStatedRange(item, entry), "number-out-of-range"),
          Check(FallsWithinStatedMaxLength(item, entry), "value-over-max-length"),
          Check(CitesSentMediaOnly(item), "source-medium-not-sent")>>

\* The checks in the order they are asked.
InspectionEntries(item) ==
    LET entry == EntryOf(item.path)
    IN  <<Check(entry # NoEntry, "field-path-outside-schema"),
          Check(CarriesRecognizedEvidenceKind(item), "evidence-kind-outside-schema"),
          Check(CarriesReason(item), "reason-absent"),
          Check(CarriesOfferedSelectOption(item, entry), "select-option-not-offered"),
          Check(CarriesExpectedNumberForm(item, entry), "number-failed-expected-form"),
          Check(FallsWithinStatedRange(item, entry), "number-out-of-range"),
          Check(FallsWithinStatedMaxLength(item, entry), "value-over-max-length"),
          Check(CitesSentMediaOnly(item), "source-medium-not-sent")>>

\* The first check an item fails.
RejectionReason(item) ==
    LET entries == InspectionEntries(item)
        broken == {n \in DOMAIN entries : ~entries[n].isAllowed}
    IN  IF broken = {} THEN Absent ELSE entries[FirstOf(broken)].reasonCode

IsAllowed(item) == RejectionReason(item) = Absent

\* A number field's value becomes a number, so that 3.0 reads 3; any other value
\* stays as it came.
NormalizedValue(item) ==
    IF EntryOf(item.path).kind = "number"
    THEN [text |-> ComparableNumber(item.value), type |-> "number"]
    ELSE item.value

\* An item as step 5 sees it.
AllowedItem(item) ==
    [path |-> item.path, value |-> NormalizedValue(item),
     evidence |-> item.evidence, media |-> item.media]

\* A rejection names a reading by its place among those taken.
ReadingRejection(item, i) ==
    [path |-> item.path, reasonCode |-> RejectionReason(item), figure |-> PlaceAmongTaken(i)]

InspectReadings ==
    LET readings == TakenReadings
        kept(i) == RestrictValues(readings[i], IsAllowed)
        dropped(i) == {n \in DOMAIN readings[i] : ~IsAllowed(readings[i][n])}
        rejections == UNION {{ReadingRejection(readings[i][n], i) : n \in dropped(i)} :
                                i \in DOMAIN readings}
    IN  /\ Proceed("inspecting", "resolving")
        /\ allowed' = [i \in DOMAIN readings |->
                          [n \in DOMAIN kept(i) |-> AllowedItem(kept(i)[n])]]
        /\ SaveAiRunStep(4, IF rejections = {} THEN "readings_kept" ELSE "readings_dropped",
                         rejections)
        /\ UNCHANGED <<callVars, schema, settled, unsaved, fieldOutcomes>>

--------------------------------------------------------------------------------
(* Step 5: the majority                                                     *)

ReadFieldPaths == UNION {{allowed[k][n].path : n \in DOMAIN allowed[k]} : k \in DOMAIN allowed}

\* A reading votes once for a path, with its first answer.
VotesOf(path) ==
    LET answering(k) == {n \in DOMAIN allowed[k] : allowed[k][n].path = path}
    IN  [k \in {j \in DOMAIN allowed : answering(j) # {}} |-> allowed[k][FirstOf(answering(k))]]

\* The votes that read the same as text.
VoteGroup(votes, k) == {j \in DOMAIN votes : votes[j].value.text = votes[k].value.text}

\* The largest group, and of two as large the one that was voted for first.
LargestVoteGroup(path) ==
    LET votes == VotesOf(path)
        largest == {k \in DOMAIN votes : \A j \in DOMAIN votes :
                       Cardinality(VoteGroup(votes, j)) <= Cardinality(VoteGroup(votes, k))}
    IN  IF largest = {} THEN {} ELSE VoteGroup(votes, FirstOf(largest))

AgreedReadingCount(path) == Cardinality(LargestVoteGroup(path))

\* Faulty form: a majority of the readings that came back is enough.
IsAbsoluteMajority_OfTaken(agreed) == 2 * agreed > Cardinality(DOMAIN allowed)

IsAbsoluteMajority(agreed) == 2 * agreed > ReadingCount

\* Faulty form: the media any reading cited for the field.
AgreedSourceMedia_OfAll(path) == UNION {VotesOf(path)[k].media : k \in DOMAIN VotesOf(path)}

\* The media the agreeing readings cited for the field.
AgreedSourceMedia(path) == UNION {VotesOf(path)[k].media : k \in LargestVoteGroup(path)}

\* A field's value and evidence are those of the first agreeing reading.
SettledField(path) ==
    LET first == VotesOf(path)[FirstOf(LargestVoteGroup(path))]
    IN  [path |-> path, value |-> first.value, evidence |-> first.evidence,
         media |-> AgreedSourceMedia(path), agreed |-> AgreedReadingCount(path)]

SettledFields ==
    {SettledField(path) :
        path \in {p \in ReadFieldPaths : IsAbsoluteMajority(AgreedReadingCount(p))}}

PathsOf(fields) == {f.path : f \in fields}

RequiredEntries == {n \in DOMAIN schema : schema[n].isRequired}

\* What was read or is required, and did not settle.
UnsettledFieldPaths(fields) ==
    (ReadFieldPaths \cup {schema[n].path : n \in RequiredEntries}) \ PathsOf(fields)

MajorityRejections(fields) ==
    {[path |-> path, reasonCode |-> "no-absolute-majority",
      figure |-> AgreedReadingCount(path)] : path \in UnsettledFieldPaths(fields)}

\* Faulty form: a required field no reading speaks of is not missed.
MissingEntries_OfRead(fields) ==
    {n \in RequiredEntries : schema[n].path \in ReadFieldPaths \ PathsOf(fields)}

\* The required entries of the schema that no settled field answers.
MissingEntries(fields) == {n \in RequiredEntries : schema[n].path \notin PathsOf(fields)}

\* The count a missing field is recorded with is the one its rejection carries.
MissingOutcome(n, rejections) ==
    [entry |-> n, path |-> schema[n].path, status |-> "missing", stepIndex |-> 5,
     agreed |-> (CHOOSE r \in rejections : r.path = schema[n].path).figure,
     total |-> ReadingCount, evidence |-> Absent, confidence |-> Absent]

ResolveFieldConsensus ==
    LET fields == SettledFields
        rejections == MajorityRejections(fields)
    IN  /\ Proceed("resolving", "missing")
        /\ settled' = fields
        /\ unsaved' = {MissingOutcome(n, rejections) : n \in MissingEntries(fields)}
        /\ SaveAiRunStep(5, "fields_settled", rejections)
        /\ UNCHANGED <<callVars, schema, allowed, fieldOutcomes>>

--------------------------------------------------------------------------------
(* The outcome rows                                                         *)

SettlesField(row) == row.status # "missing"

\* A missing field keeps neither evidence nor confidence.
SettledEvidence(row) == IF SettlesField(row) THEN row.evidence ELSE Absent

SettledConfidence(row) == IF SettlesField(row) THEN row.confidence ELSE Absent

IsKnownFieldStatus(row) == row.status \in FieldStatuses

HasRecordableReadingCounts(row) ==
    /\ row.agreed \in 0..MaximumReadingCount
    /\ row.total \in 0..MaximumReadingCount
    /\ row.agreed <= row.total

LacksSettledRecord(row) ==
    SettlesField(row) /\ (SettledEvidence(row) = Absent \/ SettledConfidence(row) = Absent)

CarriesUnrecordableScore(row) ==
    SettlesField(row) /\ SettledConfidence(row) \notin 0..FullConfidence

CarriesUnknownEvidenceKind(row) ==
    SettledEvidence(row) # Absent /\ SettledEvidence(row) \notin EvidenceKinds

\* The step the row names is one the run has saved.
BelongsToAiRun(row) == \E step \in steps : step.stepIndex = row.stepIndex

\* FIELD_PATH_PATTERN: a path that does not match is written as none.
SettledFieldPath(row) == IF row.path \in RecordablePaths THEN row.path ELSE Absent

\* ai_run_field_outcomes: the path is NOT NULL and is the only one of the run.
IsOutcomeRow(row) ==
    /\ SettledFieldPath(row) # Absent
    /\ SettledFieldPath(row) \notin PathsOf(fieldOutcomes)

IsRecordableOutcome(row) ==
    /\ BelongsToAiRun(row)
    /\ IsKnownFieldStatus(row)
    /\ HasRecordableReadingCounts(row)
    /\ ~LacksSettledRecord(row)
    /\ ~CarriesUnrecordableScore(row)
    /\ ~CarriesUnknownEvidenceKind(row)
    /\ IsOutcomeRow(row)

\* One row after the other; the first that is refused is thrown.
SaveAiRunFieldOutcome(row) ==
    /\ phase \in {"missing", "scored"}
    /\ row \in unsaved
    /\ unsaved' = unsaved \ {row}
    /\ IF IsRecordableOutcome(row)
       THEN fieldOutcomes' = fieldOutcomes \cup {row} /\ phase' = phase
       ELSE phase' = "threw" /\ UNCHANGED fieldOutcomes
    /\ UNCHANGED <<callVars, schema, allowed, settled, steps>>

FinishMissing ==
    /\ unsaved = {}
    /\ Proceed("missing", "scoring")
    /\ UNCHANGED <<callVars, schema, allowed, settled, unsaved, fieldOutcomes, steps>>

--------------------------------------------------------------------------------
(* Step 6: the score                                                        *)

\* agreed of ReadingCount times the weight, rounded to four decimals.
Confidence(agreed, kind) ==
    (2 * agreed * Weight[kind] * 100 + ReadingCount) \div (2 * ReadingCount)

ScoredOutcome(f) ==
    [entry |-> 0, path |-> f.path, status |-> FieldState[f.evidence], stepIndex |-> 6,
     agreed |-> f.agreed, total |-> ReadingCount, evidence |-> f.evidence,
     confidence |-> Confidence(f.agreed, f.evidence)]

\* A field on an evidence kind that has no weight is thrown, before the step is saved.
ScoreSettledFields ==
    /\ IF \A f \in settled : f.evidence \in EvidenceKinds
       THEN /\ Proceed("scoring", "scored")
            /\ unsaved' = {ScoredOutcome(f) : f \in settled}
            /\ SaveAiRunStep(6, "confidence_scored", {})
       ELSE Proceed("scoring", "threw") /\ UNCHANGED <<unsaved, steps>>
    /\ UNCHANGED <<callVars, schema, allowed, settled, fieldOutcomes>>

GenerateResultBody ==
    /\ unsaved = {}
    /\ Proceed("scored", "answered")
    /\ UNCHANGED <<callVars, schema, allowed, settled, unsaved, fieldOutcomes, steps>>

--------------------------------------------------------------------------------

ConsensusNext ==
    \/ SelectSuggestibleFieldSchema
    \/ EnsureAiAgentModelBinding
    \/ RefusePrompt
    \/ FetchReadingsConcurrently
    \/ FetchOneReading
    \/ RaiseSignal
    \/ RejectReadings
    \/ EnsureSomeReadingTaken
    \/ InspectReadings
    \/ ResolveFieldConsensus
    \/ \E row \in unsaved : SaveAiRunFieldOutcome(row)
    \/ FinishMissing
    \/ ScoreSettledFields
    \/ GenerateResultBody

ConsensusSpec == ConsensusInit /\ [][ConsensusNext]_consensusVars

--------------------------------------------------------------------------------
(* Properties                                                               *)

\* Every variable holds what the code can hold.  A row keeps as many agreeing
\* readings as were asked at most, a settled one a confidence over nothing and up
\* to the whole, which is what DECIMAL(5, 4) and the recorder take
\* (AssetFieldConfidenceScorer.generateRoundedConfidence,
\* AiRunFieldOutcomeRecorder.carriesUnrecordableScore).
ConsensusTypeOK ==
    /\ CallsTypeOK
    /\ schema \in Schemas \cup {RestrictValues(fields, IsSuggestible) : fields \in Schemas}
    /\ phase \in Phases
    /\ DOMAIN allowed \subseteq Indexes
    /\ \A f \in settled : f.path \in SchemaPaths /\ f.agreed \in Indexes
    /\ \A row \in unsaved \cup fieldOutcomes :
          /\ row.path \in SchemaPaths
          /\ row.agreed \in 0..ReadingCount
          /\ \/ row.status = "missing" /\ row.confidence = Absent
             \/ row.status # "missing" /\ row.confidence \in 1..FullConfidence
    /\ \A step \in steps :
          /\ step.stepIndex \in 1..6
          /\ \A r \in step.rejections : r.figure \in 0..ReadingCount
          /\ \A other \in steps : other.stepIndex = step.stepIndex => other = step

\* A run that goes on from its readings has no call left behind it, and for every call
\* the provider was sent, and for no other, one row of what it came back with: a failed
\* reading is recorded too.  A run that threw may leave calls under way; those are
\* recorded as well in the end, unless their own row is what threw
\* (AssetMediaReadingFetcher.fetchOneReading, fetchReadingsConcurrently).
EveryCallIsRecorded ==
    /\ phase \in {"inspecting", "resolving", "missing", "scoring", "scored"} =>
          \A i \in Indexes : IsAtRest(i) /\ calls[i].phase # "threw"
    /\ \A i \in Indexes :
          LET rows == {row \in aiModelCalls : row.readingIndex = i}
          IN  IF calls[i].phase \in {"taken", "failed"}
              THEN rows = {AiModelCall(i)}
              ELSE rows = {}
    /\ calls # [i \in Indexes |-> NoCall] => IsBound /\ IsComposable /\ OffersReadingTool

IsResolved == phase \in {"missing", "scoring", "scored", "answered"} /\ schema # <<>>

\* What a reading says of a path is its first allowed item there.
ItemsOn(i, path) ==
    LET reading == ReadingOf(i)
    IN  {n \in DOMAIN reading : reading[n].path = path /\ IsAllowed(reading[n])}

FirstItemOn(i, path) == ReadingOf(i)[FirstOf(ItemsOn(i, path))]

SaidOn(path) ==
    [i \in {j \in Taken : ItemsOn(j, path) # {}} |->
        NormalizedValue(FirstItemOn(i, path)).text]

TextsOf(said) == {said[i] : i \in DOMAIN said}

VoicesFor(text, said) == Cardinality({i \in DOMAIN said : said[i] = text})

\* A value settles exactly when more than half of the readings that were asked for,
\* the failed ones counted, say it first; however often one reading repeats itself,
\* it is one voice, and the count that goes with the value is that of the voices
\* (FieldConsensusResolver.resolveFieldConsensus and isAbsoluteMajority).
SettledIffMajority ==
    IsResolved =>
        \A path \in SchemaPaths :
            LET said == SaidOn(path)
            IN  \A text \in TextsOf(said) \cup {f.value.text : f \in settled} :
                    LET won == {f \in settled : f.path = path /\ f.value.text = text}
                    IN  /\ 2 * VoicesFor(text, said) > ReadingCount <=> won # {}
                        /\ \A f \in won : f.agreed = VoicesFor(text, said)

\* Every medium a settled field rests on was sent to the model and is cited, for this
\* very value, by a reading that agrees; and there is one at least
\* (AssetFieldReadingInspector.citesSentMediaOnly,
\* FieldConsensusResolver.extractAgreedSourceMediaKeys).
AgreedEvidence ==
    \A f \in settled :
        /\ f.media # {}
        /\ f.media \subseteq SentMedia
        /\ \A medium \in f.media : \E i \in Taken :
              /\ ItemsOn(i, f.path) # {}
              /\ NormalizedValue(FirstItemOn(i, f.path)).text = f.value.text
              /\ medium \in FirstItemOn(i, f.path).media

Rejected(index) == UNION {step.rejections : step \in {s \in steps : s.stepIndex = index}}

\* The voices behind the text most readings say.
MostVoices(said) ==
    LET voices == {0} \cup {VoicesFor(text, said) : text \in TextsOf(said)}
    IN  CHOOSE voice \in voices : \A other \in voices : other <= voice

HasItsRow(path) ==
    LET rows == {row \in fieldOutcomes : row.path = path}
        most == MostVoices(SaidOn(path))
        isRequired == \E n \in RequiredEntries : schema[n].path = path
        isSettled == 2 * most > ReadingCount
    IN  IF isSettled \/ isRequired
        THEN \E row \in rows :
                rows = {row} /\ (SettlesField(row) <=> isSettled) /\ row.agreed = most
        ELSE rows = {}

\* A path that was read is settled, or rejected, or none a rejection can name.
IsAccountedFor(path) ==
    \/ path \notin RecordablePaths
    \/ path \in PathsOf(settled) \cup PathsOf(Rejected(4)) \cup PathsOf(Rejected(5))

\* When a run answers, its outcome rows account for the schema: one row for every
\* settled field, over half of the readings behind it; one for every required field
\* that did not settle, with at most half behind it; and none for any other.  And its
\* trace accounts for what the readings said: an item was dropped for a reason, or its
\* field settled, or no majority was found for it
\* (AssetMediaExtractionRunner.saveMissingAiRunFieldOutcomes,
\* saveScoredAiRunFieldOutcomes and the steps it saves).
EveryFieldIsAccountedFor ==
    phase = "answered" =>
        /\ \A path \in SchemaPaths : HasItsRow(path)
        /\ \A i \in Taken : \A n \in DOMAIN ReadingOf(i) : IsAccountedFor(ReadingOf(i)[n].path)

\* A schema whose missing fields cannot all have a row: nothing checks it for a
\* required path that is not a path, or is declared twice.
IsUnrecordableSchema ==
    \/ ~(SchemaPaths \subseteq RecordablePaths)
    \/ \E n, m \in DOMAIN schema :
          /\ n # m
          /\ schema[n].path = schema[m].path
          /\ schema[n].isRequired /\ schema[m].isRequired

\* Whatever the model says, a run whose agent is set up, none of whose calls threw and
\* that got one reading fails on these steps only for its client's schema: what a
\* reading holds against it costs that item, never the run
\* (AssetFieldReadingInspector.inspectReading, and the two refusals of
\* AssetFieldConfidenceScorer.scoreSettledField and
\* AiRunFieldOutcomeRecorder.saveAiRunFieldOutcome it has to keep out of reach).
ModelFailsNoRun ==
    phase = "threw" =>
        \/ ~(IsBound /\ IsComposable /\ OffersReadingTool)
        \/ HasThrown
        \/ Taken = {}
        \/ IsUnrecordableSchema

\* The first entry of its path.
DecidesItsPath(n) == EntryOf(schema[n].path) = schema[n]

OffersShortOptions(entry) ==
    entry.maxLength # Absent =>
        \A n \in DOMAIN entry.options : LengthOf[entry.options[n].text] <= entry.maxLength

\* A run on the keyless driver that has a readable medium and whose readings were taken
\* demonstrates a screen: every field whose schema entry bounds it settles, all readings
\* agreeing, whatever was drawn: no supplied value of such a field is one step 4 drops
\* (StubAssetFieldReadingSupplier: 'a demonstration that dropped its own answers would
\* demonstrate an empty screen').
StubReadingsSettle ==
    agent.isKeyless /\ AttachedFiles # <<>> /\ IsResolved /\ Taken # {} =>
        \A n \in DOMAIN schema :
            DecidesItsPath(n) /\ IsBounded(schema[n]) /\ OffersShortOptions(schema[n]) =>
                \E f \in settled : f.path = schema[n].path /\ f.agreed = ReadingCount

================================================================================
