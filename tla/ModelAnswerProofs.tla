--------------------------- MODULE ModelAnswerProofs ----------------------------
(***************************************************************************)
(* What holds of the answers of a model, for any number of readings, any   *)
(* schemas, agents and answers: the calls and their rows, what step 4      *)
(* allows, the majority of step 5, the rows of what settled and what is    *)
(* missing (FieldConsensus), what a demonstration on the keyless driver    *)
(* settles (StubAssetFieldReading), and the prompt that was sent, whoever  *)
(* rewords it meanwhile (AiAgentPrompts).                                  *)
(***************************************************************************)
EXTENDS FieldConsensus, AiAgentPrompts, FiniteSetTheorems, WellFoundedInduction, TLAPS

--------------------------------------------------------------------------------
(* The invariant of the steps                                               *)

NoCalls == [i \in Indexes |-> NoCall]

IsSetUp == IsBound /\ IsComposable /\ OffersReadingTool

\* An answer that is a reading is an array of calls, and every call that came back has
\* its row, and no other row is there.
CallsAreKept ==
    /\ agent \in Agents /\ isAborted \in BOOLEAN
    /\ DOMAIN calls = Indexes
    /\ \A i \in Indexes :
        /\ calls[i].phase \in CallPhases
        /\ calls[i].phase = "answered" =>
            calls[i].answer = Failed \/ IsAnswer(calls[i].answer)
        /\ calls[i].phase = "taken" => IsAnswer(calls[i].answer)
        /\ calls[i].phase \in {"taken", "failed"} => AiModelCall(i) \in aiModelCalls
    /\ \A row \in aiModelCalls : \E i \in Indexes :
        calls[i].phase \in {"taken", "failed"} /\ row = AiModelCall(i)

\* The steps a run has gone through say how far its calls are.
Waited == {"inspecting", "resolving", "missing", "scoring", "scored"}

CallsFollowThePhase ==
    /\ phase \in {"selecting", "binding", "composing"} => calls = NoCalls
    /\ phase \in Waited => IsFulfilled
    /\ phase = "answered" => IF schema = <<>> THEN calls = NoCalls ELSE IsFulfilled
    /\ phase = "composing" => IsBound
    /\ IsSetUp \/ calls = NoCalls
    /\ phase \in {"called"} \cup Waited => IsSetUp

KeptSchemas == {RestrictValues(fields, IsSuggestible) : fields \in Schemas}

SchemaIsKept ==
    /\ phase = "selecting" => schema \in Schemas
    /\ phase # "selecting" => schema \in KeptSchemas
    /\ phase \in {"selecting", "answered", "threw"} \/ schema # <<>>

\* What step 4 leaves of the readings that were taken.
AllowedReadings ==
    [i \in Taken |-> [n \in {m \in DOMAIN ReadingOf(i) : IsAllowed(ReadingOf(i)[m])} |->
        AllowedItem(ReadingOf(i)[n])]]

IsAnsweredWithFields == phase = "answered" /\ schema # <<>>

IsPastInspection == phase \in {"resolving", "missing", "scoring", "scored"} \/ IsAnsweredWithFields

IsPastResolution == phase \in {"missing", "scoring", "scored"} \/ IsAnsweredWithFields

ReadingsAreInspected ==
    IsPastInspection \/ settled # {} => allowed = AllowedReadings /\ IsFulfilled

Unresolved == {"selecting", "binding", "composing", "called", "inspecting", "resolving"}

FieldsAreSettled ==
    /\ phase \in Unresolved => settled = {}
    /\ IsPastResolution \/ settled # {} => settled = SettledFields

--------------------------------------------------------------------------------
(* The invariant of the rows                                                *)

MissingRows == {MissingOutcome(n, MajorityRejections(settled)) : n \in MissingEntries(settled)}

ScoredRows == {ScoredOutcome(f) : f \in settled}

\* The rows of a step are written or still to write, and no path has two.
RowsFollowThePhase ==
    /\ phase \in Unresolved => unsaved = {} /\ fieldOutcomes = {}
    /\ phase = "missing" => unsaved \cup fieldOutcomes = MissingRows
    /\ phase = "scoring" => unsaved = {} /\ fieldOutcomes = MissingRows
    /\ phase = "scored" => unsaved \cup fieldOutcomes = MissingRows \cup ScoredRows
                           /\ unsaved \subseteq ScoredRows
    /\ IsAnsweredWithFields => fieldOutcomes = MissingRows \cup ScoredRows
    /\ unsaved \cap fieldOutcomes = {}
    /\ \A row, other \in fieldOutcomes : row.path = other.path => row = other

\* A row counts no more readings than were asked, and a settled one is sure of nothing
\* more than the whole.
IsTypedRow(row) ==
    /\ row.path \in SchemaPaths /\ row.agreed \in 0..ReadingCount
    /\ IF row.status = "missing" THEN row.confidence = Absent
       ELSE row.confidence \in 1..FullConfidence

RowsAreTyped ==
    /\ \A row \in unsaved \cup fieldOutcomes : IsTypedRow(row)
    /\ \A step \in steps : \A r \in step.rejections : r.figure \in 0..ReadingCount

LastStepOf(name) ==
    CASE name = "selecting" -> 0
      [] name \in {"binding", "composing", "called"} -> 1
      [] name = "inspecting" -> 3
      [] name = "resolving" -> 4
      [] name \in {"missing", "scoring"} -> 5
      [] OTHER -> 6

InspectionRejections ==
    UNION {{ReadingRejection(ReadingOf(i)[n], i) :
        n \in {m \in DOMAIN ReadingOf(i) : ~IsAllowed(ReadingOf(i)[m])}} : i \in Taken}

IsTraced(index, rejections) ==
    \E step \in steps :
        step.stepIndex = index /\ step.rejections = RecordableRejections(rejections)

StepsAreTraced ==
    /\ \A step \in steps : step.stepIndex \in 1..LastStepOf(phase)
    /\ \A step, other \in steps : step.stepIndex = other.stepIndex => step = other
    /\ IsPastInspection => IsTraced(4, InspectionRejections)
    /\ IsPastResolution => IsTraced(5, MajorityRejections(settled))
    /\ phase = "scored" => \E step \in steps : step.stepIndex = 6

\* A run throws for its agent, a call, for want of a reading, or for its schema.
ThrowHasItsCause ==
    phase = "threw" =>
        ~IsSetUp \/ HasThrown \/ (IsFulfilled /\ Taken = {}) \/ IsUnrecordableSchema

ConsensusInvariant ==
    /\ phase \in Phases
    /\ CallsAreKept
    /\ CallsFollowThePhase
    /\ SchemaIsKept
    /\ DOMAIN allowed \subseteq Indexes
    /\ ReadingsAreInspected
    /\ FieldsAreSettled
    /\ RowsFollowThePhase
    /\ RowsAreTyped
    /\ StepsAreTraced
    /\ ThrowHasItsCause

--------------------------------------------------------------------------------
(* The first of some places, and the checks of step 4                       *)

\* A set of places that is not empty has a first one, for places without a bound as
\* well.
LEMMA FirstIsFirst ==
  ASSUME NEW places \in SUBSET Nat, places # {}
  PROVE  FirstOf(places) \in places /\ \A n \in places : FirstOf(places) <= n
<1> DEFINE UpTo(n) == 0..n
           Reaches == {UpTo(n) : n \in places}
<1>1. \A n \in places : UpTo(n) \in FiniteSubsetsOf(Nat)
  BY FS_Interval DEF FiniteSubsetsOf
<1>2. PICK reach \in Reaches :
        \A other \in Reaches : ~(<<other, reach>> \in StrictSubsetOrdering(Nat))
  <2>1. Reaches \subseteq FiniteSubsetsOf(Nat) /\ Reaches # {}
    BY <1>1
  <2> HIDE DEF Reaches
  <2> QED
    BY <2>1, FS_StrictSubsetOrderingWellFounded, WFMin
<1>3. PICK first \in places : reach = UpTo(first)
  BY <1>2
<1>4. ASSUME NEW n \in places, ~(first <= n)
      PROVE  FALSE
  <2>1. UpTo(n) \subseteq UpTo(first) /\ UpTo(n) # UpTo(first)
    <3>1. first \in UpTo(first) /\ first \notin UpTo(n)
      BY <1>4
    <3> QED
      BY <1>4, <3>1
  <2>2. <<UpTo(n), reach>> \in StrictSubsetOrdering(Nat)
    BY <1>1, <1>3, <2>1 DEF StrictSubsetOrdering, FiniteSubsetsOf
  <2> QED
    BY <1>2, <1>4, <2>2
<1>5. \E n \in places : \A m \in places : n <= m
  BY <1>4
<1> QED
  BY <1>5 DEF FirstOf

\* An item that is allowed has passed every check.
LEMMA AllowedIsChecked ==
  ASSUME NEW item, IsAllowed(item)
  PROVE  /\ item.path \in SchemaPaths
         /\ item.evidence \in EvidenceKinds
         /\ item.media # {} /\ item.media \subseteq SentMedia
<1> DEFINE entries == InspectionEntries(item)
           broken == {n \in DOMAIN entries : ~entries[n].isAllowed}
<1>1. /\ DOMAIN entries = 1..8
      /\ entries[1].isAllowed = (EntryOf(item.path) # NoEntry)
      /\ entries[2].isAllowed = CarriesRecognizedEvidenceKind(item)
      /\ entries[8].isAllowed = CitesSentMediaOnly(item)
  BY DEF InspectionEntries, Check
<1>2. \A n \in 1..8 : entries[n].reasonCode \in RejectionReasonCodes
  BY DEF InspectionEntries, Check, RejectionReasonCodes
<1>3. broken = {}
  <2> SUFFICES ASSUME broken # {} PROVE FALSE
    OBVIOUS
  <2>1. FirstOf(broken) \in broken
    BY <1>1, FirstIsFirst
  <2>2. RejectionReason(item) = entries[FirstOf(broken)].reasonCode
    BY DEF RejectionReason
  <2>3. RejectionReason(item) \in RejectionReasonCodes
    BY <1>1, <1>2, <2>1, <2>2
  <2> QED
    BY <2>3, ConsensusAssumption DEF IsAllowed
<1> HIDE DEF entries
<1>4. /\ EntryOf(item.path) # NoEntry
      /\ CarriesRecognizedEvidenceKind(item) /\ CitesSentMediaOnly(item)
  <2>1. entries[1].isAllowed /\ entries[2].isAllowed /\ entries[8].isAllowed
    BY <1>1, <1>3
  <2> QED
    BY <1>1, <2>1
<1> QED
  BY <1>4 DEF EntryOf, CarriesRecognizedEvidenceKind, CitesSentMediaOnly

--------------------------------------------------------------------------------
(* The readings and the votes                                               *)

\* The items of an answer are kept at their places, as an array is.
LEMMA ItemsAreAnArray ==
  ASSUME NEW functionCalls, IsAnswer(functionCalls)
  PROVE  IsArray(ReadingItems(functionCalls))
<1> DEFINE forced == {n \in DOMAIN functionCalls : functionCalls[n].name = "reading"}
           items == functionCalls[FirstOf(forced)].readings
<1>1. CASE forced = {} \/ items = Absent
  <2>1. ReadingItems(functionCalls) = <<>>
    BY <1>1 DEF ReadingItems
  <2> QED
    BY <2>1 DEF IsArray
<1>2. CASE forced # {} /\ items # Absent
  <2>1. FirstOf(forced) \in forced
    BY <1>2, FirstIsFirst DEF IsAnswer, IsArray
  <2>2. functionCalls[FirstOf(forced)] \in Range(functionCalls)
    BY <2>1 DEF Range
  <2>3. IsArray(items)
    BY <1>2, <2>2 DEF IsAnswer
  <2> QED
    BY <1>2, <2>3 DEF ReadingItems
<1> QED
  BY <1>1, <1>2

\* Readings are taken of the calls that were sent, so there are finitely many.
LEMMA TakenAreIndexes ==
  /\ Taken \subseteq Indexes /\ IsFiniteSet(Indexes) /\ Cardinality(Indexes) = ReadingCount
  /\ Indexes \subseteq Nat
<1>1. ReadingCount \in Nat /\ ReadingCount >= 1
  BY CallsAssumption
<1> QED
  BY <1>1, FS_Interval DEF Taken, Indexes

Voters(path) == {i \in Taken : ItemsOn(i, path) # {}}

\* The readings that say a text of a path first.
Speakers(path, text) == {i \in Voters(path) : SaidOn(path)[i] = text}

\* The readings that say one value of a field are at most the calls, and are the voices
\* the property counts.
LEMMA SpeakersAreCounted ==
  ASSUME NEW path, NEW text
  PROVE  /\ Speakers(path, text) \subseteq Indexes /\ IsFiniteSet(Speakers(path, text))
         /\ Cardinality(Speakers(path, text)) \in 0..ReadingCount
         /\ Cardinality(Speakers(path, text)) = VoicesFor(text, SaidOn(path))
<1>1. Speakers(path, text) \subseteq Indexes
  BY TakenAreIndexes DEF Speakers, Voters
<1>2. DOMAIN SaidOn(path) = Voters(path)
  BY DEF SaidOn, Voters
<1>3. Speakers(path, text) = {i \in DOMAIN SaidOn(path) : SaidOn(path)[i] = text}
  BY <1>2 DEF Speakers
<1>4. /\ IsFiniteSet(Speakers(path, text)) /\ Cardinality(Speakers(path, text)) \in Nat
      /\ Cardinality(Speakers(path, text)) <= ReadingCount
  BY <1>1, TakenAreIndexes, FS_Subset, FS_CardinalityType
<1>5. Cardinality(Speakers(path, text)) \in 0..ReadingCount
  BY <1>4, CallsAssumption
<1> QED
  BY <1>1, <1>3, <1>4, <1>5 DEF VoicesFor

\* A reading's vote is the first item of it that is allowed.
LEMMA VotesAreSaid ==
  ASSUME CallsAreKept, allowed = AllowedReadings, NEW path
  PROVE  /\ DOMAIN VotesOf(path) = Voters(path)
         /\ \A i \in Voters(path) :
            /\ VotesOf(path)[i] = AllowedItem(FirstItemOn(i, path))
            /\ VotesOf(path)[i].value.text = SaidOn(path)[i]
            /\ IsAllowed(FirstItemOn(i, path)) /\ FirstItemOn(i, path).path = path
         /\ path \in ReadFieldPaths <=> Voters(path) # {}
<1> DEFINE answering(k) == {n \in DOMAIN allowed[k] : allowed[k][n].path = path}
<1>1. DOMAIN allowed = Taken
  BY DEF AllowedReadings
<1>2. ASSUME NEW i \in Taken
      PROVE  /\ answering(i) = ItemsOn(i, path)
             /\ \A n \in ItemsOn(i, path) : allowed[i][n] = AllowedItem(ReadingOf(i)[n])
  <2>1. /\ DOMAIN allowed[i] = {m \in DOMAIN ReadingOf(i) : IsAllowed(ReadingOf(i)[m])}
        /\ \A n \in DOMAIN allowed[i] : allowed[i][n] = AllowedItem(ReadingOf(i)[n])
    BY <1>2 DEF AllowedReadings
  <2>2. ASSUME NEW n \in DOMAIN allowed[i]
        PROVE  allowed[i][n].path = ReadingOf(i)[n].path
    <3>1. allowed[i][n] = AllowedItem(ReadingOf(i)[n])
      BY <2>1
    <3> QED
      BY <3>1 DEF AllowedItem
  <2> QED
    BY <2>1, <2>2 DEF ItemsOn
<1>3. /\ DOMAIN VotesOf(path) = {j \in DOMAIN allowed : answering(j) # {}}
      /\ \A k \in DOMAIN VotesOf(path) : VotesOf(path)[k] = allowed[k][FirstOf(answering(k))]
  BY DEF VotesOf
<1>4. DOMAIN VotesOf(path) = Voters(path)
  BY <1>1, <1>2, <1>3 DEF Voters
<1>5. ASSUME NEW i \in Voters(path)
      PROVE  /\ VotesOf(path)[i] = AllowedItem(FirstItemOn(i, path))
             /\ VotesOf(path)[i].value.text = SaidOn(path)[i]
             /\ IsAllowed(FirstItemOn(i, path)) /\ FirstItemOn(i, path).path = path
  <2>1. i \in Taken /\ ItemsOn(i, path) # {}
    BY DEF Voters
  <2>2. ItemsOn(i, path) \subseteq Nat
    <3>1. IsArray(ReadingOf(i))
      BY <2>1, ItemsAreAnArray DEF CallsAreKept, Taken, ReadingOf
    <3> QED
      BY <3>1 DEF IsArray, ItemsOn
  <2>3. FirstOf(ItemsOn(i, path)) \in ItemsOn(i, path)
    BY <2>1, <2>2, FirstIsFirst
  <2>4. VotesOf(path)[i] = AllowedItem(FirstItemOn(i, path))
    BY <1>2, <1>3, <1>4, <2>1, <2>3 DEF FirstItemOn
  <2>5. IsAllowed(FirstItemOn(i, path)) /\ FirstItemOn(i, path).path = path
    BY <2>3 DEF FirstItemOn, ItemsOn
  <2>6. VotesOf(path)[i].value = NormalizedValue(FirstItemOn(i, path))
    BY <2>4 DEF AllowedItem
  <2>7. SaidOn(path)[i] = NormalizedValue(FirstItemOn(i, path)).text
    BY <2>1 DEF SaidOn
  <2> QED
    BY <2>4, <2>5, <2>6, <2>7
<1>6. path \in ReadFieldPaths <=> Voters(path) # {}
  <2>1. path \in ReadFieldPaths <=> \E k \in DOMAIN allowed : answering(k) # {}
    BY DEF ReadFieldPaths
  <2> QED
    BY <1>1, <1>2, <2>1 DEF Voters
<1> QED
  BY <1>4, <1>5, <1>6

\* A reading's vote group is the set of the readings that say what it says.
LEMMA VotesOfTheSame ==
  ASSUME CallsAreKept, allowed = AllowedReadings, NEW path, NEW k \in Voters(path)
  PROVE  VoteGroup(VotesOf(path), k) = Speakers(path, SaidOn(path)[k])
<1>1. /\ DOMAIN VotesOf(path) = Voters(path)
      /\ \A i \in Voters(path) : VotesOf(path)[i].value.text = SaidOn(path)[i]
  BY VotesAreSaid
<1> QED
  BY <1>1 DEF VoteGroup, Speakers

\* The largest group is the speakers of one text, and no text has more.
LEMMA LargestIsMost ==
  ASSUME CallsAreKept, allowed = AllowedReadings, NEW path, Voters(path) # {}
  PROVE  \E k \in Voters(path) :
            /\ LargestVoteGroup(path) = Speakers(path, SaidOn(path)[k])
            /\ \A text : Cardinality(Speakers(path, text))
                            <= Cardinality(Speakers(path, SaidOn(path)[k]))
<1> DEFINE Size(k) == Cardinality(Speakers(path, SaidOn(path)[k]))
           gaps == {ReadingCount - Size(k) : k \in Voters(path)}
           largest == {k \in DOMAIN VotesOf(path) : \A j \in DOMAIN VotesOf(path) :
                        Cardinality(VoteGroup(VotesOf(path), j))
                            <= Cardinality(VoteGroup(VotesOf(path), k))}
<1>1. \A k \in Voters(path) : Size(k) \in 0..ReadingCount
  BY SpeakersAreCounted
<1>2. DOMAIN VotesOf(path) = Voters(path)
  BY VotesAreSaid
<1>3. \A k \in Voters(path) : VoteGroup(VotesOf(path), k) = Speakers(path, SaidOn(path)[k])
  BY VotesOfTheSame
<1>4. largest = {k \in Voters(path) : \A j \in Voters(path) : Size(j) <= Size(k)}
  BY <1>2, <1>3
<1>5. \E k \in Voters(path) : \A j \in Voters(path) : Size(j) <= Size(k)
  <2> HIDE DEF Size
  <2>1. gaps \in SUBSET Nat /\ gaps # {}
    BY <1>1, CallsAssumption
  <2>2. FirstOf(gaps) \in gaps /\ \A n \in gaps : FirstOf(gaps) <= n
    BY <2>1, FirstIsFirst
  <2>3. PICK k \in Voters(path) : FirstOf(gaps) = ReadingCount - Size(k)
    BY <2>2
  <2>4. ASSUME NEW j \in Voters(path)
        PROVE  Size(j) <= Size(k)
    <3>1. ReadingCount - Size(k) <= ReadingCount - Size(j)
      BY <2>2, <2>3
    <3> QED
      BY <1>1, <3>1, CallsAssumption
  <2> QED
    BY <2>4
<1>6. largest # {}
  BY <1>4, <1>5
<1>7. largest \subseteq Nat
  BY <1>4, TakenAreIndexes DEF Voters
<1>8. FirstOf(largest) \in largest
  BY <1>6, <1>7, FirstIsFirst
<1>9. LargestVoteGroup(path) = VoteGroup(VotesOf(path), FirstOf(largest))
  BY <1>6 DEF LargestVoteGroup
<1>10. PICK k \in Voters(path) : k = FirstOf(largest) /\ \A j \in Voters(path) : Size(j) <= Size(k)
  BY <1>4, <1>8
<1>11. LargestVoteGroup(path) = Speakers(path, SaidOn(path)[k])
  BY <1>3, <1>9, <1>10
<1>12. ASSUME NEW text
       PROVE  Cardinality(Speakers(path, text)) <= Size(k)
  <2>1. CASE Speakers(path, text) = {}
    BY <1>1, <2>1, FS_EmptySet
  <2>2. CASE Speakers(path, text) # {}
    <3>1. PICK j \in Voters(path) : SaidOn(path)[j] = text
      BY <2>2 DEF Speakers
    <3> QED
      BY <1>10, <3>1
  <2> QED
    BY <2>1, <2>2
<1> QED
  BY <1>11, <1>12

--------------------------------------------------------------------------------
(* What settles                                                             *)

\* A field carries the text of the largest group, its voices, and what they cite.
LEMMA FieldIsItsVoices ==
  ASSUME CallsAreKept, allowed = AllowedReadings, NEW path, path \in ReadFieldPaths,
         NEW f, f = SettledField(path)
  PROVE  /\ f.path = path /\ f.path \in SchemaPaths
         /\ LargestVoteGroup(path) = Speakers(path, f.value.text)
         /\ f.value.text \in TextsOf(SaidOn(path))
         /\ f.agreed = Cardinality(Speakers(path, f.value.text))
         /\ f.agreed = AgreedReadingCount(path)
         /\ f.agreed \in 0..ReadingCount
         /\ \A text : Cardinality(Speakers(path, text)) <= f.agreed
         /\ f.evidence \in EvidenceKinds
         /\ f.media # {} /\ f.media \subseteq SentMedia
         /\ \A medium \in f.media : \E i \in Speakers(path, f.value.text) :
                medium \in FirstItemOn(i, path).media
<1> DEFINE group == LargestVoteGroup(path)
           votes == VotesOf(path)
<1>1. Voters(path) # {}
  BY VotesAreSaid
<1>2. PICK k \in Voters(path) :
        /\ group = Speakers(path, SaidOn(path)[k])
        /\ \A text : Cardinality(Speakers(path, text))
                        <= Cardinality(Speakers(path, SaidOn(path)[k]))
  BY <1>1, LargestIsMost
<1>3. k \in group /\ group \subseteq Voters(path) /\ group \subseteq Nat
  BY <1>2, TakenAreIndexes DEF Speakers, Voters
<1>4. FirstOf(group) \in group
  BY <1>3, FirstIsFirst
<1>5. ASSUME NEW i \in group
      PROVE  /\ votes[i] = AllowedItem(FirstItemOn(i, path))
             /\ votes[i].media = FirstItemOn(i, path).media
             /\ votes[i].evidence \in EvidenceKinds
             /\ votes[i].media # {} /\ votes[i].media \subseteq SentMedia
             /\ path \in SchemaPaths
             /\ votes[i].value.text = SaidOn(path)[k]
  <2>1. /\ votes[i] = AllowedItem(FirstItemOn(i, path))
        /\ votes[i].value.text = SaidOn(path)[i]
        /\ IsAllowed(FirstItemOn(i, path)) /\ FirstItemOn(i, path).path = path
    BY <1>3, VotesAreSaid
  <2>2. /\ votes[i].media = FirstItemOn(i, path).media
        /\ votes[i].evidence = FirstItemOn(i, path).evidence
    BY <2>1 DEF AllowedItem
  <2>3. /\ path \in SchemaPaths
        /\ FirstItemOn(i, path).evidence \in EvidenceKinds
        /\ FirstItemOn(i, path).media # {} /\ FirstItemOn(i, path).media \subseteq SentMedia
    BY <2>1, AllowedIsChecked
  <2>4. SaidOn(path)[i] = SaidOn(path)[k]
    BY <1>2 DEF Speakers
  <2> QED
    BY <2>1, <2>2, <2>3, <2>4
<1>6. /\ f.path = path /\ f.value = votes[FirstOf(group)].value
      /\ f.evidence = votes[FirstOf(group)].evidence
      /\ f.media = UNION {votes[i].media : i \in group}
      /\ f.agreed = Cardinality(group) /\ f.agreed = AgreedReadingCount(path)
  BY DEF SettledField, AgreedSourceMedia, AgreedReadingCount
<1> HIDE DEF group, votes
<1>7. f.value.text = SaidOn(path)[k]
  BY <1>4, <1>5, <1>6
<1>8. group = Speakers(path, f.value.text)
  BY <1>2, <1>7
<1>9. f.value.text \in TextsOf(SaidOn(path))
  BY <1>7 DEF TextsOf, SaidOn, Voters
<1>10. /\ f.agreed = Cardinality(Speakers(path, f.value.text))
       /\ f.agreed \in 0..ReadingCount
  <2>1. f.agreed = Cardinality(Speakers(path, f.value.text))
    BY <1>6, <1>8
  <2>2. Cardinality(Speakers(path, f.value.text)) \in 0..ReadingCount
    BY SpeakersAreCounted
  <2> QED
    BY <2>1, <2>2
<1>11. \A text : Cardinality(Speakers(path, text)) <= f.agreed
  BY <1>2, <1>7, <1>10
<1>12. f.media # {} /\ f.media \subseteq SentMedia
  BY <1>4, <1>5, <1>6
<1>13. \A medium \in f.media : \E i \in Speakers(path, f.value.text) :
          medium \in FirstItemOn(i, path).media
  BY <1>5, <1>6, <1>8
<1>14. f.path \in SchemaPaths /\ f.evidence \in EvidenceKinds
  BY <1>4, <1>5, <1>6
<1>15. LargestVoteGroup(path) = Speakers(path, f.value.text)
  BY <1>8 DEF group
<1> QED
  BY <1>6, <1>9, <1>10, <1>11, <1>12, <1>13, <1>14, <1>15

\* Two majorities share a reading, and a reading says one text.
LEMMA MajorityIsOne ==
  ASSUME NEW path, NEW text, NEW other,
         2 * Cardinality(Speakers(path, text)) > ReadingCount,
         2 * Cardinality(Speakers(path, other)) > ReadingCount
  PROVE  text = other
<1> DEFINE Of(said) == Speakers(path, said)
<1>1. \A said : Of(said) \subseteq Indexes /\ Cardinality(Of(said)) \in 0..ReadingCount
  BY SpeakersAreCounted
<1>2. 2 * Cardinality(Of(text)) > ReadingCount /\ 2 * Cardinality(Of(other)) > ReadingCount
  OBVIOUS
<1> HIDE DEF Of
<1>3. Cardinality(Of(text)) + Cardinality(Of(other)) > Cardinality(Indexes)
  BY <1>1, <1>2, TakenAreIndexes, CallsAssumption
<1>4. Of(text) \cap Of(other) # {}
  BY <1>1, <1>3, TakenAreIndexes, FS_MajoritiesIntersect
<1> QED
  BY <1>4 DEF Of, Speakers

\* A text settles if and only if it has the majority of what was asked for.
LEMMA SettledIsMajority ==
  ASSUME CallsAreKept, allowed = AllowedReadings
  PROVE  /\ \A f \in SettledFields :
            /\ f.path \in ReadFieldPaths /\ f = SettledField(f.path)
            /\ f.agreed = AgreedReadingCount(f.path)
            /\ 2 * f.agreed > ReadingCount /\ f.agreed \in 1..ReadingCount
         /\ \A path, text :
            2 * Cardinality(Speakers(path, text)) > ReadingCount =>
                /\ SettledField(path) \in SettledFields
                /\ SettledField(path).path = path
                /\ SettledField(path).value.text = text
<1>1. ReadingCount \in Nat \ {0}
  BY CallsAssumption
<1>2. ASSUME NEW f \in SettledFields
      PROVE  /\ f.path \in ReadFieldPaths /\ f = SettledField(f.path)
             /\ f.agreed = AgreedReadingCount(f.path)
             /\ 2 * f.agreed > ReadingCount /\ f.agreed \in 1..ReadingCount
  <2>1. PICK path \in ReadFieldPaths :
            f = SettledField(path) /\ 2 * AgreedReadingCount(path) > ReadingCount
    BY DEF SettledFields, IsAbsoluteMajority
  <2>2. f.path = path /\ f.agreed = AgreedReadingCount(path) /\ f.agreed \in 0..ReadingCount
    BY <2>1, FieldIsItsVoices
  <2>3. 2 * f.agreed > ReadingCount /\ f.agreed \in 1..ReadingCount
    BY <1>1, <2>1, <2>2
  <2> QED
    BY <2>1, <2>2, <2>3
<1>3. ASSUME NEW path, NEW text, 2 * Cardinality(Speakers(path, text)) > ReadingCount
      PROVE  /\ SettledField(path) \in SettledFields
             /\ SettledField(path).path = path
             /\ SettledField(path).value.text = text
  <2>1. Speakers(path, text) # {}
    BY <1>1, <1>3, FS_EmptySet
  <2>2. path \in ReadFieldPaths
    BY <2>1, VotesAreSaid DEF Speakers
  <2> DEFINE f == SettledField(path)
  <2>3. /\ f.path = path
        /\ f.agreed = Cardinality(Speakers(path, f.value.text))
        /\ f.agreed = AgreedReadingCount(path) /\ f.agreed \in 0..ReadingCount
        /\ Cardinality(Speakers(path, text)) <= f.agreed
    BY <2>2, FieldIsItsVoices
  <2> HIDE DEF f
  <2>4. 2 * f.agreed > ReadingCount
    BY <1>1, <1>3, <2>3, SpeakersAreCounted
  <2>5. text = f.value.text
    BY <1>3, <2>3, <2>4, MajorityIsOne
  <2>6. f \in SettledFields
    BY <2>2, <2>3, <2>4 DEF SettledFields, IsAbsoluteMajority, f
  <2> QED
    BY <2>3, <2>5, <2>6 DEF f
<1> QED
  BY <1>2, <1>3

--------------------------------------------------------------------------------
(* What the invariant says                                                  *)

\* A step ends only behind the rows of its calls.
LEMMA InvariantRecordsCalls ==
  ASSUME ConsensusInvariant
  PROVE  EveryCallIsRecorded
<1>1. ASSUME phase \in Waited, NEW i \in Indexes
      PROVE  IsAtRest(i) /\ calls[i].phase # "threw"
  BY <1>1 DEF ConsensusInvariant, CallsFollowThePhase, IsFulfilled, IsAtRest, Waited
<1>2. ASSUME NEW i \in Indexes
      PROVE  LET rows == {row \in aiModelCalls : row.readingIndex = i}
             IN  IF calls[i].phase \in {"taken", "failed"} THEN rows = {AiModelCall(i)}
                 ELSE rows = {}
  <2>1. \A row \in aiModelCalls : \E j \in Indexes :
            calls[j].phase \in {"taken", "failed"} /\ row = AiModelCall(j)
    BY DEF ConsensusInvariant, CallsAreKept
  <2>2. \A j \in Indexes : AiModelCall(j).readingIndex = j
    BY DEF AiModelCall
  <2>3. \A row \in aiModelCalls : row.readingIndex = i =>
            calls[i].phase \in {"taken", "failed"} /\ row = AiModelCall(i)
    BY <2>1, <2>2
  <2>4. calls[i].phase \in {"taken", "failed"} => AiModelCall(i) \in aiModelCalls
    BY DEF ConsensusInvariant, CallsAreKept
  <2> QED
    BY <2>2, <2>3, <2>4
<1>3. calls # NoCalls => IsSetUp
  BY DEF ConsensusInvariant, CallsFollowThePhase
<1> QED
  BY <1>1, <1>2, <1>3 DEF EveryCallIsRecorded, NoCalls, IsSetUp, Waited

\* Behind the resolution the settled fields are those of the readings that were
\* allowed.
LEMMA ResolvedIsSettled ==
  ASSUME ConsensusInvariant, IsResolved
  PROVE  /\ CallsAreKept /\ allowed = AllowedReadings /\ settled = SettledFields
         /\ IsPastInspection /\ IsPastResolution
<1>1. IsPastInspection /\ IsPastResolution
  BY DEF IsResolved, IsPastInspection, IsPastResolution, IsAnsweredWithFields
<1> QED
  BY <1>1 DEF ConsensusInvariant, ReadingsAreInspected, FieldsAreSettled

\* A field is settled where more than half of the calls agree, and nowhere else.
LEMMA InvariantSettlesMajorities ==
  ASSUME ConsensusInvariant
  PROVE  SettledIffMajority
<1> SUFFICES ASSUME IsResolved, NEW path \in SchemaPaths,
                    NEW text \in TextsOf(SaidOn(path)) \cup {f.value.text : f \in settled}
             PROVE  LET won == {f \in settled : f.path = path /\ f.value.text = text}
                    IN  /\ 2 * VoicesFor(text, SaidOn(path)) > ReadingCount <=> won # {}
                        /\ \A f \in won : f.agreed = VoicesFor(text, SaidOn(path))
  BY DEF SettledIffMajority
<1> DEFINE won == {f \in settled : f.path = path /\ f.value.text = text}
<1>1. CallsAreKept /\ allowed = AllowedReadings /\ settled = SettledFields
  BY ResolvedIsSettled
<1>2. VoicesFor(text, SaidOn(path)) = Cardinality(Speakers(path, text))
  BY SpeakersAreCounted
<1>3. ASSUME NEW f \in won
      PROVE  f.agreed = VoicesFor(text, SaidOn(path)) /\ 2 * f.agreed > ReadingCount
  <2>1. f.path \in ReadFieldPaths /\ f = SettledField(f.path) /\ 2 * f.agreed > ReadingCount
    BY <1>1, SettledIsMajority
  <2>2. f.agreed = Cardinality(Speakers(f.path, f.value.text))
    BY <1>1, <2>1, FieldIsItsVoices
  <2> QED
    BY <1>2, <2>1, <2>2
<1>4. ASSUME 2 * VoicesFor(text, SaidOn(path)) > ReadingCount
      PROVE  won # {}
  <2>1. /\ SettledField(path) \in SettledFields /\ SettledField(path).path = path
        /\ SettledField(path).value.text = text
    BY <1>1, <1>2, <1>4, SettledIsMajority
  <2> QED
    BY <1>1, <2>1
<1> QED
  BY <1>3, <1>4

\* What a settled field cites was cited by a reading of its majority.
LEMMA InvariantKeepsEvidence ==
  ASSUME ConsensusInvariant
  PROVE  AgreedEvidence
<1> SUFFICES ASSUME NEW f \in settled
             PROVE  /\ f.media # {} /\ f.media \subseteq SentMedia
                    /\ \A medium \in f.media : \E i \in Taken :
                        /\ ItemsOn(i, f.path) # {}
                        /\ NormalizedValue(FirstItemOn(i, f.path)).text = f.value.text
                        /\ medium \in FirstItemOn(i, f.path).media
  BY DEF AgreedEvidence
<1>1. CallsAreKept /\ allowed = AllowedReadings /\ settled = SettledFields
  BY DEF ConsensusInvariant, ReadingsAreInspected, FieldsAreSettled
<1>2. f.path \in ReadFieldPaths /\ f = SettledField(f.path)
  BY <1>1, SettledIsMajority
<1>3. /\ f.media # {} /\ f.media \subseteq SentMedia
      /\ \A medium \in f.media : \E i \in Speakers(f.path, f.value.text) :
            medium \in FirstItemOn(i, f.path).media
  BY <1>1, <1>2, FieldIsItsVoices
<1>4. ASSUME NEW i \in Speakers(f.path, f.value.text)
      PROVE  /\ i \in Taken /\ ItemsOn(i, f.path) # {}
             /\ NormalizedValue(FirstItemOn(i, f.path)).text = f.value.text
  BY DEF Speakers, Voters, SaidOn
<1> QED
  BY <1>3, <1>4

\* A run fails for what is wrong with it, never for what a model answers.
LEMMA InvariantKeepsTheRun ==
  ASSUME ConsensusInvariant
  PROVE  ModelFailsNoRun
<1>1. ThrowHasItsCause
  BY DEF ConsensusInvariant
<1> QED
  BY <1>1 DEF ThrowHasItsCause, ModelFailsNoRun, IsSetUp

\* The voices of the most that say one text are those of the largest group.
LEMMA MostIsAgreed ==
  ASSUME CallsAreKept, allowed = AllowedReadings, NEW path
  PROVE  /\ MostVoices(SaidOn(path)) = AgreedReadingCount(path)
         /\ AgreedReadingCount(path) \in 0..ReadingCount
         /\ 2 * AgreedReadingCount(path) > ReadingCount <=> path \in PathsOf(SettledFields)
<1> DEFINE voices == {0} \cup {VoicesFor(text, SaidOn(path)) : text \in TextsOf(SaidOn(path))}
           most == CHOOSE voice \in voices : \A other \in voices : other <= voice
           agreed == AgreedReadingCount(path)
<1>1. \A text : VoicesFor(text, SaidOn(path)) = Cardinality(Speakers(path, text))
               /\ Cardinality(Speakers(path, text)) \in 0..ReadingCount
  BY SpeakersAreCounted
<1>2. TextsOf(SaidOn(path)) = {SaidOn(path)[i] : i \in Voters(path)}
  BY DEF TextsOf, SaidOn, Voters
<1>3. agreed \in voices /\ \A other \in voices : other <= agreed
  <2>1. CASE Voters(path) = {}
    <3>1. LargestVoteGroup(path) = {}
      BY <2>1, VotesAreSaid DEF LargestVoteGroup
    <3>2. agreed = 0
      BY <3>1, FS_EmptySet DEF AgreedReadingCount
    <3>3. voices = {0}
      BY <1>2, <2>1
    <3> QED
      BY <3>2, <3>3
  <2>2. CASE Voters(path) # {}
    <3>1. PICK k \in Voters(path) :
            /\ LargestVoteGroup(path) = Speakers(path, SaidOn(path)[k])
            /\ \A text : Cardinality(Speakers(path, text))
                            <= Cardinality(Speakers(path, SaidOn(path)[k]))
      BY <2>2, LargestIsMost
    <3>2. agreed = VoicesFor(SaidOn(path)[k], SaidOn(path))
      BY <1>1, <3>1 DEF AgreedReadingCount
    <3>3. agreed \in voices
      BY <1>2, <3>2
    <3>4. \A text : VoicesFor(text, SaidOn(path)) <= agreed
      BY <1>1, <3>1, <3>2
    <3>5. 0 <= agreed
      BY <1>1, <3>2
    <3> HIDE DEF agreed
    <3> QED
      BY <3>3, <3>4, <3>5
  <2> QED
    BY <2>1, <2>2
<1>4. agreed \in 0..ReadingCount /\ \A voice \in voices : voice \in 0..ReadingCount
  BY <1>1, <1>3, CallsAssumption
<1>5. most = agreed
  <2> HIDE DEF voices, agreed
  <2>1. most \in voices /\ \A other \in voices : other <= most
    BY <1>3
  <2>2. most <= agreed /\ agreed <= most
    BY <1>3, <2>1
  <2>3. most \in Int /\ agreed \in Int
    BY <1>4, <2>1
  <2> HIDE DEF most
  <2> QED
    BY <2>2, <2>3
<1>6. ASSUME path \in PathsOf(SettledFields)
      PROVE  2 * agreed > ReadingCount
  BY <1>6, SettledIsMajority DEF PathsOf
<1>7. ASSUME 2 * agreed > ReadingCount
      PROVE  path \in PathsOf(SettledFields)
  <2>1. Voters(path) # {}
    <3> SUFFICES ASSUME Voters(path) = {} PROVE FALSE
      OBVIOUS
    <3>1. LargestVoteGroup(path) = {}
      BY VotesAreSaid DEF LargestVoteGroup
    <3>2. agreed = 0
      BY <3>1, FS_EmptySet DEF AgreedReadingCount
    <3> HIDE DEF agreed
    <3> QED
      BY <1>7, <3>2, CallsAssumption
  <2>2. path \in ReadFieldPaths
    BY <2>1, VotesAreSaid
  <2>3. SettledField(path).path = path
    BY DEF SettledField
  <2>4. SettledField(path) \in SettledFields
    BY <1>7, <2>2 DEF SettledFields, IsAbsoluteMajority
  <2> QED
    BY <2>3, <2>4 DEF PathsOf
<1> HIDE DEF most, voices, agreed
<1>8. most = agreed /\ agreed \in 0..ReadingCount
      /\ (2 * agreed > ReadingCount <=> path \in PathsOf(SettledFields))
  BY <1>4, <1>5, <1>6, <1>7
<1> QED
  BY <1>8 DEF MostVoices, most, voices, agreed

\* A missing field is counted as its rejection is.
LEMMA MissingIsCounted ==
  ASSUME NEW fields, NEW n \in MissingEntries(fields)
  PROVE  LET row == MissingOutcome(n, MajorityRejections(fields))
         IN  /\ row.path = schema[n].path /\ row.path \in SchemaPaths
             /\ row.path \notin PathsOf(fields)
             /\ row.agreed = AgreedReadingCount(schema[n].path)
<1> DEFINE path == schema[n].path
           rejections == MajorityRejections(fields)
<1>1. n \in RequiredEntries /\ n \in DOMAIN schema /\ path \notin PathsOf(fields)
  BY DEF MissingEntries, RequiredEntries
<1>2. path \in UnsettledFieldPaths(fields)
  BY <1>1 DEF UnsettledFieldPaths
<1>3. \A r \in rejections : r.figure = AgreedReadingCount(r.path)
  BY DEF MajorityRejections
<1>4. \E r \in rejections : r.path = path
  <2> DEFINE rejection ==
        [path |-> path, reasonCode |-> "no-absolute-majority", figure |-> AgreedReadingCount(path)]
  <2>1. rejection \in rejections /\ rejection.path = path
    BY <1>2 DEF MajorityRejections
  <2> QED
    BY <2>1
<1> HIDE DEF rejections
<1>5. (CHOOSE r \in rejections : r.path = path).figure = AgreedReadingCount(path)
  BY <1>3, <1>4
<1>6. MissingOutcome(n, rejections).agreed = AgreedReadingCount(path)
  BY <1>5 DEF MissingOutcome
<1> QED
  BY <1>1, <1>6 DEF MissingOutcome, SchemaPaths, rejections

\* A field of the schema has the one row its votes earn it.
LEMMA InvariantCountsFields ==
  ASSUME ConsensusInvariant, IsAnsweredWithFields, NEW path \in SchemaPaths
  PROVE  HasItsRow(path)
<1> DEFINE rows == {row \in fieldOutcomes : row.path = path}
           agreed == AgreedReadingCount(path)
           isRequired == \E n \in RequiredEntries : schema[n].path = path
           isSettled == path \in PathsOf(settled)
<1>1. CallsAreKept /\ allowed = AllowedReadings /\ settled = SettledFields
  BY ResolvedIsSettled DEF IsResolved, IsAnsweredWithFields
<1>2. /\ fieldOutcomes = MissingRows \cup ScoredRows
      /\ \A row, other \in fieldOutcomes : row.path = other.path => row = other
  BY DEF ConsensusInvariant, RowsFollowThePhase
<1>3. ASSUME NEW row \in MissingRows
      PROVE  /\ row.path \notin PathsOf(settled) /\ row.status = "missing"
             /\ \E n \in RequiredEntries : schema[n].path = row.path
             /\ row.agreed = AgreedReadingCount(row.path)
  <2>1. PICK n \in MissingEntries(settled) : row = MissingOutcome(n, MajorityRejections(settled))
    BY DEF MissingRows
  <2>2. row.status = "missing"
    BY <2>1 DEF MissingOutcome
  <2> QED
    BY <2>1, <2>2, MissingIsCounted DEF MissingEntries
<1>4. ASSUME NEW row \in ScoredRows
      PROVE  /\ row.path \in PathsOf(settled) /\ row.status # "missing"
             /\ row.agreed = AgreedReadingCount(row.path)
  <2>1. PICK f \in settled : row = ScoredOutcome(f)
    BY DEF ScoredRows
  <2>2. /\ f.path \in ReadFieldPaths /\ f = SettledField(f.path)
        /\ f.agreed = AgreedReadingCount(f.path)
    BY <1>1, SettledIsMajority
  <2>3. f.evidence \in EvidenceKinds
    BY <1>1, <2>2, FieldIsItsVoices
  <2>4. row.path = f.path /\ row.agreed = f.agreed /\ row.status = FieldState[f.evidence]
    BY <2>1 DEF ScoredOutcome
  <2>5. row.status # "missing"
    BY <2>3, <2>4, ConsensusAssumption
  <2> QED
    BY <2>2, <2>4, <2>5 DEF PathsOf
<1>5. ASSUME NEW row \in rows
      PROVE  /\ SettlesField(row) <=> isSettled
             /\ row.agreed = agreed /\ (isSettled \/ isRequired) /\ rows = {row}
  <2>1. row \in fieldOutcomes /\ row.path = path
    OBVIOUS
  <2>2. rows = {row}
    BY <1>2, <2>1
  <2>3. CASE row \in MissingRows
    BY <1>3, <2>1, <2>2, <2>3 DEF SettlesField
  <2>4. CASE row \in ScoredRows
    BY <1>4, <2>1, <2>2, <2>4 DEF SettlesField
  <2> QED
    BY <1>2, <2>3, <2>4
<1>6. ASSUME isSettled
      PROVE  rows # {}
  <2>1. PICK f \in settled : f.path = path
    BY <1>6 DEF PathsOf
  <2>2. ScoredOutcome(f) \in ScoredRows /\ ScoredOutcome(f).path = path
    BY <2>1 DEF ScoredRows, ScoredOutcome
  <2> QED
    BY <1>2, <2>2
<1>7. ASSUME isRequired, ~isSettled
      PROVE  rows # {}
  <2>1. PICK n \in RequiredEntries : schema[n].path = path
    BY <1>7
  <2>2. n \in MissingEntries(settled)
    BY <1>7, <2>1 DEF MissingEntries
  <2>3. MissingOutcome(n, MajorityRejections(settled)) \in MissingRows
    BY <2>2 DEF MissingRows
  <2>4. MissingOutcome(n, MajorityRejections(settled)).path = path
    BY <2>1 DEF MissingOutcome
  <2> QED
    BY <1>2, <2>3, <2>4
<1> DEFINE most == MostVoices(SaidOn(path))
<1>8. most = agreed /\ ((2 * agreed > ReadingCount) <=> isSettled)
  BY <1>1, MostIsAgreed
<1> HIDE DEF most, agreed, rows, isRequired, isSettled
<1>9. (2 * most > ReadingCount) <=> isSettled
  BY <1>8
<1>10. IF isSettled \/ isRequired
       THEN \E row \in rows :
                rows = {row} /\ (SettlesField(row) <=> isSettled) /\ row.agreed = most
       ELSE rows = {}
  <2>1. CASE rows = {}
    BY <1>6, <1>7, <2>1
  <2>2. CASE rows # {}
    <3>1. PICK row \in rows : TRUE
      BY <2>2
    <3>2. /\ SettlesField(row) <=> isSettled
          /\ row.agreed = agreed /\ (isSettled \/ isRequired) /\ rows = {row}
      BY <1>5
    <3> QED
      BY <1>8, <3>1, <3>2
  <2> QED
    BY <2>1, <2>2
<1>11. IF 2 * most > ReadingCount \/ isRequired
       THEN \E row \in rows :
                rows = {row} /\ (SettlesField(row) <=> 2 * most > ReadingCount) /\ row.agreed = most
       ELSE rows = {}
  BY <1>9, <1>10
<1> QED
  BY <1>11 DEF HasItsRow, most, rows, isRequired

\* The rows of a run that ends with fields are those of its schema.
LEMMA InvariantAccountsForFields ==
  ASSUME ConsensusInvariant
  PROVE  EveryFieldIsAccountedFor
<1> SUFFICES ASSUME phase = "answered" PROVE EveryFieldIsAccountedFor
  BY DEF EveryFieldIsAccountedFor
<1>1. CASE schema = <<>>
  <2>1. calls = NoCalls
    BY <1>1 DEF ConsensusInvariant, CallsFollowThePhase
  <2>2. Taken = {}
    BY <2>1 DEF NoCalls, NoCall, Taken
  <2>3. SchemaPaths = {}
    BY <1>1 DEF SchemaPaths
  <2> QED
    BY <2>2, <2>3 DEF EveryFieldIsAccountedFor
<1>2. CASE schema # <<>>
  <2>1. IsAnsweredWithFields /\ IsResolved
    BY <1>2 DEF IsAnsweredWithFields, IsResolved
  <2>2. /\ CallsAreKept /\ allowed = AllowedReadings /\ settled = SettledFields
        /\ IsPastInspection /\ IsPastResolution
    BY <2>1, ResolvedIsSettled
  <2>3. IsTraced(4, InspectionRejections) /\ IsTraced(5, MajorityRejections(settled))
    BY <2>2 DEF ConsensusInvariant, StepsAreTraced
  <2>4. ASSUME NEW index, NEW rejections, IsTraced(index, rejections), NEW r \in rejections,
               r.path \in RecordablePaths
        PROVE  r.path \in PathsOf(Rejected(index))
    <3>1. PICK step \in steps :
            step.stepIndex = index /\ step.rejections = RecordableRejections(rejections)
      BY <2>4 DEF IsTraced
    <3>2. r \in step.rejections
      BY <2>4, <3>1 DEF RecordableRejections
    <3>3. r \in Rejected(index)
      BY <3>1, <3>2 DEF Rejected
    <3> QED
      BY <3>3 DEF PathsOf
  <2>5. ASSUME NEW i \in Taken, NEW n \in DOMAIN ReadingOf(i),
               ReadingOf(i)[n].path \in RecordablePaths
        PROVE  IsAccountedFor(ReadingOf(i)[n].path)
    <3> DEFINE item == ReadingOf(i)[n]
    <3>1. CASE ~IsAllowed(item)
      <4>1. ReadingRejection(item, i) \in InspectionRejections
        BY <3>1 DEF InspectionRejections
      <4>2. ReadingRejection(item, i).path = item.path
        BY DEF ReadingRejection
      <4> QED
        BY <2>3, <2>4, <2>5, <4>1, <4>2 DEF IsAccountedFor
    <3>2. CASE IsAllowed(item)
      <4>1. item.path \in ReadFieldPaths
        <5>1. n \in ItemsOn(i, item.path)
          BY <3>2 DEF ItemsOn
        <5>2. i \in Voters(item.path)
          BY <5>1 DEF Voters
        <5> QED
          BY <2>2, <5>2, VotesAreSaid
      <4>2. CASE item.path \notin PathsOf(settled)
        <5>1. item.path \in UnsettledFieldPaths(settled)
          BY <4>1, <4>2 DEF UnsettledFieldPaths
        <5>2. PICK r \in MajorityRejections(settled) : r.path = item.path
          <6> DEFINE rejection ==
                [path |-> item.path, reasonCode |-> "no-absolute-majority",
                 figure |-> AgreedReadingCount(item.path)]
          <6>1. rejection \in MajorityRejections(settled) /\ rejection.path = item.path
            BY <5>1 DEF MajorityRejections
          <6> QED
            BY <6>1
        <5> QED
          BY <2>3, <2>4, <2>5, <5>2 DEF IsAccountedFor
      <4> QED
        BY <4>2 DEF IsAccountedFor
    <3> QED
      BY <3>1, <3>2
  <2>6. \A i \in Taken : \A n \in DOMAIN ReadingOf(i) : IsAccountedFor(ReadingOf(i)[n].path)
    BY <2>5 DEF IsAccountedFor
  <2> QED
    BY <2>1, <2>6, InvariantCountsFields DEF EveryFieldIsAccountedFor
<1> QED
  BY <1>1, <1>2

--------------------------------------------------------------------------------
(* What stays where its variables do                                        *)

\* While no call moves, what is read off the calls stays.
LEMMA SameCalls ==
  ASSUME UNCHANGED calls
  PROVE  /\ Taken' = Taken /\ IsFulfilled' = IsFulfilled /\ HasThrown' = HasThrown
         /\ \A i : ReadingOf(i)' = ReadingOf(i) /\ AiModelCall(i)' = AiModelCall(i)
         /\ \A i : PlaceAmongTaken(i)' = PlaceAmongTaken(i)
BY DEF Taken, IsFulfilled, HasThrown, ReadingOf, AiModelCall, PlaceAmongTaken

\* While the schema stands, an item is judged as it was.
LEMMA SameChecks ==
  ASSUME UNCHANGED schema
  PROVE  /\ SchemaPaths' = SchemaPaths
         /\ \A path : EntryOf(path)' = EntryOf(path)
         /\ \A item : RejectionReason(item)' = RejectionReason(item)
         /\ \A item : IsAllowed(item)' = IsAllowed(item)
         /\ \A item : AllowedItem(item)' = AllowedItem(item)
<1>1. SchemaPaths' = SchemaPaths /\ \A path : EntryOf(path)' = EntryOf(path)
  BY DEF SchemaPaths, EntryOf
<1>2. \A item : InspectionEntries(item)' = InspectionEntries(item)
  BY <1>1 DEF InspectionEntries
<1>3. \A item : RejectionReason(item)' = RejectionReason(item)
  BY <1>2 DEF RejectionReason
<1>4. \A item : IsAllowed(item)' = IsAllowed(item)
  BY <1>3 DEF IsAllowed
<1>5. \A item : NormalizedValue(item)' = NormalizedValue(item)
  BY <1>1 DEF NormalizedValue
<1>6. \A item : AllowedItem(item)' = AllowedItem(item)
  BY <1>5 DEF AllowedItem
<1> QED
  BY <1>1, <1>3, <1>4, <1>6

\* While the calls and the schema stand, so do the readings that are allowed.
LEMMA SameReadings ==
  ASSUME UNCHANGED <<calls, schema>>
  PROVE  AllowedReadings' = AllowedReadings /\ InspectionRejections' = InspectionRejections
<1>1. Taken' = Taken /\ \A i : ReadingOf(i)' = ReadingOf(i)
  BY SameCalls
<1>2. \A i : PlaceAmongTaken(i)' = PlaceAmongTaken(i)
  BY SameCalls
<1>3. /\ \A item : IsAllowed(item)' = IsAllowed(item)
      /\ \A item : AllowedItem(item)' = AllowedItem(item)
      /\ \A item : RejectionReason(item)' = RejectionReason(item)
  BY SameChecks
<1>4. \A item, i : ReadingRejection(item, i)' = ReadingRejection(item, i)
  BY <1>2, <1>3 DEF ReadingRejection
<1>5. AllowedReadings' = AllowedReadings
  BY <1>1, <1>3 DEF AllowedReadings
<1>6. InspectionRejections' = InspectionRejections
  BY <1>1, <1>3, <1>4 DEF InspectionRejections
<1> QED
  BY <1>5, <1>6

\* While the allowed readings stand, so does what they settle.
LEMMA SameVotes ==
  ASSUME UNCHANGED allowed
  PROVE  /\ SettledFields' = SettledFields /\ ReadFieldPaths' = ReadFieldPaths
         /\ \A path : AgreedReadingCount(path)' = AgreedReadingCount(path)
<1>1. ReadFieldPaths' = ReadFieldPaths
  BY DEF ReadFieldPaths
<1>2. \A path : VotesOf(path)' = VotesOf(path)
  BY DEF VotesOf
<1>3. \A path : LargestVoteGroup(path)' = LargestVoteGroup(path)
  BY <1>2 DEF LargestVoteGroup
<1>4. \A path : AgreedReadingCount(path)' = AgreedReadingCount(path)
  BY <1>3 DEF AgreedReadingCount
<1>5. \A path : AgreedSourceMedia(path)' = AgreedSourceMedia(path)
  BY <1>2, <1>3 DEF AgreedSourceMedia
<1>6. \A path : SettledField(path)' = SettledField(path)
  BY <1>2, <1>3, <1>4, <1>5 DEF SettledField
<1>7. SettledFields' = SettledFields
  BY <1>1, <1>4, <1>6 DEF SettledFields
<1> QED
  BY <1>1, <1>4, <1>7

\* While what is settled stands, so do the rows it is written as.
LEMMA SameRows ==
  ASSUME UNCHANGED <<schema, allowed, settled>>
  PROVE  /\ MajorityRejections(settled)' = MajorityRejections(settled)
         /\ MissingRows' = MissingRows /\ ScoredRows' = ScoredRows
<1>1. ReadFieldPaths' = ReadFieldPaths /\ \A path : AgreedReadingCount(path)' = AgreedReadingCount(path)
  BY SameVotes
<1>2. RequiredEntries' = RequiredEntries
  BY DEF RequiredEntries
<1>3. \A fields : UnsettledFieldPaths(fields)' = UnsettledFieldPaths(fields)
  BY <1>1, <1>2 DEF UnsettledFieldPaths
<1>4. \A fields : MajorityRejections(fields)' = MajorityRejections(fields)
  BY <1>1, <1>3 DEF MajorityRejections
<1>5. MajorityRejections(settled)' = MajorityRejections(settled)
  BY <1>4 DEF MajorityRejections
<1>6. \A fields : MissingEntries(fields)' = MissingEntries(fields)
  BY <1>2 DEF MissingEntries
<1>7. \A n, rejections : MissingOutcome(n, rejections)' = MissingOutcome(n, rejections)
  BY DEF MissingOutcome
<1>8. MissingRows' = MissingRows
  BY <1>5, <1>6, <1>7 DEF MissingRows
<1>9. ScoredRows' = ScoredRows
  BY DEF ScoredRows
<1> QED
  BY <1>5, <1>8, <1>9

--------------------------------------------------------------------------------
(* The calls, step by step                                                  *)

\* Reducing a schema to its suggestible fields leaves an array.
LEMMA SchemasAreArrays ==
  ASSUME SchemaIsKept
  PROVE  IsArray(schema)
<1>1. \A fields \in Schemas : IsArray(fields) /\ IsArray(RestrictValues(fields, IsSuggestible))
  BY ConsensusAssumption DEF IsArray, RestrictValues, RestrictDomain, Restrict
<1> QED
  BY <1>1 DEF SchemaIsKept, KeptSchemas

\* What stands in for a keyless answer is an answer.
LEMMA SuppliedIsAnAnswer ==
  ASSUME NEW fields, IsArray(fields), NEW drawOf
  PROVE  IsAnswer(ReadingFunctionCalls(
            KeylessFunctionCalls(ForcedTools), SuppliedFunctionCalls(fields, drawOf)))
<1> DEFINE keyless == KeylessFunctionCalls(ForcedTools)
           supplied == SuppliedFunctionCalls(fields, drawOf)
<1>1. IsAnswer(keyless)
  BY DEF IsAnswer, IsArray, KeylessFunctionCalls, ForcedTools, Range
<1>2. IsAnswer(<<>>)
  BY DEF IsAnswer, IsArray, Range
<1>3. IsArray(FieldReadings(fields, ReadableMediaKeys, drawOf))
  BY DEF IsArray, FieldReadings, RestrictValues, RestrictDomain, Restrict
<1>4. IsAnswer(supplied)
  <2>1. DOMAIN supplied = 1..1 /\ IsArray(supplied[1].readings)
    BY <1>3 DEF SuppliedFunctionCalls
  <2>2. \A call \in Range(supplied) : call = supplied[1]
    BY <2>1 DEF Range
  <2> QED
    BY <2>1, <2>2 DEF IsAnswer, IsArray
<1> HIDE DEF keyless, supplied
<1>5. ReadingFunctionCalls(keyless, supplied) \in {keyless, <<>>, supplied}
  BY DEF ReadingFunctionCalls, FunctionCalls
<1>6. IsAnswer(ReadingFunctionCalls(keyless, supplied))
  BY <1>1, <1>2, <1>4, <1>5
<1> QED
  BY <1>6 DEF keyless, supplied

\* A call that came back is not turned again, and its row is that of its answer.
LEMMA OneCallTurns ==
  ASSUME CallsAreKept, CallStep
  PROVE  CallsAreKept'
<1>1. PICK i \in Indexes :
        SendRequestToAi(i) \/ FailToSend(i) \/ AnswerRequest(i) \/ SaveAiModelCall(i)
            \/ FailToSaveCall(i)
  BY DEF CallStep
<1> DEFINE Turns(turned, answer) ==
        /\ calls' = [calls EXCEPT ![i] = [phase |-> turned, answer |-> answer]]
        /\ turned \in CallPhases
        /\ turned = "answered" => answer = Failed \/ IsAnswer(answer)
        /\ turned = "taken" => IsAnswer(answer)
        /\ calls[i].phase \notin {"taken", "failed"}
        /\ UNCHANGED <<agent, isAborted>>
        /\ IF turned \in {"taken", "failed"}
           THEN answer = calls[i].answer /\ aiModelCalls' = aiModelCalls \cup {AiModelCall(i)}
           ELSE UNCHANGED aiModelCalls
<1>2. \E turned, answer : Turns(turned, answer)
  <2>1. CASE SendRequestToAi(i)
    <3>1. Turns("sent", Absent)
      BY <2>1 DEF SendRequestToAi, TurnCall, CallPhases
    <3> QED
      BY <3>1
  <2>2. CASE FailToSend(i)
    <3>1. Turns("threw", Absent)
      BY <2>2 DEF FailToSend, TurnCall, CallPhases
    <3> QED
      BY <3>1
  <2>3. CASE AnswerRequest(i)
    <3>1. PICK answer \in Answers \cup {Failed} : TurnCall(i, "answered", answer)
      BY <2>3 DEF AnswerRequest
    <3>2. answer = Failed \/ IsAnswer(answer)
      BY CallsAssumption
    <3>3. Turns("answered", answer)
      BY <2>3, <3>1, <3>2 DEF AnswerRequest, TurnCall, CallPhases
    <3> QED
      BY <3>3
  <2>4. CASE SaveAiModelCall(i)
    <3>1. calls[i].answer # Failed => IsAnswer(calls[i].answer)
      BY <2>4 DEF SaveAiModelCall, CallsAreKept
    <3>2. CASE calls[i].answer = Failed
      <4>1. Turns("failed", calls[i].answer)
        BY <2>4, <3>2 DEF SaveAiModelCall, TurnCall, CallPhases
      <4> QED
        BY <4>1
    <3>3. CASE calls[i].answer # Failed
      <4>1. Turns("taken", calls[i].answer)
        BY <2>4, <3>1, <3>3 DEF SaveAiModelCall, TurnCall, CallPhases
      <4> QED
        BY <4>1
    <3> QED
      BY <3>2, <3>3
  <2>5. CASE FailToSaveCall(i)
    <3>1. Turns("threw", Absent)
      BY <2>5 DEF FailToSaveCall, TurnCall, CallPhases
    <3> QED
      BY <3>1
  <2> HIDE DEF Turns
  <2> QED
    BY <1>1, <2>1, <2>2, <2>3, <2>4, <2>5
<1>3. PICK turned, answer : Turns(turned, answer)
  BY <1>2
<1>4. /\ DOMAIN calls' = Indexes
      /\ calls'[i].phase = turned /\ calls'[i].answer = answer
      /\ \A j \in Indexes : j # i => calls'[j] = calls[j]
  BY <1>3 DEF CallsAreKept
<1>5. \A j \in Indexes : j # i => AiModelCall(j)' = AiModelCall(j)
  BY <1>4 DEF AiModelCall
<1>6. turned \in {"taken", "failed"} => AiModelCall(i)' = AiModelCall(i)
  BY <1>3, <1>4 DEF AiModelCall
<1>7. \A j \in Indexes :
        /\ calls'[j].phase \in CallPhases
        /\ calls'[j].phase = "answered" => calls'[j].answer = Failed \/ IsAnswer(calls'[j].answer)
        /\ calls'[j].phase = "taken" => IsAnswer(calls'[j].answer)
  BY <1>3, <1>4 DEF CallsAreKept
<1>8. ASSUME NEW j \in Indexes, calls'[j].phase \in {"taken", "failed"}
      PROVE  AiModelCall(j)' \in aiModelCalls'
  <2>1. CASE j = i
    BY <1>3, <1>4, <1>6, <1>8, <2>1
  <2>2. CASE j # i
    BY <1>3, <1>4, <1>5, <1>8, <2>2 DEF CallsAreKept
  <2> QED
    BY <2>1, <2>2
<1>9. ASSUME NEW row \in aiModelCalls'
      PROVE  \E j \in Indexes : calls'[j].phase \in {"taken", "failed"} /\ row = AiModelCall(j)'
  <2>1. CASE row \in aiModelCalls
    <3>1. PICK j \in Indexes : calls[j].phase \in {"taken", "failed"} /\ row = AiModelCall(j)
      BY <2>1 DEF CallsAreKept
    <3>2. j # i
      BY <1>3, <3>1
    <3> QED
      BY <1>4, <1>5, <3>1, <3>2
  <2>2. CASE row \notin aiModelCalls
    <3>1. turned \in {"taken", "failed"} /\ row = AiModelCall(i)
      BY <1>3, <2>2
    <3> QED
      BY <1>4, <1>6, <3>1
  <2> QED
    BY <2>1, <2>2
<1>10. agent' \in Agents /\ isAborted' \in BOOLEAN
  BY <1>3 DEF CallsAreKept
<1> QED
  BY <1>4, <1>7, <1>8, <1>9, <1>10 DEF CallsAreKept

\* Step 3 begins every call of the run at once, with nothing recorded of any.
LEMMA CallsAreBegun ==
  ASSUME CallsAreKept, calls = NoCalls, IsArray(schema), TakeReadings(schema)
  PROVE  CallsAreKept'
<1>1. PICK begun, answer :
        /\ calls' = [i \in Indexes |-> [phase |-> begun, answer |-> answer]]
        /\ begun \in CallPhases \ {"taken", "failed"}
        /\ begun = "answered" => IsAnswer(answer)
  <2>1. CASE isAborted
    BY <2>1 DEF TakeReadings, NoCall, CallPhases
  <2>2. CASE ~isAborted /\ agent.isKeyless
    BY <2>2, SuppliedIsAnAnswer DEF TakeReadings, CallPhases
  <2>3. CASE ~isAborted /\ ~agent.isKeyless
    BY <2>3 DEF TakeReadings, NoCall, CallPhases
  <2> QED
    BY <2>1, <2>2, <2>3
<1>2. aiModelCalls = {}
  BY DEF CallsAreKept, NoCalls, NoCall
<1>3. agent' \in Agents /\ isAborted' \in BOOLEAN /\ aiModelCalls' = {}
  BY <1>2 DEF CallsAreKept, TakeReadings
<1>4. /\ DOMAIN calls' = Indexes
      /\ \A i \in Indexes : calls'[i].phase = begun /\ calls'[i].answer = answer
  BY <1>1
<1> QED
  BY <1>1, <1>3, <1>4 DEF CallsAreKept

\* Only the fetch, its calls and the abort signal touch the calls.
LEMMA FewTurnCalls ==
  ASSUME ConsensusNext
  PROVE  FetchReadingsConcurrently \/ FetchOneReading \/ RaiseSignal \/ UNCHANGED callVars
BY DEF ConsensusNext, SelectSuggestibleFieldSchema, EnsureAiAgentModelBinding, RefusePrompt,
       RejectReadings, EnsureSomeReadingTaken, InspectReadings, ResolveFieldConsensus,
       SaveAiRunFieldOutcome, FinishMissing, ScoreSettledFields, GenerateResultBody

\* What the agent is bound to and the signal it was given stay as they were found.
LEMMA SetUpStays ==
  ASSUME ConsensusNext
  PROVE  agent' = agent /\ IsSetUp' = IsSetUp /\ IsBound' = IsBound
<1>1. agent' = agent
  <2>1. CASE FetchReadingsConcurrently
    BY <2>1 DEF FetchReadingsConcurrently, TakeReadings
  <2>2. CASE FetchOneReading
    BY <2>2 DEF FetchOneReading, CallStep, SendRequestToAi, FailToSend, AnswerRequest,
                SaveAiModelCall, FailToSaveCall, TurnCall
  <2>3. CASE RaiseSignal
    BY <2>3 DEF RaiseSignal, AbortReadings
  <2>4. CASE UNCHANGED callVars
    BY <2>4 DEF callVars
  <2> QED
    BY <2>1, <2>2, <2>3, <2>4, FewTurnCalls
<1> QED
  BY <1>1 DEF IsSetUp, IsBound, IsComposable, OffersReadingTool

\* A call that can still turn is neither unasked nor settled.
LEMMA TurningIsUnderWay ==
  ASSUME CallStep
  PROVE  ~IsFulfilled /\ calls # NoCalls
BY DEF CallStep, SendRequestToAi, FailToSend, AnswerRequest, SaveAiModelCall, FailToSaveCall,
       IsFulfilled, NoCalls, NoCall

\* No call is at rest without the row that records it.
LEMMA CallsStep ==
  ASSUME ConsensusInvariant, ConsensusNext
  PROVE  CallsAreKept'
<1>1. CallsAreKept /\ SchemaIsKept /\ CallsFollowThePhase
  BY DEF ConsensusInvariant
<1>2. CASE FetchReadingsConcurrently
  <2>1. calls = NoCalls /\ TakeReadings(schema)
    BY <1>1, <1>2 DEF FetchReadingsConcurrently, Proceed, CallsFollowThePhase
  <2> QED
    BY <1>1, <2>1, SchemasAreArrays, CallsAreBegun
<1>3. CASE FetchOneReading
  BY <1>1, <1>3, OneCallTurns DEF FetchOneReading
<1>4. CASE RaiseSignal
  <2>1. UNCHANGED <<agent, calls, aiModelCalls>> /\ isAborted' = TRUE
    BY <1>4 DEF RaiseSignal, AbortReadings
  <2> QED
    BY <1>1, <2>1, SameCalls DEF CallsAreKept
<1>5. CASE UNCHANGED callVars
  <2>1. UNCHANGED <<agent, calls, aiModelCalls, isAborted>>
    BY <1>5 DEF callVars
  <2> QED
    BY <1>1, <2>1, SameCalls DEF CallsAreKept
<1> QED
  BY <1>2, <1>3, <1>4, <1>5, FewTurnCalls

\* The calls and the schema are where the phase says.
LEMMA PhaseStep ==
  ASSUME ConsensusInvariant, ConsensusNext
  PROVE  phase' \in Phases /\ CallsFollowThePhase' /\ SchemaIsKept'
<1>1. phase \in Phases /\ CallsFollowThePhase /\ SchemaIsKept
  BY DEF ConsensusInvariant
<1>2. agent' = agent /\ IsSetUp' = IsSetUp /\ IsBound' = IsBound
  BY SetUpStays
<1>3. CASE SelectSuggestibleFieldSchema
  <2>1. /\ UNCHANGED calls /\ schema' = RestrictValues(schema, IsSuggestible)
        /\ phase = "selecting" /\ phase' = IF schema' = <<>> THEN "answered" ELSE "binding"
    BY <1>3 DEF SelectSuggestibleFieldSchema, Proceed, callVars
  <2>2. calls' = NoCalls
    BY <1>1, <2>1 DEF CallsFollowThePhase
  <2>3. NoCalls' = NoCalls
    BY DEF NoCalls
  <2>4. SchemaIsKept' /\ phase' \in Phases
    BY <1>1, <2>1 DEF SchemaIsKept, KeptSchemas, Phases
  <2>5. CallsFollowThePhase'
    BY <2>1, <2>2, <2>3 DEF CallsFollowThePhase, Waited
  <2> QED
    BY <2>4, <2>5
<1>4. CASE FetchReadingsConcurrently
  <2>1. /\ phase = "composing" /\ phase' = "called" /\ UNCHANGED schema
        /\ IsComposable /\ OffersReadingTool
    BY <1>4 DEF FetchReadingsConcurrently, Proceed
  <2>2. IsSetUp
    BY <1>1, <2>1 DEF CallsFollowThePhase, IsSetUp
  <2>3. CallsFollowThePhase'
    BY <1>2, <2>1, <2>2 DEF CallsFollowThePhase, Waited
  <2> QED
    BY <1>1, <2>1, <2>3 DEF SchemaIsKept, Phases
<1>5. CASE FetchOneReading
  <2>1. phase \in {"called", "threw"} /\ UNCHANGED <<schema, phase>> /\ CallStep
    BY <1>5 DEF FetchOneReading
  <2>2. IsSetUp
    BY <1>1, <2>1, TurningIsUnderWay DEF CallsFollowThePhase
  <2>3. CallsFollowThePhase'
    BY <1>2, <2>1, <2>2 DEF CallsFollowThePhase, Waited
  <2> QED
    BY <1>1, <2>1, <2>3 DEF SchemaIsKept, Phases
<1>6. ASSUME UNCHANGED <<calls, schema>>,
             \/ phase' = phase
             \/ phase = "binding" /\ phase' = IF IsBound THEN "composing" ELSE "threw"
             \/ phase # "selecting" /\ phase' = "threw"
             \/ phase = "called" /\ phase' = "inspecting" /\ IsFulfilled
             \/ phase = "inspecting" /\ phase' = "resolving"
             \/ phase = "resolving" /\ phase' = "missing"
             \/ phase = "missing" /\ phase' = "scoring"
             \/ phase = "scoring" /\ phase' = "scored"
             \/ phase = "scored" /\ phase' = "answered"
      PROVE  phase' \in Phases /\ CallsFollowThePhase' /\ SchemaIsKept'
  <2>1. IsFulfilled' = IsFulfilled
    BY <1>6, SameCalls
  <2>2. NoCalls' = NoCalls
    BY DEF NoCalls
  <2>3. phase' \in Phases
    BY <1>1, <1>6 DEF Phases
  <2>4. SchemaIsKept'
    <3>1. KeptSchemas' = KeptSchemas
      BY DEF KeptSchemas
    <3> QED
      BY <1>1, <1>6, <3>1 DEF SchemaIsKept
  <2>5. CallsFollowThePhase'
    BY <1>1, <1>2, <1>6, <2>1, <2>2 DEF CallsFollowThePhase, SchemaIsKept, Waited
  <2> QED
    BY <2>3, <2>4, <2>5
<1>7. CASE RaiseSignal
  BY <1>6, <1>7 DEF RaiseSignal, AbortReadings
<1>8. CASE EnsureAiAgentModelBinding \/ RefusePrompt \/ RejectReadings
  BY <1>6, <1>8 DEF EnsureAiAgentModelBinding, RefusePrompt, RejectReadings, Proceed, callVars
<1>9. CASE EnsureSomeReadingTaken \/ InspectReadings \/ ResolveFieldConsensus
  BY <1>6, <1>9 DEF EnsureSomeReadingTaken, InspectReadings, ResolveFieldConsensus, Proceed,
                    callVars
<1>10. CASE \E row \in unsaved : SaveAiRunFieldOutcome(row)
  BY <1>6, <1>10 DEF SaveAiRunFieldOutcome, callVars
<1>11. CASE FinishMissing \/ ScoreSettledFields \/ GenerateResultBody
  BY <1>6, <1>11 DEF FinishMissing, ScoreSettledFields, GenerateResultBody, Proceed, callVars
<1> QED
  BY <1>3, <1>4, <1>5, <1>7, <1>8, <1>9, <1>10, <1>11 DEF ConsensusNext

--------------------------------------------------------------------------------
(* What is inspected and what settles, step by step                         *)

\* Step 4 leaves what the checks allow.
LEMMA InspectionAllows ==
  ASSUME InspectReadings
  PROVE  allowed' = AllowedReadings
<1> DEFINE kept(i) == RestrictValues(TakenReadings[i], IsAllowed)
<1>1. allowed' = [i \in DOMAIN TakenReadings |->
                    [n \in DOMAIN kept(i) |-> AllowedItem(kept(i)[n])]]
  BY DEF InspectReadings
<1>2. DOMAIN TakenReadings = Taken /\ \A i \in Taken : TakenReadings[i] = ReadingOf(i)
  BY DEF TakenReadings
<1>3. ASSUME NEW i \in Taken
      PROVE  /\ DOMAIN kept(i) = {m \in DOMAIN ReadingOf(i) : IsAllowed(ReadingOf(i)[m])}
             /\ \A n \in DOMAIN kept(i) : kept(i)[n] = ReadingOf(i)[n]
  BY <1>2 DEF RestrictValues, RestrictDomain, Restrict
<1> HIDE DEF kept
<1> QED
  BY <1>1, <1>2, <1>3 DEF AllowedReadings

\* The rejections of the step are those of the readings that were taken.
LEMMA InspectionIsTraced ==
  ASSUME InspectReadings
  PROVE  \E outcomeCode : SaveAiRunStep(4, outcomeCode, InspectionRejections)
<1> DEFINE dropped(i) == {n \in DOMAIN TakenReadings[i] : ~IsAllowed(TakenReadings[i][n])}
           rejections == UNION {{ReadingRejection(TakenReadings[i][n], i) : n \in dropped(i)} :
                                    i \in DOMAIN TakenReadings}
<1>1. SaveAiRunStep(4, IF rejections = {} THEN "readings_kept" ELSE "readings_dropped",
                    rejections)
  BY DEF InspectReadings
<1>2. DOMAIN TakenReadings = Taken /\ \A i \in Taken : TakenReadings[i] = ReadingOf(i)
  BY DEF TakenReadings
<1>3. rejections = InspectionRejections
  BY <1>2 DEF InspectionRejections
<1> HIDE DEF rejections
<1> QED
  BY <1>1, <1>3

\* What is allowed and what is settled is computed once and kept.
LEMMA SettlementStep ==
  ASSUME ConsensusInvariant, ConsensusNext
  PROVE  ReadingsAreInspected' /\ FieldsAreSettled' /\ DOMAIN allowed' \subseteq Indexes
<1> SUFFICES ReadingsAreInspected' /\ FieldsAreSettled'
  <2>1. CASE InspectReadings
    <3>1. DOMAIN allowed' = Taken
      BY <2>1, InspectionAllows DEF AllowedReadings
    <3> QED
      BY <3>1, TakenAreIndexes
  <2>2. CASE UNCHANGED allowed
    BY <2>2 DEF ConsensusInvariant
  <2>3. InspectReadings \/ UNCHANGED allowed
    BY DEF ConsensusNext, SelectSuggestibleFieldSchema, EnsureAiAgentModelBinding, RefusePrompt,
           FetchReadingsConcurrently, FetchOneReading, RaiseSignal, RejectReadings,
           EnsureSomeReadingTaken, ResolveFieldConsensus, SaveAiRunFieldOutcome, FinishMissing,
           ScoreSettledFields, GenerateResultBody
  <2> QED
    BY <2>1, <2>2, <2>3
<1>1. /\ ReadingsAreInspected /\ FieldsAreSettled /\ CallsFollowThePhase /\ SchemaIsKept
      /\ phase \in Phases
  BY DEF ConsensusInvariant
<1>2. ASSUME settled' = {}, phase' \in (Unresolved \ {"resolving"}) \cup {"threw"}
      PROVE  ReadingsAreInspected' /\ FieldsAreSettled'
  BY <1>2 DEF ReadingsAreInspected, FieldsAreSettled, IsPastInspection, IsPastResolution,
              IsAnsweredWithFields, Unresolved
<1>3. ASSUME UNCHANGED <<calls, schema, allowed, settled>>,
             IsPastInspection' => IsPastInspection, IsPastResolution' => IsPastResolution,
             phase' \in Unresolved => phase \in Unresolved
      PROVE  ReadingsAreInspected' /\ FieldsAreSettled'
  <2>1. AllowedReadings' = AllowedReadings /\ IsFulfilled' = IsFulfilled
    BY <1>3, SameReadings, SameCalls
  <2>2. SettledFields' = SettledFields
    BY <1>3, SameVotes
  <2> QED
    BY <1>1, <1>3, <2>1, <2>2 DEF ReadingsAreInspected, FieldsAreSettled
<1>4. CASE SelectSuggestibleFieldSchema
  <2>1. /\ settled' = {} /\ phase' \in {"binding", "answered"}
        /\ phase' = "answered" => schema' = <<>>
    BY <1>1, <1>4 DEF SelectSuggestibleFieldSchema, Proceed, FieldsAreSettled, Unresolved
  <2> QED
    BY <2>1 DEF ReadingsAreInspected, FieldsAreSettled, IsPastInspection, IsPastResolution,
                IsAnsweredWithFields
<1>5. CASE FetchReadingsConcurrently
  BY <1>1, <1>2, <1>5 DEF FetchReadingsConcurrently, Proceed, FieldsAreSettled, Unresolved
<1>6. CASE FetchOneReading
  <2>1. phase' \in {"called", "threw"} /\ UNCHANGED <<phase, settled>> /\ CallStep
    BY <1>6 DEF FetchOneReading
  <2>2. settled = {}
    BY <1>1, <2>1, TurningIsUnderWay DEF ReadingsAreInspected
  <2> QED
    BY <1>2, <2>1, <2>2 DEF Unresolved
<1>7. CASE RaiseSignal
  BY <1>3, <1>7 DEF RaiseSignal, AbortReadings, IsPastInspection, IsPastResolution,
                    IsAnsweredWithFields
<1>8. CASE EnsureAiAgentModelBinding \/ RefusePrompt \/ RejectReadings \/ EnsureSomeReadingTaken
  <2>1. settled' = {} /\ phase' \in {"composing", "threw", "inspecting"}
    BY <1>1, <1>8 DEF EnsureAiAgentModelBinding, RefusePrompt, RejectReadings,
                      EnsureSomeReadingTaken, Proceed, FieldsAreSettled, Unresolved
  <2> QED
    BY <1>2, <2>1 DEF Unresolved
<1>9. CASE InspectReadings
  <2>1. /\ phase = "inspecting" /\ phase' = "resolving"
        /\ UNCHANGED <<calls, schema, settled>>
    BY <1>9 DEF InspectReadings, Proceed, callVars
  <2>2. allowed' = AllowedReadings'
    BY <1>9, <2>1, InspectionAllows, SameReadings
  <2>3. IsFulfilled'
    BY <1>1, <2>1, SameCalls DEF CallsFollowThePhase, Waited
  <2>4. settled' = {}
    BY <1>1, <2>1 DEF FieldsAreSettled, Unresolved
  <2>5. ~IsPastResolution'
    BY <2>1 DEF IsPastResolution, IsAnsweredWithFields
  <2> QED
    BY <2>2, <2>3, <2>4, <2>5 DEF ReadingsAreInspected, FieldsAreSettled
<1>10. CASE ResolveFieldConsensus
  <2>1. /\ phase = "resolving" /\ phase' = "missing" /\ settled' = SettledFields
        /\ UNCHANGED <<calls, schema, allowed>>
    BY <1>10 DEF ResolveFieldConsensus, Proceed, callVars
  <2>2. allowed = AllowedReadings /\ IsFulfilled
    BY <1>1, <2>1 DEF ReadingsAreInspected, IsPastInspection
  <2>3. /\ SettledFields' = SettledFields /\ AllowedReadings' = AllowedReadings
        /\ IsFulfilled' = IsFulfilled
    BY <2>1, SameVotes, SameReadings, SameCalls
  <2>4. phase' \notin Unresolved
    BY <2>1 DEF Unresolved
  <2> QED
    BY <2>1, <2>2, <2>3, <2>4 DEF ReadingsAreInspected, FieldsAreSettled
<1>11. CASE \E row \in unsaved : SaveAiRunFieldOutcome(row)
  BY <1>3, <1>11 DEF SaveAiRunFieldOutcome, callVars, IsPastInspection, IsPastResolution,
                     IsAnsweredWithFields, Unresolved
<1>12. CASE FinishMissing \/ ScoreSettledFields \/ GenerateResultBody
  BY <1>3, <1>12 DEF FinishMissing, ScoreSettledFields, GenerateResultBody, Proceed, callVars,
                     IsPastInspection, IsPastResolution, IsAnsweredWithFields, Unresolved
<1> QED
  BY <1>4, <1>5, <1>6, <1>7, <1>8, <1>9, <1>10, <1>11, <1>12 DEF ConsensusNext

--------------------------------------------------------------------------------
(* The rows, step by step                                                   *)

\* A quotient that rounds to between one and the full confidence is within them.
LEMMA QuotientIsWithin ==
  ASSUME NEW x \in Nat, NEW d \in Nat \ {0}, d <= x, x < (FullConfidence + 1) * d
  PROVE  x \div d \in 1..FullConfidence
<1> DEFINE q == x \div d
           r == x % d
<1>1. q \in Int /\ r \in 0..(d - 1) /\ x = d * q + r
  OBVIOUS
<1> HIDE DEF q, r
<1>2. ASSUME q <= 0 PROVE FALSE
  <2>1. d * q <= 0
    BY <1>1, <1>2
  <2> QED
    BY <1>1, <2>1
<1>3. ASSUME q >= 10001 PROVE FALSE
  <2>1. d * q >= d * 10001
    BY <1>1, <1>3
  <2> QED
    BY <1>1, <2>1 DEF FullConfidence
<1>4. q \in Int /\ q >= 1 /\ q <= 10000
  BY <1>1, <1>2, <1>3
<1>5. FullConfidence \in Int /\ q <= FullConfidence
  BY <1>4 DEF FullConfidence
<1>6. q \in 1..FullConfidence
  BY <1>4, <1>5
<1> QED
  BY <1>6 DEF q

\* What a majority agrees on is scored over nothing and up to the whole.
LEMMA ConfidenceIsWithin ==
  ASSUME NEW agreed \in 1..ReadingCount, 2 * agreed > ReadingCount, NEW kind \in EvidenceKinds
  PROVE  Confidence(agreed, kind) \in 1..FullConfidence
<1> DEFINE share == agreed * Weight[kind]
<1>1. Weight[kind] \in 1..100 /\ ReadingCount \in Nat \ {0}
  BY ConsensusAssumption, CallsAssumption
<1>2. PICK x : x = 2 * agreed * Weight[kind] * 100 + ReadingCount
  OBVIOUS
<1>3. PICK d : d = 2 * ReadingCount
  OBVIOUS
<1>4. Confidence(agreed, kind) = x \div d
  BY <1>2, <1>3 DEF Confidence
<1>5. share \in Nat /\ share >= agreed /\ share <= ReadingCount * 100
  BY <1>1
<1>6. x = 200 * share + ReadingCount
  BY <1>1, <1>2
<1> HIDE DEF share
<1>7. x \in Nat /\ d \in Nat \ {0} /\ d <= x /\ x < (FullConfidence + 1) * d
  BY <1>1, <1>3, <1>5, <1>6 DEF FullConfidence
<1>8. x \div d \in 1..FullConfidence
  BY <1>7, QuotientIsWithin
<1> QED
  BY <1>4, <1>8

\* What step 5 finds missing and rejects is told of what it settled.
LEMMA ResolutionMisses ==
  ASSUME settled' = SettledFields, UNCHANGED <<schema, allowed>>
  PROVE  /\ MajorityRejections(settled)' = MajorityRejections(SettledFields)
         /\ MissingRows' = {MissingOutcome(n, MajorityRejections(SettledFields)) :
                                n \in MissingEntries(SettledFields)}
<1>1. ReadFieldPaths' = ReadFieldPaths /\ \A path : AgreedReadingCount(path)' = AgreedReadingCount(path)
  BY SameVotes
<1>2. RequiredEntries' = RequiredEntries
  BY DEF RequiredEntries
<1>3. UnsettledFieldPaths(settled)' = UnsettledFieldPaths(SettledFields)
  BY <1>1, <1>2 DEF UnsettledFieldPaths
<1>4. MajorityRejections(settled)' = MajorityRejections(SettledFields)
  BY <1>1, <1>3 DEF MajorityRejections
<1>5. MissingEntries(settled)' = MissingEntries(SettledFields)
  BY <1>2 DEF MissingEntries
<1>6. \A n, rejections : MissingOutcome(n, rejections)' = MissingOutcome(n, rejections)
  BY DEF MissingOutcome
<1> QED
  BY <1>4, <1>5, <1>6 DEF MissingRows

\* A row that is taken is the first of its path.
LEMMA RecordableIsNew ==
  ASSUME NEW row, IsRecordableOutcome(row)
  PROVE  \A other \in fieldOutcomes : other.path # row.path
<1>1. SettledFieldPath(row) # Absent /\ SettledFieldPath(row) \notin PathsOf(fieldOutcomes)
  BY DEF IsRecordableOutcome, IsOutcomeRow
<1>2. SettledFieldPath(row) = row.path
  BY <1>1 DEF SettledFieldPath
<1> QED
  BY <1>1, <1>2 DEF PathsOf

\* The rows of the outcome are there exactly behind the step that writes them.
LEMMA RowsStep ==
  ASSUME ConsensusInvariant, ConsensusNext
  PROVE  RowsFollowThePhase'
<1>1. RowsFollowThePhase /\ CallsFollowThePhase /\ SchemaIsKept /\ phase \in Phases
  BY DEF ConsensusInvariant
<1>2. ASSUME unsaved' = {}, fieldOutcomes' = {}, phase' \in Unresolved \cup {"threw", "answered"},
             phase' = "answered" => schema' = <<>>
      PROVE  RowsFollowThePhase'
  BY <1>2 DEF RowsFollowThePhase, IsAnsweredWithFields, Unresolved
<1>3. ASSUME UNCHANGED <<schema, phase, allowed, settled, unsaved, fieldOutcomes>>
      PROVE  RowsFollowThePhase'
  <2>1. MissingRows' = MissingRows /\ ScoredRows' = ScoredRows
    BY <1>3, SameRows
  <2>2. IsAnsweredWithFields' = IsAnsweredWithFields
    BY <1>3 DEF IsAnsweredWithFields
  <2> QED
    BY <1>1, <1>3, <2>1, <2>2 DEF RowsFollowThePhase
<1>4. ASSUME phase \in Unresolved, phase' \in Unresolved \cup {"threw", "answered"},
             phase' = "answered" => schema' = <<>>, UNCHANGED <<unsaved, fieldOutcomes>>
      PROVE  RowsFollowThePhase'
  BY <1>1, <1>2, <1>4 DEF RowsFollowThePhase
<1>5. CASE SelectSuggestibleFieldSchema
  BY <1>4, <1>5 DEF SelectSuggestibleFieldSchema, Proceed, Unresolved
<1>6. CASE EnsureAiAgentModelBinding \/ RefusePrompt \/ FetchReadingsConcurrently
  BY <1>4, <1>6 DEF EnsureAiAgentModelBinding, RefusePrompt, FetchReadingsConcurrently, Proceed,
                    Unresolved
<1>7. CASE FetchOneReading \/ RaiseSignal
  BY <1>3, <1>7 DEF FetchOneReading, RaiseSignal
<1>8. CASE RejectReadings \/ EnsureSomeReadingTaken \/ InspectReadings
  BY <1>4, <1>8 DEF RejectReadings, EnsureSomeReadingTaken, InspectReadings, Proceed, Unresolved
<1>9. CASE ResolveFieldConsensus
  <2>1. /\ phase = "resolving" /\ phase' = "missing"
        /\ settled' = SettledFields /\ UNCHANGED <<schema, allowed, fieldOutcomes>>
        /\ unsaved' = {MissingOutcome(n, MajorityRejections(SettledFields)) :
                        n \in MissingEntries(SettledFields)}
    BY <1>9 DEF ResolveFieldConsensus, Proceed
  <2>2. unsaved' = MissingRows'
    BY <2>1, ResolutionMisses
  <2>3. fieldOutcomes' = {}
    BY <1>1, <2>1 DEF RowsFollowThePhase, Unresolved
  <2> QED
    BY <2>1, <2>2, <2>3 DEF RowsFollowThePhase, IsAnsweredWithFields, Unresolved
<1>10. CASE \E row \in unsaved : SaveAiRunFieldOutcome(row)
  <2>1. PICK row \in unsaved : SaveAiRunFieldOutcome(row)
    BY <1>10
  <2>2. /\ phase \in {"missing", "scored"} /\ unsaved' = unsaved \ {row}
        /\ UNCHANGED <<schema, allowed, settled>>
    BY <2>1 DEF SaveAiRunFieldOutcome
  <2>3. MissingRows' = MissingRows /\ ScoredRows' = ScoredRows
    BY <2>2, SameRows
  <2>4. CASE IsRecordableOutcome(row)
    <3>1. fieldOutcomes' = fieldOutcomes \cup {row} /\ phase' = phase
      BY <2>1, <2>4 DEF SaveAiRunFieldOutcome
    <3>2. \A one, other \in fieldOutcomes' : one.path = other.path => one = other
      BY <1>1, <2>4, <3>1, RecordableIsNew DEF RowsFollowThePhase
    <3>3. unsaved' \cap fieldOutcomes' = {} /\ unsaved' \cup fieldOutcomes' = unsaved \cup fieldOutcomes
      BY <1>1, <2>2, <3>1 DEF RowsFollowThePhase
    <3>4. unsaved \subseteq ScoredRows => unsaved' \subseteq ScoredRows
      BY <2>2
    <3> QED
      BY <1>1, <2>2, <2>3, <3>1, <3>2, <3>3, <3>4
      DEF RowsFollowThePhase, IsAnsweredWithFields, Unresolved
  <2>5. CASE ~IsRecordableOutcome(row)
    <3>1. phase' = "threw" /\ UNCHANGED fieldOutcomes
      BY <2>1, <2>5 DEF SaveAiRunFieldOutcome
    <3> QED
      BY <1>1, <2>2, <3>1 DEF RowsFollowThePhase, IsAnsweredWithFields, Unresolved
  <2> QED
    BY <2>4, <2>5
<1>11. CASE FinishMissing
  <2>1. /\ phase = "missing" /\ phase' = "scoring" /\ unsaved = {}
        /\ UNCHANGED <<schema, allowed, settled, unsaved, fieldOutcomes>>
    BY <1>11 DEF FinishMissing, Proceed
  <2>2. MissingRows' = MissingRows
    BY <2>1, SameRows
  <2> QED
    BY <1>1, <2>1, <2>2 DEF RowsFollowThePhase, IsAnsweredWithFields, Unresolved
<1>12. CASE ScoreSettledFields
  <2>1. /\ phase = "scoring" /\ unsaved = {} /\ fieldOutcomes = MissingRows
        /\ UNCHANGED <<schema, allowed, settled, fieldOutcomes>>
    BY <1>1, <1>12 DEF ScoreSettledFields, Proceed, RowsFollowThePhase
  <2>2. MissingRows' = MissingRows /\ ScoredRows' = ScoredRows
    BY <2>1, SameRows
  <2>3. CASE phase' = "scored" /\ unsaved' = {ScoredOutcome(f) : f \in settled}
    <3>1. \A row \in MissingRows : row.stepIndex = 5
      BY DEF MissingRows, MissingOutcome
    <3>2. \A row \in ScoredRows : row.stepIndex = 6
      BY DEF ScoredRows, ScoredOutcome
    <3>3. unsaved' = ScoredRows
      BY <2>3 DEF ScoredRows
    <3>4. unsaved' \cap fieldOutcomes' = {}
      BY <2>1, <3>1, <3>2, <3>3
    <3> QED
      BY <1>1, <2>1, <2>2, <2>3, <3>3, <3>4
      DEF RowsFollowThePhase, IsAnsweredWithFields, Unresolved
  <2>4. CASE phase' = "threw" /\ UNCHANGED unsaved
    BY <1>1, <2>1, <2>4 DEF RowsFollowThePhase, IsAnsweredWithFields, Unresolved
  <2> QED
    BY <1>12, <2>3, <2>4 DEF ScoreSettledFields, Proceed
<1>13. CASE GenerateResultBody
  <2>1. /\ phase = "scored" /\ phase' = "answered" /\ unsaved = {}
        /\ UNCHANGED <<schema, allowed, settled, unsaved, fieldOutcomes>>
    BY <1>13 DEF GenerateResultBody, Proceed
  <2>2. MissingRows' = MissingRows /\ ScoredRows' = ScoredRows
    BY <2>1, SameRows
  <2> QED
    BY <1>1, <2>1, <2>2 DEF RowsFollowThePhase, IsAnsweredWithFields, Unresolved
<1> QED
  BY <1>5, <1>6, <1>7, <1>8, <1>9, <1>10, <1>11, <1>12, <1>13 DEF ConsensusNext

\* The types of a row depend on the schema and nothing else.
LEMMA TypedRowStays ==
  ASSUME UNCHANGED schema
  PROVE  \A row : IsTypedRow(row)' = IsTypedRow(row)
BY SameChecks DEF IsTypedRow

\* The row of a missing field holds at most as many agreeing readings as there were
\* calls.
LEMMA MissingIsTyped ==
  ASSUME CallsAreKept, allowed = AllowedReadings, NEW fields, NEW n \in MissingEntries(fields)
  PROVE  IsTypedRow(MissingOutcome(n, MajorityRejections(fields)))
<1> DEFINE row == MissingOutcome(n, MajorityRejections(fields))
<1>1. row.path \in SchemaPaths /\ row.agreed = AgreedReadingCount(schema[n].path)
  BY MissingIsCounted
<1>2. row.status = "missing" /\ row.confidence = Absent
  BY DEF MissingOutcome
<1>3. AgreedReadingCount(schema[n].path) \in 0..ReadingCount
  BY MostIsAgreed
<1> HIDE DEF row
<1>4. IsTypedRow(row)
  BY <1>1, <1>2, <1>3 DEF IsTypedRow
<1> QED
  BY <1>4 DEF row

\* The row of a settled field has a kind of evidence that is scored, and a status.
LEMMA ScoredIsTyped ==
  ASSUME CallsAreKept, allowed = AllowedReadings, NEW f \in SettledFields
  PROVE  /\ IsTypedRow(ScoredOutcome(f)) /\ f.evidence \in EvidenceKinds
         /\ ScoredOutcome(f).status \in FieldStatuses \ {"missing"}
<1> DEFINE row == ScoredOutcome(f)
<1>1. /\ f.path \in ReadFieldPaths /\ f = SettledField(f.path)
      /\ 2 * f.agreed > ReadingCount /\ f.agreed \in 1..ReadingCount
  BY SettledIsMajority
<1>2. f.path \in SchemaPaths /\ f.evidence \in EvidenceKinds
  BY <1>1, FieldIsItsVoices
<1>3. /\ row.path = f.path /\ row.agreed = f.agreed /\ row.status = FieldState[f.evidence]
      /\ row.confidence = Confidence(f.agreed, f.evidence)
  BY DEF ScoredOutcome
<1>4. Confidence(f.agreed, f.evidence) \in 1..FullConfidence
  BY <1>1, <1>2, ConfidenceIsWithin
<1>5. row.status \in FieldStatuses /\ row.status # "missing"
  BY <1>2, <1>3, ConsensusAssumption DEF FieldStatuses
<1>6. row.agreed \in 0..ReadingCount
  BY <1>1, <1>3
<1> HIDE DEF row
<1>7. IsTypedRow(row)
  BY <1>2, <1>3, <1>4, <1>5, <1>6 DEF IsTypedRow
<1> QED
  BY <1>2, <1>5, <1>7 DEF row

\* The figure of a rejection is the place of a reading or a count of readings.
LEMMA RejectionsAreCounted ==
  ASSUME CallsAreKept
  PROVE  /\ \A r \in InspectionRejections : r.figure \in 0..ReadingCount
         /\ allowed = AllowedReadings =>
            \A fields : \A r \in MajorityRejections(fields) : r.figure \in 0..ReadingCount
<1>1. ASSUME NEW r \in InspectionRejections
      PROVE  r.figure \in 0..ReadingCount
  <2>1. PICK i \in Taken : \E n \in DOMAIN ReadingOf(i) : r = ReadingRejection(ReadingOf(i)[n], i)
    BY DEF InspectionRejections
  <2>2. r.figure = Cardinality({j \in Taken : j <= i})
    BY <2>1 DEF ReadingRejection, PlaceAmongTaken
  <2>3. /\ Cardinality({j \in Taken : j <= i}) \in Nat
        /\ Cardinality({j \in Taken : j <= i}) <= ReadingCount
    BY TakenAreIndexes, FS_Subset, FS_CardinalityType
  <2> QED
    BY <2>2, <2>3, CallsAssumption
<1>2. ASSUME allowed = AllowedReadings, NEW fields, NEW r \in MajorityRejections(fields)
      PROVE  r.figure \in 0..ReadingCount
  <2>1. PICK path : r.figure = AgreedReadingCount(path)
    BY DEF MajorityRejections
  <2> QED
    BY <1>2, <2>1, MostIsAgreed
<1> QED
  BY <1>1, <1>2

\* A step writes the figures of its own rejections and changes none written before.
LEMMA FiguresAreKept ==
  ASSUME NEW index, NEW outcomeCode, NEW rejections, SaveAiRunStep(index, outcomeCode, rejections),
         \A step \in steps : \A r \in step.rejections : r.figure \in 0..ReadingCount,
         \A r \in rejections : r.figure \in 0..ReadingCount
  PROVE  \A step \in steps' : \A r \in step.rejections : r.figure \in 0..ReadingCount
<1> DEFINE added == [stepIndex |-> index, outcomeCode |-> outcomeCode,
                     rejections |-> RecordableRejections(rejections),
                     hasReasonCode |-> rejections # {}]
<1>1. steps' = steps \cup {added}
  BY DEF SaveAiRunStep
<1>2. added.rejections \subseteq rejections
  BY DEF RecordableRejections
<1> HIDE DEF added
<1> QED
  BY <1>1, <1>2

\* Every row and every figure is one its column takes.
LEMMA TypedRowsStep ==
  ASSUME ConsensusInvariant, ConsensusNext
  PROVE  RowsAreTyped'
<1>1. /\ RowsAreTyped /\ RowsFollowThePhase /\ CallsAreKept /\ ReadingsAreInspected
      /\ FieldsAreSettled /\ phase \in Phases
  BY DEF ConsensusInvariant
<1>2. UNCHANGED schema => \A row : IsTypedRow(row)' = IsTypedRow(row)
  BY TypedRowStays
<1>3. ASSUME UNCHANGED <<schema, steps>>,
             unsaved' \cup fieldOutcomes' \subseteq unsaved \cup fieldOutcomes
      PROVE  RowsAreTyped'
  BY <1>1, <1>2, <1>3 DEF RowsAreTyped
<1>4. ASSUME phase \in Unresolved, UNCHANGED <<unsaved, fieldOutcomes>>,
             \A step \in steps' : \A r \in step.rejections : r.figure \in 0..ReadingCount
      PROVE  RowsAreTyped'
  <2>1. unsaved' = {} /\ fieldOutcomes' = {}
    BY <1>1, <1>4 DEF RowsFollowThePhase
  <2> QED
    BY <1>4, <2>1 DEF RowsAreTyped
<1>5. \A step \in steps : \A r \in step.rejections : r.figure \in 0..ReadingCount
  BY <1>1 DEF RowsAreTyped
<1>6. \A index, outcomeCode : SaveAiRunStep(index, outcomeCode, {}) =>
        \A step \in steps' : \A r \in step.rejections : r.figure \in 0..ReadingCount
  BY <1>5, FiguresAreKept
<1>7. CASE SelectSuggestibleFieldSchema
  <2>1. PICK outcomeCode : SaveAiRunStep(1, outcomeCode, {})
    BY <1>7 DEF SelectSuggestibleFieldSchema
  <2>2. phase \in Unresolved /\ UNCHANGED <<unsaved, fieldOutcomes>>
    BY <1>7 DEF SelectSuggestibleFieldSchema, Proceed, Unresolved
  <2> QED
    BY <1>4, <1>6, <2>1, <2>2
<1>8. CASE EnsureAiAgentModelBinding \/ RefusePrompt \/ FetchReadingsConcurrently
  BY <1>3, <1>8 DEF EnsureAiAgentModelBinding, RefusePrompt, FetchReadingsConcurrently
<1>9. CASE FetchOneReading \/ RaiseSignal \/ RejectReadings
  BY <1>3, <1>9 DEF FetchOneReading, RaiseSignal, RejectReadings
<1>10. CASE EnsureSomeReadingTaken
  <2>1. CASE UNCHANGED steps
    BY <1>3, <1>10, <2>1 DEF EnsureSomeReadingTaken
  <2>2. CASE SaveAiRunStep(3, "readings_returned", {})
    <3>1. phase \in Unresolved /\ UNCHANGED <<unsaved, fieldOutcomes>>
      BY <1>10 DEF EnsureSomeReadingTaken, Proceed, Unresolved
    <3> QED
      BY <1>4, <1>6, <2>2, <3>1
  <2> QED
    BY <1>10, <2>1, <2>2 DEF EnsureSomeReadingTaken
<1>11. CASE InspectReadings
  <2>1. PICK outcomeCode : SaveAiRunStep(4, outcomeCode, InspectionRejections)
    BY <1>11, InspectionIsTraced
  <2>2. \A r \in InspectionRejections : r.figure \in 0..ReadingCount
    BY <1>1, RejectionsAreCounted
  <2>3. \A step \in steps' : \A r \in step.rejections : r.figure \in 0..ReadingCount
    BY <1>5, <2>1, <2>2, FiguresAreKept
  <2>4. phase \in Unresolved /\ UNCHANGED <<unsaved, fieldOutcomes>>
    BY <1>11 DEF InspectReadings, Proceed, Unresolved
  <2> QED
    BY <1>4, <2>3, <2>4
<1>12. CASE ResolveFieldConsensus
  <2>1. /\ phase = "resolving" /\ settled' = SettledFields
        /\ UNCHANGED <<schema, allowed, fieldOutcomes>>
        /\ SaveAiRunStep(5, "fields_settled", MajorityRejections(SettledFields))
        /\ unsaved' = {MissingOutcome(n, MajorityRejections(SettledFields)) :
                        n \in MissingEntries(SettledFields)}
    BY <1>12 DEF ResolveFieldConsensus, Proceed
  <2>2. allowed = AllowedReadings
    BY <1>1, <2>1 DEF ReadingsAreInspected, IsPastInspection
  <2>3. \A r \in MajorityRejections(SettledFields) : r.figure \in 0..ReadingCount
    BY <1>1, <2>2, RejectionsAreCounted
  <2>4. \A step \in steps' : \A r \in step.rejections : r.figure \in 0..ReadingCount
    BY <1>5, <2>1, <2>3, FiguresAreKept
  <2>5. fieldOutcomes' = {}
    BY <1>1, <2>1 DEF RowsFollowThePhase, Unresolved
  <2>6. \A row \in unsaved' : IsTypedRow(row)
    BY <1>1, <2>1, <2>2, MissingIsTyped
  <2> QED
    BY <1>2, <2>1, <2>4, <2>5, <2>6 DEF RowsAreTyped
<1>13. CASE \E row \in unsaved : SaveAiRunFieldOutcome(row)
  <2>1. PICK row \in unsaved : SaveAiRunFieldOutcome(row)
    BY <1>13
  <2>2. /\ UNCHANGED <<schema, steps>> /\ unsaved' \subseteq unsaved
        /\ fieldOutcomes' \subseteq fieldOutcomes \cup {row}
    BY <2>1 DEF SaveAiRunFieldOutcome
  <2> QED
    BY <1>3, <2>1, <2>2
<1>14. CASE FinishMissing \/ GenerateResultBody
  BY <1>3, <1>14 DEF FinishMissing, GenerateResultBody
<1>15. CASE ScoreSettledFields
  <2>1. CASE UNCHANGED <<unsaved, steps>>
    BY <1>3, <1>15, <2>1 DEF ScoreSettledFields
  <2>2. CASE /\ unsaved' = {ScoredOutcome(f) : f \in settled}
             /\ SaveAiRunStep(6, "confidence_scored", {})
    <3>1. phase = "scoring" /\ UNCHANGED <<schema, fieldOutcomes>>
      BY <1>15 DEF ScoreSettledFields, Proceed
    <3>2. allowed = AllowedReadings /\ settled = SettledFields
      BY <1>1, <3>1 DEF ReadingsAreInspected, FieldsAreSettled, IsPastInspection, IsPastResolution
    <3>3. \A row \in unsaved' : IsTypedRow(row)
      BY <1>1, <2>2, <3>2, ScoredIsTyped
    <3>4. \A step \in steps' : \A r \in step.rejections : r.figure \in 0..ReadingCount
      BY <1>6, <2>2
    <3>5. \A row \in fieldOutcomes' : IsTypedRow(row)
      BY <1>1, <3>1 DEF RowsAreTyped
    <3> QED
      BY <1>2, <3>1, <3>3, <3>4, <3>5 DEF RowsAreTyped
  <2> QED
    BY <1>15, <2>1, <2>2 DEF ScoreSettledFields
<1> QED
  BY <1>7, <1>8, <1>9, <1>10, <1>11, <1>12, <1>13, <1>14, <1>15 DEF ConsensusNext

--------------------------------------------------------------------------------
(* The trace, step by step                                                  *)

IsOrderedUpTo(trace, last) ==
    /\ \A step \in trace : step.stepIndex \in 1..last
    /\ \A step, other \in trace : step.stepIndex = other.stepIndex => step = other

\* A step is written behind those before it, with every rejection it has.
LEMMA StepIsAdded ==
  ASSUME NEW last \in Nat, NEW index \in Nat, last < index, IsOrderedUpTo(steps, last),
         NEW outcomeCode, NEW rejections, SaveAiRunStep(index, outcomeCode, rejections)
  PROVE  /\ \A until \in Nat : index <= until => IsOrderedUpTo(steps', until)
         /\ \E step \in steps' :
                step.stepIndex = index /\ step.rejections = RecordableRejections(rejections)
         /\ steps \subseteq steps'
<1> DEFINE added == [stepIndex |-> index, outcomeCode |-> outcomeCode,
                     rejections |-> RecordableRejections(rejections),
                     hasReasonCode |-> rejections # {}]
<1>1. steps' = steps \cup {added}
  BY DEF SaveAiRunStep
<1>2. added.stepIndex = index /\ added.rejections = RecordableRejections(rejections)
  OBVIOUS
<1> HIDE DEF added
<1>3. \A step \in steps : step.stepIndex \in 1..last /\ step.stepIndex # index
  BY DEF IsOrderedUpTo
<1>4. \A step, other \in steps' : step.stepIndex = other.stepIndex => step = other
  BY <1>1, <1>2, <1>3 DEF IsOrderedUpTo
<1>5. ASSUME NEW until \in Nat, index <= until
      PROVE  IsOrderedUpTo(steps', until)
  BY <1>1, <1>2, <1>3, <1>4, <1>5 DEF IsOrderedUpTo
<1> QED
  BY <1>1, <1>2, <1>5

\* The trace holds the steps the run has passed, in their order.
LEMMA TraceStep ==
  ASSUME ConsensusInvariant, ConsensusNext
  PROVE  StepsAreTraced'
<1>1. /\ StepsAreTraced /\ ReadingsAreInspected /\ FieldsAreSettled /\ phase \in Phases
      /\ SchemaIsKept
  BY DEF ConsensusInvariant
<1>2. IsOrderedUpTo(steps, LastStepOf(phase))
  BY <1>1 DEF StepsAreTraced, IsOrderedUpTo
<1>3. /\ LastStepOf("selecting") = 0 /\ LastStepOf("binding") = 1 /\ LastStepOf("composing") = 1
      /\ LastStepOf("called") = 1 /\ LastStepOf("inspecting") = 3 /\ LastStepOf("resolving") = 4
      /\ LastStepOf("missing") = 5 /\ LastStepOf("scoring") = 5 /\ LastStepOf("scored") = 6
      /\ LastStepOf("answered") = 6 /\ LastStepOf("threw") = 6
  BY DEF LastStepOf
<1>4. \A name \in Phases : LastStepOf(name) \in 0..6
  BY <1>3 DEF Phases
<1>5. ASSUME UNCHANGED steps, LastStepOf(phase) <= LastStepOf(phase'), phase' \in Phases
      PROVE  IsOrderedUpTo(steps', LastStepOf(phase'))
  <2>1. LastStepOf(phase) \in 0..6 /\ LastStepOf(phase') \in 0..6
    BY <1>1, <1>4, <1>5
  <2>2. \A step \in steps : step.stepIndex \in 1..LastStepOf(phase')
    BY <1>2, <1>5, <2>1 DEF IsOrderedUpTo
  <2> QED
    BY <1>2, <1>5, <2>2 DEF IsOrderedUpTo
<1>6. ASSUME UNCHANGED steps, LastStepOf(phase) <= LastStepOf(phase'), phase' \in Phases,
             ~IsPastInspection'
      PROVE  StepsAreTraced'
  <2>1. ~IsPastResolution' /\ phase' # "scored"
    BY <1>6 DEF IsPastInspection, IsPastResolution, IsAnsweredWithFields
  <2> QED
    BY <1>5, <1>6, <2>1 DEF StepsAreTraced, IsOrderedUpTo
<1>7. ASSUME UNCHANGED <<calls, schema, allowed, settled>>, steps \subseteq steps'
      PROVE  /\ IsTraced(4, InspectionRejections) => IsTraced(4, InspectionRejections)'
             /\ IsTraced(5, MajorityRejections(settled)) => IsTraced(5, MajorityRejections(settled))'
  BY <1>7, SameReadings, SameRows DEF IsTraced, RecordableRejections
<1>8. ASSUME UNCHANGED <<calls, schema, allowed, settled, steps>>,
             LastStepOf(phase) <= LastStepOf(phase'), phase' \in Phases,
             IsPastInspection' => IsPastInspection, IsPastResolution' => IsPastResolution,
             phase' = "scored" => phase = "scored"
      PROVE  StepsAreTraced'
  <2>1. IsPastInspection' => IsTraced(4, InspectionRejections)'
    BY <1>1, <1>7, <1>8 DEF StepsAreTraced
  <2>2. IsPastResolution' => IsTraced(5, MajorityRejections(settled))'
    BY <1>1, <1>7, <1>8 DEF StepsAreTraced
  <2>3. phase' = "scored" => \E step \in steps' : step.stepIndex = 6
    BY <1>1, <1>8 DEF StepsAreTraced
  <2>4. IsOrderedUpTo(steps', LastStepOf(phase'))
    BY <1>5, <1>8
  <2> QED
    BY <2>1, <2>2, <2>3, <2>4 DEF StepsAreTraced, IsOrderedUpTo
<1>9. CASE SelectSuggestibleFieldSchema
  <2>1. PICK outcomeCode : SaveAiRunStep(1, outcomeCode, {})
    BY <1>9 DEF SelectSuggestibleFieldSchema
  <2>2. /\ phase = "selecting" /\ phase' \in {"binding", "answered"}
        /\ phase' = "answered" => schema' = <<>>
    BY <1>9 DEF SelectSuggestibleFieldSchema, Proceed
  <2>3. IsOrderedUpTo(steps', LastStepOf(phase'))
    BY <1>2, <1>3, <2>1, <2>2, StepIsAdded
  <2>4. ~IsPastInspection' /\ ~IsPastResolution' /\ phase' # "scored"
    BY <2>2 DEF IsPastInspection, IsPastResolution, IsAnsweredWithFields
  <2> QED
    BY <2>3, <2>4 DEF StepsAreTraced, IsOrderedUpTo
<1>10. CASE EnsureAiAgentModelBinding \/ RefusePrompt \/ FetchReadingsConcurrently
  <2>1. /\ UNCHANGED steps /\ phase \in {"binding", "composing"}
        /\ phase' \in {"composing", "called", "threw"}
    BY <1>10 DEF EnsureAiAgentModelBinding, RefusePrompt, FetchReadingsConcurrently, Proceed
  <2>2. ~IsPastInspection'
    BY <2>1 DEF IsPastInspection, IsAnsweredWithFields
  <2> QED
    BY <1>3, <1>6, <2>1, <2>2 DEF Phases
<1>11. CASE FetchOneReading \/ RejectReadings
  <2>1. /\ UNCHANGED steps /\ phase \in {"called", "threw"}
        /\ phase' = "threw" \/ phase' = phase
    BY <1>11 DEF FetchOneReading, RejectReadings, Proceed
  <2>2. ~IsPastInspection'
    BY <2>1 DEF IsPastInspection, IsAnsweredWithFields
  <2> QED
    BY <1>3, <1>6, <2>1, <2>2 DEF Phases
<1>12. CASE RaiseSignal
  <2>1. UNCHANGED <<calls, schema, allowed, settled, steps, phase>>
    BY <1>12 DEF RaiseSignal, AbortReadings
  <2>2. IsPastInspection' = IsPastInspection /\ IsPastResolution' = IsPastResolution
    BY <2>1 DEF IsPastInspection, IsPastResolution, IsAnsweredWithFields
  <2>3. LastStepOf(phase) <= LastStepOf(phase')
    BY <1>1, <1>4, <2>1
  <2> QED
    BY <1>1, <1>8, <2>1, <2>2, <2>3
<1>13. CASE EnsureSomeReadingTaken
  <2>1. CASE phase' = "threw" /\ UNCHANGED steps
    <3>1. phase = "called" /\ ~IsPastInspection'
      BY <1>13, <2>1 DEF EnsureSomeReadingTaken, Proceed, IsPastInspection, IsAnsweredWithFields
    <3> QED
      BY <1>3, <1>6, <2>1, <3>1 DEF Phases
  <2>2. CASE phase' = "inspecting" /\ SaveAiRunStep(3, "readings_returned", {})
    <3>1. phase = "called"
      BY <1>13 DEF EnsureSomeReadingTaken, Proceed
    <3>2. IsOrderedUpTo(steps', LastStepOf(phase'))
      BY <1>2, <1>3, <2>2, <3>1, StepIsAdded
    <3>3. ~IsPastInspection' /\ ~IsPastResolution' /\ phase' # "scored"
      BY <2>2 DEF IsPastInspection, IsPastResolution, IsAnsweredWithFields
    <3> QED
      BY <3>2, <3>3 DEF StepsAreTraced, IsOrderedUpTo
  <2> QED
    BY <1>13, <2>1, <2>2 DEF EnsureSomeReadingTaken, Proceed
<1>14. CASE InspectReadings
  <2>1. PICK outcomeCode : SaveAiRunStep(4, outcomeCode, InspectionRejections)
    BY <1>14, InspectionIsTraced
  <2>2. phase = "inspecting" /\ phase' = "resolving" /\ UNCHANGED <<calls, schema>>
    BY <1>14 DEF InspectReadings, Proceed, callVars
  <2>3. /\ IsOrderedUpTo(steps', LastStepOf(phase'))
        /\ \E step \in steps' : step.stepIndex = 4
                /\ step.rejections = RecordableRejections(InspectionRejections)
    BY <1>2, <1>3, <2>1, <2>2, StepIsAdded
  <2>4. InspectionRejections' = InspectionRejections
    BY <2>2, SameReadings
  <2>5. IsTraced(4, InspectionRejections)'
    BY <2>3, <2>4 DEF IsTraced, RecordableRejections
  <2>6. ~IsPastResolution' /\ phase' # "scored"
    BY <2>2 DEF IsPastResolution, IsAnsweredWithFields
  <2> QED
    BY <2>3, <2>5, <2>6 DEF StepsAreTraced, IsOrderedUpTo
<1>15. CASE ResolveFieldConsensus
  <2>1. /\ phase = "resolving" /\ phase' = "missing" /\ settled' = SettledFields
        /\ UNCHANGED <<calls, schema, allowed>>
        /\ SaveAiRunStep(5, "fields_settled", MajorityRejections(SettledFields))
    BY <1>15 DEF ResolveFieldConsensus, Proceed, callVars
  <2>2. /\ IsOrderedUpTo(steps', LastStepOf(phase')) /\ steps \subseteq steps'
        /\ \E step \in steps' : step.stepIndex = 5
                /\ step.rejections = RecordableRejections(MajorityRejections(SettledFields))
    BY <1>2, <1>3, <2>1, StepIsAdded
  <2>3. IsTraced(4, InspectionRejections)
    BY <1>1, <2>1 DEF StepsAreTraced, IsPastInspection
  <2>4. IsTraced(4, InspectionRejections)'
    BY <2>1, <2>2, <2>3, SameReadings DEF IsTraced, RecordableRejections
  <2>5. IsTraced(5, MajorityRejections(settled))'
    BY <2>1, <2>2, ResolutionMisses DEF IsTraced, RecordableRejections
  <2> QED
    BY <2>1, <2>2, <2>4, <2>5 DEF StepsAreTraced, IsOrderedUpTo
<1>16. CASE \E row \in unsaved : SaveAiRunFieldOutcome(row)
  <2>1. /\ UNCHANGED <<calls, schema, allowed, settled, steps>>
        /\ phase \in {"missing", "scored"} /\ (phase' = phase \/ phase' = "threw")
    BY <1>16 DEF SaveAiRunFieldOutcome, callVars
  <2>2. /\ IsPastInspection' => IsPastInspection
        /\ IsPastResolution' => IsPastResolution
    BY <2>1 DEF IsPastInspection, IsPastResolution, IsAnsweredWithFields
  <2> QED
    BY <1>3, <1>8, <2>1, <2>2 DEF Phases
<1>17. CASE FinishMissing \/ GenerateResultBody
  <2>1. /\ UNCHANGED <<calls, schema, allowed, settled, steps>>
        /\ \/ phase = "missing" /\ phase' = "scoring"
           \/ phase = "scored" /\ phase' = "answered"
    BY <1>17 DEF FinishMissing, GenerateResultBody, Proceed, callVars
  <2>2. /\ IsPastInspection' => IsPastInspection
        /\ IsPastResolution' => IsPastResolution
    BY <2>1 DEF IsPastInspection, IsPastResolution, IsAnsweredWithFields
  <2> QED
    BY <1>3, <1>8, <2>1, <2>2 DEF Phases
<1>18. CASE ScoreSettledFields
  <2>1. phase = "scoring" /\ UNCHANGED <<calls, schema, allowed, settled>>
    BY <1>18 DEF ScoreSettledFields, Proceed, callVars
  <2>2. CASE phase' = "threw" /\ UNCHANGED steps
    <3>1. ~IsPastInspection'
      BY <2>2 DEF IsPastInspection, IsAnsweredWithFields
    <3> QED
      BY <1>3, <1>6, <2>1, <2>2, <3>1 DEF Phases
  <2>3. CASE phase' = "scored" /\ SaveAiRunStep(6, "confidence_scored", {})
    <3>1. /\ IsOrderedUpTo(steps', LastStepOf(phase')) /\ steps \subseteq steps'
          /\ \E step \in steps' : step.stepIndex = 6
      BY <1>2, <1>3, <2>1, <2>3, StepIsAdded
    <3>2. IsTraced(4, InspectionRejections) /\ IsTraced(5, MajorityRejections(settled))
      BY <1>1, <2>1 DEF StepsAreTraced, IsPastInspection, IsPastResolution
    <3>3. IsTraced(4, InspectionRejections)' /\ IsTraced(5, MajorityRejections(settled))'
      BY <1>7, <2>1, <3>1, <3>2
    <3> QED
      BY <3>1, <3>3 DEF StepsAreTraced, IsOrderedUpTo
  <2> QED
    BY <1>18, <2>2, <2>3 DEF ScoreSettledFields, Proceed
<1> QED
  BY <1>9, <1>10, <1>11, <1>12, <1>13, <1>14, <1>15, <1>16, <1>17, <1>18 DEF ConsensusNext

--------------------------------------------------------------------------------
(* What fails a run, step by step                                           *)

\* No two missing rows of a recordable schema share a path.
LEMMA MissingRowIsOne ==
  ASSUME ~IsUnrecordableSchema, NEW row \in MissingRows, NEW other \in MissingRows,
         row.path = other.path
  PROVE  row = other
<1>1. PICK n \in MissingEntries(settled) : row = MissingOutcome(n, MajorityRejections(settled))
  BY DEF MissingRows
<1>2. PICK m \in MissingEntries(settled) : other = MissingOutcome(m, MajorityRejections(settled))
  BY DEF MissingRows
<1>3. row.path = schema[n].path /\ other.path = schema[m].path
  BY <1>1, <1>2 DEF MissingOutcome
<1>4. /\ n \in DOMAIN schema /\ schema[n].isRequired
      /\ m \in DOMAIN schema /\ schema[m].isRequired
  BY DEF MissingEntries, RequiredEntries
<1>5. n = m
  BY <1>3, <1>4 DEF IsUnrecordableSchema
<1> QED
  BY <1>1, <1>2, <1>5

\* Whatever the readings say, the recorder takes every row of a recordable schema.
LEMMA RowsAreRecordable ==
  ASSUME ConsensusInvariant, phase \in {"missing", "scored"}, NEW row \in unsaved,
         ~IsUnrecordableSchema
  PROVE  IsRecordableOutcome(row)
<1>1. /\ RowsAreTyped /\ RowsFollowThePhase /\ StepsAreTraced
      /\ CallsAreKept /\ allowed = AllowedReadings /\ settled = SettledFields
      /\ IsPastInspection /\ IsPastResolution
  BY DEF ConsensusInvariant, ReadingsAreInspected, FieldsAreSettled, IsPastInspection,
         IsPastResolution
<1>2. /\ row.path \in SchemaPaths /\ row.agreed \in 0..ReadingCount
      /\ IF row.status = "missing" THEN row.confidence = Absent
         ELSE row.confidence \in 1..FullConfidence
  BY <1>1 DEF RowsAreTyped, IsTypedRow
<1>3. row.path \in RecordablePaths /\ row.path # Absent
  BY <1>2, ConsensusAssumption DEF IsUnrecordableSchema
<1>4. SettledFieldPath(row) = row.path
  BY <1>3 DEF SettledFieldPath
<1>5. /\ phase = "missing" => row \in MissingRows /\ fieldOutcomes \subseteq MissingRows
      /\ phase = "scored" => row \in ScoredRows /\ fieldOutcomes \subseteq MissingRows \cup ScoredRows
      /\ row \notin fieldOutcomes
  BY <1>1 DEF RowsFollowThePhase
<1>6. row.total = ReadingCount => HasRecordableReadingCounts(row)
  <2>1. ReadingCount \in Nat /\ ReadingCount <= MaximumReadingCount
    BY CallsAssumption, ConsensusAssumption
  <2>2. MaximumReadingCount \in Nat
    BY DEF MaximumReadingCount
  <2> QED
    BY <1>2, <2>1, <2>2 DEF HasRecordableReadingCounts
<1>7. CASE phase = "missing"
  <2>1. PICK n \in MissingEntries(settled) : row = MissingOutcome(n, MajorityRejections(settled))
    BY <1>5, <1>7 DEF MissingRows
  <2>2. row.status = "missing" /\ row.stepIndex = 5 /\ row.total = ReadingCount
    BY <2>1 DEF MissingOutcome
  <2>3. BelongsToAiRun(row)
    BY <1>1, <2>2 DEF StepsAreTraced, IsTraced, BelongsToAiRun
  <2>4. ~SettlesField(row) /\ SettledEvidence(row) = Absent
    BY <2>2 DEF SettlesField, SettledEvidence
  <2>5. IsOutcomeRow(row)
    BY <1>3, <1>4, <1>5, <1>7, MissingRowIsOne DEF IsOutcomeRow, PathsOf
  <2> QED
    BY <1>6, <2>2, <2>3, <2>4, <2>5
    DEF IsRecordableOutcome, IsKnownFieldStatus, FieldStatuses, LacksSettledRecord,
        CarriesUnrecordableScore, CarriesUnknownEvidenceKind
<1>8. CASE phase = "scored"
  <2>1. PICK f \in settled : row = ScoredOutcome(f)
    BY <1>5, <1>8 DEF ScoredRows
  <2>2. f.evidence \in EvidenceKinds /\ row.status \in FieldStatuses /\ row.status # "missing"
    BY <1>1, <2>1, ScoredIsTyped
  <2>3. /\ row.stepIndex = 6 /\ row.total = ReadingCount /\ row.evidence = f.evidence
        /\ row.path = f.path
    BY <2>1 DEF ScoredOutcome
  <2>4. BelongsToAiRun(row)
    BY <1>1, <1>8, <2>3 DEF StepsAreTraced, BelongsToAiRun
  <2>5. row.evidence # Absent /\ row.evidence \in EvidenceKinds
    BY <2>2, <2>3, ConsensusAssumption
  <2>6. row.confidence \in 0..FullConfidence /\ row.confidence # Absent
    <3>1. row.confidence \in 1..FullConfidence /\ FullConfidence \in Nat
      BY <1>2, <2>2 DEF FullConfidence
    <3>2. row.confidence \in Nat
      BY <3>1
    <3> QED
      BY <3>1, <3>2, StubAssumption
  <2>7. SettlesField(row) /\ SettledEvidence(row) = row.evidence
        /\ SettledConfidence(row) = row.confidence
    BY <2>2 DEF SettlesField, SettledEvidence, SettledConfidence
  <2>8. ASSUME NEW other \in fieldOutcomes
        PROVE  other.path # row.path
    <3>1. CASE other \in MissingRows
      <4>1. other.path \notin PathsOf(settled)
        BY <3>1, MissingIsCounted DEF MissingRows
      <4> QED
        BY <2>3, <4>1 DEF PathsOf
    <3>2. CASE other \in ScoredRows
      <4>1. PICK g \in settled : other = ScoredOutcome(g)
        BY <3>2 DEF ScoredRows
      <4>2. other.path = g.path
        BY <4>1 DEF ScoredOutcome
      <4>3. f = SettledField(f.path) /\ g = SettledField(g.path)
        BY <1>1, SettledIsMajority
      <4>4. other # row
        BY <1>5
      <4> QED
        BY <2>1, <2>3, <4>1, <4>2, <4>3, <4>4
    <3> QED
      BY <1>5, <1>8, <3>1, <3>2
  <2>9. IsOutcomeRow(row)
    BY <1>3, <1>4, <2>8 DEF IsOutcomeRow, PathsOf
  <2> QED
    BY <1>6, <2>2, <2>3, <2>4, <2>5, <2>6, <2>7, <2>9
    DEF IsRecordableOutcome, IsKnownFieldStatus, LacksSettledRecord,
        CarriesUnrecordableScore, CarriesUnknownEvidenceKind
<1> QED
  BY <1>7, <1>8

\* A call that threw is not turned again.
LEMMA ThrownStays ==
  ASSUME CallsAreKept, CallStep, HasThrown
  PROVE  HasThrown'
<1>1. PICK i \in Indexes :
        /\ \E turned, answer :
            calls' = [calls EXCEPT ![i] = [phase |-> turned, answer |-> answer]]
        /\ calls[i].phase # "threw"
  BY DEF CallStep, SendRequestToAi, FailToSend, AnswerRequest, SaveAiModelCall, FailToSaveCall,
         TurnCall
<1>2. PICK j \in Indexes : calls[j].phase = "threw"
  BY DEF HasThrown
<1>3. calls'[j] = calls[j]
  BY <1>1, <1>2 DEF CallsAreKept
<1> QED
  BY <1>2, <1>3 DEF HasThrown

\* A work throws for a set-up that does not hold, a call that threw, no reading that
\* was taken, or a schema no row can be written of.
LEMMA ThrowStep ==
  ASSUME ConsensusInvariant, ConsensusNext
  PROVE  ThrowHasItsCause'
<1>1. /\ ThrowHasItsCause /\ CallsAreKept /\ CallsFollowThePhase
      /\ ReadingsAreInspected /\ FieldsAreSettled
  BY DEF ConsensusInvariant
<1>2. agent' = agent /\ IsSetUp' = IsSetUp
  BY SetUpStays
<1>3. ASSUME UNCHANGED <<calls, schema>>, phase' = "threw",
             ~IsSetUp \/ HasThrown \/ (IsFulfilled /\ Taken = {}) \/ IsUnrecordableSchema
      PROVE  ThrowHasItsCause'
  <2>1. HasThrown' = HasThrown /\ IsFulfilled' = IsFulfilled /\ Taken' = Taken
    BY <1>3, SameCalls
  <2>2. IsUnrecordableSchema' = IsUnrecordableSchema
    BY <1>3 DEF IsUnrecordableSchema, SchemaPaths
  <2> QED
    BY <1>2, <1>3, <2>1, <2>2 DEF ThrowHasItsCause
<1>4. ASSUME phase' # "threw"
      PROVE  ThrowHasItsCause'
  BY <1>4 DEF ThrowHasItsCause
<1>5. CASE SelectSuggestibleFieldSchema \/ FetchReadingsConcurrently \/ InspectReadings
  BY <1>4, <1>5 DEF SelectSuggestibleFieldSchema, FetchReadingsConcurrently, InspectReadings,
                    Proceed
<1>6. CASE EnsureAiAgentModelBinding \/ RefusePrompt
  <2>1. CASE phase' # "threw"
    BY <1>4, <2>1
  <2>2. CASE phase' = "threw"
    BY <1>3, <1>6, <2>2 DEF EnsureAiAgentModelBinding, RefusePrompt, Proceed, callVars, IsSetUp
  <2> QED
    BY <2>1, <2>2
<1>7. CASE FetchOneReading
  <2>1. UNCHANGED <<schema, phase>> /\ CallStep /\ ~IsFulfilled
    BY <1>7, TurningIsUnderWay DEF FetchOneReading
  <2>2. HasThrown => HasThrown'
    BY <1>1, <2>1, ThrownStays
  <2>3. IsUnrecordableSchema' = IsUnrecordableSchema
    BY <2>1 DEF IsUnrecordableSchema, SchemaPaths
  <2> QED
    BY <1>1, <1>2, <2>1, <2>2, <2>3 DEF ThrowHasItsCause
<1>8. CASE RaiseSignal
  <2>1. UNCHANGED <<calls, schema, phase>>
    BY <1>8 DEF RaiseSignal, AbortReadings
  <2>2. CASE phase = "threw"
    BY <1>1, <1>3, <2>1, <2>2 DEF ThrowHasItsCause
  <2> QED
    BY <1>4, <2>1, <2>2
<1>9. CASE RejectReadings \/ EnsureSomeReadingTaken
  <2>1. CASE phase' # "threw"
    BY <1>4, <2>1
  <2>2. CASE phase' = "threw"
    BY <1>3, <1>9, <2>2 DEF RejectReadings, EnsureSomeReadingTaken, Proceed, callVars
  <2> QED
    BY <2>1, <2>2
<1>10. CASE ResolveFieldConsensus \/ FinishMissing \/ GenerateResultBody
  BY <1>4, <1>10 DEF ResolveFieldConsensus, FinishMissing, GenerateResultBody, Proceed
<1>11. CASE \E row \in unsaved : SaveAiRunFieldOutcome(row)
  <2>1. PICK row \in unsaved : SaveAiRunFieldOutcome(row)
    BY <1>11
  <2>2. phase \in {"missing", "scored"} /\ UNCHANGED <<calls, schema>>
    BY <2>1 DEF SaveAiRunFieldOutcome, callVars
  <2>3. CASE IsRecordableOutcome(row)
    BY <1>4, <2>1, <2>2, <2>3 DEF SaveAiRunFieldOutcome
  <2>4. CASE ~IsRecordableOutcome(row)
    <3>1. phase' = "threw"
      BY <2>1, <2>4 DEF SaveAiRunFieldOutcome
    <3>2. IsUnrecordableSchema
      BY <2>2, <2>4, RowsAreRecordable
    <3> QED
      BY <1>3, <2>2, <3>1, <3>2
  <2> QED
    BY <2>3, <2>4
<1>12. CASE ScoreSettledFields
  <2>1. phase = "scoring"
    BY <1>12 DEF ScoreSettledFields, Proceed
  <2>2. settled = SettledFields /\ allowed = AllowedReadings
    BY <1>1, <2>1 DEF ReadingsAreInspected, FieldsAreSettled, IsPastInspection, IsPastResolution
  <2>3. \A f \in settled : f.evidence \in EvidenceKinds
    BY <1>1, <2>2, ScoredIsTyped
  <2>4. phase' = "scored"
    BY <1>12, <2>3 DEF ScoreSettledFields, Proceed
  <2> QED
    BY <1>4, <2>4
<1> QED
  BY <1>5, <1>6, <1>7, <1>8, <1>9, <1>10, <1>11, <1>12 DEF ConsensusNext

--------------------------------------------------------------------------------
(* The theorems of the steps                                                *)

\* A work that has not begun has called nobody and written nothing.
LEMMA ConsensusBegins ==
  ASSUME ConsensusInit
  PROVE  ConsensusInvariant
<1>1. /\ calls = NoCalls /\ phase = "selecting" /\ settled = {} /\ unsaved = {}
      /\ fieldOutcomes = {} /\ steps = {} /\ schema \in Schemas /\ allowed = <<>>
      /\ agent \in Agents /\ isAborted = FALSE /\ aiModelCalls = {}
  BY DEF ConsensusInit, CallsInit, NoCalls
<1>2. \A i \in Indexes : calls[i].phase = "unasked"
  BY <1>1 DEF NoCalls, NoCall
<1>3. CallsAreKept
  BY <1>1, <1>2 DEF CallsAreKept, CallPhases, NoCalls
<1>4. ~IsPastInspection /\ ~IsPastResolution /\ ~IsAnsweredWithFields
  BY <1>1 DEF IsPastInspection, IsPastResolution, IsAnsweredWithFields
<1>5. CallsFollowThePhase /\ SchemaIsKept /\ ThrowHasItsCause /\ phase \in Phases
  BY <1>1 DEF CallsFollowThePhase, SchemaIsKept, ThrowHasItsCause, Phases, Waited
<1>6. ReadingsAreInspected /\ FieldsAreSettled
  BY <1>1, <1>4 DEF ReadingsAreInspected, FieldsAreSettled
<1>7. RowsFollowThePhase /\ RowsAreTyped /\ StepsAreTraced
  BY <1>1, <1>4 DEF RowsFollowThePhase, RowsAreTyped, StepsAreTraced
<1>8. DOMAIN allowed \subseteq Indexes
  BY <1>1
<1> QED
  BY <1>3, <1>5, <1>6, <1>7, <1>8 DEF ConsensusInvariant

\* A step beside the work leaves the invariant as it is.
LEMMA ConsensusStands ==
  ASSUME ConsensusInvariant, UNCHANGED consensusVars
  PROVE  ConsensusInvariant'
<1>1. UNCHANGED <<agent, isAborted, calls, aiModelCalls, schema, phase, allowed, settled,
                  unsaved, fieldOutcomes, steps>>
  BY DEF consensusVars, callVars
<1>2. /\ Taken' = Taken /\ IsFulfilled' = IsFulfilled /\ HasThrown' = HasThrown
      /\ \A i : AiModelCall(i)' = AiModelCall(i)
      /\ AllowedReadings' = AllowedReadings /\ InspectionRejections' = InspectionRejections
      /\ SettledFields' = SettledFields /\ MissingRows' = MissingRows /\ ScoredRows' = ScoredRows
      /\ MajorityRejections(settled)' = MajorityRejections(settled)
      /\ \A row : IsTypedRow(row)' = IsTypedRow(row)
  BY <1>1, SameCalls, SameReadings, SameVotes, SameRows, TypedRowStays
<1>3. /\ IsSetUp' = IsSetUp /\ IsBound' = IsBound
      /\ IsPastInspection' = IsPastInspection /\ IsPastResolution' = IsPastResolution
      /\ IsAnsweredWithFields' = IsAnsweredWithFields
      /\ IsUnrecordableSchema' = IsUnrecordableSchema
  BY <1>1 DEF IsSetUp, IsBound, IsComposable, OffersReadingTool, IsPastInspection,
              IsPastResolution, IsAnsweredWithFields, IsUnrecordableSchema, SchemaPaths
<1>4. CallsAreKept' = CallsAreKept
  BY <1>1, <1>2 DEF CallsAreKept
<1>5. CallsFollowThePhase' = CallsFollowThePhase /\ SchemaIsKept' = SchemaIsKept
  BY <1>1, <1>2, <1>3 DEF CallsFollowThePhase, SchemaIsKept, NoCalls, KeptSchemas
<1>6. ReadingsAreInspected' = ReadingsAreInspected /\ FieldsAreSettled' = FieldsAreSettled
  BY <1>1, <1>2, <1>3 DEF ReadingsAreInspected, FieldsAreSettled
<1>7. RowsFollowThePhase' = RowsFollowThePhase /\ RowsAreTyped' = RowsAreTyped
  BY <1>1, <1>2, <1>3 DEF RowsFollowThePhase, RowsAreTyped
<1>8. StepsAreTraced' = StepsAreTraced
  BY <1>1, <1>2, <1>3 DEF StepsAreTraced, IsTraced, RecordableRejections
<1>9. ThrowHasItsCause' = ThrowHasItsCause
  BY <1>1, <1>2, <1>3 DEF ThrowHasItsCause
<1>10. (DOMAIN allowed \subseteq Indexes)' <=> DOMAIN allowed \subseteq Indexes
  BY <1>1
<1> QED
  BY <1>1, <1>4, <1>5, <1>6, <1>7, <1>8, <1>9, <1>10 DEF ConsensusInvariant

\* The invariant of the work holds in every state, for any schema, any answers and any
\* number of calls.
THEOREM ConsensusIsKept == ConsensusSpec => []ConsensusInvariant
<1>1. ConsensusInit => ConsensusInvariant
  BY ConsensusBegins
<1>2. ConsensusInvariant /\ [ConsensusNext]_consensusVars => ConsensusInvariant'
  <2> SUFFICES ASSUME ConsensusInvariant, [ConsensusNext]_consensusVars
               PROVE  ConsensusInvariant'
    OBVIOUS
  <2>1. CASE ConsensusNext
    BY <2>1, CallsStep, PhaseStep, SettlementStep, RowsStep, TypedRowsStep, TraceStep, ThrowStep
    DEF ConsensusInvariant
  <2>2. CASE UNCHANGED consensusVars
    BY <2>2, ConsensusStands
  <2> QED
    BY <2>1, <2>2
<1> QED
  BY <1>1, <1>2, PTL DEF ConsensusSpec

\* The parts of the invariant give the work its types.
LEMMA InvariantTypesTheRun ==
  ASSUME ConsensusInvariant
  PROVE  ConsensusTypeOK
<1>1. /\ CallsAreKept /\ SchemaIsKept /\ RowsAreTyped /\ StepsAreTraced
      /\ ReadingsAreInspected /\ FieldsAreSettled
      /\ phase \in Phases /\ DOMAIN allowed \subseteq Indexes
  BY DEF ConsensusInvariant
<1>2. CallsTypeOK
  <2>1. ASSUME NEW row \in aiModelCalls PROVE row.readingIndex \in Indexes
    <3>1. PICK i \in Indexes : row = AiModelCall(i)
      BY <1>1 DEF CallsAreKept
    <3>2. row.readingIndex = i
      BY <3>1 DEF AiModelCall
    <3> QED
      BY <3>2
  <2> QED
    BY <1>1, <2>1 DEF CallsAreKept, CallsTypeOK
<1>3. schema \in Schemas \cup KeptSchemas
  BY <1>1 DEF SchemaIsKept
<1>4. ASSUME NEW f \in settled
      PROVE  f.path \in SchemaPaths /\ f.agreed \in Indexes
  <2>1. allowed = AllowedReadings /\ settled = SettledFields
    BY <1>1 DEF ReadingsAreInspected, FieldsAreSettled
  <2>2. /\ f.path \in ReadFieldPaths /\ f = SettledField(f.path)
        /\ f.agreed \in 1..ReadingCount
    BY <1>1, <2>1, SettledIsMajority
  <2>3. f.path \in SchemaPaths
    BY <1>1, <2>1, <2>2, FieldIsItsVoices
  <2> QED
    BY <2>2, <2>3 DEF Indexes
<1>5. ASSUME NEW row \in unsaved \cup fieldOutcomes
      PROVE  /\ row.path \in SchemaPaths /\ row.agreed \in 0..ReadingCount
             /\ \/ row.status = "missing" /\ row.confidence = Absent
                \/ row.status # "missing" /\ row.confidence \in 1..FullConfidence
  BY <1>1 DEF RowsAreTyped, IsTypedRow
<1>6. ASSUME NEW step \in steps
      PROVE  /\ step.stepIndex \in 1..6
             /\ \A r \in step.rejections : r.figure \in 0..ReadingCount
             /\ \A other \in steps : other.stepIndex = step.stepIndex => other = step
  <2>1. LastStepOf(phase) \in 0..6
    BY <1>1 DEF LastStepOf, Phases
  <2>2. step.stepIndex \in 1..LastStepOf(phase)
    BY <1>1 DEF StepsAreTraced
  <2>3. step.stepIndex \in 1..6
    BY <2>1, <2>2
  <2> QED
    BY <1>1, <2>3 DEF RowsAreTyped, StepsAreTraced
<1> QED
  BY <1>1, <1>2, <1>3, <1>4, <1>5, <1>6 DEF ConsensusTypeOK, KeptSchemas

\* Every variable of a run's computation holds what the code can hold, whatever the
\* readings say: no count is over the readings asked for, no confidence over the whole.
THEOREM ConsensusTypeCorrect == ConsensusSpec => []ConsensusTypeOK
<1>1. ConsensusInvariant => ConsensusTypeOK
  BY InvariantTypesTheRun
<1> QED
  BY <1>1, ConsensusIsKept, PTL

\* Every call that was sent has its one row, however the calls interleave and whatever
\* becomes of the run (AssetMediaReadingFetcher.fetchOneReading).
THEOREM CallsAreRecorded == ConsensusSpec => []EveryCallIsRecorded
<1>1. ConsensusInvariant => EveryCallIsRecorded
  BY InvariantRecordsCalls
<1> QED
  BY <1>1, ConsensusIsKept, PTL

\* A value settles if and only if more than half of the readings asked for say it, for
\* any number of readings and any that fail (FieldConsensusResolver).
THEOREM MajoritySettles == ConsensusSpec => []SettledIffMajority
<1>1. ConsensusInvariant => SettledIffMajority
  BY InvariantSettlesMajorities
<1> QED
  BY <1>1, ConsensusIsKept, PTL

\* What a settled field rests on was sent and is cited for this value by a reading that
\* agrees (AssetFieldReadingInspector, FieldConsensusResolver).
THEOREM EvidenceIsAgreed == ConsensusSpec => []AgreedEvidence
<1>1. ConsensusInvariant => AgreedEvidence
  BY InvariantKeepsEvidence
<1> QED
  BY <1>1, ConsensusIsKept, PTL

\* Every path of the schema and every item of a reading is accounted for when a run
\* answers (AssetMediaExtractionRunner).
THEOREM FieldsAreAccountedFor == ConsensusSpec => []EveryFieldIsAccountedFor
<1>1. ConsensusInvariant => EveryFieldIsAccountedFor
  BY InvariantAccountsForFields
<1> QED
  BY <1>1, ConsensusIsKept, PTL

\* Nothing a model can answer fails a run whose schema can be recorded
\* (AiRunFieldOutcomeRecorder.saveAiRunFieldOutcome and what is to keep it from refusing).
THEOREM NoAnswerFailsARun == ConsensusSpec => []ModelFailsNoRun
<1>1. ConsensusInvariant => ModelFailsNoRun
  BY InvariantKeepsTheRun
<1> QED
  BY <1>1, ConsensusIsKept, PTL

--------------------------------------------------------------------------------
(* What the keyless driver is answered                                      *)

\* A draw picks one of a sequence.
LEMMA DrawnIsOne ==
  ASSUME NEW sequence, IsASequence(sequence), sequence # <<>>, NEW draw \in Nat
  PROVE  \E n \in DOMAIN sequence : DrawnOf(sequence, draw) = sequence[n]
<1>1. Len(sequence) \in Nat \ {0} /\ DOMAIN sequence = 1..Len(sequence)
  BY DEF IsASequence
<1>2. draw % Len(sequence) \in 0..(Len(sequence) - 1)
  BY <1>1
<1>3. 1 + (draw % Len(sequence)) \in DOMAIN sequence
  BY <1>1, <1>2
<1> QED
  BY <1>3 DEF DrawnOf

\* The whole number that a bound is rounded down to is no more than the bound.
LEMMA FloorIsBelow ==
  ASSUME NEW bound \in Int
  PROVE  FloorOf(bound) \in Int /\ Unit * FloorOf(bound) <= bound
<1>1. bound \div Unit \in Int
  BY StubAssumption
<1>2. Unit * (bound \div Unit) <= bound
  BY StubAssumption
<1> QED
  BY <1>1, <1>2 DEF FloorOf

\* The whole number that a bound is rounded up to is no less.
LEMMA CeilingIsAbove ==
  ASSUME NEW bound \in Int
  PROVE  CeilingOf(bound) \in Int /\ Unit * CeilingOf(bound) >= bound
<1>1. FloorOf(-bound) \in Int /\ Unit * FloorOf(-bound) <= -bound
  BY FloorIsBelow
<1>2. CeilingOf(bound) = -FloorOf(-bound)
  BY DEF CeilingOf, FloorOf
<1> QED
  BY <1>1, <1>2, StubAssumption

\* As many units in more wholes are more.
LEMMA UnitsGrow ==
  ASSUME NEW a \in Int, NEW b \in Int, a <= b
  PROVE  Unit * a \in Int /\ Unit * b \in Int /\ Unit * a <= Unit * b
BY StubAssumption

\* What is drawn lies between the numbers the bounds of an entry come to.
LEMMA DrawnNumberIsBetween ==
  ASSUME NEW entry, IsEntry(entry), entry.kind = "number", NEW draw \in Nat
  PROVE  \E n \in Int :
            /\ MinimumNumber(entry) \in Int /\ MaximumNumber(entry) \in Int
            /\ MinimumNumber(entry) <= n /\ n <= MaximumNumber(entry)
            /\ NumberValue(entry, draw) = [type |-> "number", text |-> WholeNumberText[n]]
<1> DEFINE least == MinimumNumber(entry)
           most == MaximumNumber(entry)
           count == most - least + 1
<1>1. /\ entry.minimum # Absent => entry.minimum \in Int
      /\ entry.maximum # Absent => entry.maximum \in Int
  BY DEF IsEntry
<1>2. least \in Int
  <2>1. entry.minimum # Absent => CeilingOf(entry.minimum) \in Int
    BY <1>1, CeilingIsAbove
  <2>2. entry.maximum # Absent => FloorOf(entry.maximum) \in Int
    BY <1>1, FloorIsBelow
  <2> QED
    BY <2>1, <2>2 DEF MinimumNumber, SmallerOf, DefaultMinimum
<1>3. most \in Int /\ least <= most
  <2> HIDE DEF least
  <2>1. entry.maximum # Absent => FloorOf(entry.maximum) \in Int
    BY <1>1, FloorIsBelow
  <2>2. most = IF entry.maximum = Absent THEN least + NumberSpan
               ELSE LargerOf(least, FloorOf(entry.maximum))
    BY DEF MaximumNumber, least
  <2> HIDE DEF most
  <2> QED
    BY <1>2, <2>1, <2>2, StubAssumption DEF LargerOf
<1>4. NumberValue(entry, draw) =
        [type |-> "number", text |-> WholeNumberText[least + (draw % count)]]
  BY DEF NumberValue
<1> HIDE DEF least, most
<1>5. count \in Nat \ {0}
  BY <1>2, <1>3
<1> HIDE DEF count
<1>6. draw % count \in 0..(count - 1)
  BY <1>5
<1>7. /\ least + (draw % count) \in Int
      /\ least <= least + (draw % count) /\ least + (draw % count) <= most
  BY <1>2, <1>3, <1>5, <1>6 DEF count
<1> QED
  BY <1>2, <1>3, <1>4, <1>7 DEF least, most

\* A number that is supplied for an entry that bounds it has the form of one and lies
\* within the bounds that are stated.
LEMMA DrawnNumberIsAllowed ==
  ASSUME NEW entry, IsEntry(entry), entry.kind = "number", IsBounded(entry),
         NEW draw \in Nat, NEW item, item.value = NumberValue(entry, draw)
  PROVE  /\ CarriesExpectedNumberForm(item, entry)
         /\ FallsWithinStatedRange(item, entry)
         /\ item.value.type = "number"
<1>1. PICK n \in Int :
        /\ MinimumNumber(entry) \in Int /\ MaximumNumber(entry) \in Int
        /\ MinimumNumber(entry) <= n /\ n <= MaximumNumber(entry)
        /\ item.value = [type |-> "number", text |-> WholeNumberText[n]]
  BY DrawnNumberIsBetween
<1>2. n \in DOMAIN WholeNumberText
  BY <1>1 DEF IsEntry
<1>3. /\ item.value.text \in DOMAIN NumberText
      /\ NumberOf[item.value.text] = Unit * n
  BY <1>1, <1>2, ConsensusAssumption
<1>4. ComparableNumber(item.value) # Absent
  BY <1>3, ConsensusAssumption DEF ComparableNumber, Range
<1>5. entry.minimum # Absent => Unit * n >= entry.minimum
  <2> SUFFICES ASSUME entry.minimum # Absent PROVE Unit * n >= entry.minimum
    OBVIOUS
  <2>1. entry.minimum \in Int
    BY DEF IsEntry
  <2>2. MinimumNumber(entry) = CeilingOf(entry.minimum)
    BY DEF MinimumNumber
  <2>3. Unit * CeilingOf(entry.minimum) >= entry.minimum
    BY <2>1, CeilingIsAbove
  <2>4. /\ Unit * MinimumNumber(entry) \in Int /\ Unit * n \in Int
        /\ Unit * MinimumNumber(entry) <= Unit * n
    BY <1>1, UnitsGrow
  <2> QED
    BY <2>1, <2>2, <2>3, <2>4
<1>6. entry.maximum # Absent => Unit * n <= entry.maximum
  <2> SUFFICES ASSUME entry.maximum # Absent PROVE Unit * n <= entry.maximum
    OBVIOUS
  <2>1. entry.maximum \in Int
    BY DEF IsEntry
  <2>2. /\ FloorOf(entry.maximum) \in Int
        /\ Unit * FloorOf(entry.maximum) <= entry.maximum
    BY <2>1, FloorIsBelow
  <2>3. /\ Unit * n \in Int /\ Unit * MaximumNumber(entry) \in Int
        /\ Unit * n <= Unit * MaximumNumber(entry)
    BY <1>1, UnitsGrow
  <2>4. MaximumNumber(entry) = LargerOf(MinimumNumber(entry), FloorOf(entry.maximum))
    BY DEF MaximumNumber
  <2>5. Unit * MaximumNumber(entry) <= entry.maximum
    <3>1. CASE MinimumNumber(entry) <= FloorOf(entry.maximum)
      <4>1. MaximumNumber(entry) = FloorOf(entry.maximum)
        BY <2>4, <3>1 DEF LargerOf
      <4> QED
        BY <2>2, <4>1
    <3>2. CASE ~(MinimumNumber(entry) <= FloorOf(entry.maximum))
      <4>1. MaximumNumber(entry) = MinimumNumber(entry)
        BY <2>4, <3>2 DEF LargerOf
      <4>2. entry.minimum # Absent
        <5> SUFFICES ASSUME entry.minimum = Absent PROVE FALSE
          OBVIOUS
        <5>1. MinimumNumber(entry) = SmallerOf(DefaultMinimum, FloorOf(entry.maximum))
          BY DEF MinimumNumber
        <5> QED
          BY <2>2, <3>2, <5>1 DEF SmallerOf, DefaultMinimum
      <4>3. MinimumNumber(entry) = CeilingOf(entry.minimum)
        BY <4>2 DEF MinimumNumber
      <4>4. Unit * CeilingOf(entry.minimum) <= entry.maximum
        BY <4>2 DEF IsBounded
      <4> QED
        BY <4>1, <4>3, <4>4
    <3> QED
      BY <3>1, <3>2
  <2> QED
    BY <2>1, <2>3, <2>5
<1>7. item.value.type = "number"
  BY <1>1
<1> QED
  BY <1>3, <1>4, <1>5, <1>6, <1>7 DEF CarriesExpectedNumberForm, FallsWithinStatedRange

\* A text that is supplied is cut to what the entry states.
LEMMA DrawnTextIsShort ==
  ASSUME NEW entry, IsEntry(entry), entry.kind = "text", IsBounded(entry),
         NEW draw \in Draws, entry.maxLength # Absent
  PROVE  LengthOf[TextValue(entry, draw).text] <= entry.maxLength
<1> DEFINE text == StubText[draw]
           longest == CHOOSE n \in DOMAIN text : \A m \in DOMAIN text : m <= n
           place == SmallerOf(entry.maxLength, longest)
<1>1. entry.maxLength \in Int /\ entry.maxLength >= 0
  BY DEF IsEntry, IsBounded
<1>2. PICK wholeLength \in DOMAIN text : wholeLength \in Nat /\ DOMAIN text = 0..wholeLength
  BY StubAssumption
<1>3. longest = wholeLength
  <2>1. \A m \in DOMAIN text : m <= wholeLength
    BY <1>2
  <2>2. longest \in DOMAIN text /\ \A m \in DOMAIN text : m <= longest
    BY <1>2, <2>1
  <2> HIDE DEF longest, text
  <2>3. longest \in 0..wholeLength /\ wholeLength <= longest
    BY <1>2, <2>2
  <2> QED
    BY <1>2, <2>3
<1>4. TextValue(entry, draw).text = text[place]
  BY <1>1 DEF TextValue, CutText
<1> HIDE DEF longest
<1>5. place \in DOMAIN text /\ place <= entry.maxLength
  BY <1>1, <1>2, <1>3 DEF SmallerOf
<1> HIDE DEF text, place
<1>6. LengthOf[StubText[draw][place]] = place
  BY <1>5, ConsensusAssumption DEF text
<1> QED
  BY <1>4, <1>5, <1>6 DEF text

\* No reading that is supplied for an entry that bounds its field is one step 4 drops.
LEMMA SuppliedIsAllowed ==
  ASSUME NEW entry, IsEntry(entry), IsSuggestible(entry), IsBounded(entry),
         OffersShortOptions(entry), entry.path \in SchemaPaths, EntryOf(entry.path) = entry,
         NEW draw \in Draws, AttachedFiles # <<>>
  PROVE  IsAllowed(FieldReading(entry, draw, ReadableMediaKeys))
<1> DEFINE item == FieldReading(entry, draw, ReadableMediaKeys)
<1>1. /\ item.path = entry.path /\ item.value = FieldValue(entry, draw)
      /\ item.evidence = DrawnOf(EvidenceKindNames, draw) /\ item.hasReason
      /\ item.media = {DrawnOf(ReadableMediaKeys, draw)}
  BY DEF FieldReading
<1> HIDE DEF item
<1>2. EntryOf(item.path) = entry /\ entry # NoEntry
  <2>1. NoEntry.path = "" /\ entry.path # ""
    BY DEF NoEntry, IsSuggestible
  <2> QED
    BY <1>1, <2>1
<1>3. draw \in Nat
  BY StubAssumption
<1>4. CarriesRecognizedEvidenceKind(item)
  <2>1. \E n \in DOMAIN EvidenceKindNames : item.evidence = EvidenceKindNames[n]
    BY <1>1, <1>3, StubAssumption, DrawnIsOne
  <2> QED
    BY <2>1, ConsensusAssumption DEF CarriesRecognizedEvidenceKind
<1>5. CitesSentMediaOnly(item)
  <2>1. /\ DOMAIN ReadableMediaKeys = DOMAIN AttachedFiles
        /\ AttachedFiles \in Seq(Range(AttachedFiles))
    BY CallsAssumption DEF ReadableMediaKeys, IsASequence
  <2>2. DOMAIN ReadableMediaKeys = 1..Len(AttachedFiles) /\ Len(AttachedFiles) \in Nat \ {0}
    BY <2>1
  <2>3. /\ ReadableMediaKeys \in Seq(Range(ReadableMediaKeys)) /\ ReadableMediaKeys # <<>>
    BY <2>2 DEF Range, ReadableMediaKeys
  <2>4. \E n \in DOMAIN ReadableMediaKeys :
            DrawnOf(ReadableMediaKeys, draw) = ReadableMediaKeys[n]
    BY <1>3, <2>3, DrawnIsOne DEF IsASequence
  <2> QED
    BY <1>1, <2>4 DEF CitesSentMediaOnly, SentMedia
<1>6. /\ CarriesOfferedSelectOption(item, entry)
      /\ CarriesExpectedNumberForm(item, entry)
      /\ FallsWithinStatedRange(item, entry)
      /\ FallsWithinStatedMaxLength(item, entry)
  <2>1. CASE entry.kind = "number"
    <3>1. item.value = NumberValue(entry, draw)
      BY <1>1, <2>1 DEF FieldValue
    <3>2. /\ CarriesExpectedNumberForm(item, entry) /\ FallsWithinStatedRange(item, entry)
          /\ item.value.type = "number"
      BY <1>3, <2>1, <3>1, DrawnNumberIsAllowed
    <3> QED
      BY <2>1, <3>2 DEF CarriesOfferedSelectOption, FallsWithinStatedMaxLength
  <2>2. CASE entry.kind = "text"
    <3>1. item.value = TextValue(entry, draw)
      BY <1>1, <2>2 DEF FieldValue
    <3>2. entry.maxLength # Absent => LengthOf[item.value.text] <= entry.maxLength
      BY <2>2, <3>1, DrawnTextIsShort
    <3> QED
      BY <2>2, <3>2 DEF CarriesOfferedSelectOption, CarriesExpectedNumberForm,
         FallsWithinStatedRange, FallsWithinStatedMaxLength
  <2>3. CASE entry.kind = "select"
    <3>1. item.value = DrawnOf(entry.options, draw)
      BY <1>1, <2>3 DEF FieldValue
    <3>2. IsASequence(entry.options) /\ entry.options # <<>>
      BY <2>3 DEF IsEntry, IsBounded, IsAnswerable
    <3>3. \E n \in DOMAIN entry.options : item.value = entry.options[n]
      BY <1>3, <3>1, <3>2, DrawnIsOne
    <3> QED
      BY <2>3, <3>3 DEF CarriesOfferedSelectOption, CarriesExpectedNumberForm,
         FallsWithinStatedRange, FallsWithinStatedMaxLength, OffersShortOptions
  <2> QED
    BY <2>1, <2>2, <2>3 DEF IsSuggestible, SuggestibleValueKinds
<1>7. \A n \in DOMAIN InspectionEntries(item) : InspectionEntries(item)[n].isAllowed
  <2>1. /\ DOMAIN InspectionEntries(item) = 1..8
        /\ InspectionEntries(item)[1].isAllowed = (entry # NoEntry)
        /\ InspectionEntries(item)[2].isAllowed = CarriesRecognizedEvidenceKind(item)
        /\ InspectionEntries(item)[3].isAllowed = CarriesReason(item)
        /\ InspectionEntries(item)[4].isAllowed = CarriesOfferedSelectOption(item, entry)
        /\ InspectionEntries(item)[5].isAllowed = CarriesExpectedNumberForm(item, entry)
        /\ InspectionEntries(item)[6].isAllowed = FallsWithinStatedRange(item, entry)
        /\ InspectionEntries(item)[7].isAllowed = FallsWithinStatedMaxLength(item, entry)
        /\ InspectionEntries(item)[8].isAllowed = CitesSentMediaOnly(item)
    BY <1>2 DEF InspectionEntries, Check
  <2>2. CarriesReason(item)
    BY <1>1 DEF CarriesReason
  <2> DEFINE entries == InspectionEntries(item)
  <2> HIDE DEF entries
  <2>3. /\ entries[1].isAllowed /\ entries[2].isAllowed /\ entries[3].isAllowed
        /\ entries[4].isAllowed /\ entries[5].isAllowed /\ entries[6].isAllowed
        /\ entries[7].isAllowed /\ entries[8].isAllowed
    BY <1>2, <1>4, <1>5, <1>6, <2>1, <2>2, Zenon DEF entries
  <2>4. \A n \in 1..8 : entries[n].isAllowed
    BY <2>3
  <2> QED
    BY <2>1, <2>4 DEF entries
<1>8. IsAllowed(item)
  BY <1>7 DEF IsAllowed, RejectionReason
<1> QED
  BY <1>8 DEF item

--------------------------------------------------------------------------------
(* The calls of the keyless driver                                          *)

\* The calls of one run on the keyless driver come back with one answer, what was
\* supplied for its schema; an answer that were an error would be one for all of them.
StubIsSupplied ==
    agent.isKeyless =>
        \/ calls = NoCalls
        \/ \A i \in Indexes : calls[i].phase = "skipped"
        \/ \E drawOf \in DigestedNumbers(schema) : \A i \in Indexes :
            /\ calls[i].phase \in {"answered", "taken", "failed", "threw"}
            /\ calls[i].phase # "threw" => calls[i].answer = SuppliedFunctionCalls(schema, drawOf)
            /\ calls[i].phase = "taken" => calls[i].answer # Failed
            /\ calls[i].phase = "failed" => calls[i].answer = Failed

\* What the keyless driver called stands for nothing once something is supplied.
LEMMA SuppliedStandsIn ==
  ASSUME NEW fields \in KeptSchemas, NEW drawOf \in DigestedNumbers(fields)
  PROVE  /\ ReadingFunctionCalls(KeylessFunctionCalls(ForcedTools),
                SuppliedFunctionCalls(fields, drawOf)) = SuppliedFunctionCalls(fields, drawOf)
         /\ FieldReadings(fields, ReadableMediaKeys, drawOf) # Absent
<1>1. /\ SuppliedFunctionCalls(fields, drawOf) # Absent
      /\ FieldReadings(fields, ReadableMediaKeys, drawOf) # Absent
  BY SuppliedAssumption DEF KeptSchemas
<1> QED
  BY <1>1, KeylessAssumption DEF ReadingFunctionCalls

\* The schema is reduced before a call is begun, and stands from then on.
LEMMA SchemaStands ==
  ASSUME ConsensusInvariant, ConsensusNext
  PROVE  schema' = schema \/ (calls = NoCalls /\ calls' = calls)
<1>1. CASE SelectSuggestibleFieldSchema
  BY <1>1 DEF SelectSuggestibleFieldSchema, Proceed, callVars, ConsensusInvariant,
              CallsFollowThePhase
<1>2. CASE ~SelectSuggestibleFieldSchema
  BY <1>2 DEF ConsensusNext, EnsureAiAgentModelBinding, RefusePrompt,
       FetchReadingsConcurrently, FetchOneReading, RaiseSignal,
       RejectReadings, EnsureSomeReadingTaken, InspectReadings, ResolveFieldConsensus,
       SaveAiRunFieldOutcome, FinishMissing, ScoreSettledFields, GenerateResultBody
<1> QED
  BY <1>1, <1>2

\* No step puts another answer in place of the one that was supplied.
LEMMA StubStep ==
  ASSUME ConsensusInvariant, StubIsSupplied, ConsensusNext
  PROVE  StubIsSupplied'
<1>1. SUFFICES ASSUME agent.isKeyless PROVE StubIsSupplied'
  BY SetUpStays DEF StubIsSupplied
<1>2. CASE FetchReadingsConcurrently
  <2>1. TakeReadings(schema) /\ schema' = schema /\ schema \in KeptSchemas
    BY <1>2 DEF FetchReadingsConcurrently, Proceed, ConsensusInvariant, SchemaIsKept
  <2>2. CASE isAborted
    <3>1. \A i \in Indexes : calls'[i].phase = "skipped"
      BY <2>1, <2>2 DEF TakeReadings, NoCall
    <3> QED
      BY <3>1 DEF StubIsSupplied
  <2>3. CASE ~isAborted
    <3>1. PICK drawOf \in DigestedNumbers(schema) :
            calls' = [i \in Indexes |->
                [phase |-> "answered",
                 answer |-> ReadingFunctionCalls(
                    KeylessFunctionCalls(ForcedTools), SuppliedFunctionCalls(schema, drawOf))]]
      BY <1>1, <2>1, <2>3 DEF TakeReadings
    <3>2. \A i \in Indexes :
            /\ calls'[i].phase = "answered"
            /\ calls'[i].answer = SuppliedFunctionCalls(schema, drawOf)
      BY <2>1, <3>1, SuppliedStandsIn
    <3> QED
      BY <2>1, <3>2 DEF StubIsSupplied
  <2> QED
    BY <2>2, <2>3
<1>3. CASE FetchOneReading
  <2>1. CallStep /\ schema' = schema /\ agent' = agent
    BY <1>3, SetUpStays DEF FetchOneReading
  <2>2. PICK i \in Indexes :
            SendRequestToAi(i) \/ FailToSend(i) \/ AnswerRequest(i) \/ SaveAiModelCall(i)
                \/ FailToSaveCall(i)
    BY <2>1 DEF CallStep
  <2>3. calls[i].phase \in {"connecting", "sent", "answered"}
    BY <2>2 DEF SendRequestToAi, FailToSend, AnswerRequest, SaveAiModelCall, FailToSaveCall
  <2>4. PICK drawOf \in DigestedNumbers(schema) : \A j \in Indexes :
            /\ calls[j].phase \in {"answered", "taken", "failed", "threw"}
            /\ calls[j].phase # "threw" => calls[j].answer = SuppliedFunctionCalls(schema, drawOf)
            /\ calls[j].phase = "taken" => calls[j].answer # Failed
            /\ calls[j].phase = "failed" => calls[j].answer = Failed
    BY <1>1, <2>1, <2>3, TurningIsUnderWay DEF StubIsSupplied
  <2>5. calls[i].phase = "answered" /\ (SaveAiModelCall(i) \/ FailToSaveCall(i))
    BY <2>2, <2>3, <2>4 DEF SendRequestToAi, FailToSend, AnswerRequest
  <2>6. \E turned, answer :
            /\ calls' = [calls EXCEPT ![i] = [phase |-> turned, answer |-> answer]]
            /\ \/ turned = "threw"
               \/ turned = "failed" /\ answer = calls[i].answer /\ answer = Failed
               \/ turned = "taken" /\ answer = calls[i].answer /\ answer # Failed
    BY <2>5 DEF SaveAiModelCall, FailToSaveCall, TurnCall
  <2>7. PICK turned, answer :
            /\ calls' = [calls EXCEPT ![i] = [phase |-> turned, answer |-> answer]]
            /\ \/ turned = "threw"
               \/ turned = "failed" /\ answer = calls[i].answer /\ answer = Failed
               \/ turned = "taken" /\ answer = calls[i].answer /\ answer # Failed
    BY <2>6
  <2>8. /\ calls'[i].phase = turned /\ calls'[i].answer = answer
        /\ \A j \in Indexes : j # i => calls'[j] = calls[j]
    BY <2>7 DEF ConsensusInvariant, CallsAreKept
  <2>9. \A j \in Indexes :
            /\ calls'[j].phase \in {"answered", "taken", "failed", "threw"}
            /\ calls'[j].phase # "threw" => calls'[j].answer = SuppliedFunctionCalls(schema, drawOf)
            /\ calls'[j].phase = "taken" => calls'[j].answer # Failed
            /\ calls'[j].phase = "failed" => calls'[j].answer = Failed
    BY <2>4, <2>5, <2>7, <2>8
  <2> QED
    BY <2>1, <2>9 DEF StubIsSupplied
<1>4. CASE calls' = calls
  <2>1. agent' = agent
    BY SetUpStays
  <2> QED
    BY <1>4, <2>1, SchemaStands DEF StubIsSupplied, NoCalls
<1>5. RaiseSignal \/ UNCHANGED callVars => calls' = calls
  BY DEF RaiseSignal, AbortReadings, callVars
<1> QED
  BY <1>2, <1>3, <1>4, <1>5, FewTurnCalls

\* The calls of the keyless driver keep the one answer that was supplied for them.
THEOREM StubIsKept == ConsensusSpec => []StubIsSupplied
<1>1. ConsensusInit => StubIsSupplied
  BY DEF ConsensusInit, CallsInit, StubIsSupplied, NoCalls
<1>2. ConsensusInvariant /\ StubIsSupplied /\ [ConsensusNext]_consensusVars => StubIsSupplied'
  <2> SUFFICES ASSUME ConsensusInvariant, StubIsSupplied, [ConsensusNext]_consensusVars
               PROVE  StubIsSupplied'
    OBVIOUS
  <2>1. CASE ConsensusNext
    BY <2>1, StubStep
  <2>2. CASE UNCHANGED consensusVars
    BY <2>2 DEF consensusVars, callVars, StubIsSupplied, NoCalls
  <2> QED
    BY <2>1, <2>2
<1> QED
  BY <1>1, <1>2, ConsensusIsKept, PTL DEF ConsensusSpec

\* A schema the run works on is made of entries that may be suggested.
LEMMA KeptEntries ==
  ASSUME NEW fields \in KeptSchemas
  PROVE  /\ IsArray(fields)
         /\ \A n \in DOMAIN fields : IsEntry(fields[n]) /\ IsSuggestible(fields[n])
<1>1. PICK sent \in Schemas : fields = RestrictValues(sent, IsSuggestible)
  BY DEF KeptSchemas
<1>2. /\ IsArray(sent) /\ \A n \in DOMAIN sent : IsEntry(sent[n])
  BY ConsensusAssumption DEF Range
<1>3. /\ DOMAIN fields = {n \in DOMAIN sent : IsSuggestible(sent[n])}
      /\ \A n \in DOMAIN fields : fields[n] = sent[n]
  BY <1>1 DEF RestrictValues, RestrictDomain, Restrict
<1> QED
  BY <1>2, <1>3 DEF IsArray

\* What a supplied reading says first of the path of a field its entry bounds is what
\* was drawn for that field.
LEMMA SuppliedIsSaid ==
  ASSUME schema \in KeptSchemas, AttachedFiles # <<>>,
         NEW drawOf \in DigestedNumbers(schema),
         NEW i \in Taken, calls[i].answer = SuppliedFunctionCalls(schema, drawOf),
         NEW n \in DOMAIN schema, DecidesItsPath(n), IsBounded(schema[n]),
         OffersShortOptions(schema[n])
  PROVE  /\ ItemsOn(i, schema[n].path) # {}
         /\ FirstItemOn(i, schema[n].path) =
                FieldReading(schema[n], drawOf[<<schema[n].path, schema[n].kind>>],
                             ReadableMediaKeys)
<1> DEFINE entry == schema[n]
           path == entry.path
           places == {m \in DOMAIN schema : schema[m].path = path}
           first == FirstOf(places)
           draw == drawOf[<<path, entry.kind>>]
           reading == FieldReadings(schema, ReadableMediaKeys, drawOf)
<1>1. IsArray(schema) /\ IsEntry(entry) /\ IsSuggestible(entry)
  BY KeptEntries
<1>2. n \in places /\ places \in SUBSET Nat
  BY <1>1 DEF IsArray
<1>3. first \in places /\ \A m \in places : first <= m
  <2> HIDE DEF places
  <2> QED
    BY <1>2, FirstIsFirst
<1>4. path \in SchemaPaths /\ EntryOf(path) = entry /\ EntryOf(path) = schema[first]
  BY DEF SchemaPaths, DecidesItsPath, EntryOf
<1>5. draw \in Draws
  <2>1. <<path, entry.kind>> \in DrawKeys(schema)
    BY DEF DrawKeys
  <2> QED
    BY <2>1 DEF DigestedNumbers
<1>6. IsAllowed(FieldReading(entry, draw, ReadableMediaKeys))
  BY <1>1, <1>4, <1>5, SuppliedIsAllowed
<1>7. IsAnswerable(entry)
  BY <1>1 DEF IsBounded, IsAnswerable, IsSuggestible, SuggestibleValueKinds
<1>8. ReadableMediaKeys # <<>>
  BY CallsAssumption DEF ReadableMediaKeys, IsASequence
<1>9. /\ DOMAIN reading = {m \in DOMAIN schema : IsAnswerable(schema[m])}
      /\ \A m \in DOMAIN reading : reading[m] =
            FieldReading(schema[m], drawOf[<<schema[m].path, schema[m].kind>>], ReadableMediaKeys)
  BY <1>8 DEF FieldReadings, RestrictValues, RestrictDomain, Restrict
<1>10. ReadingOf(i) = reading
  <2> DEFINE functionCalls == SuppliedFunctionCalls(schema, drawOf)
             forced == {m \in DOMAIN functionCalls : functionCalls[m].name = "reading"}
  <2>1. /\ DOMAIN functionCalls = {1} /\ functionCalls[1].name = "reading"
        /\ functionCalls[1].readings = reading
    BY DEF SuppliedFunctionCalls
  <2>2. forced = {1}
    BY <2>1
  <2>3. FirstOf({1}) \in {1}
    <3>1. {1} \in SUBSET Nat /\ {1} # {}
      OBVIOUS
    <3> QED
      BY <3>1, FirstIsFirst
  <2>4. reading # Absent
    BY SuppliedStandsIn
  <2> HIDE DEF functionCalls, reading
  <2>5. ReadingItems(functionCalls) = reading
    BY <2>1, <2>2, <2>3, <2>4 DEF ReadingItems
  <2> QED
    BY <2>5 DEF ReadingOf, functionCalls
<1> HIDE DEF reading
<1>11. /\ first \in DOMAIN reading
       /\ reading[first] = FieldReading(entry, draw, ReadableMediaKeys)
  BY <1>3, <1>4, <1>7, <1>9
<1>12. ASSUME NEW m \in DOMAIN reading
       PROVE  reading[m].path = schema[m].path
  <2>1. reading[m] =
            FieldReading(schema[m], drawOf[<<schema[m].path, schema[m].kind>>], ReadableMediaKeys)
    BY <1>9
  <2> QED
    BY <2>1 DEF FieldReading
<1>13. first \in ItemsOn(i, path) /\ ItemsOn(i, path) \subseteq places
  BY <1>3, <1>6, <1>9, <1>10, <1>11, <1>12 DEF ItemsOn
<1>14. FirstOf(ItemsOn(i, path)) = first
  <2> HIDE DEF places, first, path
  <2>1. ItemsOn(i, path) \in SUBSET Nat /\ ItemsOn(i, path) # {}
    BY <1>2, <1>13
  <2>2. /\ FirstOf(ItemsOn(i, path)) \in ItemsOn(i, path)
        /\ \A m \in ItemsOn(i, path) : FirstOf(ItemsOn(i, path)) <= m
    BY <2>1, FirstIsFirst
  <2>3. FirstOf(ItemsOn(i, path)) <= first /\ first <= FirstOf(ItemsOn(i, path))
    BY <1>3, <1>13, <2>2
  <2> QED
    BY <1>2, <1>3, <1>13, <2>2, <2>3
<1> HIDE DEF first
<1>15. FirstItemOn(i, path) = FieldReading(entry, draw, ReadableMediaKeys)
  BY <1>10, <1>11, <1>14 DEF FirstItemOn
<1> QED
  BY <1>13, <1>15

\* Of what was supplied all readings say the same, so every field its entry bounds
\* settles.
LEMMA SuppliedSettles ==
  ASSUME ConsensusInvariant, StubIsSupplied
  PROVE  StubReadingsSettle
<1> SUFFICES ASSUME agent.isKeyless, AttachedFiles # <<>>, IsResolved, Taken # {},
                    NEW n \in DOMAIN schema, DecidesItsPath(n), IsBounded(schema[n]),
                    OffersShortOptions(schema[n])
             PROVE  \E f \in settled : f.path = schema[n].path /\ f.agreed = ReadingCount
  BY DEF StubReadingsSettle
<1> DEFINE path == schema[n].path
<1>1. /\ CallsAreKept /\ allowed = AllowedReadings /\ settled = SettledFields
  BY ResolvedIsSettled
<1>2. IsFulfilled /\ schema \in KeptSchemas
  BY <1>1 DEF IsResolved, ConsensusInvariant, SchemaIsKept, ReadingsAreInspected, IsPastInspection,
              IsAnsweredWithFields
<1>3. PICK drawOf \in DigestedNumbers(schema) : \A i \in Indexes :
        /\ calls[i].phase \in {"answered", "taken", "failed", "threw"}
        /\ calls[i].phase # "threw" => calls[i].answer = SuppliedFunctionCalls(schema, drawOf)
        /\ calls[i].phase = "taken" => calls[i].answer # Failed
        /\ calls[i].phase = "failed" => calls[i].answer = Failed
  BY DEF StubIsSupplied, Taken, NoCalls, NoCall
<1>4. Taken = Indexes
  <2>1. PICK i \in Indexes : calls[i].phase = "taken"
    BY DEF Taken
  <2>2. SuppliedFunctionCalls(schema, drawOf) # Failed
    BY <1>3, <2>1
  <2>3. \A j \in Indexes : calls[j].phase = "taken"
    BY <1>2, <1>3, <2>2 DEF IsFulfilled
  <2> QED
    BY <2>3 DEF Taken
<1> DEFINE said == FieldReading(schema[n], drawOf[<<path, schema[n].kind>>], ReadableMediaKeys)
           text == NormalizedValue(said).text
<1>5. \A i \in Indexes : ItemsOn(i, path) # {} /\ FirstItemOn(i, path) = said
  BY <1>2, <1>3, <1>4, SuppliedIsSaid DEF Taken
<1>6. \A i \in Indexes : i \in Voters(path) /\ SaidOn(path)[i] = text
  BY <1>4, <1>5 DEF Voters, SaidOn
<1> HIDE DEF said, text
<1>7. Speakers(path, text) = Indexes
  BY <1>4, <1>6 DEF Speakers, Voters
<1>8. Cardinality(Speakers(path, text)) = ReadingCount /\ ReadingCount \in Nat \ {0}
  BY <1>7, TakenAreIndexes, CallsAssumption
<1>9. 2 * Cardinality(Speakers(path, text)) > ReadingCount
  BY <1>8
<1>10. /\ SettledField(path) \in SettledFields
       /\ SettledField(path).path = path /\ SettledField(path).value.text = text
  BY <1>1, <1>9, SettledIsMajority
<1>11. path \in ReadFieldPaths
  BY <1>1, <1>10, SettledIsMajority
<1>12. SettledField(path).agreed = Cardinality(Speakers(path, SettledField(path).value.text))
  BY <1>1, <1>11, FieldIsItsVoices
<1> QED
  BY <1>1, <1>8, <1>10, <1>12

\* A demonstration on the keyless driver settles every field its schema bounds, for any
\* schema, bounds, fractions of a whole and draws.
THEOREM DemonstrationSettles == ConsensusSpec => []StubReadingsSettle
<1>1. ConsensusInvariant /\ StubIsSupplied => StubReadingsSettle
  BY SuppliedSettles
<1> QED
  BY <1>1, ConsensusIsKept, StubIsKept, PTL

--------------------------------------------------------------------------------
(* The prompt that was sent                                                 *)

InstructionRows == [instruction : Wordings, savedAt : Instants]

SentRows == {Instruction(call.sentText, call.promptVersion) : call \in recordedCalls}

\* Every row that anyone has read, sent or kept.
KnownRows ==
    ({liveInstruction} \cup sink \cup {writers[w].row : w \in Writers}
        \cup {asks[a].prompt : a \in Asks} \cup SentRows) \ {NoRow}

IsReached(savedAt) == (\E row \in sink : row.savedAt = savedAt) \/ IsAwaited(savedAt)

\* A save that was serial is later than all that is known.
IsLatest(row) == row.savedAt <= liveInstruction.savedAt

AskPhases ==
    {"off", "created", "found", "refused", "bound", "instructed", "cast", "composed", "sent",
     "recorded"}

\* An ask of these phases has its prompt.
PromptedPhases == {"instructed", "cast", "composed", "sent"}

AskRows ==
    [phase : AskPhases, model : ModelNames \cup {NoRow}, prompt : InstructionRows \cup {NoRow}]

WriterRows ==
    [phase : {"off", "loaded", "saved"}, row : InstructionRows \cup {NoRow}, marker : Nat]

PromptsAreTyped ==
    /\ driverScan \in {"unbegun", "begun", "loaded", "failed"}
    /\ writers \in [Writers -> WriterRows]
    /\ asks \in [Asks -> AskRows]
    /\ liveInstruction \in InstructionRows \cup {NoRow}
    /\ sink \subseteq InstructionRows
    /\ SentRows \subseteq InstructionRows
    /\ \A w \in Writers : writers[w].phase = "saved" => writers[w].row # NoRow
    /\ \A a \in Asks : asks[a].phase \in PromptedPhases => asks[a].prompt # NoRow

PromptsInvariant ==
    /\ PromptsAreTyped
    /\ liveInstruction = NoRow => KnownRows = {}
    /\ \A row, other \in sink : row.savedAt = other.savedAt => row = other
    /\ \A row \in KnownRows : IsReached(row.savedAt)
    /\ savesAreSerial => \A row \in KnownRows :
        IsLatest(row) /\ \A other \in KnownRows : row.savedAt = other.savedAt => row = other

\* A row of an instruction is its text and its stamp, and is not the marker of no row.
LEMMA InstructionsAreRows ==
  /\ NoRow \notin InstructionRows
  /\ \A row \in InstructionRows : Instruction(row.instruction, row.savedAt) = row
  /\ \A text \in Wordings, savedAt \in Instants : Instruction(text, savedAt) \in InstructionRows
<1>1. NoRow \notin InstructionRows
  BY PromptsAssumption DEF InstructionRows, Instants
<1>2. \A row \in InstructionRows : Instruction(row.instruction, row.savedAt) = row
  BY DEF InstructionRows, Instruction
<1>3. \A text \in Wordings, savedAt \in Instants : Instruction(text, savedAt) \in InstructionRows
  BY DEF InstructionRows, Instruction
<1> QED
  BY <1>1, <1>2, <1>3

\* Whatever a save may find, copy or hold is a row.
LEMMA KnownRowsAreRows ==
  ASSUME PromptsAreTyped
  PROVE  KnownRows \subseteq InstructionRows
BY DEF PromptsAreTyped, KnownRows, WriterRows, AskRows

\* A writer that has saved is left only with its row in the sink or told to be missing.
LEMMA ReachedStays ==
  ASSUME sink \subseteq sink', unappended \subseteq unappended',
         \A w \in Writers : writers[w].phase = "saved" =>
            \/ writers'[w] = writers[w]
            \/ writers[w].row.savedAt \in unappended'
            \/ writers[w].row \in sink'
  PROVE  \A savedAt : IsReached(savedAt) => IsReached(savedAt)'
BY DEF IsReached, IsAwaited

\* A step that brings nothing new.
LEMMA NothingNewIsKnown ==
  ASSUME PromptsInvariant, PromptsAreTyped', UNCHANGED <<liveInstruction, savesAreSerial>>,
         KnownRows' \subseteq KnownRows,
         \A row, other \in sink' : row.savedAt = other.savedAt => row = other,
         \A savedAt : IsReached(savedAt) => IsReached(savedAt)'
  PROVE  PromptsInvariant'
<1>1. \A row \in KnownRows' : IsReached(row.savedAt)'
  BY DEF PromptsInvariant
<1>2. \A row : IsLatest(row)' = IsLatest(row)
  BY DEF IsLatest
<1>3. savesAreSerial' => \A row \in KnownRows' :
        IsLatest(row)' /\ \A other \in KnownRows' : row.savedAt = other.savedAt => row = other
  BY <1>2 DEF PromptsInvariant
<1>4. liveInstruction' = NoRow => KnownRows' = {}
  BY DEF PromptsInvariant
<1> QED
  BY <1>1, <1>3, <1>4 DEF PromptsInvariant

\* A step that commits a row: a later one than all that is known, if it is serial.
LEMMA SomethingNewIsKnown ==
  ASSUME PromptsInvariant, PromptsAreTyped', NEW row \in InstructionRows,
         liveInstruction' = row, UNCHANGED sink,
         KnownRows' \subseteq KnownRows \cup {row},
         \A savedAt : IsReached(savedAt) => IsReached(savedAt)', IsReached(row.savedAt)',
         savesAreSerial' => savesAreSerial /\ \A known \in KnownRows : known.savedAt < row.savedAt
  PROVE  PromptsInvariant'
<1>1. \A known \in KnownRows' : IsReached(known.savedAt)'
  BY DEF PromptsInvariant
<1>2. ASSUME savesAreSerial'
      PROVE  \A known \in KnownRows' :
                /\ IsLatest(known)'
                /\ \A other \in KnownRows' : known.savedAt = other.savedAt => known = other
  <2>1. savesAreSerial /\ \A known \in KnownRows : known.savedAt < row.savedAt
    BY <1>2
  <2>2. \A known \in KnownRows \cup {row} : known.savedAt \in Nat
    BY KnownRowsAreRows DEF PromptsInvariant, InstructionRows, Instants
  <2>3. \A known \in KnownRows : known.savedAt <= row.savedAt /\ known.savedAt # row.savedAt
    BY <2>1, <2>2
  <2>4. \A known \in KnownRows' : IsLatest(known)'
    BY <2>2, <2>3 DEF IsLatest
  <2>5. \A known, other \in KnownRows : known.savedAt = other.savedAt => known = other
    BY <2>1 DEF PromptsInvariant
  <2> QED
    BY <2>3, <2>4, <2>5
<1>3. liveInstruction' # NoRow
  BY InstructionsAreRows
<1>4. \A one, other \in sink' : one.savedAt = other.savedAt => one = other
  BY DEF PromptsInvariant
<1> QED
  BY <1>1, <1>2, <1>3, <1>4 DEF PromptsInvariant

\* A writer's turn leaves the asks and their calls alone.
LEMMA WriterTurns ==
  ASSUME PromptsAreTyped, UNCHANGED <<driverScan, asks, recordedCalls>>,
         NEW w \in Writers, NEW to \in {"off", "loaded", "saved"},
         NEW row \in InstructionRows \cup {NoRow}, to = "saved" => row # NoRow,
         NEW marker \in Nat, SetWriter(w, to, row, marker),
         liveInstruction' \in InstructionRows \cup {NoRow}, sink' \subseteq InstructionRows
  PROVE  /\ PromptsAreTyped'
         /\ \A v \in Writers : v # w => writers'[v] = writers[v]
         /\ writers'[w] = [phase |-> to, row |-> row, marker |-> marker]
         /\ KnownRows' \subseteq
                (KnownRows \cup ({liveInstruction'} \cup sink' \cup {row})) \ {NoRow}
<1> DEFINE writer == [phase |-> to, row |-> row, marker |-> marker]
<1>1. writers' = [writers EXCEPT ![w] = writer]
  BY DEF SetWriter
<1>2. writers \in [Writers -> WriterRows] /\ writer \in WriterRows
  BY DEF PromptsAreTyped, WriterRows
<1>3. /\ writers' \in [Writers -> WriterRows]
      /\ \A v \in Writers : v # w => writers'[v] = writers[v]
      /\ writers'[w] = writer
  BY <1>1, <1>2
<1>4. writers'[w].phase = to /\ writers'[w].row = row
  BY <1>3
<1>5. \A v \in Writers : writers'[v].phase = "saved" => writers'[v].row # NoRow
  BY <1>3, <1>4 DEF PromptsAreTyped
<1>6. SentRows' = SentRows
  BY DEF SentRows
<1>7. PromptsAreTyped'
  BY <1>3, <1>5, <1>6 DEF PromptsAreTyped
<1>8. KnownRows' \subseteq (KnownRows \cup ({liveInstruction'} \cup sink' \cup {row})) \ {NoRow}
  BY <1>3, <1>4, <1>6 DEF KnownRows
<1> QED
  BY <1>3, <1>7, <1>8

\* An ask reads the row there is, or nothing.
LEMMA AskTurns ==
  ASSUME PromptsInvariant, UNCHANGED instructionVars, NEW a \in Asks, NEW to \in AskRows,
         asks' = [asks EXCEPT ![a] = to], to.prompt \in {asks[a].prompt, liveInstruction},
         to.phase \in PromptedPhases => to.prompt # NoRow,
         SentRows' \subseteq SentRows \cup ({asks[a].prompt} \ {NoRow}),
         driverScan' \in {"unbegun", "begun", "loaded", "failed"}
  PROVE  PromptsInvariant'
<1>1. PromptsAreTyped
  BY DEF PromptsInvariant
<1>2. UNCHANGED <<liveInstruction, sink, writers, unappended, savesAreSerial>>
  BY DEF instructionVars
<1>3. /\ asks' \in [Asks -> AskRows] /\ asks'[a] = to
      /\ \A b \in Asks : b # a => asks'[b] = asks[b]
  BY <1>1 DEF PromptsAreTyped
<1>4. asks[a].prompt \in InstructionRows \cup {NoRow}
  BY <1>1 DEF PromptsAreTyped, AskRows
<1>5. SentRows' \subseteq InstructionRows
  BY <1>1, <1>4 DEF PromptsAreTyped
<1>6. \A b \in Asks : asks'[b].phase \in PromptedPhases => asks'[b].prompt # NoRow
  BY <1>1, <1>3 DEF PromptsAreTyped
<1>7. PromptsAreTyped'
  BY <1>1, <1>2, <1>3, <1>5, <1>6 DEF PromptsAreTyped
<1>8. {asks'[b].prompt : b \in Asks} \subseteq {asks[b].prompt : b \in Asks} \cup {liveInstruction}
  BY <1>3
<1>9. KnownRows' \subseteq KnownRows
  BY <1>2, <1>8 DEF KnownRows
<1>10. \A savedAt : IsReached(savedAt)' = IsReached(savedAt)
  BY <1>2 DEF IsReached, IsAwaited
<1>11. \A row, other \in sink' : row.savedAt = other.savedAt => row = other
  BY <1>2 DEF PromptsInvariant
<1> QED
  BY <1>2, <1>7, <1>9, <1>10, <1>11, NothingNewIsKnown

\* Rewording the instruction never puts a second text under a stamp a call has
\* recorded.
LEMMA RewordStep ==
  ASSUME PromptsInvariant, Reword
  PROVE  PromptsInvariant'
<1>1. PICK w \in Writers :
        LoadInstruction(w) \/ SaveInstruction(w) \/ CreateInstruction(w) \/ AppendToSink(w)
            \/ FailToAppend(w) \/ ForgetInstruction(w)
  BY DEF Reword
<1>2. UNCHANGED <<driverScan, asks, recordedCalls>> /\ PromptsAreTyped
  BY DEF Reword, askVars, PromptsInvariant
<1>3. /\ writers[w].phase \in {"off", "loaded", "saved"}
      /\ writers[w].row \in InstructionRows \cup {NoRow}
      /\ writers[w].phase = "saved" => writers[w].row \in InstructionRows
      /\ writers[w].marker \in Nat
      /\ liveInstruction \in InstructionRows \cup {NoRow} /\ sink \subseteq InstructionRows
  BY <1>2 DEF PromptsAreTyped, WriterRows
<1>4. \A row, other \in sink : row.savedAt = other.savedAt => row = other
  BY DEF PromptsInvariant
<1>5. {liveInstruction, writers[w].row} \ {NoRow} \subseteq KnownRows /\ sink \subseteq KnownRows
  BY <1>3, InstructionsAreRows DEF KnownRows
<1>6. CASE LoadInstruction(w)
  <2>1. /\ writers[w].phase = "off" /\ liveInstruction # NoRow
        /\ SetWriter(w, "loaded", NoRow, liveInstruction.savedAt)
        /\ UNCHANGED <<liveInstruction, sink, unappended, savesAreSerial>>
    BY <1>6 DEF LoadInstruction
  <2>2. /\ PromptsAreTyped' /\ \A v \in Writers : v # w => writers'[v] = writers[v]
        /\ KnownRows' \subseteq
            (KnownRows \cup ({liveInstruction'} \cup sink' \cup {NoRow})) \ {NoRow}
    <3>1. liveInstruction.savedAt \in Nat
      BY <1>3, <2>1 DEF InstructionRows, Instants
    <3> QED
      BY <1>2, <1>3, <2>1, <3>1, WriterTurns
  <2>3. KnownRows' \subseteq KnownRows
    BY <1>5, <2>1, <2>2
  <2>4. \A savedAt : IsReached(savedAt) => IsReached(savedAt)'
    BY <2>1, <2>2, ReachedStays
  <2> QED
    BY <1>4, <2>1, <2>2, <2>3, <2>4, NothingNewIsKnown
<1>7. ASSUME NEW savedAt \in Instants, CommitInstruction(w, savedAt), writers[w].phase # "saved",
             savesAreSerial' => savesAreSerial /\ \A known \in KnownRows : known.savedAt < savedAt
      PROVE  PromptsInvariant'
  <2>1. PICK text \in Wordings :
            /\ liveInstruction' = Instruction(text, savedAt)
            /\ SetWriter(w, "saved", Instruction(text, savedAt), writers[w].marker)
            /\ UNCHANGED <<sink, unappended>>
    BY <1>7 DEF CommitInstruction
  <2> DEFINE row == Instruction(text, savedAt)
  <2>2. row \in InstructionRows /\ row # NoRow /\ row.savedAt = savedAt
    BY InstructionsAreRows DEF Instruction
  <2> HIDE DEF row
  <2>3. /\ liveInstruction' = row /\ SetWriter(w, "saved", row, writers[w].marker)
        /\ UNCHANGED <<sink, unappended>>
    BY <2>1 DEF row
  <2>4. /\ PromptsAreTyped' /\ \A v \in Writers : v # w => writers'[v] = writers[v]
        /\ writers'[w] = [phase |-> "saved", row |-> row, marker |-> writers[w].marker]
        /\ KnownRows' \subseteq
            (KnownRows \cup ({liveInstruction'} \cup sink' \cup {row})) \ {NoRow}
    BY <1>2, <1>3, <2>2, <2>3, WriterTurns
  <2>5. KnownRows' \subseteq KnownRows \cup {row}
    BY <1>5, <2>3, <2>4
  <2>6. \A instant : IsReached(instant) => IsReached(instant)'
    BY <1>7, <2>3, <2>4, ReachedStays
  <2>7. writers'[w].phase = "saved" /\ writers'[w].row.savedAt = savedAt
    BY <2>2, <2>4
  <2>8. IsReached(row.savedAt)'
    BY <2>2, <2>7 DEF IsReached, IsAwaited
  <2> QED
    BY <1>7, <2>2, <2>3, <2>4, <2>5, <2>6, <2>8, SomethingNewIsKnown
<1>8. CASE SaveInstruction(w)
  <2>1. PICK now \in Instants :
            /\ StampAfter(writers[w].marker, now) <= LatestInstant
            /\ CommitInstruction(w, StampAfter(writers[w].marker, now))
    BY <1>8 DEF SaveInstruction
  <2>2. /\ writers[w].phase = "loaded"
        /\ savesAreSerial' = (savesAreSerial /\ liveInstruction.savedAt = writers[w].marker)
    BY <1>8 DEF SaveInstruction
  <2> DEFINE savedAt == StampAfter(writers[w].marker, now)
  <2>4. savedAt \in Instants /\ writers[w].marker < savedAt
    BY <1>3, <2>1 DEF StampAfter, Instants
  <2> HIDE DEF savedAt
  <2>5. ASSUME savesAreSerial', NEW known \in KnownRows
        PROVE  savesAreSerial /\ known.savedAt < savedAt
    <3>1. savesAreSerial /\ known.savedAt <= writers[w].marker
      BY <2>2, <2>5 DEF PromptsInvariant, IsLatest
    <3>2. known.savedAt \in Nat /\ writers[w].marker \in Nat /\ savedAt \in Nat
      BY <1>2, <1>3, <2>4, KnownRowsAreRows DEF InstructionRows, Instants
    <3> QED
      BY <2>4, <3>1, <3>2
  <2>6. savesAreSerial' => savesAreSerial
    BY <2>2
  <2>7. CommitInstruction(w, savedAt)
    BY <2>1 DEF savedAt
  <2> QED
    BY <1>7, <2>2, <2>4, <2>5, <2>6, <2>7
<1>9. CASE CreateInstruction(w)
  <2>1. PICK now \in Instants : CommitInstruction(w, StampAfter(Epoch, now))
    BY <1>9 DEF CreateInstruction
  <2>2. StampAfter(Epoch, now) = now
    BY DEF StampAfter, Epoch, Instants
  <2>3. KnownRows = {} /\ writers[w].phase = "off" /\ UNCHANGED savesAreSerial
    BY <1>9 DEF CreateInstruction, PromptsInvariant
  <2> QED
    BY <1>7, <2>1, <2>2, <2>3
<1>10. CASE AppendToSink(w)
  <2> DEFINE row == writers[w].row
  <2>1. /\ writers[w].phase = "saved" /\ ~IsTakenStamp(row.savedAt) /\ sink' = sink \cup {row}
        /\ SetWriter(w, "loaded", NoRow, row.savedAt)
        /\ UNCHANGED <<liveInstruction, unappended, savesAreSerial>>
    BY <1>10 DEF AppendToSink
  <2>2. row \in InstructionRows /\ row # NoRow
    BY <1>3, <2>1, InstructionsAreRows
  <2>3. /\ PromptsAreTyped' /\ \A v \in Writers : v # w => writers'[v] = writers[v]
        /\ KnownRows' \subseteq
            (KnownRows \cup ({liveInstruction'} \cup sink' \cup {NoRow})) \ {NoRow}
    <3>1. /\ liveInstruction' \in InstructionRows \cup {NoRow}
          /\ sink' \subseteq InstructionRows /\ row.savedAt \in Nat
      BY <1>3, <2>1, <2>2 DEF PromptsAreTyped, InstructionRows, Instants
    <3> HIDE DEF row
    <3> QED
      BY <1>2, <1>3, <2>1, <2>2, <3>1, WriterTurns
  <2>4. KnownRows' \subseteq KnownRows
    BY <1>5, <2>1, <2>2, <2>3
  <2>5. \A savedAt : IsReached(savedAt) => IsReached(savedAt)'
    BY <2>1, <2>3, ReachedStays
  <2>6. \A one, other \in sink' : one.savedAt = other.savedAt => one = other
    BY <1>4, <2>1 DEF IsTakenStamp
  <2> QED
    BY <2>1, <2>3, <2>4, <2>5, <2>6, NothingNewIsKnown
<1>11. CASE FailToAppend(w)
  <2> DEFINE marker == writers[w].marker
  <2>1. /\ writers[w].phase = "saved" /\ SetWriter(w, "loaded", NoRow, marker)
        /\ unappended' = unappended \cup {writers[w].row.savedAt}
        /\ UNCHANGED <<liveInstruction, sink, savesAreSerial>>
    BY <1>11 DEF FailToAppend
  <2>2. /\ PromptsAreTyped' /\ \A v \in Writers : v # w => writers'[v] = writers[v]
        /\ KnownRows' \subseteq
            (KnownRows \cup ({liveInstruction'} \cup sink' \cup {NoRow})) \ {NoRow}
    <3>1. /\ liveInstruction' \in InstructionRows \cup {NoRow}
          /\ sink' \subseteq InstructionRows /\ marker \in Nat
          /\ SetWriter(w, "loaded", NoRow, marker)
      BY <1>3, <2>1 DEF PromptsAreTyped
    <3> HIDE DEF marker
    <3> QED
      BY <1>2, <3>1, WriterTurns
  <2>3. KnownRows' \subseteq KnownRows
    BY <1>5, <2>1, <2>2
  <2>4. \A savedAt : IsReached(savedAt) => IsReached(savedAt)'
    BY <2>1, <2>2, ReachedStays
  <2> QED
    BY <1>4, <2>1, <2>2, <2>3, <2>4, NothingNewIsKnown
<1>12. CASE ForgetInstruction(w)
  <2>1. /\ writers[w].phase = "loaded" /\ SetWriter(w, "off", NoRow, Epoch)
        /\ UNCHANGED <<liveInstruction, sink, unappended, savesAreSerial>>
    BY <1>12 DEF ForgetInstruction
  <2>2. /\ PromptsAreTyped' /\ \A v \in Writers : v # w => writers'[v] = writers[v]
        /\ KnownRows' \subseteq
            (KnownRows \cup ({liveInstruction'} \cup sink' \cup {NoRow})) \ {NoRow}
    <3>1. Epoch \in Nat
      BY DEF Epoch
    <3> QED
      BY <1>2, <1>3, <2>1, <3>1, WriterTurns
  <2>3. KnownRows' \subseteq KnownRows
    BY <1>5, <2>1, <2>2
  <2>4. \A savedAt : IsReached(savedAt) => IsReached(savedAt)'
    BY <2>1, <2>2, ReachedStays
  <2> QED
    BY <1>4, <2>1, <2>2, <2>3, <2>4, NothingNewIsKnown
<1> QED
  BY <1>1, <1>6, <1>8, <1>9, <1>10, <1>11, <1>12

\* Composing a prompt and recording it takes the text and its stamp from one row.
LEMMA AskStepKeeps ==
  ASSUME PromptsInvariant, AskStep
  PROVE  PromptsInvariant'
<1>1. PICK a \in Asks :
        CreateBindingFinder(a) \/ FindAiAgent(a) \/ ResolveAiModelProcessor(a)
            \/ FindDefaultInstruction(a) \/ FindRoleInstruction(a) \/ FindAvailableAiTools(a)
            \/ SendPrompt(a) \/ RecordAiModelCall(a)
  BY DEF AskStep
<1>2. /\ asks[a] \in AskRows /\ liveInstruction \in InstructionRows \cup {NoRow}
      /\ asks[a].phase \in PromptedPhases => asks[a].prompt # NoRow
      /\ driverScan \in {"unbegun", "begun", "loaded", "failed"}
  BY DEF PromptsInvariant, PromptsAreTyped
<1>3. ASSUME NEW to \in AskRows, NEW from \in AskPhases, Turn(a, from, to),
             to.prompt = asks[a].prompt \/ to.prompt = liveInstruction,
             to.phase \in PromptedPhases => to.prompt # NoRow,
             UNCHANGED recordedCalls, driverScan' = driverScan \/ driverScan' = "begun"
      PROVE  PromptsInvariant'
  <2>1. SentRows' = SentRows
    BY <1>3 DEF SentRows
  <2> QED
    BY <1>2, <1>3, <2>1, AskTurns DEF Turn
<1>4. ASSUME NEW turned \in AskPhases
      PROVE  /\ At(a, turned) \in AskRows /\ At(a, turned).phase = turned
             /\ At(a, turned).prompt = asks[a].prompt
  BY <1>2 DEF At, AskRows
<1>5. CASE CreateBindingFinder(a)
  BY <1>3, <1>4, <1>5 DEF CreateBindingFinder, AskPhases, PromptedPhases
<1>6. CASE FindAiAgent(a)
  <2>1. PICK model \in ModelNames \cup {NoRow} :
            Turn(a, "created", IF model = NoRow THEN At(a, "refused")
                               ELSE [At(a, "found") EXCEPT !.model = model])
    BY <1>6 DEF FindAiAgent
  <2>2. UNCHANGED <<driverScan, recordedCalls>>
    BY <1>6 DEF FindAiAgent
  <2>3. CASE model = NoRow
    BY <1>3, <1>4, <2>1, <2>2, <2>3 DEF AskPhases, PromptedPhases
  <2>4. CASE model # NoRow
    <3> DEFINE to == [At(a, "found") EXCEPT !.model = model]
    <3>1. to \in AskRows /\ to.phase = "found" /\ to.prompt = asks[a].prompt
      BY <1>4, <2>4 DEF AskRows, AskPhases
    <3>2. Turn(a, "created", to)
      BY <2>1, <2>4
    <3> HIDE DEF to
    <3> QED
      BY <1>3, <2>2, <3>1, <3>2 DEF AskPhases, PromptedPhases
  <2> QED
    BY <2>3, <2>4
<1>7. CASE ResolveAiModelProcessor(a)
  <2>1. PICK turned \in {"bound", "refused"} : Turn(a, "found", At(a, turned))
    BY <1>7 DEF ResolveAiModelProcessor
  <2>2. UNCHANGED <<driverScan, recordedCalls>>
    BY <1>7 DEF ResolveAiModelProcessor
  <2> QED
    BY <1>3, <1>4, <2>1, <2>2 DEF AskPhases, PromptedPhases
<1>8. CASE FindDefaultInstruction(a)
  <2>1. /\ Turn(a, "bound", IF liveInstruction = NoRow THEN At(a, "refused")
                            ELSE [At(a, "instructed") EXCEPT !.prompt = liveInstruction])
        /\ UNCHANGED <<driverScan, recordedCalls>>
    BY <1>8 DEF FindDefaultInstruction
  <2>2. CASE liveInstruction = NoRow
    BY <1>3, <1>4, <2>1, <2>2 DEF AskPhases, PromptedPhases
  <2>3. CASE liveInstruction # NoRow
    <3> DEFINE to == [At(a, "instructed") EXCEPT !.prompt = liveInstruction]
    <3>1. to \in AskRows /\ to.phase = "instructed" /\ to.prompt = liveInstruction
      BY <1>2, <1>4 DEF AskRows, AskPhases
    <3>2. Turn(a, "bound", to)
      BY <2>1, <2>3
    <3> HIDE DEF to
    <3> QED
      BY <1>3, <2>1, <2>3, <3>1, <3>2 DEF AskPhases, PromptedPhases
  <2> QED
    BY <2>2, <2>3
<1>9. CASE FindRoleInstruction(a)
  <2>1. PICK turned \in {"cast", "refused"} : Turn(a, "instructed", At(a, turned))
    BY <1>9 DEF FindRoleInstruction
  <2>2. asks[a].phase = "instructed" /\ UNCHANGED <<driverScan, recordedCalls>>
    BY <1>9 DEF FindRoleInstruction, Turn
  <2> QED
    BY <1>2, <1>3, <1>4, <2>1, <2>2 DEF AskPhases, PromptedPhases
<1>10. CASE FindAvailableAiTools(a)
  <2>1. PICK turned \in {"composed", "refused"} : Turn(a, "cast", At(a, turned))
    BY <1>10 DEF FindAvailableAiTools
  <2>2. asks[a].phase = "cast" /\ UNCHANGED <<driverScan, recordedCalls>>
    BY <1>10 DEF FindAvailableAiTools, Turn
  <2> QED
    BY <1>2, <1>3, <1>4, <2>1, <2>2 DEF AskPhases, PromptedPhases
<1>11. CASE SendPrompt(a)
  <2>1. /\ Turn(a, "composed", At(a, "sent")) /\ asks[a].phase = "composed"
        /\ UNCHANGED <<driverScan, recordedCalls>>
    BY <1>11 DEF SendPrompt, Turn
  <2> QED
    BY <1>2, <1>3, <1>4, <2>1 DEF AskPhases, PromptedPhases
<1>12. CASE RecordAiModelCall(a)
  <2> DEFINE call == [promptVersion |-> RecordedPromptVersion(a), model |-> asks[a].model,
                      sentText |-> asks[a].prompt.instruction]
  <2>1. /\ Turn(a, "sent", At(a, "recorded")) /\ asks[a].phase = "sent"
        /\ recordedCalls' = recordedCalls \cup {call} /\ UNCHANGED driverScan
    BY <1>12 DEF RecordAiModelCall, Turn
  <2>2. asks[a].prompt \in InstructionRows /\ asks[a].prompt # NoRow
    BY <1>2, <2>1 DEF AskRows, PromptedPhases
  <2>3. Instruction(call.sentText, call.promptVersion) = asks[a].prompt
    BY <2>2, InstructionsAreRows DEF RecordedPromptVersion
  <2> HIDE DEF call
  <2>4. SentRows' \subseteq SentRows \cup ({asks[a].prompt} \ {NoRow})
    BY <2>1, <2>2, <2>3 DEF SentRows
  <2>5. /\ At(a, "recorded") \in AskRows /\ At(a, "recorded").phase = "recorded"
        /\ At(a, "recorded").prompt = asks[a].prompt
    BY <1>4 DEF AskPhases
  <2> QED
    BY <1>2, <2>1, <2>4, <2>5, AskTurns DEF Turn, PromptedPhases
<1> QED
  BY <1>1, <1>5, <1>6, <1>7, <1>8, <1>9, <1>10, <1>11, <1>12

\* The invariant of the prompts holds in every state, for any wordings, operators and
\* clocks.
THEOREM PromptsAreKept == PromptsSpec => []PromptsInvariant
<1>1. PromptsInit => PromptsInvariant
  <2> SUFFICES ASSUME PromptsInit PROVE PromptsInvariant
    OBVIOUS
  <2>1. /\ liveInstruction \in InstructionRows \cup {NoRow} /\ sink = {liveInstruction} \ {NoRow}
        /\ driverScan = "unbegun" /\ recordedCalls = {}
    <3>1. 1 \in Instants
      BY PromptsAssumption DEF Instants
    <3> QED
      BY <3>1, InstructionsAreRows DEF PromptsInit
  <2>2. writers \in [Writers -> WriterRows] /\ \A w \in Writers : writers[w] = Idle
    BY DEF PromptsInit, WriterRows, Idle, Epoch
  <2>3. asks \in [Asks -> AskRows] /\ \A a \in Asks : asks[a] = Unasked
    BY DEF PromptsInit, AskRows, Unasked, AskPhases
  <2>4. SentRows = {}
    BY <2>1 DEF SentRows
  <2>5. PromptsAreTyped
    BY <2>1, <2>2, <2>3, <2>4 DEF PromptsAreTyped, Idle, Unasked, PromptedPhases
  <2>6. KnownRows = sink
    BY <2>1, <2>2, <2>3, <2>4 DEF KnownRows, Idle, Unasked
  <2>7. \A row, other \in sink : row = other /\ row = liveInstruction
    BY <2>1
  <2>8. \A row \in sink : row.savedAt <= liveInstruction.savedAt
    BY <2>1, <2>7 DEF InstructionRows, Instants
  <2> QED
    BY <2>1, <2>5, <2>6, <2>7, <2>8 DEF PromptsInvariant, IsLatest, IsReached
<1>2. PromptsInvariant /\ [PromptsNext]_promptVars => PromptsInvariant'
  <2> SUFFICES ASSUME PromptsInvariant, [PromptsNext]_promptVars
               PROVE  PromptsInvariant'
    OBVIOUS
  <2>1. CASE Reword
    BY <2>1, RewordStep
  <2>2. CASE AskStep
    BY <2>2, AskStepKeeps
  <2>3. CASE EndDriverScan \/ UNCHANGED promptVars
    <3>1. /\ UNCHANGED <<liveInstruction, sink, writers, unappended, savesAreSerial, asks,
                         recordedCalls>>
          /\ driverScan' = driverScan \/ driverScan' \in {"loaded", "failed"}
      BY <2>3 DEF EndDriverScan, promptVars, instructionVars, askVars
    <3>2. SentRows' = SentRows /\ KnownRows' = KnownRows
      BY <3>1 DEF SentRows, KnownRows
    <3>3. PromptsAreTyped'
      BY <3>1, <3>2 DEF PromptsInvariant, PromptsAreTyped
    <3>4. \A savedAt : IsReached(savedAt)' = IsReached(savedAt)
      BY <3>1 DEF IsReached, IsAwaited
    <3>5. \A row, other \in sink' : row.savedAt = other.savedAt => row = other
      BY <3>1 DEF PromptsInvariant
    <3> QED
      BY <3>1, <3>2, <3>3, <3>4, <3>5, NothingNewIsKnown
  <2> QED
    BY <2>1, <2>2, <2>3 DEF PromptsNext
<1> QED
  BY <1>1, <1>2, PTL DEF PromptsSpec

\* Every variable of the prompts holds what the code can hold, and a stamp has one row.
THEOREM PromptsTypeCorrect == PromptsSpec => []PromptsTypeOK
<1>1. PromptsInvariant => PromptsTypeOK
  BY DEF PromptsInvariant, PromptsAreTyped, PromptsTypeOK, InstructionRows, WriterRows
<1> QED
  BY <1>1, PromptsAreKept, PTL

\* The version of a model call leads to the text that was sent, whoever rewords the agent
\* and wherever the clocks stand (AiAgentDefaultInstruction.setupHooks).
THEOREM VersionLeadsToTheText == PromptsSpec => []VersionNamesWhatWasSent
<1>1. PromptsInvariant => VersionNamesWhatWasSent
  <2> SUFFICES ASSUME PromptsInvariant, NEW call \in recordedCalls
               PROVE  /\ savesAreSerial => \A row \in sink :
                            row.savedAt = call.promptVersion => row.instruction = call.sentText
                      /\ IsReached(call.promptVersion)
    BY DEF VersionNamesWhatWasSent, IsReached
  <2> DEFINE sent == Instruction(call.sentText, call.promptVersion)
  <2>1. sent.instruction = call.sentText /\ sent.savedAt = call.promptVersion
    BY DEF Instruction
  <2>2. sent \in SentRows /\ SentRows \cup sink \subseteq InstructionRows
    BY DEF SentRows, PromptsInvariant, PromptsAreTyped
  <2>3. sent \in KnownRows /\ sink \subseteq KnownRows
    BY <2>2, InstructionsAreRows DEF KnownRows
  <2> HIDE DEF sent
  <2>4. IsReached(sent.savedAt)
    BY <2>3 DEF PromptsInvariant
  <2>5. ASSUME savesAreSerial, NEW row \in sink, row.savedAt = call.promptVersion
        PROVE  row.instruction = call.sentText
    <3>1. row = sent
      BY <2>1, <2>3, <2>5 DEF PromptsInvariant
    <3> QED
      BY <2>1, <3>1
  <2> QED
    BY <2>1, <2>4, <2>5
<1> QED
  BY <1>1, PromptsAreKept, PTL

================================================================================
