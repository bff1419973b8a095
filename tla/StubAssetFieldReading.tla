------------------------- MODULE StubAssetFieldReading --------------------------
(***************************************************************************)
(* What a run on the keyless driver is answered with                       *)
(* (StubAssetFieldReadingSupplier): for every field its entry bounds, a    *)
(* value inside the bounds, drawn from a digest of the run's media and the *)
(* field.  A digest is any number of Draws.  Bounds of numbers are counted *)
(* in units, Unit of them to a whole number, so that they may be fractions.*)
(* What an array's filter keeps stays at its place: of a filtered array     *)
(* only the order is told.                                                 *)
(***************************************************************************)
EXTENDS Integers, Sequences, Functions

CONSTANTS
    Absent,             \* no bound stated, no value
    Unit,               \* the units of one
    NumberSpan,         \* DEFAULT_NUMBER_SPAN
    EvidenceKindNames,  \* every evidence kind, in the order of its constants
    Draws,              \* the numbers a digest may be drawn to
    StubText,           \* StubText[draw][n]: the first n characters of its text
    WholeNumberText     \* WholeNumberText[n]: how the whole number n is written

\* An array, as it came or as a filter left it.
IsArray(array) == DOMAIN array \subseteq Nat

IsASequence(array) == array \in Seq(Range(array))

ASSUME StubAssumption ==
    /\ Absent \notin Nat
    /\ Unit \in Nat \ {0}
    /\ NumberSpan \in Nat
    /\ IsASequence(EvidenceKindNames) /\ EvidenceKindNames # <<>>
    /\ Draws \subseteq Nat
    /\ \A draw \in Draws : \E wholeLength \in DOMAIN StubText[draw] :
          wholeLength \in Nat /\ DOMAIN StubText[draw] = 0..wholeLength

\* DEFAULT_MINIMUM_NUMBER
DefaultMinimum == 1

SmallerOf(a, b) == IF a <= b THEN a ELSE b
LargerOf(a, b) == IF a <= b THEN b ELSE a

\* The first of some places.
FirstOf(numbers) == CHOOSE n \in numbers : \A m \in numbers : n <= m

FloorOf(bound) == bound \div Unit
CeilingOf(bound) == -((-bound) \div Unit)

\* One of a sequence, by the draw.
DrawnOf(sequence, draw) == sequence[1 + (draw % Len(sequence))]

--------------------------------------------------------------------------------
(* The value of a field                                                     *)

\* slice(0, length): a length under zero is counted from the end.
CutText(text, wholeLength, length) ==
    text[IF length < 0 THEN LargerOf(0, wholeLength + length) ELSE SmallerOf(length, wholeLength)]

TextValue(entry, draw) ==
    LET text == StubText[draw]
        wholeLength == CHOOSE n \in DOMAIN text : \A m \in DOMAIN text : m <= n
    IN  [type |-> "string",
         text |-> IF entry.maxLength = Absent
                  THEN text[wholeLength]
                  ELSE CutText(text, wholeLength, entry.maxLength)]

\* Faulty form: the whole number below a stated minimum.
MinimumNumber_RoundedDown(entry) ==
    IF entry.minimum # Absent THEN FloorOf(entry.minimum)
    ELSE IF entry.maximum # Absent THEN SmallerOf(DefaultMinimum, FloorOf(entry.maximum))
    ELSE DefaultMinimum

\* The least whole number within the bounds, and one where none is stated.
MinimumNumber(entry) ==
    IF entry.minimum # Absent THEN CeilingOf(entry.minimum)
    ELSE IF entry.maximum # Absent THEN SmallerOf(DefaultMinimum, FloorOf(entry.maximum))
    ELSE DefaultMinimum

\* Never less than the minimum, so a range without a whole number is answered its
\* ceiling.
MaximumNumber(entry) ==
    LET minimum == MinimumNumber(entry)
    IN  IF entry.maximum = Absent
        THEN minimum + NumberSpan
        ELSE LargerOf(minimum, FloorOf(entry.maximum))

NumberValue(entry, draw) ==
    LET minimum == MinimumNumber(entry)
        count == MaximumNumber(entry) - minimum + 1
    IN  [type |-> "number", text |-> WholeNumberText[minimum + (draw % count)]]

\* A select without options bounds its field to nothing.
IsAnswerable(entry) ==
    \/ entry.kind \in {"text", "number"}
    \/ entry.kind = "select" /\ entry.options # <<>>

FieldValue(entry, draw) ==
    CASE entry.kind = "text" -> TextValue(entry, draw)
      [] entry.kind = "number" -> NumberValue(entry, draw)
      [] entry.kind = "select" -> DrawnOf(entry.options, draw)

--------------------------------------------------------------------------------
(* The readings                                                             *)

\* The draw is that of the path and the kind, which two entries may share.
DrawKeys(fields) == {<<fields[n].path, fields[n].kind>> : n \in DOMAIN fields}

\* A digest of the run's media, the path and the kind: any number, and the same one
\* whenever the same is digested.
DigestedNumbers(fields) == [DrawKeys(fields) -> Draws]

FieldReading(entry, draw, mediaKeys) ==
    [path |-> entry.path, value |-> FieldValue(entry, draw),
     evidence |-> DrawnOf(EvidenceKindNames, draw), hasReason |-> TRUE,
     media |-> {DrawnOf(mediaKeys, draw)}]

\* A run none of whose media could be read has nothing to cite.
FieldReadings(fields, mediaKeys, drawOf) ==
    LET answerable == RestrictValues(fields, IsAnswerable)
    IN  IF mediaKeys = <<>> THEN <<>>
        ELSE [n \in DOMAIN answerable |->
                LET entry == answerable[n]
                IN  FieldReading(entry, drawOf[<<entry.path, entry.kind>>], mediaKeys)]

--------------------------------------------------------------------------------
(* The fields that must settle                                              *)

\* What step 4 allows an entry meets what can be supplied for it.
IsBounded(entry) ==
    CASE entry.kind = "text" -> entry.maxLength = Absent \/ entry.maxLength >= 0
      [] entry.kind = "number" ->
            entry.minimum # Absent /\ entry.maximum # Absent =>
                Unit * CeilingOf(entry.minimum) <= entry.maximum
      [] OTHER -> IsAnswerable(entry)

================================================================================
