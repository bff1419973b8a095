---------------------------- MODULE MCFieldConsensus ---------------------------
EXTENDS FieldConsensus, TLC

CONSTANTS p, q, elsewhere, m1, m2, unsent

Text(text) == [text |-> text, type |-> "string"]
Number(text) == [text |-> text, type |-> "number"]

Item(path, value, evidence, media) ==
    [path |-> path, value |-> value, evidence |-> evidence, hasReason |-> TRUE, media |-> media]

\* A number said in two ways on two media, another number and an option; and nine items
\* that are dropped, one for each reason and one whose path is none.
Three == Item(p, Number("3"), "visible", {m1})
ThreePointNought == Item(p, Text("3.0"), "estimate", {m2})
Four == Item(p, Number("4"), "visible", {m2})
Red == Item(q, Text("red"), "estimate", {m1})
Outside == Item(elsewhere, Text("red"), "estimate", {m1})
Unpathed == Item("", Text("red"), "estimate", {m1})
RedByGuess == Item(q, Text("red"), "guess", {m1})
RedUnreasoned == [Red EXCEPT !.hasReason = FALSE]
Blue == Item(q, Text("blue"), "visible", {m1})
Many == Item(p, Text("many"), "visible", {m1})
Nine == Item(p, Number("9"), "visible", {m1})
ThreeAtLength == Item(p, Text("3.00"), "visible", {m1})
ThreeOnUnsent == Item(p, Number("3"), "visible", {m1, unsent})

\* Silence, one item, and two: said twice, said on both fields, or with some to drop.
AllReadings ==
    {<<>>, <<Three>>, <<ThreePointNought>>, <<Four>>, <<Red>>, <<Three, Four>>, <<Four, Red>>,
     <<RedByGuess, Red>>, <<ThreeOnUnsent, ThreePointNought>>, <<Outside, Unpathed>>,
     <<Many, Nine>>, <<ThreeAtLength, Three>>, <<Blue, RedUnreasoned>>}

\* A model calls the tool it was told to, or none, or another.
Call(name, readings) == [name |-> name, readings |-> readings]

SixteenAnswers ==
    {<<Call("reading", readings)>> : readings \in AllReadings}
        \cup {<<>>, <<Call("reading", Absent)>>,
              <<Call("other", Absent), Call("reading", <<Three>>)>>}

\* Bounds of numbers are counted in halves.
Entry(path, kind, isRequired) ==
    [path |-> path, kind |-> kind, isRequired |-> isRequired, options |-> <<>>,
     minimum |-> Absent, maximum |-> Absent, maxLength |-> Absent]

NumberEntry ==
    [Entry(p, "number", TRUE) EXCEPT !.minimum = 6, !.maximum = 16, !.maxLength = 3]

SelectEntry(options) == [Entry(q, "select", FALSE) EXCEPT !.options = options]

OptionalSelectEntry == SelectEntry(<<Text("red")>>)

\* A picture is nothing a model may suggest, and required all the same.
PictureEntry == Entry(elsewhere, "image", TRUE)

PlainSchema == <<PictureEntry, NumberEntry, OptionalSelectEntry>>

\* The schema of a client that declares a required field twice.
DoubledSchema == <<NumberEntry, NumberEntry>>

ThreeSchemas == {PlainSchema, DoubledSchema, <<PictureEntry>>}

\* Schemas a demonstration is asked with: fractions for bounds, a cut text, two
\* options; bounds that hold nothing; and a bound on one side, beside a path that is
\* declared twice.
BoundedSchema ==
    <<[Entry(p, "number", TRUE) EXCEPT !.minimum = 5, !.maximum = 9],
      [Entry(elsewhere, "text", TRUE) EXCEPT !.maxLength = 2],
      SelectEntry(<<Text("red"), Text("blue")>>)>>

UnboundableSchema ==
    <<[Entry(p, "number", TRUE) EXCEPT !.minimum = 5, !.maximum = 5],
      [Entry(elsewhere, "text", TRUE) EXCEPT !.maxLength = -1],
      SelectEntry(<<>>)>>

OneSidedSchema ==
    <<[Entry(p, "number", FALSE) EXCEPT !.maximum = 1],
      Entry(elsewhere, "text", FALSE),
      [Entry(p, "number", FALSE) EXCEPT !.minimum = 6]>>

StubSchemas == {BoundedSchema, UnboundableSchema, OneSidedSchema, <<PictureEntry>>}

AllSchemas == ThreeSchemas \cup StubSchemas

\* An agent that is set up, one of each way not to be, and one on the keyless driver.
SetUp ==
    [hasModel |-> TRUE, hasDriver |-> TRUE, isKeyless |-> FALSE, hasInstruction |-> TRUE,
     hasRole |-> TRUE, tools |-> {"reading", "other"}]

SevenAgents ==
    {SetUp, [SetUp EXCEPT !.hasModel = FALSE], [SetUp EXCEPT !.hasDriver = FALSE],
     [SetUp EXCEPT !.hasInstruction = FALSE], [SetUp EXCEPT !.tools = {"other"}],
     [SetUp EXCEPT !.tools = {"reading", "unreadable"}], [SetUp EXCEPT !.isKeyless = TRUE]}

\* A file as the provider took it, and one it gave no URI.
File(mediaKey) == [mediaKey |-> mediaKey, hasUri |-> TRUE]
TwoFiles == <<File(m1), File(m2)>>
FirstWithoutUri == <<[File(m1) EXCEPT !.hasUri = FALSE], File(m2)>>

\* A demonstration is asked with its own schemas, and no other agent is.
IsAskedWith(setUp, fields) == setUp.isKeyless <=> fields \in StubSchemas \ {<<PictureEntry>>}

\* A whole number as it is written.
WholeNumberTexts == [n \in 0..8 |-> ToString(n)]
NumberTexts ==
    ("3" :> "3") @@ ("3.0" :> "3") @@ ("3.00" :> "3") @@ ("4" :> "4") @@ ("9" :> "9")
        @@ [text \in {WholeNumberTexts[n] : n \in 0..8} |-> text]
Numbers ==
    ("3" :> 6) @@ ("3.0" :> 6) @@ ("3.00" :> 6) @@ ("4" :> 8) @@ ("9" :> 18)
        @@ [text \in {WholeNumberTexts[n] : n \in 0..8} |->
                2 * (CHOOSE n \in 0..8 : WholeNumberTexts[n] = text)]
Lengths ==
    ("3.0" :> 3) @@ ("3.00" :> 4) @@ ("red" :> 3) @@ ("blue" :> 4) @@ ("many" :> 4)
        @@ ("" :> 0) @@ ("s" :> 1) @@ ("st" :> 2) @@ ("st0" :> 3) @@ ("st1" :> 3)

SixDraws == 0..5
StubTexts ==
    [draw \in SixDraws |->
        (0 :> "") @@ (1 :> "s") @@ (2 :> "st") @@ (3 :> IF draw = 0 THEN "st0" ELSE "st1")]
ThreeKinds == <<"visible", "estimate", "prior">>
ThreePaths == {p, q, elsewhere}
ThreeWeights == ("visible" :> 100) @@ ("estimate" :> 75) @@ ("prior" :> 50)
ThreeStates == ("visible" :> "extracted") @@ ("estimate" :> "derived") @@ ("prior" :> "suggested")

ReadingInit == ConsensusInit /\ IsAskedWith(agent, schema)
ReadingSpec == ReadingInit /\ [][ConsensusNext]_consensusVars

================================================================================
