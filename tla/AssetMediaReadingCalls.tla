------------------------ MODULE AssetMediaReadingCalls -------------------------
(***************************************************************************)
(* Step 3 of a run as AssetMediaReadingFetcher takes it: the agent's model *)
(* and its tools are looked up, the model is asked ReadingCount times at   *)
(* once, and each call that came back is a row of ai_model_calls before it *)
(* is a reading.  The first call that throws ends the run's wait, and the  *)
(* others go on.  A run on the keyless driver is answered what the service *)
(* supplies (StubAssetFieldReading).                                       *)
(***************************************************************************)
EXTENDS StubAssetFieldReading, FiniteSets

CONSTANTS
    ReadingCount,       \* DEFAULT_READING_COUNT
    Agents,             \* the ways an operator may have set the agent up
    AttachedFiles,      \* the media handed over, in order, and whether each has a URI
    Answers,            \* what a provider may come back with: sequences of function calls
    Failed              \* a call that came back with an error

Indexes == 1..ReadingCount

\* What the database and the drivers of this process hold for the agent.
AgentRows ==
    [hasModel : BOOLEAN, hasDriver : BOOLEAN, isKeyless : BOOLEAN,
     hasInstruction : BOOLEAN, hasRole : BOOLEAN,
     tools : SUBSET {"reading", "other", "unreadable"}]

\* Function calls of any names; the reading of one is an array of anything, or none.
IsAnswer(functionCalls) ==
    /\ IsArray(functionCalls)
    /\ \A call \in Range(functionCalls) :
        call.readings # Absent => IsArray(call.readings)

ASSUME CallsAssumption ==
    /\ ReadingCount \in Nat \ {0}
    /\ Agents \subseteq AgentRows
    /\ Answers \cap {Failed, Absent} = {}
    /\ \A answer \in Answers : IsAnswer(answer)
    /\ Failed # Absent
    /\ IsASequence(AttachedFiles)

VARIABLES
    agent,
    isAborted,      \* the abort signal of the run is up
    calls,          \* calls[i]: the call of reading i
    aiModelCalls    \* the rows of ai_model_calls

callVars == <<agent, isAborted, calls, aiModelCalls>>

CallPhases ==
    {"unasked", "connecting", "sent", "answered", "taken", "failed", "skipped", "threw"}

NoCall == [phase |-> "unasked", answer |-> Absent]

CallsTypeOK ==
    /\ agent \in Agents
    /\ isAborted \in BOOLEAN
    /\ \A i \in Indexes : calls[i].phase \in CallPhases
    /\ \A row \in aiModelCalls : row.readingIndex \in Indexes

CallsInit ==
    /\ agent \in Agents
    /\ isAborted = FALSE
    /\ calls = [i \in Indexes |-> NoCall]
    /\ aiModelCalls = {}

--------------------------------------------------------------------------------
(* The agent                                                                *)

\* findAiAgentModelBinding: the agent, the model it is bound to, and the driver of
\* that model.
IsBound == agent.hasModel /\ agent.hasDriver

\* composePrompt: one tool that cannot be read withholds them all.
IsComposable == agent.hasInstruction /\ agent.hasRole /\ "unreadable" \notin agent.tools

\* extractForcedToolSchema
OffersReadingTool == "reading" \in agent.tools

--------------------------------------------------------------------------------
(* What is sent and what comes back                                         *)

\* The keys of the readable media, in the order they were declared.
ReadableMediaKeys == [n \in DOMAIN AttachedFiles |-> AttachedFiles[n].mediaKey]

\* What the model is told of the photos: which key is attached in which place.
Photos ==
    [n \in DOMAIN ReadableMediaKeys |-> [mediaKey |-> ReadableMediaKeys[n], attachedAs |-> n]]

\* The photos themselves: a file the provider gave no URI is left out.
FileParts == SelectSeq(AttachedFiles, LAMBDA file : file.hasUri)

\* The one tool that is offered is the one the model must call.
ForcedTools == <<"reading">>

\* buildCurrentContent: the instruction, then the fields with the list of the photos,
\* then the photos.  The messages before it are none.
CurrentContent == <<"instruction", [photos |-> Photos]>> \o FileParts

\* buildToolConfig: without choices the model may answer in words.
ToolConfig(tools, toolChoices) ==
    IF tools = <<>> THEN Absent
    ELSE IF toolChoices = <<>> THEN [mode |-> "AUTO", allowed |-> tools]
    ELSE [mode |-> "ANY", allowed |-> toolChoices]

\* The signal goes with the request, so that an abort ends the wait for it.
GenerateContentRequest ==
    [contents |-> CurrentContent, toolConfig |-> ToolConfig(ForcedTools, ForcedTools),
     hasAbortSignal |-> TRUE]

\* A call that came back with an error asked for nothing.
FunctionCalls(answer) == IF answer = Failed THEN <<>> ELSE answer

\* The reading is the array the tool was called with, and nothing where it was not
\* called or was called without one.
ReadingItems(functionCalls) ==
    LET forced == {n \in DOMAIN functionCalls : functionCalls[n].name = "reading"}
        items == functionCalls[FirstOf(forced)].readings
    IN  IF forced = {} \/ items = Absent THEN <<>> ELSE items

\* A call that asked for nothing is recorded with no body.
ResponseBody(functionCalls) == IF functionCalls = <<>> THEN Absent ELSE functionCalls

--------------------------------------------------------------------------------
(* The keyless driver                                                       *)

\* It opens nothing: it calls each tool it is offered, with no arguments.
KeylessFunctionCalls(tools) ==
    [n \in DOMAIN tools |-> [name |-> tools[n], readings |-> Absent]]

\* The call that stands in for the keyless driver's own.
SuppliedFunctionCalls(fields, drawOf) ==
    <<[name |-> "reading", readings |-> FieldReadings(fields, ReadableMediaKeys, drawOf)]>>

\* What is supplied stands in for an answer and never for an error.
ReadingFunctionCalls(answer, supplied) ==
    IF supplied = Absent \/ answer = Failed THEN FunctionCalls(answer) ELSE supplied

\* A call that the keyless driver made is no error.
ASSUME KeylessAssumption == KeylessFunctionCalls(ForcedTools) # Failed

--------------------------------------------------------------------------------
(* The calls                                                                *)

\* All of them are begun in one turn, unless the signal is up already.  The keyless
\* driver opens nothing, and its calls are answered in that turn.
TakeReadings(fields) ==
    /\ IF isAborted
       THEN calls' = [i \in Indexes |-> [NoCall EXCEPT !.phase = "skipped"]]
       ELSE IF agent.isKeyless
       THEN \E drawOf \in DigestedNumbers(fields) :
                calls' = [i \in Indexes |->
                    [phase |-> "answered",
                     answer |-> ReadingFunctionCalls(
                        KeylessFunctionCalls(ForcedTools), SuppliedFunctionCalls(fields, drawOf))]]
       ELSE calls' = [i \in Indexes |-> [NoCall EXCEPT !.phase = "connecting"]]
    /\ UNCHANGED <<agent, isAborted, aiModelCalls>>

TurnCall(i, phase, answer) ==
    /\ calls' = [calls EXCEPT ![i] = [phase |-> phase, answer |-> answer]]
    /\ UNCHANGED <<agent, isAborted>>

\* The model's row is found and a client is made with the credentials there are.
SendRequestToAi(i) ==
    /\ calls[i].phase = "connecting"
    /\ TurnCall(i, "sent", Absent)
    /\ UNCHANGED aiModelCalls

\* Neither is an answer of the provider, so neither is caught.
FailToSend(i) ==
    /\ calls[i].phase = "connecting"
    /\ TurnCall(i, "threw", Absent)
    /\ UNCHANGED aiModelCalls

\* sendMessageToGemini: the function calls of the answer, or an error that is held,
\* which is what an abort of the wait comes to as well.
AnswerRequest(i) ==
    /\ calls[i].phase = "sent"
    /\ \E answer \in Answers \cup {Failed} : TurnCall(i, "answered", answer)
    /\ UNCHANGED aiModelCalls

AiModelCall(i) == 
    [readingIndex |-> i, responseBody |-> ResponseBody(FunctionCalls(calls[i].answer))]

\* Faulty form: only a reading is worth a row.
SaveAiModelCall_OfReadings(i) ==
    /\ calls[i].phase = "answered"
    /\ TurnCall(i, IF calls[i].answer = Failed THEN "failed" ELSE "taken", calls[i].answer)
    /\ aiModelCalls' =
        IF calls[i].answer = Failed THEN aiModelCalls ELSE aiModelCalls \cup {AiModelCall(i)}

\* The call is recorded whether it answered or failed, and then it is a reading or
\* none.
SaveAiModelCall(i) ==
    /\ calls[i].phase = "answered"
    /\ TurnCall(i, IF calls[i].answer = Failed THEN "failed" ELSE "taken", calls[i].answer)
    /\ aiModelCalls' = aiModelCalls \cup {AiModelCall(i)}

FailToSaveCall(i) ==
    /\ calls[i].phase = "answered"
    /\ TurnCall(i, "threw", Absent)
    /\ UNCHANGED aiModelCalls

\* The run's time is up or its client has called it off.
AbortReadings ==
    /\ ~isAborted
    /\ isAborted' = TRUE
    /\ UNCHANGED <<agent, calls, aiModelCalls>>

CallStep ==
    \E i \in Indexes :
        \/ SendRequestToAi(i)
        \/ FailToSend(i)
        \/ AnswerRequest(i)
        \/ SaveAiModelCall(i)
        \/ FailToSaveCall(i)

--------------------------------------------------------------------------------
(* What the run hears of them                                               *)

\* The calls that have nothing more to do.
IsAtRest(i) == calls[i].phase \notin {"connecting", "sent", "answered"}

HasThrown == \E i \in Indexes : calls[i].phase = "threw"

\* Promise.all, which waits for every call unless one throws.
IsFulfilled == \A i \in Indexes : calls[i].phase \in {"taken", "failed", "skipped"}

\* The readings that came back.
Taken == {i \in Indexes : calls[i].phase = "taken"}

ReadingOf(i) == ReadingItems(calls[i].answer)

\* In the order of their calls, without those that failed.
TakenReadings == [i \in Taken |-> ReadingOf(i)]

PlaceAmongTaken(i) == Cardinality({j \in Taken : j <= i})

--------------------------------------------------------------------------------

\* The place a photo's key is listed under is the place the photo is attached in: that
\* order is all that ties a key to a file, and the keys a reading cites are held against
\* the list (AssetMediaReadingFetcher.buildReadingDocuments says 'that order is what
\* ties a mediaKey to the file the vendor holds').
PhotosAreAttachedAsListed ==
    (\E i \in Indexes : calls[i].phase = "sent") =>
        LET contents == GenerateContentRequest.contents
            photos == contents[2].photos
            attached == SubSeq(contents, 3, Len(contents))
        IN  \A n \in DOMAIN photos :
                /\ photos[n].attachedAs \in DOMAIN attached
                /\ attached[photos[n].attachedAs].mediaKey = photos[n].mediaKey

================================================================================
