----------------------------- MODULE AiAgentPrompts ----------------------------
(***************************************************************************)
(* The agent a run asks: the model it is bound to, the driver this process *)
(* has for that model (AiAgentModelBindingFinder,                          *)
(* BulkAiModelProcessorsLoader), the prompt that is composed of its rows   *)
(* (AiAgentPromptComposer), and the version a model call records for it    *)
(* (AiModelCallRecorder, PromptVersionGenerator).  Operators reword the    *)
(* instruction meanwhile: a save stamps the row, and appends the stamped   *)
(* row to a sink where the version is looked up later                      *)
(* (AiAgentDefaultInstruction).  The agent's other rows, which operators   *)
(* write as well, are there or not whenever they are read; the role is     *)
(* kept as the instruction is, and no version of it is recorded.           *)
(***************************************************************************)
EXTENDS Integers, Sequences, FiniteSets

CONSTANTS
    Wordings,       \* what an instruction may say
    Writers,        \* instances of the row, in the processes of operators
    Asks,           \* the runs that ask the agent
    ModelNames,     \* the models an agent may be bound to
    DriverNames,    \* the model each driver of the pool claims, in the order of its files
    LatestInstant,  \* bounds the clock and the stamps
    NoRow           \* no row

\* Zero is the epoch, and the marker of an instance that was never saved.
Epoch == 0
Instants == 1..LatestInstant

ASSUME PromptsAssumption ==
    /\ LatestInstant \in Nat \ {0}
    /\ NoRow \notin ModelNames \cup [instruction : Wordings, savedAt : Nat]
    /\ \A n \in DOMAIN DriverNames : DriverNames[n] # NoRow

VARIABLES
    liveInstruction,    \* the row of ai_agent_default_instructions
    sink,               \* the rows of ai_agent_default_instructions_bk
    writers,            \* writers[w]: an instance, and how far its save has come
    unappended,         \* the stamps whose append was refused or failed
    savesAreSerial,     \* no save has replaced a generation but its writer's own marker's
    driverScan,         \* the scan of the driver pool this process keeps
    asks,
    recordedCalls       \* the rows of ai_model_calls, and what was sent

instructionVars == <<liveInstruction, sink, writers, unappended, savesAreSerial>>
askVars == <<driverScan, asks, recordedCalls>>
promptVars == <<instructionVars, askVars>>

Instruction(text, savedAt) == [instruction |-> text, savedAt |-> savedAt]

\* Of an instance the marker is kept, and the row from the save to the append.
Idle == [phase |-> "off", row |-> NoRow, marker |-> Epoch]
Unasked == [phase |-> "off", model |-> NoRow, prompt |-> NoRow]

\* The row of an agent is seeded with its row of the sink, or there is none.
PromptsInit ==
    /\ liveInstruction \in {NoRow} \cup {Instruction(text, 1) : text \in Wordings}
    /\ sink = {liveInstruction} \ {NoRow}
    /\ writers = [w \in Writers |-> Idle]
    /\ unappended = {}
    /\ savesAreSerial = TRUE
    /\ driverScan = "unbegun"
    /\ asks = [a \in Asks |-> Unasked]
    /\ recordedCalls = {}

--------------------------------------------------------------------------------
(* Rewording the agent                                                      *)

\* Faulty form: the clock alone.
StampAfter_ByClock(previousSavedAt, now) == now

\* beforeSave: later than the marker the instance was read with, wherever the clock is.
StampAfter(previousSavedAt, now) ==
    IF now > previousSavedAt THEN now ELSE previousSavedAt + 1

SetWriter(w, phase, row, marker) ==
    writers' = [writers EXCEPT ![w] = [phase |-> phase, row |-> row, marker |-> marker]]

LoadInstruction(w) ==
    /\ writers[w].phase = "off"
    /\ liveInstruction # NoRow
    /\ SetWriter(w, "loaded", NoRow, liveInstruction.savedAt)
    /\ UNCHANGED <<liveInstruction, sink, unappended, savesAreSerial>>

\* The row is committed with its stamp; the sink comes after.
CommitInstruction(w, savedAt) ==
    \E text \in Wordings :
        /\ liveInstruction' = Instruction(text, savedAt)
        /\ SetWriter(w, "saved", Instruction(text, savedAt), writers[w].marker)
        /\ UNCHANGED <<sink, unappended>>

\* A row is written by its id, whatever it holds by now.
SaveInstruction(w) ==
    /\ writers[w].phase = "loaded"
    /\ \E now \in Instants :
        LET savedAt == StampAfter(writers[w].marker, now)
        IN  savedAt <= LatestInstant /\ CommitInstruction(w, savedAt)
    /\ savesAreSerial' =
        (savesAreSerial /\ liveInstruction.savedAt = writers[w].marker)

\* create, and bulkCreate of one: an agent has one row, and a second is refused.
CreateInstruction(w) ==
    /\ writers[w].phase = "off"
    /\ liveInstruction = NoRow
    /\ \E now \in Instants : CommitInstruction(w, StampAfter(Epoch, now))
    /\ UNCHANGED savesAreSerial

IsTakenStamp(savedAt) == \E row \in sink : row.savedAt = savedAt

\* afterSave: a second row of one stamp is refused.  The instance may be saved again.
AppendToSink(w) ==
    LET row == writers[w].row
    IN  /\ writers[w].phase = "saved"
        /\ ~IsTakenStamp(row.savedAt)
        /\ sink' = sink \cup {row}
        /\ SetWriter(w, "loaded", NoRow, row.savedAt)
        /\ UNCHANGED <<liveInstruction, unappended, savesAreSerial>>

\* It is refused, or its query fails.  The live row stays as it was written, and the
\* instance keeps the marker it was saved over, which moves on behind the hooks only.
FailToAppend(w) ==
    /\ writers[w].phase = "saved"
    /\ unappended' = unappended \cup {writers[w].row.savedAt}
    /\ SetWriter(w, "loaded", NoRow, writers[w].marker)
    /\ UNCHANGED <<liveInstruction, sink, savesAreSerial>>

ForgetInstruction(w) ==
    /\ writers[w].phase = "loaded"
    /\ SetWriter(w, "off", NoRow, Epoch)
    /\ UNCHANGED <<liveInstruction, sink, unappended, savesAreSerial>>

Reword ==
    /\ \E w \in Writers :
        \/ LoadInstruction(w)
        \/ SaveInstruction(w)
        \/ CreateInstruction(w)
        \/ AppendToSink(w)
        \/ FailToAppend(w)
        \/ ForgetInstruction(w)
    /\ UNCHANGED askVars

--------------------------------------------------------------------------------
(* The drivers                                                              *)

ClaimedNames == {DriverNames[n] : n \in DOMAIN DriverNames}

\* buildProcessorHash refuses a pool two of whose drivers claim one model.
IsUnambiguous == \A m, n \in DOMAIN DriverNames : DriverNames[m] = DriverNames[n] => m = n

\* The promise is pooled, and one that was rejected stays in the pool.
EndDriverScan ==
    /\ driverScan = "begun"
    /\ driverScan' \in {"failed"} \cup IF IsUnambiguous THEN {"loaded"} ELSE {}
    /\ UNCHANGED <<instructionVars, asks, recordedCalls>>

\* resolveProcessor
HasDriver(model) == driverScan = "loaded" /\ model \in ClaimedNames

--------------------------------------------------------------------------------
(* Asking the agent                                                         *)

Turn(a, from, to) ==
    /\ asks[a].phase = from
    /\ asks' = [asks EXCEPT ![a] = to]
    /\ UNCHANGED instructionVars

At(a, phase) == [asks[a] EXCEPT !.phase = phase]

\* The first finder of a process begins the scan.
CreateBindingFinder(a) ==
    /\ Turn(a, "off", At(a, "created"))
    /\ driverScan' = IF driverScan = "unbegun" THEN "begun" ELSE driverScan
    /\ UNCHANGED recordedCalls

\* The agent and its model come in one query.
FindAiAgent(a) ==
    /\ \E model \in ModelNames \cup {NoRow} :
        Turn(a, "created",
             IF model = NoRow
             THEN At(a, "refused")
             ELSE [At(a, "found") EXCEPT !.model = model])
    /\ UNCHANGED <<driverScan, recordedCalls>>

\* A scan that failed throws at every ask.
ResolveAiModelProcessor(a) ==
    /\ driverScan \in {"loaded", "failed"}
    /\ Turn(a, "found", At(a, IF HasDriver(asks[a].model) THEN "bound" ELSE "refused"))
    /\ UNCHANGED <<driverScan, recordedCalls>>

\* composePrompt: three queries, and nothing unless each of them finds its rows.
FindDefaultInstruction(a) ==
    /\ Turn(a, "bound",
            IF liveInstruction = NoRow
            THEN At(a, "refused")
            ELSE [At(a, "instructed") EXCEPT !.prompt = liveInstruction])
    /\ UNCHANGED <<driverScan, recordedCalls>>

\* There is a role, or none.
FindRoleInstruction(a) ==
    /\ \E phase \in {"cast", "refused"} : Turn(a, "instructed", At(a, phase))
    /\ UNCHANGED <<driverScan, recordedCalls>>

\* Every enabled tool can be read, or one cannot.
FindAvailableAiTools(a) ==
    /\ \E phase \in {"composed", "refused"} : Turn(a, "cast", At(a, phase))
    /\ UNCHANGED <<driverScan, recordedCalls>>

SendPrompt(a) ==
    /\ Turn(a, "composed", At(a, "sent"))
    /\ UNCHANGED <<driverScan, recordedCalls>>

\* Faulty form: the version is that of the row as it is once the answer has come.
RecordedPromptVersion_AsNow(a) == liveInstruction.savedAt

\* generatePromptVersion: the marker itself, written out, of the row that was sent.
RecordedPromptVersion(a) == asks[a].prompt.savedAt

RecordAiModelCall(a) ==
    /\ Turn(a, "sent", At(a, "recorded"))
    /\ recordedCalls' = recordedCalls \cup
        {[promptVersion |-> RecordedPromptVersion(a), model |-> asks[a].model,
          sentText |-> asks[a].prompt.instruction]}
    /\ UNCHANGED driverScan

AskStep ==
    \E a \in Asks :
        \/ CreateBindingFinder(a)
        \/ FindAiAgent(a)
        \/ ResolveAiModelProcessor(a)
        \/ FindDefaultInstruction(a)
        \/ FindRoleInstruction(a)
        \/ FindAvailableAiTools(a)
        \/ SendPrompt(a)
        \/ RecordAiModelCall(a)

PromptsNext == Reword \/ EndDriverScan \/ AskStep

PromptsSpec == PromptsInit /\ [][PromptsNext]_promptVars

--------------------------------------------------------------------------------
(* Properties                                                               *)

\* Every variable holds what the code can hold, and the sink keeps one row of a stamp.
PromptsTypeOK ==
    /\ driverScan \in {"unbegun", "begun", "loaded", "failed"}
    /\ \A row \in sink : row.instruction \in Wordings /\ row.savedAt \in Instants
    /\ \A row, other \in sink : row.savedAt = other.savedAt => row = other
    /\ \A w \in Writers : writers[w].phase \in {"off", "loaded", "saved"}

IsAwaited(savedAt) ==
    \/ savedAt \in unappended
    \/ \E w \in Writers : writers[w].phase = "saved" /\ writers[w].row.savedAt = savedAt

\* The version a model call was recorded under leads to the text that was sent, for as
\* long as there is a sink: whoever rewords the agent while the run composes its prompt
\* and waits for its answer, and wherever the clock stands, no other text is kept under
\* it, and the text itself is there unless its append failed or is still to come.  Only
\* an instance that was read before another save, or is saved again after its append
\* failed, may share a stamp with another text
\* (AiAgentDefaultInstruction.setupHooks: no call resolves 'to text that was never
\* sent').
VersionNamesWhatWasSent ==
    \A call \in recordedCalls :
        LET kept == {row \in sink : row.savedAt = call.promptVersion}
        IN  /\ savesAreSerial => \A row \in kept : row.instruction = call.sentText
            /\ kept # {} \/ IsAwaited(call.promptVersion)

================================================================================
