-------------------------------- MODULE MCRunWork --------------------------------
(****************************************************************************)
(* What a run and its callback do between their writes of ai_runs, checked  *)
(* side by side: a behaviour collects the media of a run, reads them, asks  *)
(* for the prompt while it is reworded, or makes one attempt at a callback. *)
(* The four share no state, and part says which it is.  A callback may be   *)
(* redirected twice of the three times.                                     *)
(****************************************************************************)
EXTENDS MCAiRunMediaCollection, MCFieldConsensus, AiAgentPrompts, AiRunCallbackAttempt

VARIABLE part

\* A prefix, a narrower one, one of somebody else, and one that is no URL.
FourPrefixes ==
    [wide |-> {"asked", "moved", "elsewhere"}, narrow |-> {"asked", "moved"},
     foreign |-> {"stranger"}, broken |-> {}]

TwoDrivers == <<"gemini", "stub">>

\* Bound: a prompt is followed until its ask is refused, after which nothing is sent.
NoneIsRefused == \A a \in Asks : asks[a].phase # "refused"

\* Bound: the agent is reworded right before its instruction is read and while the
\* answer is awaited; no other step of an ask reads anything of it, so that a step taken
\* later or earlier leads to the same state.
RewordedWhenItMatters ==
    instructionVars' # instructionVars => \A a \in Asks : asks[a].phase \in {"bound", "sent"}

\* Bound: the last reading says one thing, is silent or fails; whatever any two can say
\* to each other, those before it say.
LastSaysLittle ==
    LET answer == calls'[ReadingCount].answer
    IN  ~agent.isKeyless /\ answer \notin {Absent, Failed} => Len(ReadingItems(answer)) <= 1

\* One operator is as good as another, and so is one wording.
NamesAreAlike == Permutations(Writers) \cup Permutations(Wordings)

RunWorkInit ==
    /\ part \in {"media", "readings", "prompt", "callback"}
    /\ Init
    /\ ReadingInit
    /\ PromptsInit
    /\ AttemptInit
    /\ part # "media" => media = <<>>
    /\ part # "readings" => agent = SetUp /\ schema = PlainSchema
    /\ part # "prompt" => liveInstruction = NoRow
    /\ part # "callback" =>
          target = [hasRun |-> TRUE, hasClient |-> TRUE, prefix |-> "wide",
                    hasSecret |-> TRUE, isReadable |-> TRUE]

RunWorkNext ==
    /\ UNCHANGED part
    /\ \/ /\ part = "media"
          /\ Next
          /\ UNCHANGED <<consensusVars, promptVars, attemptVariables>>
       \/ /\ part = "readings"
          /\ ConsensusNext
          /\ LastSaysLittle
          /\ UNCHANGED <<vars, promptVars, attemptVariables>>
       \/ /\ part = "prompt"
          /\ NoneIsRefused
          /\ PromptsNext
          /\ RewordedWhenItMatters
          /\ UNCHANGED <<vars, consensusVars, attemptVariables>>
       \/ /\ part = "callback"
          /\ AttemptNext
          /\ UNCHANGED <<vars, consensusVars, promptVars>>

RunWorkSpec ==
    RunWorkInit /\ [][RunWorkNext]_<<part, vars, consensusVars, promptVars, attemptVariables>>

================================================================================
