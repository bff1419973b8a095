-------------------------------- MODULE MCAiRuns --------------------------------
(****************************************************************************)
(* Both ends of the way from a request to a settled run, which share no     *)
(* state here, checked side by side: a behaviour is one of AiRunAcceptance, *)
(* by which runs come to have a row and a job, or of AiRunLifecycle, one    *)
(* run from its job to its callback, and part says which.                   *)
(****************************************************************************)
EXTENDS MCAiRunLifecycle, MCAiRunAcceptance

VARIABLE part

\* Bound: names make no difference, so they are given in the order they are used in:
\* the first request is p1 and its client c1, a client's first key is k1, and the
\* first body of a client under a key b1 or malformed.
NamesComeInOrder ==
    \A r \in PostRequests : input[r] # input'[r] =>
        LET before == {q \in PostRequests : input[q] # Nothing}
            OfClient == {q \in before : input[q].client = input'[r].client}
        IN  /\ before = {} => r = p1 /\ input'[r].client = c1
            /\ OfClient = {} => input'[r].key = k1
            /\ (\A q \in OfClient : input[q].key # input'[r].key) => input'[r].body # b2

\* Bound: time passes while a request is still to come, which alone reads the clock.
TimeIsAskedFor == clock' # clock => \E r \in PostRequests : phase[r] = "unsent"

\* The others are interchangeable.
LaterRequests == Permutations({p2, p3})

RunsInit ==
    /\ part \in {"acceptance", "lifecycle"}
    /\ AcceptanceInit
    /\ Init

RunsNext ==
    /\ UNCHANGED part
    /\ \/ /\ part = "acceptance"
          /\ AcceptanceNext
          /\ NamesComeInOrder
          /\ TimeIsAskedFor
          /\ UNCHANGED vars
       \/ part = "lifecycle" /\ Next /\ UNCHANGED acceptanceVars

RunsSpec == RunsInit /\ [][RunsNext]_<<part, acceptanceVars, vars>>

================================================================================
