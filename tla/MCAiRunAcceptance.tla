--------------------------- MODULE MCAiRunAcceptance ---------------------------
(***************************************************************************)
(* AiRunAcceptance with up to three requests, a limit of one or two runs   *)
(* in a window of one instant for 1200 in 60 seconds, and at most one      *)
(* instant beyond the first.                                               *)
(***************************************************************************)
EXTENDS AiRunAcceptance, TLC

CONSTANTS p1, p2, p3, c1, c2, k1, k2, b1, b2

ThreeRequests == {p1, p2, p3}
TwoRequests == {p1, p2}
OneClient == {c1}
TwoClients == {c1, c2}
OneKey == {k1}
TwoKeys == {k1, k2}
OneBody == {b1}
TwoBodies == {b1, b2}

AnyFault == AcceptanceFaultKinds
QueueFaults == {"queue"}

\* Requests, clients, keys and bodies are interchangeable.
Interchangeable ==
    Permutations(PostRequests) \cup Permutations(Clients) \cup Permutations(Keys)
        \cup Permutations(Bodies)

================================================================================
