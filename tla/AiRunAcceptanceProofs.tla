------------------------- MODULE AiRunAcceptanceProofs -------------------------
(***************************************************************************)
(* What holds of the requests that create runs, for any clients, keys,     *)
(* limit and window and under any faults.  A row is tied to the phase of   *)
(* the request that wrote it; the rate limit is tied to what was committed *)
(* when its request came in, and those sets grow along every chain of      *)
(* requests that did not overlap.                                          *)
(***************************************************************************)
EXTENDS AiRunAcceptance, FiniteSetTheorems, WellFoundedInduction, TLAPS

\* A row that is not committed is held by a request about to commit it; one that is
\* has a request past its commit, and a job, a worker or a loss once that request is
\* over.
RowsFollowTheirRequests ==
    /\ \A r \in PostRequests : r \in written <=> phase[r] = "committing"
    /\ \A r \in committed : phase[r] \in {"dispatching", "failing", "answered", "dead"}
    /\ \A r \in PostRequests : phase[r] = "dispatching" => r \in committed
    /\ \A r \in committed :
          phase[r] \in {"answered", "dead"} => r \in jobs \cup claimed \cup lost

\* Only a request that came in has an input, and only one that is answered an answer.
RequestsAreTold ==
    \A r \in PostRequests :
        /\ phase[r] # "unsent" => input[r] \in Inputs
        /\ phase[r] # "answered" => answer[r] = Nothing

\* What was there when a request came in is there still, was accepted no later, and
\* had everything before it that was there when it came in itself.
EarlierIsOrdered ==
    \A q \in PostRequests :
        /\ acceptedAt[q] <= clock
        /\ earlier[q] \subseteq committed
        /\ q \notin earlier[q]
        /\ \A p \in earlier[q] :
              acceptedAt[p] <= acceptedAt[q] /\ earlier[p] \subseteq earlier[q]

\* The earlier runs the rate limit counts for a request, at the least.
EarlierInWindow(q) ==
    {p \in earlier[q] :
        /\ input[p].client = input[q].client
        /\ acceptedAt[p] <= acceptedAt[q]
        /\ acceptedAt[q] <= acceptedAt[p] + WindowLength}

\* A request that is past the rate limit and may yet write, or has written, a row
\* found fewer earlier runs in its window than the limit.
LimitWasKept ==
    \A q \in PostRequests :
        q \in committed \/ phase[q] \in {"finding", "reaching", "inserting", "committing"}
            => Cardinality(EarlierInWindow(q)) < MaximumAcceptedCount

AcceptanceInvariant ==
    /\ AcceptanceTypeOK
    /\ RowsFollowTheirRequests
    /\ RequestsAreTold
    /\ OneRunPerKey
    /\ AnswerNamesItsRun
    /\ EarlierIsOrdered
    /\ LimitWasKept

--------------------------------------------------------------------------------
(* What a step that takes no request in leaves alone                        *)

PastLimit == {"finding", "reaching", "inserting", "committing"}

\* The limit stays kept as long as no request passes it.
LEMMA LimitStaysKept ==
  ASSUME AcceptanceTypeOK, LimitWasKept, UNCHANGED <<input, acceptedAt, earlier>>,
         \A q \in PostRequests :
            q \in committed' \/ phase'[q] \in PastLimit
               => q \in committed \/ phase[q] \in PastLimit
  PROVE  LimitWasKept'
<1> SUFFICES ASSUME NEW q \in PostRequests, q \in committed' \/ phase'[q] \in PastLimit
             PROVE  Cardinality(EarlierInWindow(q)') < MaximumAcceptedCount
  BY DEF LimitWasKept, PastLimit
<1>1. EarlierInWindow(q)' = EarlierInWindow(q)
  BY DEF EarlierInWindow
<1> QED
  BY <1>1 DEF LimitWasKept, PastLimit

\* What came before a request stays before it while the clock and the table only grow.
LEMMA EarlierStaysOrdered ==
  ASSUME AcceptanceTypeOK, EarlierIsOrdered, UNCHANGED <<acceptedAt, earlier>>,
         clock' \in Nat, clock <= clock', committed \subseteq committed'
  PROVE  EarlierIsOrdered'
  BY DEF AcceptanceTypeOK, EarlierIsOrdered

\* An answer stays true of the table while rows are only added to it.
LEMMA AnswersStayTrue ==
  ASSUME AnswerNamesItsRun, UNCHANGED <<input, answer>>, committed \subseteq committed'
  PROVE  AnswerNamesItsRun'
  BY DEF AnswerNamesItsRun

\* A request that is refused is answered no run.
LEMMA RefusalIsNoRun == \A result \in Refusals : result \notin PostRequests
  BY AcceptanceAssumption

\* A request that is over without a row of its own keeps every part of the invariant.
LEMMA AnswerStep ==
  ASSUME AcceptanceInvariant, NEW r \in PostRequests,
         NEW from \in {"limiting", "finding", "reaching", "inserting"},
         NEW result \in PostRequests \cup Refusals,
         Answer(r, from, result),
         result \in PostRequests => result \in committed /\ input[result] = input[r],
         UNCHANGED <<written, committed, jobs, claimed, lost>>
  PROVE  AcceptanceInvariant'
<1> USE DEF AcceptanceInvariant, Answer
<1>1. AcceptanceTypeOK'
  BY DEF AcceptanceTypeOK, PostPhases, InFlightPhases
<1>2. RowsFollowTheirRequests'
  BY DEF AcceptanceTypeOK, RowsFollowTheirRequests
<1>3. RequestsAreTold' /\ OneRunPerKey' /\ AnswerNamesItsRun'
  BY DEF AcceptanceTypeOK, RequestsAreTold, OneRunPerKey, SharePair, AnswerNamesItsRun
<1>4. EarlierIsOrdered'
  BY EarlierStaysOrdered, AcceptanceAssumption DEF AcceptanceTypeOK
<1>5. LimitWasKept'
  BY LimitStaysKept DEF AcceptanceTypeOK, PastLimit
<1> QED
  BY <1>1, <1>2, <1>3, <1>4, <1>5

\* So does one that goes on to its row.
LEMMA AdvanceStep ==
  ASSUME AcceptanceInvariant, NEW r \in PostRequests,
         RequestStep(r, "finding", "reaching") \/ RequestStep(r, "reaching", "inserting"),
         UNCHANGED <<written, committed, jobs, claimed, lost>>
  PROVE  AcceptanceInvariant'
<1> USE DEF AcceptanceInvariant, RequestStep
<1>1. AcceptanceTypeOK'
  BY DEF AcceptanceTypeOK, PostPhases, InFlightPhases
<1>2. RowsFollowTheirRequests'
  BY DEF AcceptanceTypeOK, RowsFollowTheirRequests
<1>3. RequestsAreTold' /\ OneRunPerKey' /\ AnswerNamesItsRun'
  BY DEF AcceptanceTypeOK, RequestsAreTold, OneRunPerKey, SharePair, AnswerNamesItsRun
<1>4. EarlierIsOrdered'
  BY EarlierStaysOrdered, AcceptanceAssumption DEF AcceptanceTypeOK
<1>5. LimitWasKept'
  BY LimitStaysKept DEF AcceptanceTypeOK, PastLimit
<1> QED
  BY <1>1, <1>2, <1>3, <1>4, <1>5

--------------------------------------------------------------------------------
(* The invariant                                                            *)

\* With no request begun and no row written, every part of the invariant holds.
LEMMA InitAcceptanceInvariant == AcceptanceInit => AcceptanceInvariant
<1> SUFFICES ASSUME AcceptanceInit
             PROVE  AcceptanceInvariant
  OBVIOUS
<1> USE AcceptanceAssumption DEF AcceptanceInit
<1>1. AcceptanceTypeOK
  BY DEF AcceptanceTypeOK, PostPhases, InFlightPhases
<1>2. RowsFollowTheirRequests /\ RequestsAreTold /\ OneRunPerKey
  BY DEF RowsFollowTheirRequests, RequestsAreTold, OneRunPerKey
<1>3. AnswerNamesItsRun /\ EarlierIsOrdered /\ LimitWasKept
  BY DEF AnswerNamesItsRun, EarlierIsOrdered, LimitWasKept
<1> QED
  BY <1>1, <1>2, <1>3 DEF AcceptanceInvariant

\* What comes in is judged against what is committed at that instant.
LEMMA ReceiveStep ==
  ASSUME AcceptanceInvariant, NEW r \in PostRequests, ReceiveRequest(r)
  PROVE  AcceptanceInvariant'
<1> USE DEF AcceptanceInvariant
<1>1. PICK content \in Inputs : input' = [input EXCEPT ![r] = content]
  BY DEF ReceiveRequest
<1>2. /\ phase[r] = "unsent"
      /\ phase' = [phase EXCEPT ![r] = "limiting"]
      /\ acceptedAt' = [acceptedAt EXCEPT ![r] = clock]
      /\ earlier' = [earlier EXCEPT ![r] = committed]
      /\ UNCHANGED <<clock, written, committed, jobs, claimed, lost, answer>>
  BY DEF ReceiveRequest
<1>3. r \notin committed /\ r \notin written
  BY <1>2 DEF RowsFollowTheirRequests, AcceptanceTypeOK
<1>4. AcceptanceTypeOK'
  BY <1>1, <1>2 DEF AcceptanceTypeOK, PostPhases, InFlightPhases
<1>5. RowsFollowTheirRequests'
  BY <1>2, <1>3 DEF RowsFollowTheirRequests, AcceptanceTypeOK
<1>6. RequestsAreTold'
  BY <1>1, <1>2 DEF RequestsAreTold, AcceptanceTypeOK
<1>7. OneRunPerKey'
  BY <1>1, <1>2, <1>3 DEF OneRunPerKey, SharePair, AcceptanceTypeOK
<1>8. AnswerNamesItsRun'
  <2>1. answer[r] = Nothing
    BY <1>2 DEF RequestsAreTold
  <2> QED
    BY <1>1, <1>2, <1>3, <2>1, AcceptanceAssumption
       DEF AnswerNamesItsRun, AcceptanceTypeOK
<1>9. EarlierIsOrdered'
  <2> SUFFICES ASSUME NEW q \in PostRequests
               PROVE  /\ acceptedAt'[q] <= clock'
                      /\ earlier'[q] \subseteq committed'
                      /\ q \notin earlier'[q]
                      /\ \A p \in earlier'[q] :
                            /\ acceptedAt'[p] <= acceptedAt'[q]
                            /\ earlier'[p] \subseteq earlier'[q]
    BY DEF EarlierIsOrdered
  <2>1. CASE q = r
    BY <1>2, <1>3, <2>1, AcceptanceAssumption DEF EarlierIsOrdered, AcceptanceTypeOK
  <2>2. CASE q # r
    BY <1>2, <1>3, <2>2 DEF EarlierIsOrdered, AcceptanceTypeOK
  <2> QED
    BY <2>1, <2>2
<1>10. LimitWasKept'
  <2> SUFFICES ASSUME NEW q \in PostRequests, q \in committed' \/ phase'[q] \in PastLimit
               PROVE  Cardinality(EarlierInWindow(q)') < MaximumAcceptedCount
    BY DEF LimitWasKept, PastLimit
  <2>1. q # r
    BY <1>2, <1>3 DEF AcceptanceTypeOK, PastLimit
  <2>2. r \notin earlier[q]
    BY <1>3 DEF EarlierIsOrdered
  <2>3. EarlierInWindow(q)' = EarlierInWindow(q)
    BY <1>1, <1>2, <2>1, <2>2 DEF EarlierInWindow, AcceptanceTypeOK
  <2> QED
    BY <1>2, <2>1, <2>3 DEF LimitWasKept, PastLimit, AcceptanceTypeOK
<1> QED
  BY <1>4, <1>5, <1>6, <1>7, <1>8, <1>9, <1>10

\* The limit is found kept, or the request is refused.
LEMMA RenderStep ==
  ASSUME AcceptanceInvariant, NEW r \in PostRequests, Render(r)
  PROVE  AcceptanceInvariant'
<1> USE DEF AcceptanceInvariant
<1>1. UNCHANGED <<written, committed, jobs, claimed, lost>>
  BY DEF Render
<1>2. CASE Answer(r, "limiting", "invalid") \/ Answer(r, "limiting", "limited")
  BY <1>1, <1>2, AnswerStep, RefusalIsNoRun DEF Refusals
<1>3. CASE IsWithinRateLimit(r) /\ RequestStep(r, "limiting", "finding")
  <2> USE <1>3 DEF RequestStep
  <2>1. AcceptanceTypeOK'
    BY <1>1 DEF AcceptanceTypeOK, PostPhases, InFlightPhases
  <2>2. RowsFollowTheirRequests'
    BY <1>1 DEF AcceptanceTypeOK, RowsFollowTheirRequests
  <2>3. RequestsAreTold' /\ OneRunPerKey' /\ AnswerNamesItsRun'
    BY <1>1
       DEF AcceptanceTypeOK, RequestsAreTold, OneRunPerKey, SharePair, AnswerNamesItsRun
  <2>4. EarlierIsOrdered'
    BY <1>1, EarlierStaysOrdered, AcceptanceAssumption DEF AcceptanceTypeOK
  <2>5. LimitWasKept'
    <3> SUFFICES ASSUME NEW q \in PostRequests, q \in committed' \/ phase'[q] \in PastLimit
                 PROVE  Cardinality(EarlierInWindow(q)') < MaximumAcceptedCount
      BY DEF LimitWasKept, PastLimit
    <3>1. EarlierInWindow(q)' = EarlierInWindow(q)
      BY DEF EarlierInWindow
    <3>2. CASE q = r
      <4>1. EarlierInWindow(r) \subseteq AcceptedInWindow(r)
        BY DEF EarlierInWindow, AcceptedInWindow, EarlierIsOrdered
      <4>2. IsFiniteSet(AcceptedInWindow(r))
        <5>1. AcceptedInWindow(r) \subseteq PostRequests
          BY DEF AcceptedInWindow, AcceptanceTypeOK
        <5> QED
          BY <5>1, AcceptanceAssumption, FS_Subset
      <4>3. Cardinality(EarlierInWindow(r)) <= Cardinality(AcceptedInWindow(r))
        BY <4>1, <4>2, FS_Subset
      <4>4. /\ Cardinality(EarlierInWindow(r)) \in Nat
            /\ Cardinality(AcceptedInWindow(r)) \in Nat
        BY <4>1, <4>2, FS_Subset, FS_CardinalityType
      <4> QED
        BY <3>1, <3>2, <4>3, <4>4, AcceptanceAssumption DEF IsWithinRateLimit
    <3>3. CASE q # r
      BY <1>1, <3>1, <3>3 DEF LimitWasKept, PastLimit, AcceptanceTypeOK
    <3> QED
      BY <3>2, <3>3
  <2> QED
    BY <2>1, <2>2, <2>3, <2>4, <2>5
<1> QED
  BY <1>2, <1>3 DEF Render

\* The run a key names was created by the same client, and under the same body when
\* it is answered.
LEMMA FindStep ==
  ASSUME AcceptanceInvariant, NEW r \in PostRequests, FindAiRun(r)
  PROVE  AcceptanceInvariant'
<1> USE DEF AcceptanceInvariant
<1>1. phase[r] = "finding" /\ UNCHANGED <<written, committed, jobs, claimed, lost>>
  BY DEF FindAiRun
<1>2. CASE RequestStep(r, "finding", "reaching")
  BY <1>1, <1>2, AdvanceStep
<1>3. ASSUME NEW run \in RunsOfPair(r, committed),
             Answer(r, "finding", BuildRepeatedRunResponse(r, run))
      PROVE  AcceptanceInvariant'
  <2>1. run \in committed /\ run \in PostRequests /\ SharePair(r, run)
    BY DEF RunsOfPair, AcceptanceTypeOK
  <2>2. input[run] \in Inputs /\ input[r] \in Inputs
    BY <1>1, <2>1 DEF RequestsAreTold, RowsFollowTheirRequests
  <2>3. input[run].body = input[r].body => input[run] = input[r]
    BY <2>1, <2>2 DEF SharePair, Inputs
  <2>4. CASE input[run].body = input[r].body
    BY <1>1, <1>3, <2>1, <2>3, <2>4, AnswerStep DEF BuildRepeatedRunResponse
  <2>5. CASE input[run].body # input[r].body
    BY <1>1, <1>3, <2>5, AnswerStep, RefusalIsNoRun
       DEF BuildRepeatedRunResponse, Refusals
  <2> QED
    BY <2>4, <2>5
<1> QED
  BY <1>2, <1>3 DEF FindAiRun

\* A row is inserted only where neither another transaction nor a commit has one of
\* its pair.
LEMMA SaveStep ==
  ASSUME AcceptanceInvariant, NEW r \in PostRequests, SaveAiRun(r)
  PROVE  AcceptanceInvariant'
<1> USE DEF AcceptanceInvariant
<1>1. UNCHANGED <<committed, jobs, claimed, lost>> /\ RunsOfPair(r, written) = {}
  BY DEF SaveAiRun
<1>2. CASE Answer(r, "inserting", "error") /\ UNCHANGED written
  BY <1>1, <1>2, AnswerStep, RefusalIsNoRun DEF Refusals
<1>3. CASE /\ RunsOfPair(r, committed) = {}
           /\ RequestStep(r, "inserting", "committing")
           /\ written' = written \cup {r}
  <2> USE <1>3 DEF RequestStep
  <2>1. AcceptanceTypeOK'
    BY <1>1 DEF AcceptanceTypeOK, PostPhases, InFlightPhases
  <2>2. RowsFollowTheirRequests'
    BY <1>1 DEF AcceptanceTypeOK, RowsFollowTheirRequests
  <2>3. RequestsAreTold' /\ AnswerNamesItsRun'
    BY <1>1 DEF AcceptanceTypeOK, RequestsAreTold, AnswerNamesItsRun
  <2>4. OneRunPerKey'
    BY <1>1 DEF RunsOfPair, SharePair, OneRunPerKey
  <2>5. EarlierIsOrdered'
    BY <1>1, EarlierStaysOrdered, AcceptanceAssumption DEF AcceptanceTypeOK
  <2>6. LimitWasKept'
    BY <1>1, LimitStaysKept DEF AcceptanceTypeOK, PastLimit
  <2> QED
    BY <2>1, <2>2, <2>3, <2>4, <2>5, <2>6
<1> QED
  BY <1>2, <1>3 DEF SaveAiRun

\* A COMMIT turns the row it holds into one that is there, or into none.
LEMMA CommitStep ==
  ASSUME AcceptanceInvariant, NEW r \in PostRequests, CommitAiRun(r)
  PROVE  AcceptanceInvariant'
<1> USE DEF AcceptanceInvariant
<1>1. PICK to \in {"dispatching", "failing"} :
         /\ RequestStep(r, "committing", to)
         /\ committed' \in {committed, committed \cup {r}}
         /\ to = "dispatching" => committed' = committed \cup {r}
  BY DEF CommitAiRun
<1>2. /\ phase[r] = "committing"
      /\ written' = written \ {r}
      /\ r \in written
      /\ UNCHANGED <<jobs, claimed, lost>>
  BY DEF CommitAiRun, RowsFollowTheirRequests
<1> USE <1>1, <1>2 DEF RequestStep
<1>3. AcceptanceTypeOK'
  BY DEF AcceptanceTypeOK, PostPhases, InFlightPhases
<1>4. RowsFollowTheirRequests'
  BY DEF AcceptanceTypeOK, RowsFollowTheirRequests
<1>5. RequestsAreTold' /\ AnswerNamesItsRun'
  BY DEF AcceptanceTypeOK, RequestsAreTold, AnswerNamesItsRun
<1>6. OneRunPerKey'
  BY DEF SharePair, OneRunPerKey
<1>7. EarlierIsOrdered'
  BY EarlierStaysOrdered, AcceptanceAssumption DEF AcceptanceTypeOK
<1>8. LimitWasKept'
  BY LimitStaysKept DEF AcceptanceTypeOK, PastLimit
<1> QED
  BY <1>3, <1>4, <1>5, <1>6, <1>7, <1>8

\* The hook of the commit ends the request with a job sent or lost.
LEMMA DispatchStep ==
  ASSUME AcceptanceInvariant, NEW r \in PostRequests, DispatchAiRunJob(r)
  PROVE  AcceptanceInvariant'
<1> USE DEF AcceptanceInvariant
<1>1. PICK result \in {r, "error"} :
         /\ phase[r] \in {"dispatching", "failing"}
         /\ result = r => phase[r] = "dispatching"
         /\ phase' = [phase EXCEPT ![r] = "answered"]
         /\ answer' = [answer EXCEPT ![r] = result]
         /\ UNCHANGED <<clock, input, acceptedAt, earlier>>
  BY AcceptanceAssumption DEF DispatchAiRunJob, Answer, Refusals
<1>2. /\ jobs' \in {jobs, jobs \cup {r}}
      /\ lost' \in {lost, lost \cup {r}}
      /\ r \in jobs' \cup lost'
      /\ UNCHANGED <<written, committed, claimed>>
  BY DEF DispatchAiRunJob
<1> USE <1>1, <1>2
<1>3. AcceptanceTypeOK'
  BY DEF AcceptanceTypeOK, PostPhases, Refusals
<1>4. RowsFollowTheirRequests'
  BY DEF AcceptanceTypeOK, RowsFollowTheirRequests
<1>5. RequestsAreTold' /\ OneRunPerKey'
  BY DEF AcceptanceTypeOK, RequestsAreTold, SharePair, OneRunPerKey
<1>6. AnswerNamesItsRun'
  BY RefusalIsNoRun
     DEF AcceptanceTypeOK, AnswerNamesItsRun, RowsFollowTheirRequests, Refusals
<1>7. EarlierIsOrdered'
  BY EarlierStaysOrdered, AcceptanceAssumption DEF AcceptanceTypeOK
<1>8. LimitWasKept'
  BY LimitStaysKept DEF AcceptanceTypeOK, PastLimit
<1> QED
  BY <1>3, <1>4, <1>5, <1>6, <1>7, <1>8

\* A process that dies takes its uncommitted row with it.
LEMMA CrashStep ==
  ASSUME AcceptanceInvariant, NEW r \in PostRequests, CrashProcess(r)
  PROVE  AcceptanceInvariant'
<1> USE DEF AcceptanceInvariant, CrashProcess, RequestStep
<1>1. AcceptanceTypeOK'
  BY DEF AcceptanceTypeOK, PostPhases
<1>2. RowsFollowTheirRequests'
  BY DEF AcceptanceTypeOK, RowsFollowTheirRequests, InFlightPhases
<1>3. RequestsAreTold' /\ OneRunPerKey' /\ AnswerNamesItsRun'
  BY DEF AcceptanceTypeOK, RequestsAreTold, SharePair, OneRunPerKey, AnswerNamesItsRun,
         InFlightPhases
<1>4. EarlierIsOrdered'
  BY EarlierStaysOrdered, AcceptanceAssumption DEF AcceptanceTypeOK
<1>5. LimitWasKept'
  BY LimitStaysKept DEF AcceptanceTypeOK, PastLimit
<1> QED
  BY <1>1, <1>2, <1>3, <1>4, <1>5

\* Neither the clock nor a worker touches a row.
LEMMA OutsideStep ==
  ASSUME AcceptanceInvariant, ElapseTime \/ \E r \in PostRequests : LoadAiRun(r)
  PROVE  AcceptanceInvariant'
<1> USE DEF AcceptanceInvariant, requestVars
<1>1. CASE ElapseTime
  <2> USE <1>1 DEF ElapseTime
  <2>1. AcceptanceTypeOK' /\ RowsFollowTheirRequests' /\ RequestsAreTold'
    BY AcceptanceAssumption
       DEF AcceptanceTypeOK, RowsFollowTheirRequests, RequestsAreTold
  <2>2. OneRunPerKey' /\ AnswerNamesItsRun'
    BY DEF OneRunPerKey, SharePair, AnswerNamesItsRun
  <2>3. EarlierIsOrdered'
    BY EarlierStaysOrdered, AcceptanceAssumption DEF AcceptanceTypeOK
  <2>4. LimitWasKept'
    BY LimitStaysKept
  <2> QED
    BY <2>1, <2>2, <2>3, <2>4
<1>2. ASSUME NEW r \in PostRequests, LoadAiRun(r)
      PROVE  AcceptanceInvariant'
  <2> USE <1>2 DEF LoadAiRun
  <2>1. AcceptanceTypeOK' /\ RowsFollowTheirRequests' /\ RequestsAreTold'
    BY DEF AcceptanceTypeOK, RowsFollowTheirRequests, RequestsAreTold
  <2>2. OneRunPerKey' /\ AnswerNamesItsRun'
    BY DEF OneRunPerKey, SharePair, AnswerNamesItsRun
  <2>3. EarlierIsOrdered'
    BY EarlierStaysOrdered, AcceptanceAssumption DEF AcceptanceTypeOK
  <2>4. LimitWasKept'
    BY LimitStaysKept
  <2> QED
    BY <2>1, <2>2, <2>3, <2>4
<1> QED
  BY <1>1, <1>2

\* The invariant holds in every state of the acceptance.
LEMMA AcceptanceInvariantHolds == AcceptanceSpec => []AcceptanceInvariant
<1>1. AcceptanceInvariant /\ [AcceptanceNext]_acceptanceVars => AcceptanceInvariant'
  <2> SUFFICES ASSUME AcceptanceInvariant, [AcceptanceNext]_acceptanceVars
               PROVE  AcceptanceInvariant'
    OBVIOUS
  <2>1. CASE UNCHANGED acceptanceVars
    <3>1. UNCHANGED <<clock, phase, input, acceptedAt, earlier, answer, written,
                      committed, jobs, claimed, lost>>
      BY <2>1 DEF acceptanceVars, requestVars
    <3>2. LimitWasKept'
      BY <3>1, LimitStaysKept DEF AcceptanceInvariant
    <3> QED
      BY <3>1, <3>2
         DEF AcceptanceInvariant, AcceptanceTypeOK, RowsFollowTheirRequests,
             RequestsAreTold,
             OneRunPerKey, SharePair, AnswerNamesItsRun, EarlierIsOrdered
  <2>2. ASSUME NEW r \in PostRequests, EnsureJobDispatcher(r)
        PROVE  AcceptanceInvariant'
    BY <2>2, AdvanceStep, AnswerStep, RefusalIsNoRun DEF EnsureJobDispatcher, Refusals
  <2>3. ASSUME NEW r \in PostRequests, FailQuery(r)
        PROVE  AcceptanceInvariant'
    BY <2>3, AnswerStep, RefusalIsNoRun DEF FailQuery, Refusals
  <2> QED
    BY <2>1, <2>2, <2>3, ReceiveStep, RenderStep, FindStep, SaveStep, CommitStep,
       DispatchStep, CrashStep, OutsideStep
       DEF AcceptanceNext, RenderRequest
<1> QED
  BY <1>1, InitAcceptanceInvariant, PTL DEF AcceptanceSpec

--------------------------------------------------------------------------------
(* What follows                                                             *)

\* Every variable of the requests and their rows keeps its type.
THEOREM AcceptanceTypeCorrect == AcceptanceSpec => []AcceptanceTypeOK
  BY AcceptanceInvariantHolds, PTL DEF AcceptanceInvariant

\* The unique index, and no lookup before it, keeps a client's key to one run, for
\* any number of repeats at once (AiRunAcceptor.saveAiRun under the index of
\* migration 000004).
THEOREM KeyHasOneRun == AcceptanceSpec => []OneRunPerKey
  BY AcceptanceInvariantHolds, PTL DEF AcceptanceInvariant

\* A client is answered no run but its own, created under the key and body it sent
\* (BaseAiRunPostRenderer.buildRepeatedRunResponse).
THEOREM AnswerIsItsOwnRun == AcceptanceSpec => []AnswerNamesItsRun
  BY AcceptanceInvariantHolds, PTL DEF AcceptanceInvariant

\* A run some request was answered has a job or a worker, or the queue or a dead
\* process lost it, once no request is under way (AiRunJobDispatchRegistrar).
THEOREM AnsweredRunIsWorkedOn == AcceptanceSpec => []AcceptedRunReachesAWorker
<1>1. AcceptanceInvariant => AcceptedRunReachesAWorker
  BY DEF AcceptanceInvariant, AcceptedRunReachesAWorker, AnswerNamesItsRun,
         NoneInFlight,
         RowsFollowTheirRequests, InFlightPhases, AcceptanceTypeOK
<1> QED
  BY <1>1, AcceptanceInvariantHolds, PTL

\* Among runs of which no two overlapped, one came in when all the others were there.
LEMMA LastOfAChain ==
  ASSUME AcceptanceInvariant, NEW runs \in SUBSET committed, runs # {},
         \A p, q \in runs : p # q => ~Overlap(p, q)
  PROVE  \E q \in runs : runs \ {q} \subseteq earlier[q]
<1> DEFINE Later(q) == PostRequests \ earlier[q]
           Laters == {Later(q) : q \in runs}
<1>1. Laters \subseteq FiniteSubsetsOf(PostRequests) /\ Laters # {}
  <2>1. \A q \in runs : Later(q) \in FiniteSubsetsOf(PostRequests)
    BY AcceptanceAssumption, FS_Difference DEF FiniteSubsetsOf
  <2> QED
    BY <2>1
<1>2. PICK x \in Laters : \A y \in Laters : <<y, x>> \notin StrictSubsetOrdering(PostRequests)
  <2> HIDE DEF Laters
  <2> QED
    BY <1>1, FS_StrictSubsetOrderingWellFounded, WFMin
<1>3. PICK q \in runs : x = Later(q)
  BY <1>2
<1>4. ASSUME NEW p \in runs, p # q
      PROVE  p \in earlier[q]
  <2>1. p \in PostRequests /\ q \in PostRequests
    BY DEF AcceptanceInvariant, AcceptanceTypeOK
  <2>2. CASE q \in earlier[p]
    <3>1. earlier[q] \subseteq earlier[p] /\ q \notin earlier[q]
      BY <2>1, <2>2 DEF AcceptanceInvariant, EarlierIsOrdered
    <3>2. Later(p) \subseteq Later(q) /\ Later(p) # Later(q)
      BY <2>1, <2>2, <3>1
    <3>3. <<Later(p), x>> \in StrictSubsetOrdering(PostRequests)
      BY <1>1, <1>3, <3>2 DEF StrictSubsetOrdering, FiniteSubsetsOf
    <3> QED
      BY <1>2, <3>3
  <2>3. CASE q \notin earlier[p]
    BY <1>4, <2>3 DEF Overlap
  <2> QED
    BY <2>2, <2>3
<1> QED
  BY <1>4

\* The limit is exceeded in no window but by requests under way together
\* (AiRunRateLimitInspector counts long before the insert, and nothing locks between).
THEOREM OnlyOverlapOvershoots == AcceptanceSpec => []OvershootNeedsOverlap
<1>1. AcceptanceInvariant => OvershootNeedsOverlap
  <2> SUFFICES ASSUME AcceptanceInvariant,
                      NEW runs \in SUBSET committed,
                      Cardinality(runs) = MaximumAcceptedCount + 1,
                      ShareWindow(runs),
                      \A p, q \in runs : p # q => ~Overlap(p, q)
               PROVE  FALSE
    BY DEF OvershootNeedsOverlap
  <2>1. IsFiniteSet(runs) /\ runs \subseteq PostRequests
    BY AcceptanceAssumption, FS_Subset DEF AcceptanceInvariant, AcceptanceTypeOK
  <2>2. runs # {}
    BY AcceptanceAssumption, FS_EmptySet
  <2>3. PICK q \in runs : runs \ {q} \subseteq earlier[q]
    BY <2>2, LastOfAChain
  <2>4. runs \ {q} \subseteq EarlierInWindow(q)
    BY <2>1, <2>3
       DEF EarlierInWindow, ShareWindow, AcceptanceInvariant, EarlierIsOrdered
  <2>5. IsFiniteSet(EarlierInWindow(q))
    <3>1. EarlierInWindow(q) \subseteq PostRequests
      BY <2>1 DEF EarlierInWindow, AcceptanceInvariant, AcceptanceTypeOK
    <3> QED
      BY <3>1, AcceptanceAssumption, FS_Subset
  <2>6. Cardinality(runs \ {q}) = MaximumAcceptedCount
    <3>1. Cardinality(runs \ {q}) = Cardinality(runs) - 1
      BY <2>1, FS_RemoveElement
    <3> QED
      BY <3>1, AcceptanceAssumption
  <2>7. MaximumAcceptedCount <= Cardinality(EarlierInWindow(q))
    BY <2>4, <2>5, <2>6, FS_Subset
  <2>8. Cardinality(EarlierInWindow(q)) \in Nat
    BY <2>5, FS_CardinalityType
  <2>9. Cardinality(EarlierInWindow(q)) < MaximumAcceptedCount
    BY <2>1 DEF AcceptanceInvariant, LimitWasKept
  <2> QED
    BY <2>7, <2>8, <2>9, AcceptanceAssumption
<1> QED
  BY <1>1, AcceptanceInvariantHolds, PTL

================================================================================
