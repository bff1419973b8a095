------------------------------ MODULE CallbackProofs ------------------------------
(***************************************************************************)
(* What holds of the job of a terminal callback and of one attempt of it,  *)
(* for any limits, faults, prefixes and URLs, and of the check a daemon    *)
(* makes of its schedules when it boots.  The job's bookkeeping ties what  *)
(* BullMQ counts to where each attempt stands; the attempt's ties what was *)
(* posted to what its hops answered; the check's ties what was read of a   *)
(* queue to what the queue held meanwhile.                                 *)
(***************************************************************************)
EXTENDS
    TerminalCallbackDelivery, AiRunCallbackAttempt, JobScheduleRegistration, TLAPS

\* Every start of the job is one that failed, one that was taken back, or the
\* one under way; the job goes on only below both limits.
StartsAreCounted ==
    /\ job \in {"waiting", "delayed"} => attemptsStarted = attemptsMade + stalledCount
    /\ job = "active" => attemptsStarted = attemptsMade + stalledCount + 1
    /\ job \in {"waiting", "delayed", "active"} =>
          attemptsMade < AttemptLimit /\ stalledCount <= StallLimit

\* An attempt that has not started is off, and no other is.
StartedIsNotOff == \A n \in Attempts : phase[n] = "off" <=> n > attemptsStarted

\* The row of an attempt is what the client answered, and is there no sooner than
\* the attempt is recorded.
RowIsTheAnswer ==
    \A n \in Attempts :
        /\ phase[n] \in {"off", "judging", "sending", "recording", "refused"} => row[n] = None
        /\ phase[n] = "answering" => row[n] = answer[n]

\* Who was heard by the client had started.
HeardHasStarted == \A n \in heard : phase[n] # "off"

\* While no worker stalls, every attempt but the last was thrown, and so was the
\* last while the queue waits to start the next.
EarlierWereThrown ==
    stalledCount = 0 =>
        \A n \in Attempts :
            n < attemptsStarted \/ (n = attemptsStarted /\ job \in {"waiting", "delayed"})
                => phase[n] = "ended" /\ row[n] # "accepted"

DeliveryInvariant ==
    /\ TypeOK
    /\ StartsAreCounted
    /\ StartedIsNotOff
    /\ RowIsTheAnswer
    /\ HeardHasStarted
    /\ EarlierWereThrown
    /\ EndIsAccountedFor

--------------------------------------------------------------------------------
(* The invariant                                                            *)

\* A callback nobody has attempted is accounted for.
LEMMA InitDeliveryInvariant == Init => DeliveryInvariant
<1> SUFFICES ASSUME Init
             PROVE  DeliveryInvariant
  OBVIOUS
<1> USE CallbackAssumption DEF Init, Attempts
<1>1. TypeOK
  BY DEF TypeOK, JobStates, AttemptPhases
<1> QED
  BY <1>1 DEF DeliveryInvariant, StartsAreCounted, StartedIsNotOff, RowIsTheAnswer,
              HeardHasStarted, EarlierWereThrown, EndIsAccountedFor, ClientAnswers

\* A step of the queue or of the client keeps the invariant.
LEMMA QueueStep ==
  ASSUME DeliveryInvariant, RunQueue \/ StallJob \/ ChangeClient
  PROVE  DeliveryInvariant'
<1> USE CallbackAssumption DEF DeliveryInvariant, TypeOK, Attempts, JobStates,
        AttemptPhases
<1>1. CASE StartAttempt
  <2> USE <1>1 DEF StartAttempt
  <2>1. attemptsStarted + 1 \in Attempts
    BY DEF StartsAreCounted
  <2>2. TypeOK' /\ StartsAreCounted'
    BY <2>1 DEF StartsAreCounted
  <2>3. StartedIsNotOff' /\ HeardHasStarted'
    BY <2>1 DEF StartedIsNotOff, HeardHasStarted
  <2>4. RowIsTheAnswer'
    BY <2>1 DEF StartedIsNotOff, RowIsTheAnswer
  <2>5. EarlierWereThrown'
    BY <2>1 DEF EarlierWereThrown
  <2> QED
    BY <2>2, <2>3, <2>4, <2>5 DEF EndIsAccountedFor
<1>2. CASE ElapseBackoff
  BY <1>2 DEF ElapseBackoff, attemptVars, StartsAreCounted, StartedIsNotOff,
              RowIsTheAnswer, HeardHasStarted, EarlierWereThrown, EndIsAccountedFor
<1>3. CASE StallJob
  BY <1>3 DEF StallJob, attemptVars, StartsAreCounted, StartedIsNotOff,
              RowIsTheAnswer, HeardHasStarted, EarlierWereThrown, EndIsAccountedFor
<1>4. CASE ChangeClient
  BY <1>4 DEF ChangeClient, queueVars, attemptVars, StartsAreCounted, StartedIsNotOff,
              RowIsTheAnswer, HeardHasStarted, EarlierWereThrown, EndIsAccountedFor
<1> QED
  BY <1>1, <1>2, <1>3, <1>4 DEF RunQueue

\* A step of an attempt under way keeps the invariant.
LEMMA AttemptStep ==
  ASSUME DeliveryInvariant, NEW n \in Attempts,
         ExecuteJob(n) \/ FollowRedirect(n) \/ CrashWorker(n)
  PROVE  DeliveryInvariant'
<1> USE CallbackAssumption DEF DeliveryInvariant, TypeOK, Attempts, JobStates,
        AttemptPhases, queueVars, MoveTo
<1>1. CASE deliverable /\ MoveTo(n, "judging", "sending") /\ UNCHANGED queueVars
           /\ UNCHANGED <<deliverable, redirects, answer, row, heard>>
  BY <1>1 DEF StartsAreCounted, StartedIsNotOff,
              RowIsTheAnswer, HeardHasStarted, EarlierWereThrown, EndIsAccountedFor
<1>2. CASE MoveTo(n, "judging", "refused") /\ Complete(n)
           /\ UNCHANGED <<deliverable, redirects, answer, row, heard>>
  BY <1>2 DEF Complete, Holds, StartsAreCounted, StartedIsNotOff,
              RowIsTheAnswer, HeardHasStarted, EarlierWereThrown, EndIsAccountedFor
<1>3. CASE ReceiveAnswer(n)
  <2>1. PICK a \in ClientAnswers : answer' = [answer EXCEPT ![n] = a]
    BY <1>3 DEF ReceiveAnswer
  <2>2. /\ phase[n] = "sending"
        /\ phase' = [phase EXCEPT ![n] = "recording"]
        /\ heard' \in {heard, heard \cup {n}}
        /\ UNCHANGED <<job, attemptsStarted, attemptsMade, stalledCount, deliverable,
                       redirects, row>>
    BY <1>3 DEF ReceiveAnswer
  <2>3. TypeOK'
    BY <2>1, <2>2
  <2>4. StartsAreCounted' /\ StartedIsNotOff' /\ EndIsAccountedFor' /\ EarlierWereThrown'
    BY <2>2 DEF StartsAreCounted, StartedIsNotOff, EndIsAccountedFor, EarlierWereThrown
  <2>5. RowIsTheAnswer'
    BY <2>1, <2>2 DEF RowIsTheAnswer
  <2>6. HeardHasStarted'
    BY <2>2 DEF HeardHasStarted
  <2> QED
    BY <2>3, <2>4, <2>5, <2>6
<1>4. CASE SaveTerminalCallbackDelivery(n)
  BY <1>4 DEF SaveTerminalCallbackDelivery, StartsAreCounted, StartedIsNotOff, ClientAnswers,
              RowIsTheAnswer, HeardHasStarted, EarlierWereThrown, EndIsAccountedFor
<1>5. CASE MoveTo(n, "answering", "ended") /\ answer[n] = "accepted" /\ Complete(n)
           /\ UNCHANGED <<deliverable, redirects, answer, row, heard>>
  BY <1>5 DEF Complete, Holds, StartsAreCounted, StartedIsNotOff,
              RowIsTheAnswer, HeardHasStarted, EarlierWereThrown, EndIsAccountedFor
\* The attempt throws, and the client has not been recorded as accepting.
<1>6. ASSUME phase[n] \in {"answering", "judging", "recording"},
             phase' = [phase EXCEPT ![n] = "ended"],
             row[n] # "accepted",
             Fail(n),
             UNCHANGED <<deliverable, redirects, answer, row, heard>>
      PROVE  DeliveryInvariant'
  <2>1. CASE Holds(n)
    <3>1. /\ job = "active"
          /\ n = attemptsStarted
          /\ attemptsMade' = attemptsMade + 1
          /\ job' = IF attemptsMade + 1 < AttemptLimit THEN "delayed" ELSE "failed"
          /\ UNCHANGED <<attemptsStarted, stalledCount>>
      BY <1>6, <2>1 DEF Fail, Holds
    <3>2. TypeOK' /\ StartsAreCounted' /\ EndIsAccountedFor'
      BY <1>6, <3>1 DEF StartsAreCounted, EndIsAccountedFor
    <3>3. StartedIsNotOff' /\ HeardHasStarted' /\ RowIsTheAnswer'
      BY <1>6, <3>1 DEF StartedIsNotOff, HeardHasStarted, RowIsTheAnswer
    <3>4. EarlierWereThrown'
      BY <1>6, <3>1 DEF EarlierWereThrown
    <3> QED
      BY <3>2, <3>3, <3>4
  <2>2. CASE ~Holds(n)
    <3>1. UNCHANGED <<job, attemptsStarted, attemptsMade, stalledCount>>
      BY <1>6, <2>2 DEF Fail
    <3>2. TypeOK' /\ StartsAreCounted'
      BY <1>6, <3>1 DEF StartsAreCounted
    <3>3. StartedIsNotOff' /\ HeardHasStarted' /\ RowIsTheAnswer'
      BY <1>6, <3>1 DEF StartedIsNotOff, HeardHasStarted, RowIsTheAnswer
    <3>4. EarlierWereThrown' /\ EndIsAccountedFor'
      BY <1>6, <3>1 DEF EarlierWereThrown, EndIsAccountedFor
    <3> QED
      BY <3>2, <3>3, <3>4
  <2> QED
    BY <2>1, <2>2
<1>7. CASE FailQuery(n)
  <2>1. phase[n] \in {"judging", "recording"} /\ row[n] # "accepted"
    BY <1>7 DEF FailQuery, RowIsTheAnswer, ClientAnswers
  <2>2. /\ phase' = [phase EXCEPT ![n] = "ended"]
        /\ Fail(n)
        /\ UNCHANGED <<deliverable, redirects, answer, row, heard>>
    BY <1>7 DEF FailQuery
  <2> QED
    BY <1>6, <2>1, <2>2
<1>8. CASE FollowRedirect(n)
  BY <1>8 DEF FollowRedirect, StartsAreCounted, StartedIsNotOff,
              RowIsTheAnswer, HeardHasStarted, EarlierWereThrown, EndIsAccountedFor
<1>9. CASE CrashWorker(n)
  BY <1>9 DEF CrashWorker, StartsAreCounted, StartedIsNotOff,
              RowIsTheAnswer, HeardHasStarted, EarlierWereThrown, EndIsAccountedFor
<1>10. CASE ConcludeAttempt(n)
  <2>1. CASE answer[n] = "accepted"
    BY <1>5, <1>10, <2>1 DEF ConcludeAttempt
  <2>2. CASE answer[n] # "accepted"
    <3>1. phase[n] = "answering" /\ row[n] # "accepted"
      BY <1>10, <2>2 DEF ConcludeAttempt, RowIsTheAnswer
    <3>2. /\ phase' = [phase EXCEPT ![n] = "ended"]
          /\ Fail(n)
          /\ UNCHANGED <<deliverable, redirects, answer, row, heard>>
      BY <1>10, <2>2 DEF ConcludeAttempt
    <3> QED
      BY <1>6, <3>1, <3>2
  <2> QED
    BY <2>1, <2>2
<1> QED
  <2> HIDE DEF DeliveryInvariant, TypeOK, MoveTo
  <2> QED
    BY <1>1, <1>2, <1>3, <1>4, <1>7, <1>8, <1>9, <1>10 DEF ExecuteJob, JudgeTarget

\* The invariant holds in every state of the delivery.
LEMMA DeliveryInvariantHolds == Spec => []DeliveryInvariant
<1>1. DeliveryInvariant /\ [Next]_vars => DeliveryInvariant'
  <2> SUFFICES ASSUME DeliveryInvariant, [Next]_vars
               PROVE  DeliveryInvariant'
    OBVIOUS
  <2>1. CASE UNCHANGED vars
    BY <2>1 DEF vars, queueVars, attemptVars, DeliveryInvariant, TypeOK, StartsAreCounted,
                StartedIsNotOff, RowIsTheAnswer, HeardHasStarted, EarlierWereThrown,
                EndIsAccountedFor
  <2> QED
    BY <2>1, QueueStep, AttemptStep DEF Next
<1> QED
  BY <1>1, InitDeliveryInvariant, PTL DEF Spec

--------------------------------------------------------------------------------
(* What follows of the job                                                  *)

\* Every variable of the callback's job keeps its type.
THEOREM DeliveryTypeCorrect == Spec => []TypeOK
  BY DeliveryInvariantHolds, PTL DEF DeliveryInvariant

\* No attempt is lost between the worker, which throws or returns, and the queue,
\* which counts (DeliverRunCallbackJobWorker.executeJob).
THEOREM NoAttemptIsLost == Spec => []EndIsAccountedFor
  BY DeliveryInvariantHolds, PTL DEF DeliveryInvariant

\* A client that answered 2xx is not called again while no worker stalls
\* (AiRunTerminalCallbackDeliverer.shouldRetryTerminalCallback).
THEOREM AcceptedEndsTheCalls == Spec => []AcceptedIsLast
<1>1. DeliveryInvariant => AcceptedIsLast
  BY CallbackAssumption DEF DeliveryInvariant, AcceptedIsLast, EarlierWereThrown,
     StartedIsNotOff, TypeOK, Attempts
<1> QED
  BY <1>1, DeliveryInvariantHolds, PTL

\* From the moment a client's URL stops being deliverable for good, an attempt that
\* has not begun never reaches it (AiRunTerminalCallbackDeliverer judges the target in
\* every attempt).
THEOREM WithdrawnClientIsNotCalled == Spec => NoCallAfterWithdrawal
<1> DEFINE Unheard(n) == n \notin heard /\ phase[n] # "sending"
<1>1. ASSUME NEW n \in Attempts
      PROVE  Spec => [](phase[n] = "off" /\ [](~deliverable) => [](n \notin heard))
  <2>1. DeliveryInvariant /\ phase[n] = "off" => Unheard(n)
    BY DEF DeliveryInvariant, HeardHasStarted
  <2>2. DeliveryInvariant /\ Unheard(n) /\ ~deliverable /\ [Next]_vars => Unheard(n)'
    <3> SUFFICES ASSUME DeliveryInvariant, Unheard(n), ~deliverable, [Next]_vars
                 PROVE  Unheard(n)'
      OBVIOUS
    <3> USE DEF DeliveryInvariant, TypeOK
    <3> QED
      BY DEF Next, vars, queueVars, attemptVars, RunQueue, StartAttempt, ElapseBackoff,
             StallJob, ChangeClient, ExecuteJob, JudgeTarget, ReceiveAnswer,
             SaveTerminalCallbackDelivery, ConcludeAttempt, FailQuery, FollowRedirect,
             CrashWorker, MoveTo
  <2>3. Unheard(n) => n \notin heard
    OBVIOUS
  <2> HIDE DEF Unheard
  <2> QED
    BY <2>1, <2>2, <2>3, DeliveryInvariantHolds, PTL DEF Spec
<1> QED
  BY <1>1 DEF NoCallAfterWithdrawal

--------------------------------------------------------------------------------
(* One attempt                                                              *)

\* What the attempt knows by the step it stands at: the run was found, the URL was
\* held against the client's prefix, an outcome is there or is not.
StepsKnow ==
    /\ step \in {"off", "finding", "identifying"} => client = Nothing
    /\ step \in {"identifying", "building"} => target.hasRun
    /\ step = "building" => client \in Clients /\ CallbackUrl \in Under[client.prefix]
    /\ step \in {"off", "finding", "identifying", "building", "refused"} => posted = <<>>
    /\ step \in {"posting", "following", "abandoning", "unwinding", "recording", "concluding"}
          => posted # <<>>
    /\ step \in {"off", "finding", "identifying", "building", "refused", "posting", "following"}
          => attemptOutcome = Nothing
    /\ step \in {"abandoning", "unwinding", "recording", "concluding"}
          => attemptOutcome \in AttemptOutcomes
    /\ step \notin {"concluding", "completed", "failed"} => delivery = Nothing

\* Every hop but the last was answered, the last one too once it is followed or let
\* go, and no response is held beyond that.
HopsAreAnswered ==
    /\ posted = <<>> => heardBack = <<>> /\ unread = {}
    /\ posted # <<>> => Len(heardBack) \in {Len(posted) - 1, Len(posted)}
    /\ step = "posting" => Len(heardBack) = Len(posted) - 1
    /\ step \in {"following", "abandoning"} => Len(heardBack) = Len(posted)
    /\ unread \subseteq {Len(posted)}
    /\ step \notin {"following", "abandoning"} => unread = {}

\* The URL every hop goes to was judged with the prefix the attempt read.
HopsStayUnder ==
    /\ posted # <<>> => client \in Clients /\ posted[1] = CallbackUrl
    /\ \A i \in DOMAIN posted :
          /\ posted[i] \in Under[client.prefix]
          /\ i > 1 => heardBack[i - 1] = [status |-> "redirected", location |-> posted[i]]
    /\ step = "following" => MayFollowHop(RedirectedUrl(heardBack[Len(posted)]))

HopTypeOK ==
    /\ target \in Targets
    /\ client \in Clients \cup {Nothing}
    /\ step \in AttemptStages
    /\ posted \in Seq(CallbackUrls)
    /\ Len(posted) <= HopLimit + 1
    /\ heardBack \in Seq(HopAnswers)
    /\ unread \subseteq DOMAIN heardBack
    /\ hasExpired \in BOOLEAN
    /\ attemptOutcome \in AttemptOutcomes \cup {Nothing}
    /\ delivery \in AttemptOutcomes \cup {Nothing}

AttemptInvariant ==
    /\ HopTypeOK
    /\ StepsKnow
    /\ HopsAreAnswered
    /\ HopsStayUnder

\* The URL a run asks for is one of the URLs an attempt may point at.
LEMMA CallbackUrlIsOne == CallbackUrl \in CallbackUrls
  BY DEF CallbackUrls

\* An attempt that has not begun has sent no body to anybody.
LEMMA InitAttemptInvariant == AttemptInit => AttemptInvariant
<1> SUFFICES ASSUME AttemptInit
             PROVE  AttemptInvariant
  OBVIOUS
<1> USE AttemptAssumption DEF AttemptInit
<1>1. HopTypeOK
  <2>1. /\ posted \in Seq(CallbackUrls) /\ Len(posted) <= HopLimit + 1
        /\ heardBack \in Seq(HopAnswers)
    BY DEF HopTypeOK
  <2> QED
    BY <2>1 DEF HopTypeOK, AttemptStages
<1>2. StepsKnow
  BY DEF StepsKnow
<1>3. HopsAreAnswered /\ HopsStayUnder
  BY DEF HopsAreAnswered, HopsStayUnder
<1> QED
  BY <1>1, <1>2, <1>3 DEF AttemptInvariant

\* A step before anything is posted keeps the invariant, and so does one after the
\* last answer.
LEMMA StepOffTheWire ==
  ASSUME AttemptInvariant,
         \/ ChangeTarget
         \/ BeginDelivery
         \/ FindAiRun
         \/ FindSecretBearingApiClient
         \/ BuildAndSign
         \/ AbandonResponse
         \/ UnwindHops
         \/ SaveDelivery
         \/ ConcludeDelivery
         \/ FailDeliveryQuery
  PROVE  AttemptInvariant'
<1> USE AttemptAssumption DEF AttemptInvariant, HopTypeOK, AttemptStages, Pass, chainVars,
        StepsKnow, HopsAreAnswered, MayFollowHop, RedirectedUrl, HopsStayUnder
<1>1. CASE ChangeTarget
  <2>1. target' \in Targets /\ target'.hasRun = target.hasRun
    BY <1>1 DEF ChangeTarget, Targets
  <2>2. UNCHANGED <<client, step, chainVars, attemptOutcome, delivery>>
    BY <1>1 DEF ChangeTarget
  <2> QED
    BY <2>1, <2>2
<1>2. CASE BeginDelivery
  BY <1>2 DEF BeginDelivery
<1>3. CASE FindAiRun
  BY <1>3 DEF FindAiRun, RefuseUnless
<1>4. CASE FindSecretBearingApiClient
  BY <1>4 DEF FindSecretBearingApiClient, RefuseUnless, IsDeliverable, Targets, Clients
<1>5. CASE BuildAndSign
  <2>1. CASE target.isReadable /\ CanSign
    <3>1. /\ step = "building"
          /\ step' = "posting"
          /\ posted' = <<CallbackUrl>>
          /\ UNCHANGED <<target, client, heardBack, unread, hasExpired, attemptOutcome,
                         delivery>>
      BY <1>5, <2>1 DEF BuildAndSign, RefuseUnless
    <3>2. HopTypeOK'
      BY <3>1, CallbackUrlIsOne
    <3>3. StepsKnow'
      BY <3>1
    <3>4. HopsAreAnswered' /\ HopsStayUnder'
      BY <3>1
    <3> QED
      BY <3>2, <3>3, <3>4
  <2>2. CASE ~(target.isReadable /\ CanSign)
    BY <1>5, <2>2 DEF BuildAndSign, RefuseUnless
  <2> QED
    BY <2>1, <2>2
<1>6. CASE AbandonResponse
  BY <1>6 DEF AbandonResponse
<1>7. CASE UnwindHops
  BY <1>7 DEF UnwindHops
<1>8. CASE SaveDelivery
  BY <1>8 DEF SaveDelivery
<1>9. CASE ConcludeDelivery
  BY <1>9 DEF ConcludeDelivery
<1>10. CASE FailDeliveryQuery
  BY <1>10 DEF FailDeliveryQuery
<1> QED
  BY <1>1, <1>2, <1>3, <1>4, <1>5, <1>6, <1>7, <1>8, <1>9, <1>10

\* A step of the hops keeps the invariant.
LEMMA StepOnTheWire ==
  ASSUME AttemptInvariant, ExpireRequest \/ FailPost \/ AnswerHop \/ FollowHop
  PROVE  AttemptInvariant'
<1> USE AttemptAssumption DEF AttemptInvariant, HopTypeOK, AttemptStages, Pass, chainVars,
        StepsKnow, HopsAreAnswered, MayFollowHop, RedirectedUrl, HopsStayUnder
<1>1. CASE ExpireRequest
  BY <1>1 DEF ExpireRequest
<1>2. CASE FailPost
  BY <1>2 DEF FailPost, AttemptOutcomes
<1>3. CASE AnswerHop
  BY <1>3 DEF AnswerHop, StatusOf, AttemptOutcomes, HopAnswers
<1>4. CASE FollowHop
  <2>1. CASE hasExpired
    BY <1>4, <2>1 DEF FollowHop, AttemptOutcomes
  <2>2. CASE ~hasExpired
    <3> DEFINE last == heardBack[Len(posted)]
    <3>1. /\ step = "following"
          /\ step' = "posting"
          /\ posted' = Append(posted, RedirectedUrl(last))
          /\ unread' = unread \ {Len(posted)}
          /\ UNCHANGED <<target, client, heardBack, hasExpired, attemptOutcome, delivery>>
      BY <1>4, <2>2 DEF FollowHop
    <3>2. /\ RedirectedUrl(last) \in CallbackUrls
          /\ RedirectedUrl(last) \in Under[client.prefix]
          /\ last.status = "redirected" /\ last.location = RedirectedUrl(last)
          /\ Len(posted) <= HopLimit
      BY <3>1 DEF IsDeliverable
    <3>3. last = [status |-> "redirected", location |-> RedirectedUrl(last)]
      <4>1. last \in HopAnswers
        BY <3>1
      <4> QED
        BY <3>2, <4>1 DEF HopAnswers
    <3> HIDE DEF last
    <3>4. HopTypeOK' /\ StepsKnow' /\ HopsAreAnswered'
      <4> HIDE DEF RedirectedUrl
      <4> QED BY <3>1, <3>2
    <3>5. HopsStayUnder'
      <4> HIDE DEF RedirectedUrl
      <4> QED BY <3>1, <3>2, <3>3 DEF last
    <3> QED
      BY <3>4, <3>5
  <2> QED
    BY <2>1, <2>2
<1> QED
  BY <1>1, <1>2, <1>3, <1>4

\* The invariant holds in every state of the attempt.
LEMMA AttemptInvariantHolds == AttemptSpec => []AttemptInvariant
<1>1. AttemptInvariant /\ [AttemptNext]_attemptVariables => AttemptInvariant'
  <2> SUFFICES ASSUME AttemptInvariant, [AttemptNext]_attemptVariables
               PROVE  AttemptInvariant'
    OBVIOUS
  <2>1. CASE UNCHANGED attemptVariables
    BY <2>1 DEF attemptVariables, chainVars, AttemptInvariant, HopTypeOK, StepsKnow,
                HopsAreAnswered, HopsStayUnder, MayFollowHop, RedirectedUrl
  <2> QED
    BY <2>1, StepOffTheWire, StepOnTheWire DEF AttemptNext
<1> QED
  BY <1>1, InitAttemptInvariant, PTL DEF AttemptSpec

\* The signed body goes nowhere but under the prefix the client had when the attempt
\* read it, and no response outlives its hop (AiRunCallbackSender).
THEOREM BodyStaysWithItsClient == AttemptSpec => []CallbackStaysWithItsClient
<1>1. AttemptInvariant => CallbackStaysWithItsClient
  BY DEF AttemptInvariant, HopsStayUnder, HopsAreAnswered, CallbackStaysWithItsClient
<1> QED
  BY <1>1, AttemptInvariantHolds, PTL

\* Every variable of the attempt keeps its type, the chain of hops its length.
THEOREM AttemptTypeCorrect == AttemptSpec => []AttemptTypeOK
<1>1. AttemptInvariant => AttemptTypeOK
  <2> SUFFICES ASSUME AttemptInvariant
               PROVE  AttemptTypeOK
    OBVIOUS
  <2> USE AttemptAssumption DEF AttemptInvariant, HopTypeOK
  <2>1. posted \in UNION {[1..n -> CallbackUrls] : n \in 0..HopLimit + 1}
    <3>1. posted \in [1..Len(posted) -> CallbackUrls] /\ Len(posted) \in 0..HopLimit + 1
      OBVIOUS
    <3> QED
      BY <3>1
  <2>2. heardBack \in UNION {[1..n -> HopAnswers] : n \in 0..Len(posted)}
    <3>1. /\ heardBack \in [1..Len(heardBack) -> HopAnswers]
          /\ Len(heardBack) \in 0..Len(posted)
      BY DEF HopsAreAnswered
    <3> QED
      BY <3>1
  <2> QED
    BY <2>1, <2>2 DEF AttemptTypeOK
<1> QED
  BY <1>1, AttemptInvariantHolds, PTL

--------------------------------------------------------------------------------
(* The attempt implements the one attempt of the job                        *)

\* The attempt is mapped to a delivery of one attempt.
LEMMA OneAttempt == Delivery!Attempts = {1}
  BY DEF Delivery!Attempts

\* What the mapping needs of a tuple of one element.
LEMMA OneTuple == \A a, b : /\ [<<a>> EXCEPT ![1] = b] = <<b>>
                           /\ <<a>>[1] = a
                           /\ <<a>> = [n \in {1} |-> a]
  OBVIOUS

\* The mapping asks a yes or no question of every hop that has its type.
LEMMA WouldDeliverIsBoolean == /\ HopTypeOK => WouldDeliver \in BOOLEAN
                               /\ HopTypeOK' => WouldDeliver' \in BOOLEAN
  BY DEF HopTypeOK, WouldDeliver, Targets, Clients, IsDeliverable, CanSign

\* An attempt that has not begun is a delivery that has not begun.
LEMMA InitImplements == AttemptInit => Delivery!Init
<1> SUFFICES ASSUME AttemptInit
             PROVE  Delivery!Init
  OBVIOUS
<1>1. WouldDeliver \in BOOLEAN
  BY InitAttemptInvariant, WouldDeliverIsBoolean DEF AttemptInvariant
<1> QED
  BY <1>1, OneAttempt, OneTuple DEF AttemptInit, Delivery!Init, JobOf, PhaseOf, HopsFollowed

\* What a step does to what the job sees is a step of the job or nothing.
LEMMA StepImplements ==
  AttemptInvariant /\ AttemptInvariant' /\ [AttemptNext]_attemptVariables
     => [Delivery!Next]_(Delivery!vars)
<1> SUFFICES ASSUME AttemptInvariant, AttemptInvariant', [AttemptNext]_attemptVariables
             PROVE  [Delivery!Next]_(Delivery!vars)
  OBVIOUS
<1>a. WouldDeliver \in BOOLEAN /\ WouldDeliver' \in BOOLEAN
  BY WouldDeliverIsBoolean DEF AttemptInvariant
<1>b. /\ posted # <<>> => WouldDeliver = TRUE
      /\ posted' # <<>> => WouldDeliver' = TRUE
  <2>1. posted # <<>> => step # "refused"
    BY DEF AttemptInvariant, StepsKnow
  <2>2. posted' # <<>> => step' # "refused"
    BY DEF AttemptInvariant, StepsKnow
  <2> QED
    BY <2>1, <2>2 DEF WouldDeliver
<1> USE AttemptAssumption DEF AttemptInvariant, HopTypeOK, AttemptStages, AttemptOutcomes,
        StepsKnow, Pass, chainVars
<1> USE DEF Delivery!vars, Delivery!queueVars, Delivery!attemptVars, Delivery!MoveTo,
        Delivery!Holds, Delivery!Complete, Delivery!Fail
<1> DEFINE Seen == <<JobOf, PhaseOf, HopsFollowed, step = "off", step = "failed",
                     attemptOutcome, delivery>>
<1>1. CASE UNCHANGED attemptVariables
  BY <1>1 DEF attemptVariables, JobOf, PhaseOf, HopsFollowed, WouldDeliver, CanSign
<1>2. ASSUME UNCHANGED Seen
      PROVE  [Delivery!Next]_(Delivery!vars)
  <2> HIDE DEF AttemptInvariant
  <2> QED
    BY <1>a, <1>2 DEF Delivery!ChangeClient, Delivery!Next
<1>3. CASE ChangeTarget
  BY <1>2, <1>3 DEF ChangeTarget, JobOf, PhaseOf, HopsFollowed
<1>4. CASE BeginDelivery
  BY <1>4, OneTuple DEF BeginDelivery, JobOf, PhaseOf, HopsFollowed, WouldDeliver, CanSign,
     Delivery!StartAttempt, Delivery!Next, Delivery!RunQueue
<1>5. CASE FindAiRun
  <2>1. CASE target.hasRun
    BY <1>2, <1>5, <2>1 DEF FindAiRun, RefuseUnless, JobOf, PhaseOf, HopsFollowed
  <2>2. CASE ~target.hasRun
    <3>1. Delivery!JudgeTarget(1)
      BY <1>5, <2>2, OneTuple DEF FindAiRun, RefuseUnless, JobOf, PhaseOf, HopsFollowed,
         WouldDeliver, Delivery!JudgeTarget
    <3> QED
      BY <3>1, OneAttempt DEF Delivery!Next, Delivery!ExecuteJob
  <2> QED
    BY <2>1, <2>2
<1>6. CASE FindSecretBearingApiClient
  <2> DEFINE holds == target.hasClient /\ IsDeliverable(CallbackUrl, target.prefix)
  <2>1. CASE holds
    BY <1>2, <1>6, <2>1 DEF FindSecretBearingApiClient, RefuseUnless, JobOf, PhaseOf,
       HopsFollowed
  <2>2. CASE ~holds
    <3>1. Delivery!JudgeTarget(1)
      BY <1>6, <2>2, OneTuple DEF FindSecretBearingApiClient, RefuseUnless, JobOf, PhaseOf,
         HopsFollowed, WouldDeliver, Delivery!JudgeTarget
    <3> QED
      BY <3>1, OneAttempt DEF Delivery!Next, Delivery!ExecuteJob
  <2> QED
    BY <2>1, <2>2
<1>7. CASE BuildAndSign
  <2>1. Delivery!JudgeTarget(1)
    <3>1. CASE target.isReadable /\ CanSign
      <4>1. /\ JobOf = "active" /\ JobOf' = "active"
            /\ PhaseOf = "judging" /\ PhaseOf' = "sending"
            /\ HopsFollowed = 0 /\ HopsFollowed' = 0
            /\ WouldDeliver /\ WouldDeliver'
        BY <1>7, <3>1 DEF BuildAndSign, RefuseUnless, JobOf, PhaseOf, HopsFollowed,
           WouldDeliver
      <4> QED
        BY <1>7, <4>1, OneTuple DEF BuildAndSign, RefuseUnless, Delivery!JudgeTarget
    <3>2. CASE ~(target.isReadable /\ CanSign)
      BY <1>7, <3>2, OneTuple DEF BuildAndSign, RefuseUnless, JobOf, PhaseOf,
         HopsFollowed, WouldDeliver, Delivery!JudgeTarget
    <3> QED
      BY <3>1, <3>2
  <2> QED
    BY <2>1, OneAttempt DEF Delivery!Next, Delivery!ExecuteJob
<1>8. CASE ExpireRequest
  BY <1>2, <1>8 DEF ExpireRequest, JobOf, PhaseOf, HopsFollowed
<1>9. CASE FailPost
  <2>1. Delivery!ReceiveAnswer(1)
    <3>1. /\ JobOf = "active" /\ JobOf' = "active"
          /\ PhaseOf = "sending" /\ PhaseOf' = "recording"
          /\ UNCHANGED HopsFollowed
          /\ WouldDeliver' = WouldDeliver
      BY <1>9, <1>b DEF FailPost, JobOf, PhaseOf, HopsFollowed
    <3> QED
      BY <1>9, <3>1, OneTuple DEF FailPost, Delivery!ReceiveAnswer, Delivery!ClientAnswers
  <2> QED
    BY <2>1, OneAttempt DEF Delivery!Next, Delivery!ExecuteJob
<1>10. CASE AnswerHop
  <2>1. CASE step' = "following" /\ UNCHANGED attemptOutcome
    BY <1>2, <1>10, <2>1 DEF AnswerHop, JobOf, PhaseOf, HopsFollowed
  <2>2. CASE step' = "abandoning" /\ attemptOutcome' \in {"accepted", "declined"}
    <3>1. Delivery!ReceiveAnswer(1)
      <4>1. /\ JobOf = "active" /\ JobOf' = "active"
            /\ PhaseOf = "sending" /\ PhaseOf' = "recording"
            /\ UNCHANGED HopsFollowed
            /\ WouldDeliver' = WouldDeliver
        BY <1>10, <1>b, <2>2 DEF AnswerHop, JobOf, PhaseOf, HopsFollowed
      <4> QED
        BY <1>10, <2>2, <4>1, OneTuple DEF AnswerHop, Delivery!ReceiveAnswer, Delivery!ClientAnswers
    <3> QED
      BY <3>1, OneAttempt DEF Delivery!Next, Delivery!ExecuteJob
  <2> QED
    BY <1>10, <2>1, <2>2 DEF AnswerHop, StatusOf
<1>11. CASE FollowHop
  <2>1. CASE hasExpired
    <3>1. Delivery!ReceiveAnswer(1)
      <4>1. /\ JobOf = "active" /\ JobOf' = "active"
            /\ PhaseOf = "sending" /\ PhaseOf' = "recording"
            /\ UNCHANGED HopsFollowed
            /\ WouldDeliver' = WouldDeliver
        BY <1>11, <1>b, <2>1 DEF FollowHop, JobOf, PhaseOf, HopsFollowed
      <4> QED
        BY <1>11, <2>1, <4>1, OneTuple DEF FollowHop, Delivery!ReceiveAnswer, Delivery!ClientAnswers
    <3> QED
      BY <3>1, OneAttempt DEF Delivery!Next, Delivery!ExecuteJob
  <2>2. CASE ~hasExpired
    <3>1. Delivery!FollowRedirect(1)
      <4>1. /\ JobOf = "active" /\ JobOf' = "active"
            /\ PhaseOf = "sending" /\ PhaseOf' = "sending"
            /\ HopsFollowed < HopLimit /\ HopsFollowed' = HopsFollowed + 1
            /\ WouldDeliver' = WouldDeliver
        BY <1>11, <1>b, <2>2 DEF FollowHop, JobOf, PhaseOf, HopsFollowed, HopsStayUnder,
           MayFollowHop
      <4> QED
        BY <1>11, <2>2, <4>1, OneTuple DEF FollowHop, Delivery!FollowRedirect
    <3> QED
      BY <3>1, OneAttempt DEF Delivery!Next
  <2> QED
    BY <2>1, <2>2
<1>12. CASE AbandonResponse \/ UnwindHops
  BY <1>2, <1>12 DEF AbandonResponse, UnwindHops, JobOf, PhaseOf, HopsFollowed
<1>13. CASE SaveDelivery
  <2>1. Delivery!SaveTerminalCallbackDelivery(1)
    <3>1. /\ JobOf = "active" /\ JobOf' = "active"
          /\ PhaseOf = "recording" /\ PhaseOf' = "answering"
          /\ UNCHANGED HopsFollowed
          /\ WouldDeliver' = WouldDeliver
      BY <1>13, <1>b DEF SaveDelivery, JobOf, PhaseOf, HopsFollowed
    <3> QED
      BY <1>13, <3>1, OneTuple DEF SaveDelivery, Delivery!SaveTerminalCallbackDelivery
  <2> QED
    BY <2>1, OneAttempt DEF Delivery!Next, Delivery!ExecuteJob
<1>14. CASE ConcludeDelivery
  <2> DEFINE end == IF attemptOutcome = "accepted" THEN "completed" ELSE "failed"
  <2>1. /\ JobOf = "active" /\ JobOf' = end
        /\ PhaseOf = "answering" /\ PhaseOf' = "ended"
        /\ UNCHANGED HopsFollowed
        /\ WouldDeliver' = WouldDeliver
        /\ step # "off" /\ step' = end /\ step # "failed"
    BY <1>14, <1>b DEF ConcludeDelivery, JobOf, PhaseOf, HopsFollowed
  <2>2. Delivery!ConcludeAttempt(1)
    BY <1>14, <2>1, OneTuple DEF ConcludeDelivery, Delivery!ConcludeAttempt
  <2> QED
    BY <2>2, OneAttempt DEF Delivery!Next, Delivery!ExecuteJob
<1>15. CASE FailDeliveryQuery
  <2>1. /\ JobOf = "active" /\ JobOf' = "failed"
        /\ PhaseOf \in {"judging", "recording"} /\ PhaseOf' = "ended"
        /\ UNCHANGED HopsFollowed
        /\ WouldDeliver' = WouldDeliver
        /\ step \notin {"off", "failed"} /\ step' = "failed"
    BY <1>15 DEF FailDeliveryQuery, JobOf, PhaseOf, HopsFollowed, WouldDeliver, CanSign
  <2>2. Delivery!FailQuery(1)
    BY <1>15, <2>1, OneTuple DEF FailDeliveryQuery, Delivery!FailQuery
  <2> QED
    BY <2>2, OneAttempt DEF Delivery!Next, Delivery!ExecuteJob
<1> QED
  <2> HIDE DEF AttemptInvariant
  <2> QED
    BY <1>1, <1>3, <1>4, <1>5, <1>6, <1>7, <1>8, <1>9, <1>10, <1>11, <1>12, <1>13, <1>14,
       <1>15 DEF AttemptNext

\* The deliverer's steps, with what its client is told over its redirects, are the
\* one attempt the callback's job takes them for: judged once, recorded as answered
\* and then returned or thrown.
THEOREM AttemptImplementsDelivery == AttemptSpec => ImplementsDelivery
  BY InitImplements, StepImplements, AttemptInvariantHolds, PTL
     DEF AttemptSpec, ImplementsDelivery, Delivery!Spec

--------------------------------------------------------------------------------
(* The schedules at the boot of the daemon                                      *)

QueueReads ==
    [phase : {"unopened", "open", "closing", "over"}, found : SUBSET ScheduleIds,
     hasFailed : BOOLEAN]

Inspections ==
    [phase : {"booting", "inspecting", "told"}, report : {"missing", "unreadable", Untold},
     missing : SUBSET Schedulers]

RegistrationTyped ==
    /\ registered \in [Schedulers -> SUBSET ScheduleIds]
    /\ script \in [kind : {"none", "start", "stop"}, left : SUBSET Schedulers, count : Nat]
    /\ silence \in [isSilent : BOOLEAN, count : Nat]
    /\ inspection \in Inspections
    /\ queueReads \in [Schedulers -> QueueReads]
    /\ everHeld \in [always : [Schedulers -> SUBSET ScheduleIds],
                     ever : [Schedulers -> SUBSET ScheduleIds]]

\* While a boot looks, what a queue holds lies between what it always and what it ever
\* held.
ContentsAreBetween ==
    inspection.phase = "inspecting" =>
        \A s \in Schedulers :
            /\ everHeld.always[s] \subseteq registered[s]
            /\ registered[s] \subseteq everHeld.ever[s]

\* So does what was read of it, however long ago; and a queue whose reading is over
\* without the boot having been told was read.
ReadingsAreBetween ==
    inspection.phase = "inspecting" =>
        \A s \in Schedulers :
            /\ queueReads[s].phase = "over" => ~queueReads[s].hasFailed
            /\ queueReads[s].phase \in {"closing", "over"} /\ ~queueReads[s].hasFailed =>
                /\ everHeld.always[s] \subseteq queueReads[s].found
                /\ queueReads[s].found \subseteq everHeld.ever[s]

\* Nothing is read before the check begins.
NothingIsReadYet ==
    inspection.phase = "booting" => \A s \in Schedulers : queueReads[s].phase = "unopened"

RegistrationInvariant ==
    /\ RegistrationTyped
    /\ ContentsAreBetween
    /\ ReadingsAreBetween
    /\ NothingIsReadYet
    /\ ReportIsTrue

\* No check has begun, so there is nothing to be true of it yet.
LEMMA RegistrationStarts ==
    ASSUME RegistrationInit PROVE RegistrationInvariant
BY RegistrationAssumption
   DEF RegistrationInit, RegistrationInvariant, RegistrationTyped, ContentsAreBetween,
       ReadingsAreBetween, NothingIsReadYet, ReportIsTrue, QueueReads, Inspections, Unheld

\* What Redis comes to hold in the course of a check widens what it held, and what was
\* read and told before stands.
LEMMA HoldStep ==
    ASSUME RegistrationInvariant,
           NEW contents \in [Schedulers -> SUBSET ScheduleIds], Hold(contents),
           UNCHANGED <<silence, inspection, queueReads>>,
           script' \in [kind : {"none", "start", "stop"}, left : SUBSET Schedulers, count : Nat]
    PROVE  RegistrationInvariant'
<1>1. CASE inspection.phase # "inspecting"
  BY <1>1 DEF Hold, RegistrationInvariant, RegistrationTyped, ContentsAreBetween,
      ReadingsAreBetween, NothingIsReadYet, ReportIsTrue
<1>2. CASE inspection.phase = "inspecting"
  <2>1. everHeld' = [always |-> [s \in Schedulers |-> everHeld.always[s] \cap contents[s]],
                     ever |-> [s \in Schedulers |-> everHeld.ever[s] \cup contents[s]]]
        /\ registered' = contents
    BY <1>2 DEF Hold
  <2>2. RegistrationTyped'
    <3>1. everHeld' \in [always : [Schedulers -> SUBSET ScheduleIds],
                         ever : [Schedulers -> SUBSET ScheduleIds]]
      BY <2>1 DEF RegistrationInvariant, RegistrationTyped
    <3> QED
      BY <3>1, <2>1 DEF RegistrationInvariant, RegistrationTyped
  <2>3. ContentsAreBetween'
    BY <2>1 DEF ContentsAreBetween
  <2>4. ReadingsAreBetween'
    BY <1>2, <2>1 DEF RegistrationInvariant, ReadingsAreBetween
  <2> QED
    BY <1>2, <2>2, <2>3, <2>4
    DEF RegistrationInvariant, NothingIsReadYet, ReportIsTrue
<1> QED
  BY <1>1, <1>2

\* A response of the script is one queue's change, or none.
LEMMA AnswerScriptStep ==
    ASSUME RegistrationInvariant, NEW s \in Schedulers, NEW hasEffect \in BOOLEAN,
           AnswerScript(s, hasEffect)
    PROVE  RegistrationInvariant'
<1>1. script' \in [kind : {"none", "start", "stop"}, left : SUBSET Schedulers, count : Nat]
  BY DEF AnswerScript, RegistrationInvariant, RegistrationTyped
<1>2. PICK contents \in [Schedulers -> SUBSET ScheduleIds] : Hold(contents)
  <2>1. /\ registered \in [Schedulers -> SUBSET ScheduleIds]
        /\ [registered EXCEPT ![s] = @ \cup {s}] \in [Schedulers -> SUBSET ScheduleIds]
        /\ [registered EXCEPT ![s] = @ \ {s}] \in [Schedulers -> SUBSET ScheduleIds]
    BY DEF RegistrationInvariant, RegistrationTyped, ScheduleIds
  <2> QED
    BY <2>1 DEF AnswerScript
<1> QED
  BY <1>1, <1>2, HoldStep DEF AnswerScript

\* A report that is true once is true: what it is about does not change any more.
LEMMA RejectStep ==
    ASSUME RegistrationInvariant, inspection.phase # "booting", Reject, UnchangedRedis,
           queueReads' \in [Schedulers -> QueueReads]
    PROVE  RegistrationInvariant'
<1>1. inspection'.phase = "told" /\ inspection' \in Inspections
      /\ (inspection'.report = "unreadable" \/ inspection' = inspection)
  BY DEF Reject, Tell, Inspections, RegistrationInvariant, RegistrationTyped
<1>2. ReportIsTrue'
  BY <1>1, RegistrationAssumption
  DEF ReportIsTrue, RegistrationInvariant, UnchangedRedis
<1> QED
  BY <1>1, <1>2 DEF RegistrationInvariant, RegistrationTyped, ContentsAreBetween,
      ReadingsAreBetween, NothingIsReadYet, UnchangedRedis

\* A queue is opened or read: nothing is told.
LEMMA ReadStep ==
    ASSUME RegistrationInvariant, NEW s \in Schedulers, NEW hasFailed \in BOOLEAN,
           CreateScheduler(s) \/ ReadSchedulerIdsInQueue(s, hasFailed)
    PROVE  RegistrationInvariant'
<1>1. UNCHANGED inspection /\ UnchangedRedis /\ inspection.phase # "booting"
  BY DEF CreateScheduler, ReadSchedulerIdsInQueue, RegistrationInvariant, NothingIsReadYet
<1>2. queueReads' \in [Schedulers -> QueueReads]
  <2>1. queueReads[s] \in QueueReads /\ registered[s] \in SUBSET ScheduleIds
    BY DEF RegistrationInvariant, RegistrationTyped
  <2>2. CASE CreateScheduler(s)
    <3>1. [queueReads[s] EXCEPT !.phase = "open"] \in QueueReads
      BY <2>1 DEF QueueReads
    <3> QED
      BY <2>2, <3>1 DEF CreateScheduler, RegistrationInvariant, RegistrationTyped
  <2>3. CASE ReadSchedulerIdsInQueue(s, hasFailed)
    <3>1. [phase |-> "closing", found |-> IF hasFailed THEN {} ELSE registered[s],
           hasFailed |-> hasFailed] \in QueueReads
      BY <2>1 DEF QueueReads
    <3> QED
      BY <2>3, <3>1 DEF ReadSchedulerIdsInQueue, RegistrationInvariant, RegistrationTyped
  <2> QED
    BY <2>2, <2>3
<1>3. ReadingsAreBetween'
  BY <1>1 DEF CreateScheduler, ReadSchedulerIdsInQueue, RegistrationInvariant,
     RegistrationTyped, QueueReads, ReadingsAreBetween, ContentsAreBetween, UnchangedRedis
<1> QED
  BY <1>1, <1>2, <1>3 DEF RegistrationInvariant, RegistrationTyped, ContentsAreBetween,
     NothingIsReadYet, ReportIsTrue, UnchangedRedis

\* The last queue to be closed tells what none of them held when it was read.
LEMMA TeardownStep ==
    ASSUME RegistrationInvariant, NEW s \in Schedulers, NEW hasFailed \in BOOLEAN,
           TeardownScheduler(s, hasFailed)
    PROVE  RegistrationInvariant'
<1>0. inspection.phase # "booting" /\ UnchangedRedis
  BY DEF TeardownScheduler, RegistrationInvariant, NothingIsReadYet
<1>1. queueReads' \in [Schedulers -> QueueReads]
  BY DEF TeardownScheduler, RegistrationInvariant, RegistrationTyped, QueueReads
<1>2. CASE hasFailed \/ queueReads[s].hasFailed
  BY <1>0, <1>1, <1>2, RejectStep DEF TeardownScheduler
<1>3. CASE /\ ~(hasFailed \/ queueReads[s].hasFailed)
           /\ inspection.phase = "inspecting"
           /\ \A other \in Schedulers \ {s} : queueReads[other].phase = "over"
  <2> DEFINE read == UNION {queueReads[q].found : q \in Schedulers}
             missing == MissingSchedulerIds(read)
  <2>1. inspection' = [phase |-> "told",
                       report |-> IF missing = {} THEN Untold ELSE "missing",
                       missing |-> missing]
    BY <1>3 DEF TeardownScheduler, Tell
  <2>2. missing = Schedulers \ read
    BY DEF MissingSchedulerIds, DeclaredSchedulerIds
  <2>3. \A q \in Schedulers : everHeld.always[q] \subseteq queueReads[q].found
                              /\ queueReads[q].found \subseteq everHeld.ever[q]
    BY <1>3 DEF TeardownScheduler, RegistrationInvariant, ReadingsAreBetween
  <2>4. \A q \in missing : q \notin everHeld.always[q]
    BY <2>2, <2>3
  <2>5. missing = {} => \A t \in Schedulers : \E q \in Schedulers : t \in everHeld.ever[q]
    <3> SUFFICES ASSUME missing = {}, NEW t \in Schedulers
                 PROVE  \E q \in Schedulers : t \in everHeld.ever[q]
      OBVIOUS
    <3>1. t \in read
      BY <2>2
    <3>2. PICK q \in Schedulers : t \in queueReads[q].found
      BY <3>1
    <3> QED
      BY <3>2, <2>3
  <2>6. ReportIsTrue'
    <3> HIDE DEF missing
    <3> QED
      BY <2>1, <2>4, <2>5, <1>0, RegistrationAssumption DEF ReportIsTrue, UnchangedRedis
  <2>7. inspection' \in Inspections
    <3> HIDE DEF read
    <3> QED
      BY <2>1, <2>2 DEF Inspections
  <2> QED
    BY <1>0, <1>1, <2>1, <2>6, <2>7
    DEF RegistrationInvariant, RegistrationTyped, ContentsAreBetween,
        ReadingsAreBetween, NothingIsReadYet, UnchangedRedis
<1>4. CASE /\ ~(hasFailed \/ queueReads[s].hasFailed)
           /\ ~(/\ inspection.phase = "inspecting"
                /\ \A other \in Schedulers \ {s} : queueReads[other].phase = "over")
  <2>1. UNCHANGED inspection
    BY <1>4 DEF TeardownScheduler
  <2>2. ReadingsAreBetween'
    BY <1>0, <1>4, <2>1 DEF TeardownScheduler, RegistrationInvariant, RegistrationTyped,
       QueueReads, ReadingsAreBetween, UnchangedRedis
  <2> QED
    BY <1>0, <1>1, <2>1, <2>2 DEF RegistrationInvariant, RegistrationTyped,
       ContentsAreBetween, NothingIsReadYet, ReportIsTrue, UnchangedRedis
<1> QED
  BY <1>2, <1>3, <1>4

\* What ties a reading to the contents it was taken from holds at every step.
THEOREM RegistrationInvariantHolds == RegistrationSpec => []RegistrationInvariant
<1>1. RegistrationInit => RegistrationInvariant
  BY RegistrationStarts
<1>2. RegistrationInvariant /\ [RegistrationNext]_registrationVars => RegistrationInvariant'
  <2> SUFFICES ASSUME RegistrationInvariant, [RegistrationNext]_registrationVars
               PROVE  RegistrationInvariant'
    OBVIOUS
  <2>1. ASSUME NEW kind \in {"start", "stop"}, StartScript(kind)
        PROVE  RegistrationInvariant'
    BY <2>1 DEF StartScript, RegistrationInvariant, RegistrationTyped, ContentsAreBetween,
       ReadingsAreBetween, NothingIsReadYet, ReportIsTrue
  <2>2. ASSUME NEW s \in Schedulers, NEW hasEffect \in BOOLEAN, AnswerScript(s, hasEffect)
        PROVE  RegistrationInvariant'
    BY <2>2, AnswerScriptStep
  <2>3. CASE FallSilent \/ AnswerAgain
    <3>1. silence' \in [isSilent : BOOLEAN, count : Nat]
      <4>1. silence \in [isSilent : BOOLEAN, count : Nat]
        BY DEF RegistrationInvariant, RegistrationTyped
      <4>2. CASE FallSilent
        <5>1. silence.count + 1 \in Nat
          BY <4>1
        <5> QED
          BY <4>2, <5>1 DEF FallSilent
      <4>3. CASE AnswerAgain
        BY <4>1, <4>3 DEF AnswerAgain
      <4> QED
        BY <2>3, <4>2, <4>3
    <3> QED
      BY <2>3, <3>1 DEF FallSilent, AnswerAgain, RegistrationInvariant, RegistrationTyped,
         ContentsAreBetween, ReadingsAreBetween, NothingIsReadYet, ReportIsTrue
  <2>4. CASE BeginInspection
    BY <2>4 DEF BeginInspection, RegistrationInvariant, RegistrationTyped, Inspections,
       ContentsAreBetween, ReadingsAreBetween, NothingIsReadYet, ReportIsTrue
  <2>5. CASE FailToLoadSchedulerCtors
    <3>1. queueReads' \in [Schedulers -> QueueReads]
      <4>1. \A s \in Schedulers : [queueReads[s] EXCEPT !.phase = "over"] \in QueueReads
        BY DEF RegistrationInvariant, RegistrationTyped, QueueReads
      <4> QED
        BY <2>5, <4>1 DEF FailToLoadSchedulerCtors
    <3> QED
      BY <2>5, <3>1, RejectStep DEF FailToLoadSchedulerCtors, Reject
  <2>6. ASSUME NEW s \in Schedulers, InspectQueue(s) PROVE RegistrationInvariant'
    <3>1. CASE FailToCreateScheduler(s)
      <4>1. queueReads' \in [Schedulers -> QueueReads]
        BY <3>1 DEF FailToCreateScheduler, RegistrationInvariant, RegistrationTyped,
           QueueReads
      <4> QED
        BY <3>1, <4>1, RejectStep DEF FailToCreateScheduler
    <3>2. CASE CreateScheduler(s)
      BY <3>2, ReadStep
    <3>3. ASSUME NEW hasFailed \in BOOLEAN,
                 ReadSchedulerIdsInQueue(s, hasFailed) \/ TeardownScheduler(s, hasFailed)
          PROVE  RegistrationInvariant'
      BY <3>3, ReadStep, TeardownStep
    <3> QED
      BY <2>6, <3>1, <3>2, <3>3 DEF InspectQueue
  <2>7. CASE RefuseRegistrationAtDeadline
    <3>1. queueReads' \in [Schedulers -> QueueReads]
      BY <2>7 DEF RefuseRegistrationAtDeadline, RegistrationInvariant, RegistrationTyped
    <3> QED
      BY <2>7, <3>1, RejectStep DEF RefuseRegistrationAtDeadline, Reject
  <2>8. CASE UNCHANGED registrationVars
    BY <2>8 DEF registrationVars, RegistrationInvariant, RegistrationTyped,
       ContentsAreBetween, ReadingsAreBetween, NothingIsReadYet, ReportIsTrue
  <2> QED
    BY <2>1, <2>2, <2>3, <2>4, <2>5, <2>6, <2>7, <2>8 DEF RegistrationNext
<1> QED
  BY <1>1, <1>2, PTL DEF RegistrationSpec

\* The schedules, the script and the check have their types.
THEOREM RegistrationTypeCorrect == RegistrationSpec => []RegistrationTypeOK
<1>1. RegistrationInvariant => RegistrationTypeOK
  BY DEF RegistrationInvariant, RegistrationTyped, RegistrationTypeOK, QueueReads,
     Inspections
<1> QED
  BY <1>1, RegistrationInvariantHolds, PTL

\* What a boot is told of its schedules is true, for any number of schedulers, scripts
\* and silences (JobScheduleRegistrationInspector.inspectRegisteredSchedules).
THEOREM BootIsToldTheTruth == RegistrationSpec => []ReportIsTrue
<1>1. RegistrationInvariant => ReportIsTrue
  BY DEF RegistrationInvariant
<1> QED
  BY <1>1, RegistrationInvariantHolds, PTL

================================================================================
