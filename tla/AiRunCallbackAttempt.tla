-------------------------- MODULE AiRunCallbackAttempt --------------------------
(***************************************************************************)
(* One attempt of a terminal callback as AiRunTerminalCallbackDeliverer    *)
(* and AiRunCallbackSender make it: the run and its client are read, the   *)
(* run's URL is held against the client's prefix, the body is built and    *)
(* signed, and it is posted hop after hop, every redirect held against the *)
(* prefix that was read at first.  It implements the one attempt of        *)
(* TerminalCallbackDelivery.                                               *)
(***************************************************************************)
EXTENDS Naturals, Sequences

CONSTANTS
    Under,          \* Under[prefix]: the URLs that start with it, none if it is no URL
    CallbackUrl,    \* ai_runs.callback_url
    HopLimit,       \* DEFAULT_MAXIMUM_REDIRECT_COUNT
    Nothing         \* no row, no outcome, no location

AttemptOutcomes == {"accepted", "declined", "incomplete"}

Prefixes == DOMAIN Under

\* What an attempt keeps of the client it read.
Clients == [prefix : Prefixes, hasSecret : BOOLEAN]

ASSUME AttemptAssumption ==
    /\ HopLimit \in Nat
    /\ Nothing \notin AttemptOutcomes
    /\ Nothing \notin Clients

CallbackUrls == {CallbackUrl} \cup (UNION {Under[prefix] : prefix \in Prefixes})

\* What a location may be besides a URL: "" and what resolves to none.
NamelessLocations == {Nothing, "blank", "unresolvable"}

HopAnswers ==
    [status : {"accepted", "declined"}, location : {Nothing}]
        \cup [status : {"redirected"}, location : CallbackUrls \cup NamelessLocations]

\* What the tables hold for the callback of the run.
Targets ==
    [hasRun : BOOLEAN, hasClient : BOOLEAN, prefix : Prefixes, hasSecret : BOOLEAN,
     isReadable : BOOLEAN]

VARIABLES
    target,         \* the rows as they are now
    client,         \* the client as the attempt read it
    step,           \* where the attempt stands
    posted,         \* the URLs the body was posted to
    heardBack,      \* heardBack[i]: what hop i answered
    unread,         \* the hops whose response is neither read nor canceled
    hasExpired,     \* the one time limit of all the hops is up
    attemptOutcome, \* what the attempt came to
    delivery        \* the status of its ai_run_callback_deliveries row

chainVars == <<posted, heardBack, unread, hasExpired>>
attemptVariables == <<target, client, step, chainVars, attemptOutcome, delivery>>

AttemptStages ==
    {"off", "finding", "identifying", "building", "posting", "following", "abandoning",
     "unwinding", "recording", "concluding", "refused", "completed", "failed"}

AttemptTypeOK ==
    /\ target \in Targets
    /\ client \in Clients \cup {Nothing}
    /\ step \in AttemptStages
    /\ posted \in UNION {[1..n -> CallbackUrls] : n \in 0..HopLimit + 1}
    /\ heardBack \in UNION {[1..n -> HopAnswers] : n \in 0..Len(posted)}
    /\ unread \subseteq DOMAIN heardBack
    /\ hasExpired \in BOOLEAN
    /\ attemptOutcome \in AttemptOutcomes \cup {Nothing}
    /\ delivery \in AttemptOutcomes \cup {Nothing}

AttemptInit ==
    /\ target \in Targets
    /\ client = Nothing
    /\ step = "off"
    /\ posted = <<>>
    /\ heardBack = <<>>
    /\ unread = {}
    /\ hasExpired = FALSE
    /\ attemptOutcome = Nothing
    /\ delivery = Nothing

Pass(from, to) ==
    /\ step = from
    /\ step' = to

\* An operator registers another prefix or secret for the client, or the run's
\* answer starts or stops being readable.
ChangeTarget ==
    /\ \/ \E prefix \in Prefixes \ {target.prefix} :
             target' = [target EXCEPT !.prefix = prefix]
       \/ target' = [target EXCEPT !.hasSecret = ~@]
       \/ target' = [target EXCEPT !.isReadable = ~@]
    /\ UNCHANGED <<client, step, chainVars, attemptOutcome, delivery>>

--------------------------------------------------------------------------------
(* Before anything is posted                                                *)

\* The body of the job and its number are the queue's own, and hold.
BeginDelivery ==
    /\ Pass("off", "finding")
    /\ UNCHANGED <<target, client, chainVars, attemptOutcome, delivery>>

\* refuseTerminalCallback: nothing is posted, and no row is left.
RefuseUnless(holds, from, to) == Pass(from, IF holds THEN to ELSE "refused")

FindAiRun ==
    /\ RefuseUnless(target.hasRun, "finding", "identifying")
    /\ UNCHANGED <<target, client, chainVars, attemptOutcome, delivery>>

IsDeliverable(url, prefix) == url \in Under[prefix]

\* What is read of the client here is used to the end of the attempt.
FindSecretBearingApiClient ==
    /\ RefuseUnless(target.hasClient /\ IsDeliverable(CallbackUrl, target.prefix),
                    "identifying", "building")
    /\ client' = IF target.hasClient
                 THEN [prefix |-> target.prefix, hasSecret |-> target.hasSecret]
                 ELSE Nothing
    /\ UNCHANGED <<target, chainVars, attemptOutcome, delivery>>

\* A secret that does not decrypt, or is no text, keys no signature.
CanSign == client.hasSecret

\* The body is what a reading of the run answers now, and is signed as it is.
BuildAndSign ==
    /\ RefuseUnless(target.isReadable /\ CanSign, "building", "posting")
    /\ posted' = IF target.isReadable /\ CanSign THEN <<CallbackUrl>> ELSE posted
    /\ UNCHANGED <<target, client, heardBack, unread, hasExpired, attemptOutcome, delivery>>

--------------------------------------------------------------------------------
(* The hops                                                                 *)

\* AbortSignal.timeout, for the whole chain; what is still unread goes with it.
ExpireRequest ==
    /\ step \in {"posting", "following", "abandoning", "unwinding"}
    /\ ~hasExpired
    /\ hasExpired' = TRUE
    /\ unread' = {}
    /\ UNCHANGED <<target, client, step, posted, heardBack, attemptOutcome, delivery>>

\* A connection that is refused or lost, or the time limit.
FailPost ==
    /\ Pass("posting", "unwinding")
    /\ attemptOutcome' = "incomplete"
    /\ UNCHANGED <<target, client, chainVars, delivery>>

\* A location that is absent, blank or resolves to no URL names nowhere.
RedirectedUrl(response) ==
    IF response.status = "redirected" /\ response.location \in CallbackUrls
    THEN response.location
    ELSE Nothing

\* Faulty forms: a hop is held against what the client has registered by now; the
\* hops are not counted.
MayFollowHop_AsNow(url) ==
    url # Nothing /\ Len(posted) <= HopLimit /\ IsDeliverable(url, target.prefix)

MayFollowHop_Uncounted(url) ==
    url # Nothing /\ Len(posted) <= HopLimit + 1 /\ IsDeliverable(url, client.prefix)

MayFollowHop(url) ==
    /\ url # Nothing
    /\ Len(posted) <= HopLimit
    /\ IsDeliverable(url, client.prefix)

\* A redirect that is not followed is the answer it was.
StatusOf(response) == IF response.status = "accepted" THEN "accepted" ELSE "declined"

AnswerHop ==
    /\ step = "posting"
    /\ ~hasExpired
    /\ \E response \in HopAnswers :
          /\ heardBack' = Append(heardBack, response)
          /\ IF MayFollowHop(RedirectedUrl(response))
             THEN step' = "following" /\ UNCHANGED attemptOutcome
             ELSE step' = "abandoning" /\ attemptOutcome' = StatusOf(response)
    /\ unread' = unread \cup {Len(posted)}
    /\ UNCHANGED <<target, client, posted, hasExpired, delivery>>

\* The response is let go, and then the next hop is posted; a request under a
\* signal that is up is not begun.
FollowHop ==
    /\ step = "following"
    /\ unread' = unread \ {Len(posted)}
    /\ IF hasExpired
       THEN /\ step' = "unwinding"
            /\ attemptOutcome' = "incomplete"
            /\ UNCHANGED posted
       ELSE /\ step' = "posting"
            /\ posted' = Append(posted, RedirectedUrl(heardBack[Len(posted)]))
            /\ UNCHANGED attemptOutcome
    /\ UNCHANGED <<target, client, heardBack, hasExpired, delivery>>

AbandonResponse ==
    /\ Pass("abandoning", "unwinding")
    /\ unread' = unread \ {Len(posted)}
    /\ UNCHANGED <<target, client, posted, heardBack, hasExpired, attemptOutcome, delivery>>

\* The finally of every hop that was answered.
UnwindHops ==
    /\ Pass("unwinding", "recording")
    /\ unread' = unread \ DOMAIN heardBack
    /\ UNCHANGED <<target, client, posted, heardBack, hasExpired, attemptOutcome, delivery>>

--------------------------------------------------------------------------------
(* The record                                                               *)

SaveDelivery ==
    /\ Pass("recording", "concluding")
    /\ delivery' = attemptOutcome
    /\ UNCHANGED <<target, client, chainVars, attemptOutcome>>

\* What did not land is thrown, and nothing else is.
ConcludeDelivery ==
    /\ Pass("concluding", IF attemptOutcome = "accepted" THEN "completed" ELSE "failed")
    /\ UNCHANGED <<target, client, chainVars, attemptOutcome, delivery>>

FailDeliveryQuery ==
    /\ step \in {"finding", "identifying", "building", "recording"}
    /\ step' = "failed"
    /\ UNCHANGED <<target, client, chainVars, attemptOutcome, delivery>>

AttemptNext ==
    \/ ChangeTarget
    \/ BeginDelivery
    \/ FindAiRun
    \/ FindSecretBearingApiClient
    \/ BuildAndSign
    \/ ExpireRequest
    \/ FailPost
    \/ AnswerHop
    \/ FollowHop
    \/ AbandonResponse
    \/ UnwindHops
    \/ SaveDelivery
    \/ ConcludeDelivery
    \/ FailDeliveryQuery

AttemptSpec == AttemptInit /\ [][AttemptNext]_attemptVariables

--------------------------------------------------------------------------------
(* Properties                                                               *)

\* The signed body goes nowhere but to the run's URL and to URLs the hop before
\* named, all under the prefix the client had when this attempt read it, whatever
\* is registered meanwhile; and while one hop is under way, and when the attempt is
\* on record, no response of another is held
\* (AiRunTerminalCallbackDeliverer.attemptTerminalCallback hands its inspector to
\* AiRunCallbackSender.answerAiRunCallbackHop).
CallbackStaysWithItsClient ==
    /\ posted # <<>> => posted[1] = CallbackUrl
    /\ \A i \in DOMAIN posted :
          /\ posted[i] \in Under[client.prefix]
          /\ i > 1 => heardBack[i - 1] = [status |-> "redirected", location |-> posted[i]]
    /\ step \in {"posting", "recording", "concluding", "completed", "failed"} => unread = {}

\* What the attempt would be told by its next reading: the rows before the client
\* is read, the body and the secret after.
WouldDeliver ==
    /\ step # "refused"
    /\ \/ posted # <<>>
       \/ /\ client = Nothing
          /\ target.hasRun
          /\ target.hasClient
          /\ IsDeliverable(CallbackUrl, target.prefix)
       \/ client # Nothing /\ target.isReadable /\ CanSign

JobOf ==
    CASE step = "off" -> "waiting"
      [] step \in {"refused", "completed"} -> "completed"
      [] step = "failed" -> "failed"
      [] OTHER -> "active"

PhaseOf ==
    CASE step \in {"off", "refused"} -> step
      [] step \in {"finding", "identifying", "building"} -> "judging"
      [] step \in {"posting", "following"} -> "sending"
      [] step \in {"abandoning", "unwinding", "recording"} -> "recording"
      [] step = "concluding" -> "answering"
      [] OTHER -> "ended"

HopsFollowed == IF posted = <<>> THEN 0 ELSE Len(posted) - 1

Delivery == INSTANCE TerminalCallbackDelivery WITH
    AttemptLimit <- 1,
    StallLimit <- 0,
    RedirectLimit <- HopLimit,
    None <- Nothing,
    Faults <- {"database"},
    job <- JobOf,
    attemptsStarted <- IF step = "off" THEN 0 ELSE 1,
    attemptsMade <- IF step = "failed" THEN 1 ELSE 0,
    stalledCount <- 0,
    deliverable <- WouldDeliver,
    phase <- <<PhaseOf>>,
    redirects <- <<HopsFollowed>>,
    answer <- <<attemptOutcome>>,
    row <- <<delivery>>,
    heard <- IF attemptOutcome = "accepted" THEN {1} ELSE {}

\* What the attempt does in its steps is what the job of TerminalCallbackDelivery
\* takes it for: judged once, sent over at most HopLimit redirects, recorded as it
\* was answered and then returned or thrown.
ImplementsDelivery == Delivery!Spec

================================================================================
