------------------------ MODULE ApiClientAuthentication ------------------------
(***************************************************************************)
(* The requests an API client signs, while operators rotate its secret.    *)
(*                                                                         *)
(* A request is judged by AppRestfulApiContext.findUser, which reads the   *)
(* client's row in two queries, and then by the filter of                  *)
(* AppRestfulApiServerEngine.  A signature is right when its secret is one *)
(* of those the row held at the second query.                              *)
(***************************************************************************)
EXTENDS ApiClientSecretRotation

CONSTANTS
    Requests,
    Forms,                      \* which of RequestForms the client may send
    AllowedDeviationSeconds,
    MaximumSecond               \* bound: the clock

\* What of a request the service can read.  A request without a body is signed
\* over the empty string; a body that no parser claims leaves nothing to verify.
RequestForms ==
    {"whole", "bodiless", "unparsed", "unnamed", "misnamed", "undated", "unsigned"}

ASSUME AuthenticationAssumption ==
    /\ Forms \subseteq RequestForms
    /\ AllowedDeviationSeconds \in Nat
    /\ MaximumSecond \in Nat

VARIABLES
    now,                \* the service's clock
    isActive,           \* the client's record is switched on
    requests

authenticationVars == <<rotationVars, now, isActive, requests>>

Seconds == 0..MaximumSecond

\* 401, 403 and 500.
Refusals == {"Unauthenticated", "Unauthorized", "Unknown"}

UnsentRequest ==
    [phase |-> "unsent", form |-> "whole", timestampSeconds |-> 0,
     secret |-> Unset, requestedAt |-> 0, isActive |-> FALSE]

RequestRows ==
    [phase : {"unsent", "sent", "named", "served"} \cup Refusals,
     form : RequestForms, timestampSeconds : Seconds,
     secret : Secrets \cup {Unset}, requestedAt : Seconds, isActive : BOOLEAN]

AuthenticationTypeOK ==
    /\ RotationTypeOK
    /\ now \in Seconds
    /\ isActive \in BOOLEAN
    /\ requests \in [Requests -> RequestRows]

AuthenticationInit ==
    /\ RotationInit
    /\ now = 0
    /\ isActive = TRUE
    /\ requests = [request \in Requests |-> UnsentRequest]

--------------------------------------------------------------------------------
(* What a request is judged by                                              *)

NamesClient(request) == request.form # "unnamed"

IsKnownClientKey(request) == request.form # "misnamed"

\* The window reaches either way, and both its ends are in it.
IsFreshRequest(request) ==
    LET deviationSeconds == request.requestedAt - request.timestampSeconds
    IN  /\ request.form # "undated"
        /\ deviationSeconds <= AllowedDeviationSeconds
        /\ -deviationSeconds <= AllowedDeviationSeconds

HasSignatureMaterial(request) == request.form \notin {"undated", "unparsed"}

IsWellFormedSignature(request) == request.form # "unsigned"

\* isAcceptableSignature, over the envelopes the second query came back with.
IsSignedRequest(request) ==
    /\ HasSignatureMaterial(request)
    /\ IsWellFormedSignature(request)
    /\ request.secret \in AcceptedSecrets

--------------------------------------------------------------------------------
(* A request                                                                *)

\* The client writes the timestamp of its own clock and signs.
SendRequest(id) ==
    /\ requests[id].phase = "unsent"
    /\ signedWith # Unset
    /\ \E form \in Forms, timestampSeconds \in Seconds :
        requests' = [requests EXCEPT ![id] =
            [UnsentRequest EXCEPT
                !.phase = "sent",
                !.form = form,
                !.timestampSeconds = timestampSeconds,
                !.secret = signedWith]]
    /\ UNCHANGED <<rotationVars, now, isActive>>

Answer(id, answer) ==
    /\ requests' = [requests EXCEPT ![id].phase = answer]
    /\ UNCHANGED <<rotationVars, now, isActive>>

\* The request arrives: its instant is taken, and the first query finds the
\* client it names.
FindApiClient(id) ==
    LET request == requests[id]
    IN  /\ request.phase = "sent"
        /\ IF NamesClient(request) /\ IsKnownClientKey(request)
           THEN /\ requests' = [requests EXCEPT ![id] =
                    [request EXCEPT
                        !.phase = "named",
                        !.requestedAt = now,
                        !.isActive = isActive]]
                /\ UNCHANGED <<rotationVars, now, isActive>>
           ELSE Answer(id, "Unauthenticated")

\* isActiveApiClient, of the row the first query found.
Filtered(request) == IF request.isActive THEN "served" ELSE "Unauthorized"

\* The second query finds the secrets, which takes the key to open.  Freshness is
\* settled before they are.
JudgeRequest(id) ==
    LET request == requests[id]
    IN  /\ request.phase = "named"
        /\ \/ ~IsFreshRequest(request) /\ Answer(id, "Unauthenticated")
           \/ IsFreshRequest(request) /\ encryptionKey = Unset /\ Answer(id, "Unknown")
           \/ /\ IsFreshRequest(request)
              /\ encryptionKey # Unset
              /\ Answer(id, IF IsSignedRequest(request) THEN Filtered(request)
                            ELSE "Unauthenticated")

\* A query of the authentication throws.
FailAuthentication(id) ==
    /\ requests[id].phase \in {"sent", "named"}
    /\ NamesClient(requests[id])
    /\ Answer(id, "Unknown")

\* By hand: no code of this repository switches a record.
SwitchApiClient ==
    /\ isActive' = ~isActive
    /\ UNCHANGED <<rotationVars, now, requests>>

PassSecond ==
    /\ now < MaximumSecond
    /\ now' = now + 1
    /\ UNCHANGED <<rotationVars, isActive, requests>>

OperateRotation ==
    /\ RotationNext
    /\ UNCHANGED <<now, isActive, requests>>

AuthenticationNext ==
    \/ OperateRotation
    \/ \E id \in Requests :
        \/ SendRequest(id)
        \/ FindApiClient(id)
        \/ JudgeRequest(id)
        \/ FailAuthentication(id)
    \/ SwitchApiClient
    \/ PassSecond

AuthenticationSpec == AuthenticationInit /\ [][AuthenticationNext]_authenticationVars

--------------------------------------------------------------------------------
(* Properties                                                               *)

\* A client that signs as it should, with a clock that is not further off than
\* the service allows, is never answered 401, before and after it changes over to
\* a secret it was given and whichever commands fail in between.  The exceptions
\* are a request that it signed before it changed over, the secret it was
\* registered with under a key the environment no longer has, a secret that was
\* lost on its way to the client, and two commands under way together: only then
\* may one of them write over the secret the other gave away, or retire the one the
\* client still signs with.
RefusalNeedsACause ==
    \A id \in Requests :
        LET request == requests[id]
        IN  (/\ request.phase = "Unauthenticated"
             /\ request.form \in {"whole", "bodiless"}
             /\ request.requestedAt - request.timestampSeconds \in
                    -AllowedDeviationSeconds..AllowedDeviationSeconds
             /\ request.secret = signedWith
             /\ request.secret # 1 \/ encryptionKey = RegistrationKey)
            => hasOverlapped \/ hasLostSecret

================================================================================
