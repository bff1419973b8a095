--------------------------- MODULE MediaFetchClient ----------------------------
(***************************************************************************)
(* One fetch of one medium from the client's storage (MediaFetchClient):   *)
(* the allow-list asked of every hop, redirects followed by hand, a body   *)
(* read a piece at a time inside two bounds, and every response that is    *)
(* not read disposed of.  One timeout covers the whole chain.              *)
(*                                                                         *)
(* A URL is what the client asks of it: its protocol and whether its host  *)
(* is listed.  Time is counted in units in which an await may go by.  The  *)
(* module is the part of a specification: AiRunMediaCollection starts the  *)
(* fetches and reads their outcomes.                                       *)
(***************************************************************************)
EXTENDS Integers

CONSTANTS
    MaximumRedirectCount,
    MaximumReadByteSize,
    MaximumReadChunkCount,
    CancelsMayRaise,    \* whether the cancel of a body may reject
    None

ASSUME FetchAssumption ==
    /\ MaximumRedirectCount \in Nat
    /\ MaximumReadByteSize \in Nat
    /\ MaximumReadChunkCount \in Nat
    /\ CancelsMayRaise \in BOOLEAN

VARIABLES
    fetch,      \* where the fetch stands
    held,       \* the hops whose body is neither read to its end nor given up
    stuck       \* those of them whose cancel was asked for and rejected

fetchVars == <<fetch, held, stuck>>

Urls == [protocol : {"http:", "https:", "other:"}, isListed : BOOLEAN]

FetchableProtocols == {"http:", "https:"}

\* What a host may answer.  A redirect whose location is missing, blank or no
\* URL has location None.
Responses ==
    [status : {"redirect"}, location : Urls \cup {None},
     declaredByteSize : {None}, hasBody : BOOLEAN]
        \cup
    [status : {"ok", "refused"}, location : {None},
     declaredByteSize : {None, MaximumReadByteSize, MaximumReadByteSize + 1},
     hasBody : BOOLEAN]

FetchPhases == {"idle", "sending", "reading", "fetched", "failed"}

FailureCodes == {"MEDIA_FETCH_FAILED", "MEDIA_UNREADABLE"}

\* The hops of a chain are numbered by the redirects left when each is sent.
Hops == 0..MaximumRedirectCount

NoFetch ==
    [phase |-> "idle", url |-> None, remainingRedirectCount |-> 0,
     allowance |-> 0, spent |-> 0, chunkCount |-> 0, readByteSize |-> 0,
     failureReasonCode |-> None]

FetchTypeOK ==
    /\ fetch.phase \in FetchPhases
    /\ fetch.url \in Urls \cup {None}
    /\ fetch.remainingRedirectCount \in Hops
    /\ fetch.allowance \in Nat
    /\ fetch.spent \in 0..fetch.allowance
    /\ fetch.chunkCount \in 0..MaximumReadChunkCount
    /\ fetch.readByteSize \in 0..MaximumReadByteSize
    /\ fetch.failureReasonCode \in FailureCodes \cup {None}
    /\ held \subseteq Hops
    /\ stuck \subseteq held

FetchInit ==
    /\ fetch = NoFetch
    /\ held = {}
    /\ stuck = {}

IsFetchableUrl(url) ==
    /\ url # None
    /\ url.protocol \in FetchableProtocols
    /\ url.isListed

DowngradesTransportSecurity(url, redirectedUrl) ==
    /\ url.protocol = "https:"
    /\ redirectedUrl.protocol # "https:"

Hop == fetch.remainingRedirectCount

FailFetch(code) ==
    fetch' = [fetch EXCEPT !.phase = "failed", !.failureReasonCode = code]

\* The body of the response at hand, given up.  A cancel that rejects is
\* swallowed, and the connection waits for the abort signal of the chain.
CancelBody(hasBody) ==
    \/ /\ held' = held \ {Hop}
       /\ UNCHANGED stuck
    \/ /\ CancelsMayRaise /\ hasBody
       /\ held' = held \cup {Hop}
       /\ stuck' = stuck \cup {Hop}

\* A response let go without a cancel.
KeepBody(hasBody) ==
    /\ held' = IF hasBody THEN held \cup {Hop} ELSE held
    /\ UNCHANGED stuck

--------------------------------------------------------------------------------
(* The operations                                                           *)

\* fetchMedium: a URL that is refused reaches no host.
StartFetch(url, allowance) ==
    LET asked == [NoFetch EXCEPT !.allowance = allowance]
    IN  /\ held' = {}
        /\ stuck' = {}
        /\ fetch' =
            IF IsFetchableUrl(url)
            THEN [asked EXCEPT !.phase = "sending", !.url = url,
                    !.remainingRedirectCount = MaximumRedirectCount]
            ELSE [asked EXCEPT !.phase = "failed", !.failureReasonCode = "MEDIA_FETCH_FAILED"]

\* The connection failed, or the timeout of the chain fired.
FailRequest ==
    /\ fetch.phase = "sending"
    /\ FailFetch("MEDIA_FETCH_FAILED")
    /\ UNCHANGED <<held, stuck>>

NamesAnotherUrl(response) ==
    response.status = "redirect" /\ response.location # None

MayFollow(response) ==
    /\ Hop > 0
    /\ ~DowngradesTransportSecurity(fetch.url, response.location)
    /\ IsFetchableUrl(response.location)

\* Faulty form: the 3xx is left where it is once its location was read.
FollowRedirect_Unread(response) ==
    /\ fetch.phase = "sending"
    /\ NamesAnotherUrl(response) /\ MayFollow(response)
    /\ KeepBody(response.hasBody)
    /\ fetch' = [fetch EXCEPT !.url = response.location,
                   !.remainingRedirectCount = Hop - 1]

FollowRedirect(response) ==
    /\ fetch.phase = "sending"
    /\ NamesAnotherUrl(response) /\ MayFollow(response)
    /\ CancelBody(response.hasBody)
    /\ fetch' = [fetch EXCEPT !.url = response.location,
                   !.remainingRedirectCount = Hop - 1]

\* A chain out of hops, a hop that would leave TLS, a hop off the list.
RefuseRedirect(response) ==
    /\ fetch.phase = "sending"
    /\ NamesAnotherUrl(response) /\ ~MayFollow(response)
    /\ CancelBody(response.hasBody)
    /\ FailFetch("MEDIA_FETCH_FAILED")

\* A status other than ok, a redirect that names nowhere among them.
RefuseStatus(response) ==
    /\ fetch.phase = "sending"
    /\ response.status # "ok" /\ ~NamesAnotherUrl(response)
    /\ CancelBody(response.hasBody)
    /\ FailFetch("MEDIA_FETCH_FAILED")

IsReadableResponseSize(response) ==
    response.declaredByteSize \in {None} \cup 0..MaximumReadByteSize

RefuseDeclaredSize(response) ==
    /\ fetch.phase = "sending"
    /\ response.status = "ok" /\ ~IsReadableResponseSize(response)
    /\ CancelBody(response.hasBody)
    /\ FailFetch("MEDIA_UNREADABLE")

BeginRead(response) ==
    /\ fetch.phase = "sending"
    /\ response.status = "ok" /\ IsReadableResponseSize(response)
    /\ KeepBody(response.hasBody)
    /\ IF response.hasBody
          THEN fetch' = [fetch EXCEPT !.phase = "reading"]
          ELSE FailFetch("MEDIA_UNREADABLE")

ReceiveResponse ==
    \E response \in Responses :
        \/ FollowRedirect(response)
        \/ RefuseRedirect(response)
        \/ RefuseStatus(response)
        \/ RefuseDeclaredSize(response)
        \/ BeginRead(response)

FitsBounds(byteSize) ==
    /\ fetch.readByteSize + byteSize <= MaximumReadByteSize
    /\ fetch.chunkCount < MaximumReadChunkCount

ReadChunk(byteSize) ==
    /\ fetch.phase = "reading"
    /\ FitsBounds(byteSize)
    /\ fetch' = [fetch EXCEPT !.readByteSize = @ + byteSize, !.chunkCount = @ + 1]
    /\ UNCHANGED <<held, stuck>>

\* Either bound is passed: the reader is canceled.
StopReading(byteSize) ==
    /\ fetch.phase = "reading"
    /\ ~FitsBounds(byteSize)
    /\ CancelBody(TRUE)
    /\ FailFetch("MEDIA_UNREADABLE")

\* The body came to its end, which releases its connection; a body of no bytes
\* is not readable.
FinishRead ==
    /\ fetch.phase = "reading"
    /\ held' = held \ {Hop}
    /\ IF fetch.readByteSize > 0
          THEN fetch' = [fetch EXCEPT !.phase = "fetched"]
          ELSE FailFetch("MEDIA_UNREADABLE")
    /\ UNCHANGED stuck

\* The body raised, or the timeout destroyed it: nothing of it is held.
FailRead ==
    /\ fetch.phase = "reading"
    /\ held' = held \ {Hop}
    /\ FailFetch("MEDIA_UNREADABLE")
    /\ UNCHANGED stuck

\* Time goes by while an answer or a piece is awaited.  The abort signal is
\* made once for the chain, so no await outlasts the allowance.
AwaitHost ==
    /\ fetch.phase \in {"sending", "reading"}
    /\ fetch.spent < fetch.allowance
    /\ fetch' = [fetch EXCEPT !.spent = @ + 1]
    /\ UNCHANGED <<held, stuck>>

FetchStep ==
    \/ FailRequest
    \/ ReceiveResponse
    \/ \E byteSize \in 0..MaximumReadByteSize :
           ReadChunk(byteSize) \/ StopReading(byteSize)
    \/ FinishRead
    \/ FailRead
    \/ AwaitHost

--------------------------------------------------------------------------------

\* A fetch that has ended holds no connection, unless the cancel of its body
\* rejected: each of the branches that turn away from a response has given up
\* its body, the hops that were followed among them.
EveryResponseIsDisposedOf ==
    fetch.phase \in {"fetched", "failed"} => held \subseteq stuck

================================================================================
