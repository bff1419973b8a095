---------------------------- MODULE AiRunAcceptance ----------------------------
(***************************************************************************)
(* The requests that create runs (AssetMediaExtractionPostRenderer over    *)
(* BaseAiRunPostRenderer) as several API processes answer them at once:    *)
(* the rate limit counts rows, the idempotency key is looked up, the queue *)
(* is reached for, one row is inserted in a transaction, and the run's job *)
(* is dispatched by a hook of the commit.  A run is named after the        *)
(* request that wrote its row.  Requests here are authenticated; the       *)
(* processes read one clock.                                               *)
(***************************************************************************)
EXTENDS Naturals, FiniteSets

CONSTANTS
    PostRequests,           \* the requests the clients send, repeats included
    Clients,
    Keys,                   \* the idempotency keys they use
    Bodies,                 \* the digests of the bodies they sign
    MaximumAcceptedCount,   \* DEFAULT_MAXIMUM_ACCEPTED_AI_RUN_COUNT
    WindowLength,           \* DEFAULT_WINDOW_SECOND_COUNT
    Malformed,              \* the body of whatever does not pass the validator
    ClockLimit,             \* the last instant a model runs to
    Nothing,                \* nothing sent, and nothing answered yet
    AcceptanceFaults        \* which of AcceptanceFaultKinds may happen

\*   database  a query fails, maybe after its effect
\*   queue     Redis cannot be reached, maybe after it took a job
\*   crash     an API process dies
AcceptanceFaultKinds == {"database", "queue", "crash"}

\* What is answered in the place of a run: 429, 422, 409 and 500.
Refusals == {"limited", "invalid", "mismatched", "error"}

ASSUME AcceptanceAssumption ==
    /\ IsFiniteSet(PostRequests)
    /\ MaximumAcceptedCount \in Nat \ {0}
    /\ WindowLength \in Nat
    /\ ClockLimit \in Nat
    /\ AcceptanceFaults \subseteq AcceptanceFaultKinds
    /\ Nothing \notin PostRequests
    /\ (PostRequests \cup {Nothing}) \cap Refusals = {}
    /\ Malformed \notin Bodies

VARIABLES
    clock,          \* the clock of the API processes
    phase,          \* phase[r]: where the rendering of request r stands
    input,          \* input[r]: the client, key and body of request r
    acceptedAt,     \* acceptedAt[r]: context.now of request r
    earlier,        \* history: the runs that were there when request r came in
    written,        \* the runs whose row a transaction holds uncommitted
    committed,      \* the runs whose row can be read
    jobs,           \* the runs whose job waits in the queue
    claimed,        \* the runs a worker has loaded
    lost,           \* history: the runs whose job the queue did not get
    answer          \* answer[r]: the run request r was answered, or a refusal

requestVars == <<phase, input, acceptedAt, earlier, answer>>
acceptanceVars == <<clock, requestVars, written, committed, jobs, claimed, lost>>

Inputs == [client : Clients, key : Keys, body : Bodies \cup {Malformed}]

InFlightPhases == {"limiting", "finding", "reaching", "inserting", "committing",
                   "dispatching", "failing"}

PostPhases == InFlightPhases \cup {"unsent", "answered", "dead"}

AcceptanceTypeOK ==
    /\ clock \in 0..ClockLimit
    /\ phase \in [PostRequests -> PostPhases]
    /\ input \in [PostRequests -> Inputs \cup {Nothing}]
    /\ acceptedAt \in [PostRequests -> 0..ClockLimit]
    /\ earlier \in [PostRequests -> SUBSET PostRequests]
    /\ written \subseteq PostRequests
    /\ committed \subseteq PostRequests
    /\ jobs \subseteq PostRequests
    /\ claimed \subseteq PostRequests
    /\ lost \subseteq PostRequests
    /\ answer \in [PostRequests -> PostRequests \cup Refusals \cup {Nothing}]

AcceptanceInit ==
    /\ clock = 0
    /\ phase = [r \in PostRequests |-> "unsent"]
    /\ input = [r \in PostRequests |-> Nothing]
    /\ acceptedAt = [r \in PostRequests |-> 0]
    /\ earlier = [r \in PostRequests |-> {}]
    /\ written = {}
    /\ committed = {}
    /\ jobs = {}
    /\ claimed = {}
    /\ lost = {}
    /\ answer = [r \in PostRequests |-> Nothing]

\* Two requests of one client under one key.
SharePair(r, q) ==
    /\ input[r].client = input[q].client
    /\ input[r].key = input[q].key

\* The runs of the pair of r among those in a set.
RunsOfPair(r, runs) == {q \in runs : SharePair(r, q)}

RequestStep(r, from, to) ==
    /\ phase[r] = from
    /\ phase' = [phase EXCEPT ![r] = to]
    /\ UNCHANGED <<clock, input, acceptedAt, earlier, answer>>

Answer(r, from, result) ==
    /\ phase[r] = from
    /\ phase' = [phase EXCEPT ![r] = "answered"]
    /\ answer' = [answer EXCEPT ![r] = result]
    /\ UNCHANGED <<clock, input, acceptedAt, earlier>>

--------------------------------------------------------------------------------

ElapseTime ==
    /\ clock < ClockLimit
    /\ clock' = clock + 1
    /\ UNCHANGED <<requestVars, written, committed, jobs, claimed, lost>>

\* A request comes in and is given the instant everything it asks is asked at.
ReceiveRequest(r) ==
    /\ phase[r] = "unsent"
    /\ phase' = [phase EXCEPT ![r] = "limiting"]
    /\ \E content \in Inputs : input' = [input EXCEPT ![r] = content]
    /\ acceptedAt' = [acceptedAt EXCEPT ![r] = clock]
    /\ earlier' = [earlier EXCEPT ![r] = committed]
    /\ UNCHANGED <<clock, written, committed, jobs, claimed, lost, answer>>

\* findAcceptedAiRunCount: both ends of the window belong to it.
AcceptedInWindow(r) ==
    {q \in committed :
        /\ input[q].client = input[r].client
        /\ acceptedAt[q] <= acceptedAt[r]
        /\ acceptedAt[r] <= acceptedAt[q] + WindowLength}

\* Faulty form: a client that holds exactly the limit is allowed one more.
IsWithinRateLimit_OffByOne(r) ==
    Cardinality(AcceptedInWindow(r)) <= MaximumAcceptedCount

IsWithinRateLimit(r) == Cardinality(AcceptedInWindow(r)) < MaximumAcceptedCount

\* Each text a run is created with is there and fits its column.
IsValidInput(r) == input[r].body # Malformed

\* The count comes back, and the request is judged without another query.
Render(r) ==
    /\ phase[r] = "limiting"
    /\ \/ /\ IsWithinRateLimit(r)
          /\ IsValidInput(r)
          /\ RequestStep(r, "limiting", "finding")
       \/ /\ IsWithinRateLimit(r)
          /\ ~IsValidInput(r)
          /\ Answer(r, "limiting", "invalid")
       \/ ~IsWithinRateLimit(r) /\ Answer(r, "limiting", "limited")
    /\ UNCHANGED <<written, committed, jobs, claimed, lost>>

\* Faulty form: whatever body comes under a known key is a repeat.
BuildRepeatedRunResponse_IgnoresBody(r, run) == run

\* The run the key names, when the body is the one it was created under.
BuildRepeatedRunResponse(r, run) ==
    IF input[run].body = input[r].body THEN run ELSE "mismatched"

\* findAiRun, outside any transaction.
FindAiRun(r) ==
    /\ phase[r] = "finding"
    /\ \/ /\ RunsOfPair(r, committed) = {}
          /\ RequestStep(r, "finding", "reaching")
       \/ \E run \in RunsOfPair(r, committed) :
             Answer(r, "finding", BuildRepeatedRunResponse(r, run))
    /\ UNCHANGED <<written, committed, jobs, claimed, lost>>

\* The dispatcher is there, or its build fails or outlasts the deadline.
EnsureJobDispatcher(r) ==
    /\ \/ RequestStep(r, "reaching", "inserting")
       \/ "queue" \in AcceptanceFaults /\ Answer(r, "reaching", "error")
    /\ UNCHANGED <<written, committed, jobs, claimed, lost>>

\* Faulty form: no index on the pair.
SaveAiRun_WithoutIndex(r) ==
    /\ RequestStep(r, "inserting", "committing")
    /\ written' = written \cup {r}
    /\ UNCHANGED <<committed, jobs, claimed, lost>>

\* INSERT INTO ai_runs under UNIQUE (api_client_id, request_key): an insert of
\* the same pair waits for the transaction that holds it, and is refused when
\* that one commits.  The refusal is thrown and the transaction rolled back.
SaveAiRun(r) ==
    /\ phase[r] = "inserting"
    /\ RunsOfPair(r, written) = {}
    /\ \/ /\ RunsOfPair(r, committed) = {}
          /\ RequestStep(r, "inserting", "committing")
          /\ written' = written \cup {r}
       \/ /\ RunsOfPair(r, committed) # {}
          /\ Answer(r, "inserting", "error")
          /\ UNCHANGED written
    /\ UNCHANGED <<committed, jobs, claimed, lost>>

\* The COMMIT.  One that fails may have happened, and its hook runs all the same.
CommitAiRun(r) ==
    /\ phase[r] = "committing"
    /\ written' = written \ {r}
    /\ \/ RequestStep(r, "committing", "dispatching") /\ committed' = committed \cup {r}
       \/ /\ "database" \in AcceptanceFaults
          /\ RequestStep(r, "committing", "failing")
          /\ committed' \in {committed, committed \cup {r}}
    /\ UNCHANGED <<jobs, claimed, lost>>

\* Faulty form: a COMMIT that failed sends nothing.
DispatchAiRunJob_CommittedOnly(r) ==
    /\ \/ Answer(r, "dispatching", r) /\ jobs' = jobs \cup {r}
       \/ Answer(r, "failing", "error") /\ UNCHANGED jobs
    /\ UNCHANGED <<written, committed, claimed, lost>>

\* The hook of the commit: a dispatch that fails is thrown out of the commit,
\* and a COMMIT that failed is thrown whatever became of the dispatch.
DispatchAiRunJob(r) ==
    /\ \/ /\ Answer(r, "dispatching", r) \/ Answer(r, "failing", "error")
          /\ jobs' = jobs \cup {r}
          /\ UNCHANGED lost
       \/ /\ "queue" \in AcceptanceFaults
          /\ Answer(r, "dispatching", "error") \/ Answer(r, "failing", "error")
          /\ \/ jobs' = jobs \cup {r} /\ UNCHANGED lost
             \/ lost' = lost \cup {r} /\ UNCHANGED jobs
    /\ UNCHANGED <<written, committed, claimed>>

\* Any other query throws: the count, the lookup, or the insert, which is
\* rolled back.
FailQuery(r) ==
    /\ "database" \in AcceptanceFaults
    /\ \E from \in {"limiting", "finding", "inserting"} : Answer(r, from, "error")
    /\ UNCHANGED <<written, committed, jobs, claimed, lost>>

\* The process dies, and the database rolls back what it had not committed.
CrashProcess(r) ==
    /\ "crash" \in AcceptanceFaults
    /\ phase[r] \in InFlightPhases
    /\ RequestStep(r, phase[r], "dead")
    /\ written' = written \ {r}
    /\ lost' = lost \cup ({r} \cap committed)
    /\ UNCHANGED <<committed, jobs, claimed>>

\* A worker takes the job and loads the run it names; a job whose run is not
\* there is over all the same.
LoadAiRun(r) ==
    /\ r \in jobs
    /\ jobs' = jobs \ {r}
    /\ claimed' = claimed \cup ({r} \cap committed)
    /\ UNCHANGED <<clock, requestVars, written, committed, lost>>

--------------------------------------------------------------------------------

RenderRequest(r) ==
    \/ Render(r)
    \/ FindAiRun(r)
    \/ EnsureJobDispatcher(r)
    \/ SaveAiRun(r)
    \/ CommitAiRun(r)
    \/ DispatchAiRunJob(r)
    \/ FailQuery(r)

AcceptanceNext ==
    \/ ElapseTime
    \/ \E r \in PostRequests :
          \/ ReceiveRequest(r)
          \/ RenderRequest(r)
          \/ CrashProcess(r)
          \/ LoadAiRun(r)

AcceptanceSpec == AcceptanceInit /\ [][AcceptanceNext]_acceptanceVars

--------------------------------------------------------------------------------
(* What holds                                                               *)

\* A client's key never has two runs, written or committed, however many
\* requests looked it up before the first of them was there.
OneRunPerKey ==
    \A r, q \in written \cup committed : SharePair(r, q) => r = q

\* A request that is answered a run is answered one that can be read and that
\* its own client created under the same key and the same body.
AnswerNamesItsRun ==
    \A r \in PostRequests : answer[r] \in PostRequests =>
        answer[r] \in committed /\ input[answer[r]] = input[r]

\* Two runs whose requests were under way together: neither row was there when
\* the other request came in.
Overlap(p, q) == p \notin earlier[q] /\ q \notin earlier[p]

\* The runs of one client that lie in one window.
ShareWindow(runs) ==
    \A p, q \in runs :
        /\ input[p].client = input[q].client
        /\ acceptedAt[p] <= acceptedAt[q] + WindowLength

\* The limit is exceeded only by requests that were under way together: of one
\* run too many in a window, two overlapped.
OvershootNeedsOverlap ==
    \A runs \in SUBSET committed :
        Cardinality(runs) = MaximumAcceptedCount + 1 /\ ShareWindow(runs) =>
            \E p, q \in runs : p # q /\ Overlap(p, q)

NoneInFlight == \A r \in PostRequests : phase[r] \notin InFlightPhases

\* Once no request is under way, every run some request was answered waits in
\* the queue or has been loaded by a worker, unless the queue did not take its
\* job or its process died before sending it: no other way a commit may go loses
\* a run its client was told of, or has it taken before it is there.
AcceptedRunReachesAWorker ==
    NoneInFlight =>
        \A r \in PostRequests :
            answer[r] \in PostRequests => answer[r] \in jobs \cup claimed \cup lost

--------------------------------------------------------------------------------
(* What the comments say and the code does not do                           *)

\* BaseAiRunPostRenderer will not accept a run whose job is never sent, which
\* "would promise a callback that never comes".
NoRunIsAcceptedWithoutAJob ==
    NoneInFlight =>
        \A r \in PostRequests :
            answer[r] \in PostRequests => answer[r] \in jobs \cup claimed

================================================================================
