----------------------------- MODULE MCSideBySide ------------------------------
(***************************************************************************)
(* Seven components that share no state, checked side by side: a behaviour *)
(* is one of AiRunRetention, AiRunListing, AiRunReading, AiRunRowGuard,    *)
(* JobDispatcherProvider, ApiClientAuthentication or SessionSeries, and    *)
(* part says which.                                                        *)
(***************************************************************************)
EXTENDS
    AiRunRetention, AiRunListing, AiRunReading, AiRunRowGuard, JobDispatcherProvider,
    ApiClientAuthentication, SessionSeries

VARIABLE part

readersVars == <<listingVars, readingVars>>
keepersVars == <<guardVars, dispatcherVars, authenticationVars, sessionVars>>
vars == <<part, retentionVars, readersVars, keepersVars>>

Unfiltered == [statusName |-> NoValue, isStalled |-> FALSE, limit |-> NoValue]

\* All one at a time, those that stall two at a time, and two queries that are
\* refused.
FourQueries ==
    {Unfiltered, [Unfiltered EXCEPT !.limit = 2, !.isStalled = TRUE],
     [Unfiltered EXCEPT !.limit = 3], [Unfiltered EXCEPT !.statusName = "stuck"]}

\* Bound: authentication is followed up to its last answer, which nothing changes,
\* or up to an overlap of two commands, which excuses every refusal after it.
HasRequestToJudge ==
    /\ ~hasOverlapped
    /\ \E id \in Requests : requests[id].phase \in {"unsent", "sent", "named"}

\* Bound: a walk is followed up to its last page or its refusal; what it is owed
\* and what it was shown stay as they are.
HasPageToRead == walk.phase \notin {"ended", "refused"}

\* Bound: the first run is worked on, and another waits in the queue to be swept.
OnlyFirstIsWorked ==
    \A id \in DOMAIN aiRuns' : id > 1 => aiRuns'[id].status = "queued"

\* Bound: a run that was canceled is to a page as one that failed.
NoneIsCanceled == \A id \in DOMAIN listed' : listed'[id].status # "canceled"

NoneOrSecond == {NoValue, 2}

\* A run without a field to suggest, and one whose call settles one.
UnsuggestibleOrWhole ==
    {<<"ai_run_steps">>,
     <<"ai_model_calls", "ai_run_steps", "ai_run_field_outcomes", "ai_run_steps">>}

Init ==
    /\ part \in {"retention", "listing", "reading", "row guard", "dispatchers",
                 "authentication", "sessions"}
    /\ RetentionInit
    /\ ListingInit
    /\ ReadingInit
    /\ GuardInit
    /\ DispatcherInit
    /\ AuthenticationInit
    /\ SessionInit
    /\ part # "authentication" => encryptionKey = Unset
    /\ part # "reading" => work = <<"ai_run_steps">>

Next ==
    /\ UNCHANGED part
    /\ \/ /\ part = "retention"
          /\ RetentionNext
          /\ OnlyFirstIsWorked
          /\ UNCHANGED <<readersVars, keepersVars>>
       \/ /\ part = "listing"
          /\ HasPageToRead
          /\ ListingNext
          /\ NoneIsCanceled
          /\ UNCHANGED <<retentionVars, readingVars, keepersVars>>
       \/ /\ part = "reading"
          /\ ReadingNext
          /\ UNCHANGED <<retentionVars, listingVars, keepersVars>>
       \/ /\ UNCHANGED <<retentionVars, readersVars>>
          /\ \/ /\ part = "row guard"
                /\ GuardNext
                /\ UNCHANGED <<dispatcherVars, authenticationVars, sessionVars>>
             \/ /\ part = "dispatchers"
                /\ DispatcherNext
                /\ UNCHANGED <<guardVars, authenticationVars, sessionVars>>
             \/ /\ part = "authentication"
                /\ HasRequestToJudge
                /\ AuthenticationNext
                /\ UNCHANGED <<guardVars, dispatcherVars, sessionVars>>
             \/ /\ part = "sessions"
                /\ SessionNext
                /\ UNCHANGED <<guardVars, dispatcherVars, authenticationVars>>

\* RetentionFairness, for the behaviours that are of it.
Fairness ==
    /\ \A clock \in Clocks : WF_retentionVars(part = "retention" /\ BeginSweep(clock))
    /\ \A s \in Sweepers :
        WF_retentionVars(part = "retention" /\ (FindExpiredAiRunIds(s) \/ SavePurge(s)))

Spec == Init /\ [][Next]_vars /\ Fairness

\* The part that moves; the others are as they began.
TypeOK ==
    CASE part = "retention" -> RetentionTypeOK
      [] part = "listing" -> ListingTypeOK
      [] part = "reading" -> ReadingTypeOK
      [] part = "row guard" -> GuardTypeOK
      [] part = "dispatchers" -> DispatcherTypeOK
      [] part = "authentication" -> AuthenticationTypeOK
      [] part = "sessions" -> SessionTypeOK

================================================================================
