------------------------- MODULE JobDispatcherProvider -------------------------
(***************************************************************************)
(* The queue connections of one process (JobDispatcherProvider): one build *)
(* per dispatcher class, pooled as a promise, waited on by every request   *)
(* that asks until its own deadline, rebuilt after it failed, and closed   *)
(* when the process is asked to stop.                                      *)
(*                                                                         *)
(* A build and a teardown are Redis's to answer, which may never happen.   *)
(* Deadlines are timers and may pass at any time.                          *)
(***************************************************************************)
EXTENDS Integers, FiniteSets

CONSTANTS
    JobDispatcherCtors,
    Asks,               \* the requests in need of a dispatcher
    MaximumBuildCount,  \* bound: builds
    Absent

ASSUME DispatcherAssumption ==
    /\ MaximumBuildCount \in Nat
    /\ Absent \notin Nat
    /\ Absent \notin JobDispatcherCtors

VARIABLES
    pool,       \* the build each class's promise is of, or Absent
    recorded,   \* the classes this provider is responsible for closing
    builds,     \* what became of each build
    asks,       \* what each request is waiting on or was answered
    shutdown    \* the answer to a signal

dispatcherVars == <<pool, recorded, builds, asks, shutdown>>

BuildIds == 1..MaximumBuildCount

\* unclosed: its teardown raised, which is logged.
BuildPhases == {"unbuilt", "building", "open", "failed", "closed", "unclosed"}

AskPhases == {"unasked", "waiting", "handed", "failed", "refused"}

NoBuild == [phase |-> "unbuilt", ctor |-> Absent]

DispatcherTypeOK ==
    /\ pool \in [JobDispatcherCtors -> BuildIds \cup {Absent}]
    /\ recorded \subseteq JobDispatcherCtors
    /\ builds \in [BuildIds ->
            [phase : BuildPhases, ctor : JobDispatcherCtors \cup {Absent}]]
    /\ asks \in [Asks -> [phase : AskPhases, build : BuildIds \cup {Absent}]]
    /\ shutdown.phase \in {"unasked", "tearingDown", "exited"}
    /\ shutdown.closing \subseteq BuildIds
    /\ shutdown.owed \subseteq BuildIds
    /\ shutdown.exitCode \in {0, 1, Absent}
    \* An ask is handed no promise but one that holds a dispatcher.
    /\ \A ask \in Asks : asks[ask].phase = "handed" =>
        builds[asks[ask].build].phase \in {"open", "closed", "unclosed"}

DispatcherInit ==
    /\ pool = [ctor \in JobDispatcherCtors |-> Absent]
    /\ recorded = {}
    /\ builds = [build \in BuildIds |-> NoBuild]
    /\ asks = [ask \in Asks |-> [phase |-> "unasked", build |-> Absent]]
    /\ shutdown =
        [phase |-> "unasked", closing |-> {}, owed |-> {}, exitCode |-> Absent]

IsRunning == shutdown.phase # "exited"

Unbuilt == {build \in BuildIds : builds[build].phase = "unbuilt"}

NextBuild == CHOOSE build \in Unbuilt : \A other \in Unbuilt : build <= other

--------------------------------------------------------------------------------
(* A dispatcher asked for                                                   *)

\* ensureJobDispatcher: the ask takes the promise that is there, settled or not,
\* and puts one there when none is.  Nothing is awaited between the look and the
\* store.
EnsureJobDispatcher(ask, ctor) ==
    /\ IsRunning
    /\ asks[ask].phase = "unasked"
    /\ IF pool[ctor] # Absent
       THEN /\ asks' = [asks EXCEPT ![ask] =
                [phase |-> IF builds[pool[ctor]].phase = "building" THEN "waiting"
                           ELSE "handed",
                 build |-> pool[ctor]]]
            /\ UNCHANGED <<pool, recorded, builds>>
       ELSE /\ Unbuilt # {}
            /\ builds' = [builds EXCEPT ![NextBuild] = [phase |-> "building", ctor |-> ctor]]
            /\ pool' = [pool EXCEPT ![ctor] = NextBuild]
            /\ recorded' = recorded \cup {ctor}
            /\ asks' = [asks EXCEPT ![ask] = [phase |-> "waiting", build |-> NextBuild]]
    /\ UNCHANGED shutdown

AnswerAsks(build, phase) ==
    asks' = [ask \in Asks |->
        IF asks[ask].phase = "waiting" /\ asks[ask].build = build
        THEN [asks[ask] EXCEPT !.phase = phase] ELSE asks[ask]]

\* Redis answers, whether or not anybody still waits.
FinishBuild(build) ==
    /\ IsRunning
    /\ builds[build].phase = "building"
    /\ builds' = [builds EXCEPT ![build].phase = "open"]
    /\ AnswerAsks(build, "handed")
    /\ UNCHANGED <<pool, recorded, shutdown>>

\* The rejection takes the entry of the class back out before anybody who
\* waits hears of it.  A teardown that waited for the build has nothing to close.
FailBuild(build) ==
    /\ IsRunning
    /\ builds[build].phase = "building"
    /\ builds' = [builds EXCEPT ![build].phase = "failed"]
    /\ pool' = [pool EXCEPT ![builds[build].ctor] = Absent]
    /\ AnswerAsks(build, "failed")
    /\ shutdown' = [shutdown EXCEPT !.closing = @ \ {build}]
    /\ UNCHANGED recorded

\* Faulty form: what is given up is the build as well.
RefuseAtDeadline_ForgetsBuild(ask) ==
    /\ IsRunning
    /\ asks[ask].phase = "waiting"
    /\ asks' = [asks EXCEPT ![ask].phase = "refused"]
    /\ pool' = [pool EXCEPT ![builds[asks[ask].build].ctor] = Absent]
    /\ UNCHANGED <<recorded, builds, shutdown>>

\* The deadline of one ask.  The build stays in the pool and in flight.
RefuseAtDeadline(ask) ==
    /\ IsRunning
    /\ asks[ask].phase = "waiting"
    /\ asks' = [asks EXCEPT ![ask].phase = "refused"]
    /\ UNCHANGED <<pool, recorded, builds, shutdown>>

--------------------------------------------------------------------------------
(* A signal answered                                                        *)

\* SIGINT or SIGTERM, the first of them: the teardown of every class recorded by now begins, and
\* waits for a build in flight.  owed is history: the connections, open or
\* about to be, that this process had when it was asked to stop.
ReceiveSignal ==
    /\ shutdown.phase = "unasked"
    /\ shutdown' =
        [phase |-> "tearingDown",
         closing |-> {pool[ctor] : ctor \in recorded} \ {Absent},
         owed |-> {build \in BuildIds : builds[build].phase \in {"building", "open"}},
         exitCode |-> Absent]
    /\ UNCHANGED <<pool, recorded, builds, asks>>

\* The queue closes, or raises, which is logged and goes no further.
TeardownJobDispatcher(build) ==
    /\ shutdown.phase = "tearingDown"
    /\ build \in shutdown.closing
    /\ builds[build].phase = "open"
    /\ \E phase \in {"closed", "unclosed"} :
        builds' = [builds EXCEPT ![build].phase = phase]
    /\ shutdown' = [shutdown EXCEPT !.closing = @ \ {build}]
    /\ UNCHANGED <<pool, recorded, asks>>

\* Every teardown has answered.
ExitCleanly ==
    /\ shutdown.phase = "tearingDown"
    /\ shutdown.closing = {}
    /\ shutdown' = [shutdown EXCEPT !.phase = "exited", !.exitCode = 0]
    /\ UNCHANGED <<pool, recorded, builds, asks>>

AbandonTeardownAtDeadline ==
    /\ shutdown.phase = "tearingDown"
    /\ shutdown' = [shutdown EXCEPT !.phase = "exited", !.exitCode = 1]
    /\ UNCHANGED <<pool, recorded, builds, asks>>

DispatcherNext ==
    \/ \E ask \in Asks :
        \/ \E ctor \in JobDispatcherCtors : EnsureJobDispatcher(ask, ctor)
        \/ RefuseAtDeadline(ask)
    \/ \E build \in BuildIds :
        FinishBuild(build) \/ FailBuild(build) \/ TeardownJobDispatcher(build)
    \/ ReceiveSignal
    \/ ExitCleanly
    \/ AbandonTeardownAtDeadline

DispatcherSpec == DispatcherInit /\ [][DispatcherNext]_dispatcherVars

--------------------------------------------------------------------------------
(* Properties                                                               *)

\* A process that reports a clean stop has answered for every connection it had,
\* or was opening, when it was asked to stop: each was closed, or its teardown
\* raised and was logged, or its build failed.  So no class ever has a second
\* build that the pool does not know of, whichever asks were refused meanwhile
\* (JobDispatcherProvider: one dispatcher per dispatcher class, closed once).
CleanExitLeavesNoConnection ==
    shutdown.exitCode = 0 =>
        \A build \in shutdown.owed :
            builds[build].phase \in {"failed", "closed", "unclosed"}

================================================================================
