----------------------------- MODULE AiRunListing ------------------------------
(***************************************************************************)
(* A client paging through its runs (AiRunPageResponseBuilder) while they  *)
(* are accepted, work and settle; no walk lasts until they are purged.  A  *)
(* page is a query of the runs, one more than it shows, and then one of    *)
(* their trace, with no transaction around the two; the last run shown     *)
(* names the next page.                                                    *)
(*                                                                         *)
(* Of the clock a run keeps whether it has been waiting, or going, longer  *)
(* than the stall filter asks; of its trace, the steps that were recorded. *)
(* A filter by category or correlation id is a condition on a column that  *)
(* never changes, as the client's own is; the runs of other clients are    *)
(* there and what becomes of them is left out.                             *)
(***************************************************************************)
EXTENDS Integers, Sequences, FiniteSets

CONSTANTS
    ApiClients,
    Caller,                 \* the one that pages
    DefaultRunCount,        \* DEFAULT_RUN_COUNT: of a page, unless it is asked otherwise
    MaximumRunCount,        \* MAXIMUM_RUN_COUNT
    Queries,                \* the queries a client walks under
    FirstCursors,           \* and what it may begin with
    MaximumListedCount,     \* bound: runs accepted
    LastStep,               \* bound: the steps a run completes
    NoValue

ASSUME ListingAssumption ==
    /\ Caller \in ApiClients
    /\ MaximumRunCount \in Nat \ {0}
    /\ DefaultRunCount \in 1..MaximumRunCount
    /\ LastStep \in Nat
    /\ FirstCursors \subseteq 1..MaximumListedCount \cup {NoValue}
    /\ MaximumListedCount \in Nat
    /\ NoValue \notin Nat

VARIABLES
    listed,     \* the rows of ai_runs, their ids the places in the sequence
    walk        \* the client paging through them

listingVars == <<listed, walk>>

Cursors == 1..MaximumListedCount

ListedSettledStatuses == {"succeeded", "failed", "canceled"}

ListedStatuses == {"queued", "running"} \cup ListedSettledStatuses

ListedRuns ==
    [ApiClientId : ApiClients, status : ListedStatuses, isOverdue : BOOLEAN,
     completedSteps : SUBSET (1..LastStep)]

\* owed is history: the runs that were there when the walk began and have
\* matched ever since.
NoWalk ==
    [phase |-> "unasked", query |-> NoValue, cursor |-> NoValue,
     page |-> <<>>, shown |-> <<>>, owed |-> {}]

ListingTypeOK ==
    /\ listed \in Seq(ListedRuns) /\ Len(listed) <= MaximumListedCount
    /\ walk.phase \in {"unasked", "asking", "answering", "ended", "refused"}
    /\ walk.cursor \in Cursors \cup {NoValue}
    /\ walk.owed \subseteq DOMAIN listed
    /\ Len(walk.page) <= MaximumRunCount + 1

ListingInit ==
    /\ listed = <<>>
    /\ walk = NoWalk

--------------------------------------------------------------------------------
(* The query                                                                *)

\* A value that is left out is valid.
IsLeftOutOr(value, values) == value = NoValue \/ value \in values

\* AiRunsQueryInputValidator: a status by its name, and a count that is not zero.
IsValidQuery(query) ==
    /\ IsLeftOutOr(query.statusName, ListedStatuses)
    /\ IsLeftOutOr(query.limit, 1..MaximumRunCount)

RunCount(query) == IF query.limit = NoValue THEN DefaultRunCount ELSE query.limit

IsUnsettled(aiRun) == aiRun.status \notin ListedSettledStatuses

\* buildStalledCondition: waiting since it was accepted, or going since it was
\* started, and for too long.
IsStalled(aiRun) == IsUnsettled(aiRun) /\ aiRun.isOverdue

\* The condition a page's runs are read under, but for the cursor.
Matches(aiRun, query) ==
    /\ aiRun.ApiClientId = Caller
    /\ query.statusName # NoValue => aiRun.status = query.statusName
    /\ query.isStalled => IsStalled(aiRun)

IsBefore(id, cursor) == cursor # NoValue => id < cursor

--------------------------------------------------------------------------------
(* The pages                                                                *)

\* The cursor a client sends is one it was handed, or any other.
AskFirstPage(query, cursor) ==
    /\ walk.phase = "unasked"
    /\ walk' =
        IF IsValidQuery(query)
        THEN [NoWalk EXCEPT
                !.phase = "asking", !.query = query, !.cursor = cursor,
                !.owed = {id \in DOMAIN listed :
                    Matches(listed[id], query) /\ IsBefore(id, cursor)}]
        ELSE [NoWalk EXCEPT !.phase = "refused"]
    /\ UNCHANGED listed

\* A cursor names a run of the client that sent it, or nothing.
IsCursorOfCaller(cursor) ==
    cursor # NoValue =>
        cursor \in DOMAIN listed /\ listed[cursor].ApiClientId = Caller

RefuseCursor ==
    /\ walk.phase = "asking"
    /\ ~IsCursorOfCaller(walk.cursor)
    /\ walk' = [walk EXCEPT !.phase = "refused"]
    /\ UNCHANGED listed

\* The first count of a sequence, or all of it.
FirstOf(count, sequence) ==
    SubSeq(sequence, 1, IF Len(sequence) < count THEN Len(sequence) ELSE count)

AsNew(ids, id) == Cardinality({other \in ids : other >= id})

\* ORDER BY id DESC.
NewestFirst(ids) == [n \in 1..Cardinality(ids) |-> CHOOSE id \in ids : AsNew(ids, id) = n]

\* The runs of the page and one more, the newest first.
FindAiRuns ==
    /\ walk.phase = "asking"
    /\ IsCursorOfCaller(walk.cursor)
    /\ LET found == {id \in DOMAIN listed :
                IsBefore(id, walk.cursor) /\ Matches(listed[id], walk.query)}
           probed == FirstOf(RunCount(walk.query) + 1, NewestFirst(found))
       IN  walk' = [walk EXCEPT
            !.phase = "answering",
            !.page = [n \in DOMAIN probed |->
                [id |-> probed[n], status |-> listed[probed[n]].status]]]
    /\ UNCHANGED listed

\* Faulty form: the run that was read ahead names the next page.
NextCursor_OfProbe ==
    IF Len(walk.page) <= RunCount(walk.query) THEN NoValue
    ELSE walk.page[RunCount(walk.query) + 1].id

\* The last run shown names the next page, when one more was read.
NextCursor ==
    IF Len(walk.page) <= RunCount(walk.query) THEN NoValue
    ELSE walk.page[RunCount(walk.query)].id

\* The furthest of the completed steps that were read, in whatever order.
LastCompletedStep(aiRun) ==
    IF aiRun.completedSteps = {} THEN NoValue
    ELSE CHOOSE index \in aiRun.completedSteps :
            \A other \in aiRun.completedSteps : other <= index

AiRunRow(row) ==
    [id |-> row.id, status |-> row.status, lastStep |-> LastCompletedStep(listed[row.id])]

\* The trace of the page's runs, read after them.  The client asks for the next
\* page until it is handed no cursor.
AnswerPage ==
    LET paged == FirstOf(RunCount(walk.query), walk.page)
    IN  /\ walk.phase = "answering"
        /\ walk' = [walk EXCEPT
            !.phase = IF NextCursor = NoValue THEN "ended" ELSE "asking",
            !.cursor = NextCursor,
            !.page = <<>>,
            !.shown = @ \o [n \in DOMAIN paged |-> AiRunRow(paged[n])]]
        /\ UNCHANGED listed

--------------------------------------------------------------------------------
(* What goes on meanwhile                                                   *)

\* While the client walks, it stays owed the runs that still match.
WalkGoesOn ==
    IF walk.phase \in {"asking", "answering"}
    THEN walk' = [walk EXCEPT !.owed = {id \in @ :
            Matches(listed'[id], walk.query)}]
    ELSE UNCHANGED walk

SaveListed(id, aiRun) ==
    /\ listed' = [listed EXCEPT ![id] = aiRun]
    /\ WalkGoesOn

AcceptListed(client) ==
    /\ Len(listed) < MaximumListedCount
    /\ listed' = Append(listed,
        [ApiClientId |-> client, status |-> "queued", isOverdue |-> FALSE,
         completedSteps |-> {}])
    /\ WalkGoesOn

StartListed(id) ==
    /\ listed[id].status = "queued"
    /\ SaveListed(id, [listed[id] EXCEPT !.status = "running", !.isOverdue = FALSE])

\* One step after the other.  A work that was outrun by its time limit, by a
\* cancellation or by another delivery's failure asks nobody and goes on recording;
\* a success is written when the work has returned, and no other delivery's gets
\* past its first step, which is recorded already.
CompleteStep(id) ==
    /\ listed[id].status \in {"running", "failed", "canceled"}
    /\ \E index \in 1..LastStep :
        /\ listed[id].completedSteps = 1..(index - 1)
        /\ SaveListed(id, [listed[id] EXCEPT !.completedSteps = 1..index])

\* The terminal write, which a run in the queue is not open to.
SettleListed(id, status) ==
    /\ listed[id].status = "running"
    /\ SaveListed(id, [listed[id] EXCEPT !.status = status, !.isOverdue = FALSE])

OverstayListed(id) ==
    /\ IsUnsettled(listed[id])
    /\ ~listed[id].isOverdue
    /\ SaveListed(id, [listed[id] EXCEPT !.isOverdue = TRUE])

ListingNext ==
    \/ \E query \in Queries, cursor \in FirstCursors :
        AskFirstPage(query, cursor)
    \/ RefuseCursor
    \/ FindAiRuns
    \/ AnswerPage
    \/ \E client \in ApiClients : AcceptListed(client)
    \/ \E id \in {i \in DOMAIN listed : listed[i].ApiClientId = Caller} :
        \/ StartListed(id)
        \/ CompleteStep(id)
        \/ \E status \in ListedSettledStatuses : SettleListed(id, status)
        \/ OverstayListed(id)

ListingSpec == ListingInit /\ [][ListingNext]_listingVars

--------------------------------------------------------------------------------
(* Properties                                                               *)

\* A client that follows the cursors until there is none has been shown every
\* run that was there when it began and matched all along, the newest first and
\* none twice, while runs were accepted, started and settled; and a run shown as
\* succeeded is shown with the step it completed last, though the two are read
\* apart (AiRunPageResponseBuilder.buildCursorCondition: a page is stable while
\* runs change status).  Of a run shown as failed or canceled nothing of the kind
\* holds: a work that was outrun goes on recording steps.
WalkIsComplete ==
    /\ walk.phase = "ended" =>
        walk.owed \subseteq {walk.shown[n].id : n \in DOMAIN walk.shown}
    /\ \A m, n \in DOMAIN walk.shown : m < n => walk.shown[n].id < walk.shown[m].id
    /\ \A n \in DOMAIN walk.shown :
        LET row == walk.shown[n]
        IN  row.status = "succeeded" => row.lastStep = LastCompletedStep(listed[row.id])

================================================================================
