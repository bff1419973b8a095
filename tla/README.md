# A specification of tsdg-ai-backend

This directory specifies the service in TLA+: how a run is accepted, carried
out, canceled, settled and called back, what becomes of its data and of the
copies at a model's provider, and how the processes around it are reached,
guarded, read and swept, with the interleavings of its processes and the
failures around them. TLC checks the modules on small instances; TLAPS proves
theorems for every value of the constants.

## The system

A client posts a run (`POST /v1/asset-media-extractions`), is answered a run
key, and later receives one signed terminal callback or reads the run back. The
run itself is a BullMQ job: it fetches the client's media, asks a model to read
them a few times, and settles on the fields that a majority of readings agree
on. Everything shared lives in the tables of one SQL database and in the queues
of one Redis; the API, each queue's worker, the purges and the operators'
commands are processes of their own, and several of each may run.

| component | state | operations | hard behaviour | modules |
| --- | --- | --- | --- | --- |
| run acceptance (`BaseAiRunPostRenderer`, `AiRunAcceptor`, `AiRunRateLimitInspector`, `AiRunJobDispatchRegistrar`) | `ai_runs` rows, the queue | count, validate, look up, insert, commit, dispatch | concurrent requests under one key; a count that another request outdates; a commit without a dispatch | `AiRunAcceptance` |
| run lifecycle (`BaseAiRunJobWorker`, `AiRunStatusRecorder`, `AiRun`) | status and `cancel_requested_at` of one row | claim, race the work against the time limit, settle, call back, remove the workspace | redelivery of a job whose first worker is alive; crash between two writes; work that goes on after its limit; writes that pass the hooks of the row | `AiRunRecord`, `AiRunRow`, `AiRunLifecycle`, `AiRunRowGuard` |
| cancellation (`AiRunCancellationRegistrar`, `AiRunCancellationInspector`, `AiRunCancellationWatcher`) | `cancel_requested_at`, the abort signal | register, inspect once, poll | the watch racing the work and the limit; two requests | `AiRunCancellation` |
| the work (`AssetMediaExtractionRunner`, `AssetMediaReadingFetcher`, `AiRunStepRecorder`, `AiModelCallRecorder`) | `ai_run_steps`, `ai_model_calls`, the run's directory | six steps, concurrent model calls | hears of its end only through a signal; a second execution meets the rows of the first; a call that throws beside others that go on | `AssetMediaExtractionWork`, `AssetMediaReadingCalls`, `StubAssetFieldReading` |
| media of a run (`AiRunMediaPreparer`, `AiRunMediaCollector`, `AiRunMediaRecorder`, `MediaFetchClient`) | a directory per run, `ai_run_media`, a budget of time | record, fetch hop by hop, write, upload, refuse | redirects a host chooses; responses nobody reads; a budget shared by all media; a refusal after media were read | `MediaFetchClient`, `AiRunMediaCollection` |
| reading inspection, consensus, confidence (`AssetFieldReadingInspector`, `FieldConsensusResolver`, `AssetFieldConfidenceScorer`, `AiRunFieldOutcomeRecorder`) | `ai_run_field_outcomes` | check, vote, score, one row for each field | readings that fail or contradict each other; majority and rounding at their boundaries; a row that is refused | `FieldConsensus` |
| model access (`AiAgentModelBindingFinder`, `AiAgentPromptComposer`, `AiAgentDefaultInstruction`, payload generators) | the agent's rows, the sink of its wordings, the pool of drivers | bind, scan, compose, reword, record a version | rewording between the composing and the recording of a prompt; a photo left out of one of two lists | `AiAgentPrompts`, `AssetMediaReadingCalls` |
| terminal callback (`AiRunTerminalCallbackRaiser`, `DeliverRunCallbackJobWorker`, `AiRunTerminalCallbackDeliverer`, `AiRunCallbackSender`) | a BullMQ job, `ai_run_callback_deliveries` | raise, judge, sign, send, follow redirects, record, retry | retries, stalled workers, a client that changes between attempts or hops | `TerminalCallbackDelivery`, `AiRunCallbackAttempt` |
| provider copies (`AiRunMediaProviderUploader`, `ProviderUploadedFilePurger`) | `provider_uploaded_files`, files at the provider | upload, sweep in batches, delete, stamp | rows that fail for ever starve the later ones; crash between the delete and the stamp | `ProviderCopies` |
| retention (`AiRunContentPurger`, `AiRunTracePurger`, `BaseAiRunPurgeJobWorker`) | content and trace of a run, two purge stamps | find a batch, write it in a transaction | sweeps that overlap; a run that settles between the two queries; a work that writes under the stamp | `AiRunRetention` |
| reading back (`AiRunGetRenderer`, `AiRunsGetRenderer`, `AiRunPageResponseBuilder`, `AiRunResponseBuilder`) | none | pages, one run with its tables | rows that move between two pages, or between the queries of one answer | `AiRunListing`, `AiRunReading` |
| operator commands (`AiRunOperatorCommandLauncher`, `-Executor`, `-Finder`) | a process | open, find, report, exit | an exit code that belies the report | `AiRunReading` |
| API clients (`ApiClientRegistrar`, `ApiClientSecretRotator`, `ApiClientSecretCipher`, `ApiClientSignatureVerifier`, `AppRestfulApiContext`) | two secrets per client, under a key of the environment | register, rotate, retire, judge a request | two operators rotating at once; retiring a secret in use; a key that was replaced | `ApiClientSecretRotation`, `ApiClientAuthentication` |
| queue connections (`JobDispatcherProvider`) | a pool of pending builds | ensure, give up, tear down, shut down | a build that never settles; shutdown during a build | `JobDispatcherProvider` |
| queue servers and schedules (`JobScheduleRegistrationInspector`, `RegisteredJobScheduleReader`, the scripts) | schedules in Redis | register, remove, inspect at boot | a Redis that does not answer, or answers after the deadline | `JobScheduleRegistration` |
| sessions (`SessionClerk`) | series of refresh and access tokens | save, rotate, revoke | two clients with one token; rotation racing revocation (nothing in this repository calls it yet) | `SessionSeries` |

## Modules

### The run and its end

`AiRunRecord` is the abstract specification: a run waits, is worked on and
settles once; it is canceled only when asked; its client is called back at most
once and only when it has settled. It is what a reader of the row, the callback
and the purges rely on.

`AiRunRow` is one row of `ai_runs` and the only way the worker writes it:
`saveUnsettledAiRunValues`, an UPDATE whose WHERE excludes the terminal
statuses. Reading and writing are two queries with no lock between them, so
every writer has an action for each.

`AiRunCancellation` adds the client's cancel requests: the reading of
`registerAiRunCancellation`, the recorder's own reading, and the write.

`AssetMediaExtractionWork` is the work of a delivery, from step 1 to step 6.
`steps` is the UNIQUE index on `(ai_run_id, step_index)`: a step that has a row
makes the same step of another delivery throw. `aborted[d]` is the signal; the
work looks at it where the code does. `workspaceHeld` says whether the run's
directory holds a copy. What the steps compute is in the modules below, and
here each step may fail.

`AiRunLifecycle` composes the three. A delivery `d` goes through `executeJob`:
`claiming` and `starting` (the conditional write of `running`, which a run that
is already running accepts), `inspecting` (the one reading of
`cancel_requested_at`), `racing` (work, limit and watch side by side),
`folding` (the watch's answer is awaited), `settling` and `saving` (reading and
conditional write), `raising`, `removing`. BullMQ's part is three actions: a job
is delivered, a stalled job is taken back and delivered again while its first
worker may still be alive, a worker's process dies. An instance of
`AiRunRecord` states the refinement: `cancelRequested` is the column not being
NULL, `calledBack` that some delivery has raised.

`AiRunRowGuard` is the rule that a settled run is never moved, from the side of
the row: the calls the recorder refuses for want of evidence, and what the hooks
of `AiRun` let past of an update of one row, of many rows (judged by its
condition) and of an instance that was read earlier and is saved now.

### The work

`MediaFetchClient` is one fetch of one medium: the allow-list asked of every
hop, redirects followed by hand, declared and counted sizes, the timeout of the
whole chain. `held` is the hops whose body is neither read to its end nor given
up. `AiRunMediaCollection` starts the
fetches: the declared media are rows, then collected one after the other inside
the budget, kept, named as readable or unreadable, uploaded, or the run is
refused. What is declared is not checked before this step, so a medium may have
no size, a negative one, or no name.

`AssetMediaReadingCalls` is step 3: the binding of the agent, its tools, the
request that is built, and `ReadingCount` calls made at once, each recorded
before it is a reading. The first that throws ends the wait and leaves the
others going. `StubAssetFieldReading` is what the keyless driver is supplied
with: pure functions from a schema entry and a draw to a value. `AiAgentPrompts`
is the agent beside its operators: the instruction is reworded and stamped by
several writers, the stamped row is appended to a sink after the row was
committed, the run composes its prompt and later records the version it asked
under.

`FieldConsensus` is what steps 1 and 3 to 6 compute. The readings that came back
are checked item by item and check by check (`allowed`, `rejections`), vote with
their first allowed item on each path, settle what more than half of the
readings asked for agree on (`settled`), and every settled or missing required
field has its row saved one after another (`fieldOutcomes`; the order of the
rows of a step is left open). A value is a text and a type; `NumberText` maps
the spellings of a number to the text it is compared by. A schema is an array of
entries, because an entry declared twice matters. What JavaScript's `filter`
keeps is told by `RestrictValues`: the elements stay at their places and only
their order is read, which is all the code reads of them.

### Its client

`AiRunAcceptance` is the request that creates a run. A run is named after the
request that wrote its row. The count, the lookup, the insert and the COMMIT
are actions of their own; the insert waits for an uncommitted row of the same
client and key and is refused by a committed one; the hook of the commit runs
even when the COMMIT failed, as `AiRunJobDispatchRegistrar` documents. `earlier`
and `lost` are history variables that only the properties read.

`TerminalCallbackDelivery` is the job that posts the callback. Attempt `n` is
the n-th time the job became active. An attempt judges its target, sends,
follows redirects, records its row and returns or throws; a refusal returns
without a row. Whether the client's URL, prefix and secret allow the callback
is one Boolean there. `AiRunCallbackAttempt` is one attempt in full: the three
readings of the rows, the body that is built and signed, every hop with its
response, the one time limit, the finally that lets unread responses go, the
row. It is shown to be one attempt of `TerminalCallbackDelivery`
(`ImplementsDelivery`): that Boolean is a refinement mapping over the rows and
over what the attempt has read (`WouldDeliver`).

`AiRunReading` reads one run back: the row, then the tables under it in any
order, while the run works, settles and is purged; by its client, by a
stranger, for the callback, and by an operator's command with its exit code.
`AiRunListing` is a walk over pages: a cursor, a query with its filters and its
limit, one row more than a page shows, and the trace in a second query. A work
outlives its run: the time limit, a cancellation and another delivery settle the
row over it, its later steps do not ask the signal, and a call that was pending
is saved when it comes back. Both modules let such rows come after the terminal
write, so only a run shown as succeeded is shown with its last step
(`WalkIsComplete`), and what an answer says a canceled run has spent may grow
(`SpendingStandsAtTheStop`, which is refuted).

`ApiClientSecretRotation` is the row of one client: registered, rotated and
retired by commands that read and write it in two queries. A secret at rest is
an envelope of the key it was encrypted under, and opens to nothing under
another (`DecryptedSecret`). `ApiClientAuthentication` adds the requests the
client signs and the two queries that judge each.

`SessionSeries` is the sessions of operators with their transactions: what a
transaction wrote is its own until it ends, and a row it updated is locked.

### What stays behind, and the processes

`ProviderCopies` is what happens to media at the model's provider. A run hands
its files over one by one, then writes a `provider_uploaded_files` row for each.
A sweep reads the clock once, takes the oldest unstamped rows whose time is up a
batch at a time, asks the provider to delete each, and stamps those confirmed
gone in one UPDATE; a batch of which nothing was gone ends it. `sweep[s]` is
what one execution of the purge holds, so several may overlap. `Stuck` files are
those whose delete can only raise. One instant is a day.

`AiRunRetention` is the other two purges: a sweep finds the ids of a batch in
one query and writes them in one transaction, and neither asks whether a run
has settled or whether a process is still at work on it. `isAtWork` is that a
work goes on, under whatever status: it writes its rows, a call's raw answer
among them, though the run has settled and though it was swept.
`contentSweptUnfinished` and `traceSweptUnfinished` remember the runs a sweep
took while they were unsettled or worked on, the only ones that may hold
anything under their stamps (`RetentionIsKept`). Horizons are days and a time
limit is minutes, but nothing in the code ties the one to the other.

`JobDispatcherProvider` is the pool of queue connections of one process, and
`JobScheduleRegistration` the schedules in Redis, the scripts that write and
remove them and the check a daemon makes when it boots.

Faults are switched by constants (`Faults`, `MediaFaults`) or bounded by one,
so that a run can say which of them a property needs to be absent. The MC
modules give the constants values that a `.cfg` cannot write, and set parts
that share no state side by side.

## Runs

Twelve runs. Every component has a type invariant, which is proved (see Proofs)
and was checked while the component was written; no run checks it again.

| run | what it shows | bounds |
| --- | --- | --- |
| `acceptance_and_lifecycle`, acceptance | `OneRunPerKey`, `AnswerNamesItsRun`, `OvershootNeedsOverlap`, `AcceptedRunReachesAWorker` under every fault | three requests, two clients, two keys, two bodies and one malformed, a limit of one in a window of one instant, two instants |
| `acceptance_and_lifecycle`, lifecycle | `OneTruthfulCallback`, `CopyHasARemover`, `ImplementsRecord` under stalls, crashes, failing queries, a refusing queue and failing works | two deliveries, one cancel request |
| `lifecycle_liveness` | `RunSettles`, `SettledRunCallsBack`, `CanceledInQueueEndsCanceled` | the same, without crashes, failing queries of the worker and a refusing queue; no request after the run has settled (`RequestComesInTime`) |
| `lifecycle_crash` | a violation: a settled run whose client is never called | two deliveries, stall and crash |
| `lifecycle_redelivery` | a violation: a redelivery that fails a healthy run | two deliveries, stall |
| `job_daemon` | the callback job: `EndIsAccountedFor`, `AcceptedIsLast`, `NoCallAfterWithdrawal`, `CallbackEnds`; the boot of the daemon: `EveryBootIsTold` | two attempts, one stall, one redirect; two schedulers, one script, one silence of Redis, no retired ids |
| `acceptance_lost_job` | a violation: a run that is answered as queued and has no job | two requests, a queue that refuses |
| `provider_copies` | `StampedCopyIsGone`, `OutageCostsOneBatch`, `CopyStaysForItsRun`, `RipeCopyIsTakenBack` under every fault | two runs, three files of which one is stuck, one sweep after another, batches of two, two batches, three days |
| `run_work`, media | `EveryResponseIsDisposedOf`, `BudgetIsKept`, `PreparedRunIsComplete`, `RefusalIsTruthful` | up to four declared media under a cap of three, sizes around a cap of two, a budget of three units, two units for a medium, two redirects, two chunks |
| `run_work`, readings | `EveryCallIsRecorded`, `SettledIffMajority`, `AgreedEvidence`, `EveryFieldIsAccountedFor`, `ModelFailsNoRun`, `StubReadingsSettle` | three readings out of sixteen answers with two items or less, the last of one at most (`LastSaysLittle`), seven schemas of up to three fields, seven ways an agent may be set up, six draws of a digest |
| `run_work`, prompt | `VersionNamesWhatWasSent` | one ask, followed until it is refused (`NoneIsRefused`) and reworded only right before its instruction is read and while its answer is awaited (`RewordedWhenItMatters`), two writers, two wordings, three instants, two drivers |
| `run_work`, callback | `CallbackStaysWithItsClient`, `ImplementsDelivery` | four prefixes, four URLs, two redirects of the three |
| `media_unrecognized` | a violation: a kind without a master row fails the run before the collector could refuse it by name | the media of `run_work`, no fault |
| `misplaced_photo` | a violation: the keys and the photos of a request do not line up | two photos, the first without a URI |
| `stopped_run` | a violation: a canceled run's call is recorded after its calls were read | one reading, a work of two calls and a step |
| `side_by_side`, retention | `RetentionIsKept`, `ExpiredRunIsPurged` | two runs of which only the first is worked on (`OnlyFirstIsWorked`), one trace table, two sweepers, batches of one run, one batch, days 0 to 2, one failing sweep |
| `side_by_side`, listing | `WalkIsComplete` | three runs, two clients, pages of one or two, four queries of which two are refused, one step, no run canceled (`NoneIsCanceled`) |
| `side_by_side`, reading | `AnswersAreOneStory` | one reading, a work with one row and one with four |
| `side_by_side`, row guard | `SettledRowStands` | one recording beside the other writers |
| `side_by_side`, dispatchers | `CleanExitLeavesNoConnection` | three asks, two classes, three builds |
| `side_by_side`, authentication | `RefusalNeedsACause` | two operators, three secrets, two keys and none, one request of seven forms, two instants, no deviation |
| `side_by_side`, sessions | `OneHeirPerToken` | two clients, three refresh tokens |

`acceptance_and_lifecycle`, `run_work`, `job_daemon` and `side_by_side` each
check components that share no state as a sum and not as a product: `part` is
chosen at the start, only that component's variables move, and every property of
it is checked in its part and holds vacuously in the others, whose variables
stand as they began. What such a run shows of a component is what a run of its
own would show.

### Why the bounds are enough

BullMQ redelivers a stalled job once by default (`maxStalledCount`), so two
deliveries are what a run can have; everything about them is symmetric, and a
third would meet the same row. Two attempts and one stall make every pair of an
earlier and a later attempt. Three requests are one more than a race needs: two
that race and a third that comes before, between or after them. The names of
requests, clients, keys and bodies make no difference, so they are given in the
order they are used in (`NamesComeInOrder`) and the later requests are
interchangeable, as operators and wordings are in `run_work` (`NamesAreAlike`).
Only a request still to come reads the clock, so time passes while there is one
(`TimeIsAskedFor`); the clock has one instant more than the window is long, so
that runs leave the window. Two runs and a batch smaller than the number of
files make a sweep choose and come back; the theorems lift the one sweep of the
run to any number that overlap.

Three readings are the code's own number; two items make a reading contradict,
repeat or drop itself, and beside two that do the third says little
(`LastSaysLittle`); the items that are dropped fail a check each, and the
schemas hold a doubled path, a field nothing can be suggested for and one whose
bounds hold no value. Two slow fetches use up the budget, and the third medium
is given what is left. Four prefixes are one that covers every hop, one that
leaves a hop out, somebody else's and one that is no URL. Two wordings by two
writers in three instants let two saves share an instant, or come in an order
the clock denies, while a third is still free.

Two sweepers with batches of one run make two sweeps read the same id and write
it one after the other, and a failing one leaves work to the next. One run that
is worked on, past its end and under its stamp, stands beside one that waits in
the queue until it is swept. To a page a canceled run is what a failed one is.
Three runs against pages of one or two give every walk a middle, a run that
moves before it and one that is accepted after it began. Three asks meet a build
that is under way, one that has failed and one whose deadline has passed. Three
secrets are a registered one, a rotated one and one that writes over it. Three
tokens are a first, its heir and one more, or two sessions. Authentication is
followed to its last answer, which nothing changes, or to an overlap of two
commands, after which `RefusalNeedsACause` excuses every refusal; a walk is
followed to its last page.

Deadlock is not checked, except for `provider_copies`: a run that is over, a job
that has ended, requests that were all answered and a process that has exited
stop.

### Violations

The six violations are findings in `PROJECT.json`, each with the sentence of
the source it contradicts:

1. `lifecycle_crash`: a worker that dies between its terminal write and its
   callback leaves a run that every redelivery leaves alone, because it has
   settled.
2. `lifecycle_redelivery`: a redelivery of a run that is already running is let
   in, and its step 1 meets the UNIQUE index of the first execution: the error
   settles the run as failed, though nothing was wrong with it.
3. `acceptance_lost_job`: a dispatch that fails after the COMMIT leaves a queued
   run without a job. Repeats of the key are answered 202 with that run and
   dispatch nothing.
4. `media_unrecognized`: a medium of a kind without a master row fails the
   insert of all rows, and the run ends under `PROVIDER_CALL_FAILED` and not
   under the reason the comments promise.
5. `misplaced_photo`: an upload without a URI is left out of the attached files
   and not out of the keys, so the model is told the places of other photos.
6. `stopped_run`: a model call that was pending when its run was settled as
   canceled is recorded after the stop, so what an answer shows as spent is not
   what the run will hold.

### What else the code and its comments disagree about

Met while modelling; the modules follow the code, and no run is spent on these.

- A work past its limit may write a copy after the workspace was removed
  (`AiRunMediaCollector.js:913`): the signal is asked two awaits before.
- Of two requests under one key and body that both find nothing, the second is
  answered 500 and not the run (`BaseAiRunPostRenderer.js:276`).
- A reading is numbered by its place among those that came back
  (`AssetMediaExtractionRunner.js:717`), so after a failed call rejections name
  an earlier reading than theirs.
- Two media under one key pass acceptance, and both are fetched from the first
  one's URL (`AiRunMediaDescriptorExtractor`): the second photo is named
  readable and never read. Media without a size fail the run at the insert.
- The byte-size cap is asked of each medium after those before it were fetched.
- A run that settles after its content was swept keeps its result for ever, and
  a work that outlives the horizon leaves its rows; overlapping sweeps write the
  stamp anew.
- Overlapping rotations lose a secret that was told to an operator, and the
  report's "rotate again" (`ApiClientSecretRotationCommandLauncher.js:257`) is
  refused until the previous secret is retired.
- `JobDispatcherProvider` says that a teardown that raises is an unclean stop;
  `teardownJobDispatcher` logs it and the process exits 0.
- A schedule id that another scheduler's queue holds counts as registered
  (`RegisteredJobScheduleReader.js:123`).
- A refresh token that was found before its session was revoked is still traded
  (`SessionClerk.js:459`).
- An instance of a run that was read before it settled moves it when it is saved
  after (`AiRun.js:448`, against the comment at line 51).
- A scan of the drivers that failed is kept for the life of the process
  (`AiAgentModelBindingFinder.js:81`).
- A text of very many digits reads as `Infinity`, which a field without an upper
  bound takes (`AssetFieldReadingInspector.js:712`).
- A run that settled no field but lacks outcome rows answers a
  `confidenceMethodVersion` (`AssetMediaExtractionRunner.js:949`) where
  `AiRunResponseBuilder.js:448` says null.
- `AiAgentRoleInstruction.js:22` calls the role "the system prompt the agent is
  sent under", and lines 27 to 30 say a call records its `savedAt`; the reading
  request passes no role, and only the instruction's `savedAt` is recorded.
- Writers that loaded different generations of an instruction, or one whose
  first append failed and who saves the same instance again, may share a
  stamp; the append of the second is refused although its live row is
  committed.
- `GeminiMessagePayloadGenerator.js:271` says every caller passes no documents;
  the fetcher passes one.
- A stub option longer than its field, a range without a whole number and the
  second entry of a doubled path are supplied and then dropped by step 4, which
  the class comment of `StubAssetFieldReadingSupplier` rules out.

## Fairness

`FairSpec` of the lifecycle (`LivenessSpec` in its run, which bounds it) assumes
that a waiting job is delivered and that each delivery takes its turns: the
event loop runs, timers fire and queries return. `ExceedTimeLimit` is among them because it is a timer; the work is not,
because nothing makes a model answer. The watch's interval has no fairness, but a
reading that is under way returns. No fairness is claimed for stalls, crashes,
failing queries or clients; the liveness run leaves out the faults after which
the code does not promise to go on (a dead process, a failing query of the
claim, whose job has a single attempt, and a queue that refuses the callback,
which is logged and given up).

The callback's (`DaemonFairness`) assumes that the queue serves the job, that
queries return and that the request ends (it has one timeout for all its
redirects), and that the lock of a dead worker expires and is noticed. That of a
boot assumes its deadline, which is a timer, and that a call to a Redis that
answers returns; nothing makes a silent Redis answer.

`FairSpec` of the provider's copies assumes that the schedule fires again and
again, that a sweep under way goes on (its calls and queries return), that a
delete which is asked for time and again succeeds some time (strong fairness,
not for `Stuck` files), and that only finitely many sweeps are abandoned. A
provider that never recovers takes nothing back, and the code promises nothing
then. `RipeCopyIsTakenBack` assumes besides that fewer files are stuck than a
batch holds: the oldest rows come first, so a batch full of stuck ones would end
every sweep before any other file is reached.

`RetentionFairness` assumes that each clock's schedule fires again and again and
that a sweep under way goes on; the sweeps that fail are bounded by a constant.

The other specifications state safety only, and no fairness.

## Refinements

Both are checked and proved. `ImplementsRecord`: the lifecycle behaves as
`AiRunRecord`. `ImplementsDelivery`: an attempt in full, with its hops and the
rows it reads, is one attempt of `TerminalCallbackDelivery` or stutters, whatever
is registered for the client meanwhile; what `job_daemon` shows of the job
therefore rests on the code of an attempt and not on a summary of it.

## Proofs

Every safety property a run checks is a theorem for all values of the
constants, and so are both refinements. There are eight proof modules. Each
states one inductive invariant per component as a conjunction of named parts;
TLC checked it on the component's instance before it was proved. A step lemma
for every action says what the action keeps, and the theorems at the end of each
part read off what the invariant implies. The assumptions are those the modules
name (`...Assumption`) and, for one theorem, `CopiesCanBeRemoved`; no theorem
bounds a set, a limit or a clock beyond them.

### The run and its end

`AiRunLifecycleProofs`, for any sets of deliveries and requests and any faults:

- `TypeCorrect`: `Spec => []TypeOK`, one step per action over the typing lemmas
  of the work and of the cancellation.
- `SettledOnce`: `SettledForGood`. Every step either leaves the row alone or is
  one conditional write, which is what the lemma `RowStep` says; no invariant is
  needed beyond that.
- `CallbackOnce`: `OneTruthfulCallback`. It is not inductive: nothing in it
  forbids a second delivery from standing between its accepted write and its
  callback. The strengthening `OwnershipInvariant` adds that whoever is in
  `raising` or has raised wrote the terminal status that stands, that there is
  at most one such delivery, and that a delivery past its claim means that the
  run is not queued any more.
- `LifecycleImplementsRecord`: `ImplementsRecord`, from the same invariant: each
  action maps to a step of `AiRunRecord` or to a stutter.
- `CopiesAreRemoved`: `CopyHasARemover`, assuming that directories can be
  removed (`CopiesCanBeRemoved`), which is the one fault the run leaves out too.

`RowProofs`, the row and what is read and kept under it:

- `SettledRowIsKept`: `SettledRowStands`, for any number of recordings. What the
  recorder is about to write has to carry its evidence already when it was read
  (`RecordingsCarryEvidence`), since the hooks judge the write and not the call.
- `StampsAreTrue`: `RetentionIsKept`, for any number of overlapping sweeps. A
  sweep holds ids from a query that is over when it writes: the invariant is
  that the clock of every id it holds is out for good (`SweepsAreDue`), and that
  a stamp on a run that still has content, or rows, or is unsettled or worked on
  was set by a sweep that took it while it was unsettled or worked on.
- `AnswersTellOneStory`: `AnswersAreOneStory`. A row that was read settled is
  the row that stands (`RowWasTheRun`); a table that was read of a run that had
  succeeded was read whole unless the trace has been purged since
  (`TablesWereRead`).
- `WalkShowsEveryRun`: `WalkIsComplete`, for any number of runs, any page length
  and any queries. What a client is owed has been shown, or lies behind the
  cursor, or is on the page, or is older than a page that is full
  (`OwedIsToCome`). `NewestAreFirst` is the lemma it rests on: a run's place
  under `ORDER BY id DESC` is the number of runs at least as new, which is
  one-to-one and therefore fills the places from one to their number.

### The work

`AiRunMediaCollectionProofs`, for any media, sizes, limits, hosts and faults:

- `FetchesHoldNothing`: `EveryResponseIsDisposedOf`. Hops count down, so that
  what is held is the hop being read or an earlier one whose `cancel` rejected
  (`ChainIsHeld`).
- `FetchesKeepTheBudget`: `BudgetIsKept`. Time spent in fetches and the budget
  that is left always make up the whole plus what the fetch at hand has spent
  (`TimeIsMeasured`), unless the clock was set.
- `PreparedRunStandsComplete`, `RefusalsAreTruthful`: `PreparedRunIsComplete` and
  `RefusalIsTruthful`, from the tie between outcomes, files and rows
  (`FilesFollowOutcomes`) and from what an unrefused collection says of the media
  behind it (`OutcomesAreJudged`).

`ModelAnswerProofs`, for any number of readings, any schemas, agents and answers:

- `CallsAreRecorded`: `EveryCallIsRecorded`; `MajoritySettles`:
  `SettledIffMajority`; `EvidenceIsAgreed`: `AgreedEvidence`;
  `FieldsAreAccountedFor`: `EveryFieldIsAccountedFor`; `NoAnswerFailsARun`:
  `ModelFailsNoRun`. `ConsensusInvariant` ties every result of a step to what it
  was computed from (`allowed = AllowedReadings`, `settled = SettledFields`, the
  rows to `MissingRows` and `ScoredRows`). On top of it stands arithmetic over sets: a set of places
  without a bound has a first (`FirstIsFirst`, by well-foundedness of finite
  intervals), two majorities share a reading (`MajorityIsOne`), a confidence
  rounded to four decimals lies within what its column holds
  (`ConfidenceIsWithin`), and no row that is due is one the recorder refuses
  (`RowsAreRecordable`).
- `DemonstrationSettles`: `StubReadingsSettle`, for any schema, bounds, fractions
  of a whole, spans and draws. The invariant `StubIsSupplied` says that the calls
  of a keyless run share one answer; `DrawnNumberIsAllowed` is the arithmetic: a
  number drawn between the rounded bounds lies between the stated ones when a
  whole number does.
- `VersionLeadsToTheText`: `VersionNamesWhatWasSent`, for any wordings, writers
  and clocks. `IsReached` says that every stamp anyone holds is in the sink or
  awaited by a writer, and while saves are serial no stamp belongs to two texts.

### Its client

`AiRunAcceptanceProofs`, for any requests, clients, keys, limits and windows:

- `KeyHasOneRun`, `AnswerIsItsOwnRun`, `AnsweredRunIsWorkedOn`: `OneRunPerKey`,
  `AnswerNamesItsRun`, `AcceptedRunReachesAWorker`. A row that is not committed
  belongs to a request about to commit it (`RowsFollowTheirRequests`).
- `OnlyOverlapOvershoots`: `OvershootNeedsOverlap`. Its property is about a set
  of runs that do not overlap, of any size, so it cannot be carried by a count
  alone: each accepted run found less than the limit among those before it
  (`LimitWasKept`), what was there when a request came in had everything that
  was there before it (`EarlierIsOrdered`), and so the run with the most earlier
  ones in such a set has all the others before it.

`CallbackProofs`, for any limits, faults, prefixes, URLs and redirects:

- `NoAttemptIsLost`, `AcceptedEndsTheCalls`, `WithdrawnClientIsNotCalled`:
  `EndIsAccountedFor`, `AcceptedIsLast` and the action property
  `NoCallAfterWithdrawal`. BullMQ counts starts, failures and stalls apart;
  `StartsAreCounted` ties the three to where each attempt stands.
- `BodyStaysWithItsClient`: `CallbackStaysWithItsClient`. `HopsStayUnder`: every
  hop was judged with the prefix that was read before the first.
- `BootIsToldTheTruth`: `ReportIsTrue`, the part of `EveryBootIsTold` that is safety,
  for any number of schedulers, scripts and silences of Redis. What a queue holds
  lies between what it always and what it ever held during the check
  (`ContentsAreBetween`), and what was read of it goes on doing so however
  long ago it was read (`ReadingsAreBetween`).
- `AttemptImplementsDelivery`: `ImplementsDelivery`, initial states to initial
  states and each step of an attempt to a step of the job or to a stutter.

`AccessProofs`, for any number of clients, tokens, operators, secrets, requests,
classes and builds:

- `TokenHasOneHeir`: `OneHeirPerToken`. A token that a transaction has spent is
  locked until it ends (`TransactionsAreIsolated`), so used tokens and heirs are
  in one-to-one correspondence (`SeriesIsAChain`).
- `RefusalsAreCaused`: `RefusalNeedsACause`. Without an overlap and a loss, the
  row holds the secret the client signs with and no command under way is about
  to drop it (`RowHoldsTheClientsSecret`).
- `CleanExitIsClean`: `CleanExitLeavesNoConnection`. What the process owes at its
  stop is being closed or has answered (`TeardownOwesNothingElse`), and every
  live build is one the pool knows (`PoolKnowsEveryBuild`).

### What stays behind

`ProviderCopiesProofs`, for any media, runs, faults, batch sizes and any number
of overlapping sweeps, under `CopyAssumption` only:

- `CopyTypeCorrect`: `Spec => []TypeOK`.
- `StampIsTrue`, `SweepStopsAtAnOutage` and `NoCopyIsTakenEarly`:
  `StampedCopyIsGone`, `OutageCostsOneBatch` and the action property
  `CopyStaysForItsRun`. They share the inductive `PurgeInvariant`. That a stamp
  is true rests on two sweeps agreeing about what is gone: a file a sweep has
  confirmed gone is gone (`ConfirmedIsGone`) and stays gone, because a file is
  handed over once (`StampedWasSent`). That nothing is taken early rests on what
  a sweep still holds from its SELECT (`LeftIsRipe`): a row found ripe at the
  sweep's instant is ripe at every later one.

Each of these modules also proves the types of its components.

### What the proofs assume, and what they found

Assumptions say what the constants stand for, and TLC evaluates them on every
run: markers of absence (`None`, `Absent`, `Unset`, `NoRow`, `NoValue`,
`Failed`, ...) are none of the values they stand beside; limits are counts;
weights are percentages; a number's text is the text of that number; arrays have
natural numbers for places. The code's types give each of them.

Proving changed the model where it could not be reasoned about or was wrong:

- Two cases of `WouldDeliver` overlapped, so that its `CASE` chose either.
- `a \cup UNION b` did not associate as it was meant to, in a part of a model
  that small instances leave empty.
- Markers that could have been values: without the assumption, an empty column
  could hold data that reads as empty.
- A filtered array was taken for a sequence; it keeps its places.
- `ORDER BY id DESC` was written as a fold over the table; it is the order by
  counting, from which the order follows.
- `StubReadingsSettle` did not say that a run needs a readable medium. Without
  one nothing is supplied and nothing settles, which the code says of itself.
- A first `PoolKnowsEveryBuild` was not inductive: a build that fails leaves the
  pool in the same step, which the pool's side of the invariant has to say too.
- The types of the consensus claimed a type of every value a model names; none
  is needed, and a schema may hold values of any.

### Only model-checked

- Liveness (`RunSettles`, `SettledRunCallsBack`, `CanceledInQueueEndsCanceled`,
  `CallbackEnds`, `EveryBootIsTold`, `RipeCopyIsTakenBack`,
  `ExpiredRunIsPurged`): TLAPS has neither fairness nor `ENABLED` here.
- The six violations, which are behaviours and not theorems.
- What a library call computes over data (a sort, a fold over an array, a
  digest): the modules state what the result is, and the theorems start there.

## Not modelled

- Wording and layout: response bodies, reports and tables of the commands, logs.
  What an answer is built of is in `AiRunReading` and `AiRunListing`.
- Bytes: signatures, envelopes, digests, payloads and multipart bodies. A
  signature is right or wrong, an envelope opens or does not, a digest draws any
  number.
- The streaming form of a model's answer and the credentials of a provider; the
  work takes whatever a call comes back with.
- Tables, migrations and seeds as such: they are declarative. The constraints
  that matter (UNIQUE indexes, NOT NULL, the width of a count, DECIMAL) are in
  the modules whose writes they refuse.
- Servers and configuration: boot and wiring of the framework, constants.
- Recorder calls that state no status and clear a column of evidence
  (`startedAt: null`): `saveOngoingAiRun` would take them, and no code makes one;
  `AiRunRowGuard` leaves them out.
- A second signal to a process that is shutting down: what it adds depends on
  what a queue's `close` does when it is asked twice.
- The framework, Sequelize, BullMQ, Redis and the database: modelled from how
  the source uses them, and marked external in the map.
- File names in a workspace, the retention of logs, and the two paths that reach
  no hook of `AiRun` (raw SQL and `hooks: false`), which nothing here takes.

## Plan

Every component that changes state has its module, and every safety property
and refinement its proof. What is left:

1. The parts of liveness that are safety: that from each phase of a delivery, of
   an attempt and of a sweep some fair action leads on, and that a measure
   decreases along them (phases of a delivery, starts of the job, batches of a
   sweep). TLC's liveness runs rest on these, and they hold for any constants.
2. `AiRunReading` over a run whose row is guarded by `AiRunRowGuard`, as a
   refinement: the reading assumes of a run's end what the guard proves of its
   row.
