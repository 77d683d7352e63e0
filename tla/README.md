# A verification project for wp-codebox

wp-codebox runs disposable WordPress runtimes: a *recipe* is validated, a
Playground runtime is created, workflow steps are executed in it, the evidence
is collected into a bundle, and the runtime is destroyed, or held for a while
as a preview. Around that stand a planner of parallel workers, a fuzzer, a
Docker provider of services, and a Cloudflare Worker that keeps one site.

This directory models the parts of it that coordinate processes, timers,
storage and failures in TLA+. TLC checks the models on small instances; TLAPS
proves every safety property that the runs check for all values of the
constants.

`PROJECT.json` maps every definition to the lines it models and lists the runs,
the mutants that show that each property can fail, the hazards, the findings
and the theorems. Paths are relative to the repository's `packages/`.

## 1. The system

| Component | State | Operations | Interacts with | What makes it hard |
|---|---|---|---|---|
| Run registry, `runtime-core/src/run-registry.ts` | one JSON file per run | create, read, update, heartbeat, requestCancellation | the runner, `runs cancel`, `preview-lease release` | read-modify-write without a lock; kills |
| Run plan executor, `runtime-core/src/run-plan.ts` | `running`, `completed`, `active`, results | executeRunPlan | fanout, adapters, callbacks | answers in any order, timeouts with late answers, throwing callbacks |
| Fanout, `runtime-core/src/fanout-*.ts` | the aggregation's input | executeFanoutRequest, aggregateFanoutOutputs | the plan executor | partial results, two normalisations, conflicts |
| Recipe run, `cli/src/commands/recipe-run*.ts` | where `runRecipe` is, runtime, services, interruption | validation to finalisation, recovery | registry, lease, services, backend, signals | operations that hang, timeouts against interruptions, failures inside failure handling |
| Preview lease, `cli/src/commands/preview-lease.ts` | one JSON file per lease | start, wait, mark, status, release | the detached run, its parent, CLI commands | four kinds of writers, merges of stale reads |
| Managed services, `cli/src/runtime-services.ts` | Docker containers, evidence | provision, release | recipe run | an abort in the middle of a docker command |
| Host command executor, `runtime-core/src/host-command-executor.ts` | a process group, its captured output | executeHostCommand | host tools | timeout, kill escalation, output bound, single settlement |
| Artifact bundle, `runtime-playground/src/artifact-bundle-builder.ts`, `cli/src/recipe-evidence.ts`, `runtime-core/src/runtime-episode.ts` | files with digests of each other | build, append evidence, append trace, verify | recipe run, episodes | a fault between two dependent writes; a collection that was abandoned |
| Playground runtime, `runtime-playground/src/playground-runtime.ts`, `playground-cli-runner.ts` | the server, controllers, the active signal | execute, destroy, startup | backend, proxy, archive cache | destroy() during a startup, commands that overlap, failures half way |
| Archive cache, `runtime-playground/src/playground-cli-runner.ts` | a lock directory, an archive, .partial files | resolve and download | other processes | kills under the lock; reads after it |
| Preview proxy, `runtime-playground/src/preview-server.ts` | two listeners, a queue each | a request, disposal | clients, the server | clients that leave at any moment, hand-over of a queue |
| Fuzz suite and minimizer, `runtime-core/src/fuzz-*.ts`, `runtime-playground/src/public.ts` | cases, checkpoints, the site; a shrinking case | runFuzzSuite, minimizeFuzzCase | the runtime | resets that fail, PHP that outlives its case |
| Cloudflare state, `runtime-cloudflare/src/worker.ts` | pointer, lease and queue in a Durable Object; revisions in R2 | acquire, commit, abort; a mutation | Worker requests | leases that expire, kills and restarts between writes |
| Runtime episode, `runtime-core/src/runtime-episode.ts` | episode, steps, snapshots | reset, step, snapshot, close | runtime, bundle | order of calls |
| Browser observation, WordPress plugin | pages; per request | capture; abilities | backend, CLI | I/O |
| CLI parsing, validation, planning, contracts | none | functions over JSON | all | data, not control |

How they meet: the CLI process of a recipe run owns its registry record and
awaits each call. `runs cancel` and `preview-lease release` are other
processes that write the same record; the runner polls it once a second and
turns a request it finds into an interruption. A preview lease is held by a
detached `recipe-run` child, whose parent waits for the lease file to change.
`RecipeRun` asks the managed services for a handle, the Playground runtime for
its commands and the bundle for its files. A fanout runs its workers through
the plan executor. A fuzz suite resets and uses one Playground runtime.

What must hold:

* **registry**: no reader parses half a record, no success of a run that never
  ran, a call on a current read is one atomic call;
* **plan, fanout**: dependencies before dependants, no more workers than slots,
  no unschedulable plan after validation, an honest report, a success only if
  every worker that counts succeeded, an end;
* **recipe run**: success only after everything was released, nothing left
  behind on any path but a runtime that cannot be destroyed, a settled record
  for every returned output, a status that tells what ended the run, an end;
* **lease**: *available* is true and never goes back to *starting*; the starting
  command answers;
* **services**: a container that outlives the call is a known one, the report
  is made once and final;
* **host command**: the captured output is a faithful beginning, a timeout ends
  the group;
* **bundle**: no file is listed before it is there; digests agree at the end
  unless something could not be mended;
* **runtime**: a command's PHP obeys that command's signal, a resolved
  destroy() leaves nothing, and it does resolve;
* **cache**: one inside the lock, whole archives only, one download;
* **proxy**: one request at a time in order, the server outlives its clients;
* **fuzzing**: a case that was reset never finds what an earlier one left; a
  minimized case still fails and is minimal;
* **Cloudflare state**: what is published can be read, no published mutation is
  lost, a reported success is true.

## 2. Modules

| Module | What it is | Proofs in |
|---|---|---|
| `RunRecord`, `RegistryContract`, `RunRegistry` | the record and its functions; each call as one atomic step; the files | `RunRegistryProofs` |
| `PlanContract`, `RunPlan` | each worker decided once, after its dependencies; the executor | `RunPlanProofs` |
| `Fanout` | `RunPlan` with what its workers deliver, and the aggregation | `RunPlanProofs` |
| `RecipeRun` | `runRecipe`, interruption controller, watcher, release task, lease | `RecipeRunProofs` |
| `ServiceContract`, `RuntimeServices` | what a run assumes of its services; the Docker provider | `HostProofs` |
| `PreviewLease` | the lease file between its processes | `HostProofs` |
| `HostCommand` | one command, its group, timers and events | `HostProofs` |
| `ArtifactBundle` | the writers of a bundle as programs of writes and refreshes | `ArtifactBundleProofs` |
| `PlaygroundRuntime` | execute, startup, disposal, destroy | `PlaygroundRuntimeProofs` |
| `ArchiveCache`, `PreviewProxy`, `FuzzSuite` | the archive lock; listeners and queues; cases and resets | `BackendProofs` |
| `CaseMinimizer` | the minimisation loop | `BackendProofs` |
| `SiteContract`, `StateCoordinator` | what clients may rely on; the coordinator and its Workers | `StateCoordinatorProofs` |
| `MCRunRegistry`, `MCRunPlan`, `MCRecipeRun`, `MCHost`, `MCPlayground` | instances for TLC | |

Definitions named *mistake* in a comment are the mutated forms of the
definition that follows; no action of a specification uses them.

**RunRegistry.** A record keeps what the registry branches on. `ReadRecord` is
the `readFile` of every call; `UpdateRecord`, `RequestCancellation` and
`Create` compute the next record from what was read and open the temporary
file; `FillTemp` is the end of `writeFile`; `Rename` replaces the record;
`Crash` may happen between any two. `current` and `recorded` are histories.

**RunPlan, Fanout.** `Pump` is a whole scan of `pump()`, which runs to
completion; `Launch`, `Respond`, `Timeout`, `AdapterThrows`, `CallbackThrows`
and `LateResponse` are what happens between two pumps; `Settle` is a worker's
continuation with the pump it calls. A rejected plan goes on, as in the code.
An adapter answers with a status or with none, and with or without `success`.
`Fanout` decides which workers are required and what they deliver when the
aggregation first looks, and aggregates with both normalisations: an answer
without a status gets one from its `success`, `completed` and `no_op` are
successes, and the `success` of an answer with a status is dropped
(`fanoutWorkerResultRef`).

**RecipeRun.** `pc` follows `runRecipe` at the grain of its awaits. An
operation of `RecipeRunPhaseExecutor` completes, fails, or is ended by the
timeout or an interruption, and then destroys the runtime. `runtime` is
"destroyed" when a `destroy()` has returned, and "stuck" when it threw or took
longer than its two seconds (`DestroyActiveRuntime`, which acts once). `err` is
the class of the error that reaches the catch block, which is all that
`recipeRunFailureStatus` looks at. `inner` is the task inside
`runtime.release`, which goes on when the operation is rejected. The hold takes
the only slot for an interruption's callback and empties it, so that afterwards
an interruption does not reject the release (`Heard`,
recipe-run-interruption.ts:122); and a lease child whose cancellation is
recorded drops any error of its release, marks its lease and goes on
(`InnerCatch`, recipe-run.ts:373). Its registry
calls are one step each; what overlapping calls amount to is `RunRegistry`'s
subject.

**RuntimeServices.** `container` is what Docker runs, `evidence` what the code
says. Provisioning, its own unwinding, the guard that may reject at any
moment, the late release and `release()` of the handle are separate; an abort
may cut a `docker run` off whose container the daemon has created.
`ServiceContract` is the four values `RecipeRun` keeps in `services`.

**PreviewLease.** Each change is a read and a later write of a merge
(`Read`, `Write`), by the starting command, the child, and any number of
`status` and `release` commands. When the child marks its lease is
`RecipeRun`'s business, so here it may do so at any time.

**HostCommand.** The leader and the processes it starts, which may leave the
group or keep the pipe; the timer, the second timer (`unref`'d, so a caller
that exits takes it away), the `error` and `close` events, the bound on bytes
against characters.

**ArtifactBundle.** A call is a sequence of writes and refreshes of the
manifest in memory. A digest is the version of the file it was computed from.
The typed artifacts of a recipe have a call of their own, which finds some or
none (`Begin`, `NothingTyped`); `declared` says what has become of them, because
the code marks them as materialized before it writes them
(recipe-declared-artifacts.ts:147) and a recovery does not do it again.
One step may fail, one collection may be abandoned by its timeout and go on
beside its recovery. The verifier compares the same versions.

**PlaygroundRuntime.** A startup makes a lease, mounts, a server and a proxy,
and may fail after any of them; `execute` registers its controller and takes
the one active signal; `runPhp` obeys the signal active at that moment;
`destroy()` aborts, waits for a startup under way and disposes. The commands of
`Unguarded` may also wait without any signal: `inspect-mounted-inputs` runs its
PHP without `abortable` (playground-runtime.ts:1774), the export of a replay
package materializes mounts so (1318), and others fetch, write a file first or
drive a browser.

**ArchiveCache, PreviewProxy.** The lock, validation, download, rename of
several processes that may be killed anywhere, beginning with the lock of a
process that is gone; the queue of each listener with the hand-over to a
waiter that runs only later, and the disposal of both listeners and the server.

**FuzzSuite, CaseMinimizer.** The site is the set of cases whose effects it
shows and whether a restore left it torn. A restore is carried out whole,
refused, fails half way, or is carried out in part and reported as passed,
because its PHP looks at no result of its queries and removals
(runtime-snapshot.ts:571-587) and its caller only at the exit code; `partly`
remembers whose. The checkpoint is made by the first case that asks for it, on
whatever the site is then. A timed-out case's PHP may act later. A replay of the
minimizer shows anything, and need not show the same twice.

**StateCoordinator.** The handlers of the Durable Object run one after another
along `tail`, each a chain of awaits; each Worker asks for a lease, rebuilds,
mutates, puts objects and manifest, and commits. A lease may expire at any
moment and be given to another. `Kill`, a lost answer, a failing step and
`Restart` may happen anywhere, `MaxLosses` times. `SiteContract` is what a
client may rely on.

## 3. What TLC checks

| Run | Instance | Result |
|---|---|---|
| `registry_concurrent` | two processes, one reason, the updates of a recipe run, one cleanup attempt | three safety properties, 1,050,000 states |
| `plan` | three workers, every acyclic relation, requested concurrency -1, 0, 2, 9 under a cap of 2, three controls, one output path, two sets of required workers, four answers of an adapter | five invariants, the refinement of `PlanContract`, `PlanEnds`; 810,000 states |
| `recipe` | an advisory step, then a required one, three preview modes | five invariants and `RunEnds`; 406,000 states |
| `host` | three services with two releases; one lease command; a command with two more processes, three characters of one or two bytes against a bound of two; a bundle with one fault and one change of the site, four sets of wishes | six invariants, the refinement of `ServiceContract`, three liveness properties; 860,000 states |
| `playground` | two commands (one with a timeout, which may also wait without a signal), two runs of PHP and two tries of a port; three requests; three processes; three cases and two checkpoint names; a case of at most five steps | eight invariants and three liveness properties; 421,000 states |
| `coordinator` | three mutations, two attempts at a lease, one loss | readability, the refinement of `SiteContract`, `MutationsEnd`; 720,000 states |
| `registry_terminal_reopened` | two processes | `TerminalIsFinal` is violated |
| `recipe_timeouts`, `recipe_interruptions` | small workflows | `TimeoutsSettleTimedOut`, `InterruptionsSettleCancelled` are violated |
| `services_late` | two services, one guarded call | `LateProvisioningTornDown` is violated |
| `bundle_digest`, `bundle_id` | a bundle without faults; two collections | `FinishedBundleVerifies`, `IdNamesPatch` are violated |

**Composition of independent parts.** `MCHost` and `MCPlayground` hold several
components that share no state in the code. A product would only multiply
their states, so `focus` chooses in the initial state which one moves, from
all of its own initial states, while the others rest in one of theirs. A
property of one component is therefore checked on exactly that
component's behaviours; fairness is stated only for the one in focus, and so
are the liveness properties.

**Why the bounds are enough to be interesting.** A lost update takes one read
and one foreign rename: two processes. Three workers give chains, a skipped
worker between two others, and more ready workers than slots. An advisory step
before a required one lets an interruption be swallowed before one that counts.
Three services leave earlier and later ones around the one that fails, and two
releases allow a retry after a partial one. Three characters of one or two bytes
against a bound of two fit exactly, are cut, and come after the cut. Three
requests leave one active, one woken or queued, and one behind it; the two
listeners may hold any share of them. Three processes at the cache are one
inside, one waiting, one killed. Three cases are one that makes a checkpoint,
one that dirties the site or fails its reset, and one that would suffer. Five
steps make the chunk shrink from two to one with an odd rest. Three mutations
are one published, one late, one between; two attempts let a Worker wait and
give up. One loss or fault at a time is the model of failure of `coordinator`
and of the bundle; the proofs of `StateCoordinator` and of `ArtifactBundle` hold
for any number.

The named bounds are `MaxAttempts` (cleanup attempts in `RunRegistry`, tries of
a dynamic port in `PlaygroundRuntime`, where the code has 6, lease requests in
`StateCoordinator`, where it has 300), `MaxReleases`, `MaxRuns`, `MaxWritten`,
`MaxFaults`, `MaxChanges`, `MaxSteps`, `MaxLosses` and `Cases`.

**Fairness.** Only what the code or the event loop enforces:

* `RunPlan`: settled promises and timers are delivered, and an adapter no timer
  watches answers; a timed adapter may hang for ever.
* `RecipeRun`: the runner's own steps happen, and an operation that is not over
  is ended from outside some time, since every one has a timer
  (`watchRecipeOperation`); none is assumed to complete. Awaits outside
  operations are taken to end (recipe-run.ts:187, 355, 466-497).
* `RuntimeServices`: docker commands have timeouts. `PreviewLease`: the
  starting command polls and its 30 minutes pass; nothing of the child.
* `HostCommand`: each timer and each event is delivered on its own, so a command
  that never stops writing does not hold the timers up.
* `PlaygroundRuntime`: startup, disposal, timers and handlers go on; PHP, the
  CLI's start and the closing of the proxy's connections need not, and
  `AbortsTakeEffect` states that as its condition. It promises nothing of a
  command of `Unguarded` without a timeout, which nobody ends if its PHP hangs.
* `PreviewProxy`: routes answer and the server ends what it was sent; nothing of
  connections on which nothing was sent, which is the condition of
  `QueuesDrain`. `ArchiveCache`: everything but a download, because `fetch` has
  no timeout.
* `StateCoordinator`: each Worker goes on unless it is killed, and the
  coordinator handles the head of its queue. That includes a boot that fetches
  the WordPress archives without a timeout (worker.ts:561, 637, 672): a fetch
  is taken to answer or to fail.

### The violations

Each states what the documentation, an error message or a test says, and fails.

* **A terminal run is reopened.** `requestCancellation` may write an active
  status, read earlier, over a settled one (run-registry.ts:253).
* **A timeout that settles as failed.** The timeout of `runtime.create` is
  wrapped into another error class (recipe-run.ts:245); so is one in the release.
* **An interruption that is forgotten.** `interruption.clear()` in the catch of
  an advisory step (312) also clears a signal or a cancellation request.
* **A container nobody removes.** A `docker run` that is cut off after the
  daemon created the container is not followed by a removal
  (runtime-services.ts:175), although a test speaks of late provisioning torn down.
* **A bundle that does not verify.** The trace of an episode, or the benchmark
  files of a recipe, are added after `contentDigest` was computed
  (runtime-episode.ts:437).
* **An id that does not name the patch.** The digest behind a bundle's id covers
  paths, kinds and content types, not bytes (artifact-manifest.ts:165).

## 4. What is proved

The proofs hold for any constants that satisfy the module's `ASSUME`
(`ReasonAssumption`, `RegistryAssumption`, `PlanAssumption`,
`RecipeAssumption`, `ServicesAssumption`, `RuntimeAssumption`,
`SuiteAssumption`, `CoordinatorAssumption`, `FanoutAssumption`, `StepsAssumption`,
`CommandAssumption`, `BundleAssumption`): bounds are naturals, inputs have the
kind the code accepts, and the value that stands for "none" is not one of the
others. The two theorems on `PreviewLease`
have the hypothesis `CommandsApart`: commands are named neither "parent" nor
"child". Each module has one inductive invariant and one step per action.

**Registry.** Type correctness. `RecordNeverTorn`: only a process that has
written its file completely renames. `CurrentWritesAreAtomic`: a process whose
read is current holds the record itself, or the contract's next value of it.
`SuccessAfterRunning`: every record in a process's hands, stale or not, comes
with the history its status needs, as long as nothing is created as succeeded.
For a single process the registry implements `RegistryContract`
(`SerialImplements`, proved only).

**Plan.** `DependencyOrder` and `ConcurrencyBound` from an invariant on the
stages. `AlwaysSchedulable` from acyclicity applied to the set of waiting
workers: one of them has all its dependencies settled. `HonestReport` includes
the double counting of `countRunPlanChildResults`. `ImplementsPlanContract`
maps stages to verdicts. Results are final (`FinalResults`, proved only).

**Fanout.** Every step of a fanout is one of the plan it executes or leaves the
plan alone, so the plan's properties hold there (`FanoutRunsPlan`). What the
aggregation reads is what a settled worker delivered, in the order of the
workers; from that, `AggregateIsRight` for any number of workers and paths and
any answers, with a status or without: a success says that every wanted worker
answered, and said so (`SaysSuccess`).

**Recipe run.** One invariant of ten named parts, each about a stretch of
`runRecipe`: what exists before the runtime does, what is gone after the
release, what the record can say at each point, which error a timeout or an
interruption has become. The properties speak of `pc = "done"` only, so none
is inductive by itself. All five of the run's invariants. A release whose error
was dropped (`inner = "swallowed"`) is followed through the invariant: it is the
one way to a success with a runtime that is not destroyed.

**Services.** Who answers for a running container at each step (`Owned`):
whoever is not owned was recorded as a failed removal or belongs to a cut-off
`docker run`. `ReportIsFinal`, `TeardownIsTrue` (proved only), and the
refinement of `ServiceContract`.

**Lease.** The argument is about the copies processes hold: what a stale copy
says of a preview was true when it was read, and only the starting command
merges a copy without choosing the status, before it waits.

**Host command.** Until something is cut, what is captured and what is still in
the pipe make up what was written; after that, nothing more is captured, since
a cut leaves at least `MaxBytes` bytes. A result is given only when nobody can
write any more. So `CapturedFaithfully`, for any bound and any widths.

**Bundle.** `ListedFilesExist`: nothing takes a file away, and a writer that is
about to save has just hashed what it saves, which fails on a file that is not
there. That is a property of the calls' programs (`Shape`), proved once for each
program, and it holds of the writer that was left behind as well.

`OneFaultIsMended` is the longest argument, because in the middle of a call
almost nothing matches. The invariant (`Sound`) never says where in a program a
writer is; it looks forward, and says of each relation between files that it
holds now *unless* a step to come will establish it:

* `IdsOk`: the review, the references and the index have the id of the manifest
  that counts, unless they will still be written, or it will still be named;
* `ListOk`, `Covered`: every file there is is in the manifest that counts, or a
  step of this call or a call to come lists it;
* `RefsOk`: the digests in the references are those of the files, unless they
  will still be collected (`refer`, `index`) or refreshed;
* `NextOk`: what is saved or copied next is fresh.

The manifest that counts (`Counted`) is the one in memory if it will be saved
before another one is read, and otherwise the one on disk. `Shape` says what
must come after each kind of step: after a file is written it is listed and
hashed, after a name is given the three files that quote it are rewritten. It
holds of the programs (`ProgramGood`) and of every rest of them. Between calls,
`Between` says what a call leaves, and `PlanOk` what the calls to come are:
after the first fault the plan is that of
`collectAndFinalizeFailedRecipeArtifacts`, which lists every kind of file again
that can exist by then except benchmarks (`RecoveryPlan`). An abandoned
collection sets `broken`, under which `OneFaultIsMended` promises nothing, so
`Sound` is about one writer. No plan can tell whether the typed artifacts will
be written, so they have a part of their own: `TypedOk` says that, once their
call has returned and until a collection or a fault loses them, they are in the
manifest on disk. It was checked by TLC before it was proved.

**Runtime.** The variables fall into what startup made and disposal undoes, and
the signals of the commands, which meet in three actions only. `OwnSignal`,
`ResolvedLeavesNothing`, `SlotIsOpen` (proved only), for any set of `Unguarded`
commands: their PHP obeys their own signal or none, never another's.

**Archive cache.** Who is past the rename has a good archive; nobody turns a good
archive into another. `OneAtATime` (proved only), `GivenArchiveStays`,
`DownloadedOnce`.

**Fuzz suite.** The site need not be clean. It is as long as no checkpoint has
been made, because until then no case with that policy has run; and again
whenever such a case runs after a whole restore, because the checkpoint was
made then. `CasesAreIsolated` for any number of cases: it is about the cases
whose own restore was whole, whatever the restores of others left.

**Preview proxy.** The order of arrival at a queue is at every moment that of
the started requests, then the woken one, then the waiting ones. The waiting
ones are different from each other, so that the one who is woken leaves the
queue. A closed listener has nobody connected and nobody connects to it.
`OneAtATimeInOrder`, `ServerOutlivesClients`.

**Case minimizer.** Each candidate leaves out something of what is kept, so no
later replay overwrites the verdict on what is kept; and a pass that removes
one step at a time and comes to its end has tried each of them on exactly what
is kept. `MinimizedStillFails`, although a replay need not show the same twice.

**Cloudflare state.** Nobody knows that it is the only one to mutate, because a
lease may expire. But a revision is promoted only under the lease it was made
under, and while the pointer still says what that lease said. From that:
`PublishedIsReadable`, and every published mutation is built on those before
it, which is the refinement of `SiteContract`.

**Only model-checked.** Liveness (`PlanEnds`, `RunEnds`, `ServicesEnd`,
`StartAnswers`, `TimeoutEndsCommand`, `AbortsTakeEffect`, `QueuesDrain`,
`RequestsEnd`, `MutationsEnd`), because liveness under fairness is out of the
prover's reach. Every invariant and every refinement that a passing run checks is
also a theorem. The six violations are counterexamples and need no proof.

## 5. Assumptions of the models

* A put of the coordinator that was under way when it restarted is done or not
  done; it does not land later. The code reads, compares and puts
  unconditionally, so a late put would not be noticed (worker.ts:193-195).
* The snapshot of `restore-snapshot` was taken before the suite. PHP of a
  case that timed out may act on the site until the suite ends.
* `CasesAreIsolated` promises nothing of a case whose own restore was carried out
  in part and reported as passed: it runs on whatever that left.
* A suite with `requireCoverage` whose runner lacks a capability is refused
  before its first case (fuzz-suite-runner.ts:125); `FuzzSuite` begins after that.
* `PreviewLease` covers a `release` that reads the lease before the run has
  written its id: the run is then not asked. No property forbids it, because
  the code promises nothing there; the hazard is listed.
* `OneFaultIsMended` excepts what the code does not mend: benchmark files, a
  collection that went on beside its recovery, and typed artifacts (`Unlisted`)
  that are on disk although a fault kept their call from listing them, or that
  a second collection unlisted and did not find again. The verifier reports
  those as orphaned, also when no step failed.
* `SuccessIsClean` and `NothingForgotten` except a lease child whose `destroy()`
  threw after a cancellation request was recorded: the error is dropped and
  the run succeeds with the runtime alive (recipe-run.ts:373-379). A runtime
  whose `destroy()` threw or took longer than two seconds on another path
  ("stuck") was tried, and only such a lease child succeeds with it; its error
  takes the place of the one that ended the run, which `OutsideEndsRun` excepts.
* `OwnSignal` excepts commands that overlap, and lets the commands of `Unguarded`
  wait without a signal; `AbortsTakeEffect` excepts those of them that have no
  timeout.
* `validatePlaygroundWordPressArchiveCache` (playground-cli-runner.ts:546) reads
  and removes archives without the lock. It is exported, and nothing in the
  repository calls it; a caller next to the processes of `ArchiveCache` is
  outside the model.
* A chunk of `HostCommand` holds whole characters: one that the pipe splits over
  two chunks, which the code decodes to replacement characters, is outside the
  model.
* Time has no values: a timer may fire at any moment. The overflow of `setTimeout`
  beyond 2^31-1 ms is outside the model.

## 6. Not modelled, and why

* Payload: descriptors, artifacts' content, headers, environment, wording.
* `runBoundedConcurrent`, progress snapshots and "validate" mode of the plan;
  the fanout's other conflict policies; the sampling of memory.
* `RuntimeEpisode`'s reset, step, snapshot and close: sequential calls on one
  runtime; only its collection is modelled (`ArtifactBundle`).
* Browser observation: I/O on a page; its liveness watchdog is one timer.
* WordPress plugin: request and response code without state of its own.
* CLI parsing, recipe validation and planning, contracts and schemas: functions
  over JSON; a recipe run sees accepted, refused or thrown.
* What the Playground commands do inside WordPress.

## 7. What would come next

1. `RuntimeEpisode` as a machine of its calls, composed with `ArtifactBundle`.
2. `RecipeRun` over `PreviewLease` instead of one-step lease writes, and over
   `RuntimeServices` instead of its contract's values.
3. The liveness watchdog of browser observation.
4. Two recipe runs on one lease directory; a bundle that two runs write.
