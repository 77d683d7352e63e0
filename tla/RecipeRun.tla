----------------------------- MODULE RecipeRun -----------------------------
(***************************************************************************)
(* One `recipe-run` process (cli/src/commands/recipe-run.ts) from the      *)
(* creation of its registry record to its exit, with what happens around   *)
(* it: signals, cancellation requests found by the watcher, the recipe     *)
(* timeout, the preview hold, and the clients of its preview lease.        *)
(*                                                                         *)
(* Each registry call is one step on the record (RunRecord); RunRegistry   *)
(* says what the file-backed calls really amount to.  An operation is a    *)
(* call of RecipeRunPhaseExecutor.operation, the only place where the      *)
(* timeout or an interruption ends the runner's wait.                      *)
(***************************************************************************)
EXTENDS RunRecord, Sequences

CONSTANTS Steps,   \* the workflow, a sequence of "required" and "advisory"
          Modes    \* the preview options a run may have

ASSUME RecipeAssumption == /\ Steps \in Seq({"required", "advisory"})
                           /\ Modes \subseteq {"plain", "held", "leased"}

VARIABLES
  mode,      \* no preview hold; a blocking one; or one of a detached lease child
  record,    \* the run's registry record
  pc,        \* where runRecipe is
  step,      \* the workflow step it is at
  verdict,   \* what the collected evidence says of the recipe
  err,       \* the kind of error the catch block handles
  meta,      \* interruption.metadata
  hit,       \* history: the first operation ended from outside, and why
  runtime,   \* none, live, destroyed (a destroy() returned), or stuck
  services,  \* the managed services
  inner,     \* releaseRuntime, the task inside the "runtime.release" operation
  output,    \* what runRecipe returned
  exit,      \* what the command reported
  lease,     \* the status in the lease file
  published, \* the lease file names the run
  asked      \* a release command is between its two writes

runner  == <<pc, step, verdict, err, hit, output, exit>>
preview == <<lease, published, asked>>
held    == <<runtime, services, inner>>
vars    == <<mode, record, runner, meta, held, preview>>

NoHit == [why |-> "none", at |-> "none"]

Init == /\ mode \in Modes
        /\ record = NewRecord("queued")
        /\ pc = "validate" /\ step = 1 /\ verdict = "unknown"
        /\ err = "none" /\ meta = "none" /\ hit = NoHit
        /\ runtime = "none" /\ services = "none" /\ inner = "none"
        /\ output = "none" /\ exit = "none"
        /\ lease = IF mode = "leased" THEN "starting" ELSE "absent"
        /\ published = FALSE /\ asked = FALSE

-----------------------------------------------------------------------------
(* Helpers of the runner. *)
Interrupted == meta # "none"

GoTo(next) == pc' = next /\ UNCHANGED <<step, verdict, err, hit, output, exit>>

Throw(why) == /\ pc' = "catch" /\ err' = why
              /\ UNCHANGED <<step, verdict, hit, output, exit>>

Return(out, next) == /\ pc' = next /\ output' = out
                     /\ UNCHANGED <<step, verdict, err, hit, exit>>

Registry(u) == record' = ApplyUpdate(record, u)

(* Only the runner moves; or the runner and the record; or all but those. *)
Alone      == UNCHANGED <<mode, record, meta, held, preview>>
RecordOnly == UNCHANGED <<mode, meta, held, preview>>
Outer      == UNCHANGED <<mode, runner, held>>

(* A registry update with nothing else in the step. *)
UpdateStep(from, u, next) ==
  pc = from /\ Registry(u) /\ GoTo(next) /\ RecordOnly

(* throwIfInterrupted, or on to the next step. *)
CheckInterrupted(next) == IF Interrupted THEN Throw("interrupted") ELSE GoTo(next)

(* An operation that completes without touching what is modelled. *)
Completes(from, next) == pc = from /\ ~Interrupted /\ GoTo(next) /\ Alone

(* The preview stays up for a while before the runtime is destroyed.       *)
Hold == mode # "plain" /\ verdict = "good"

(* There is one slot for the callback that an interruption rejects, and    *)
(* the end of a hold empties it: from then on an interruption does not end *)
(* the "runtime.release" operation.                                        *)
Heard == pc = "release" => ~Hold \/ inner = "holding"

(* A mistake: the wait for an operation is not limited. *)
NeverTimesOut == IF Interrupted /\ Heard THEN {"interrupted"} ELSE {"failure"}

(* How an operation may be rejected: by an interruption that is heard, as  *)
(* soon as there is one, otherwise by its own failure or the timeout.      *)
Rejections == IF Interrupted /\ Heard THEN {"interrupted"} ELSE {"failure", "timeout"}

FirstHit(why, at) == IF hit = NoHit /\ why # "failure"
                     THEN [why |-> why, at |-> at] ELSE hit

ThrowHit(why, kind) == /\ pc' = "catch" /\ err' = kind /\ hit' = FirstHit(why, pc)
                     /\ UNCHANGED <<step, verdict, output, exit>>

(* destroyActiveRuntime, which is called once.  The runtime is stuck when  *)
(* destroy() throws or takes more than two seconds.                        *)
DestroyActiveRuntime ==
  runtime' \in IF runtime = "live" THEN {"destroyed", "stuck"} ELSE {runtime}

(* The catch of operation(): after a timeout, or in an interrupted run. *)
DestroyAfter(why) ==
  IF why = "timeout" \/ Interrupted THEN DestroyActiveRuntime ELSE UNCHANGED runtime

(* The error it rethrows, unless destroy() threw another one. *)
ErrorsAfter(why) ==
  IF runtime = "live" /\ runtime' = "stuck" THEN {why, "failure"} ELSE {why}

(* The lease is written only when there is a lease file. *)
MarkLease(status) == lease' = IF lease = "absent" THEN "absent" ELSE status

-----------------------------------------------------------------------------
(* Before the try block.  A refused recipe is settled; a planning error    *)
(* leaves the record as it is, and nobody settles it.                      *)
Validate == pc = "validate" /\ GoTo("prepare") /\ Alone

RefuseRecipe == UpdateStep("validate", SetStatus("failed"), "invalid")

StoreRefusal == /\ pc = "invalid"
                /\ Registry(SetResult("failure"))
                /\ Return("failure", "exiting")
                /\ RecordOnly

PlanThrows == pc = "validate" /\ Return("thrown", "exiting") /\ Alone

-----------------------------------------------------------------------------
(* The try block up to the workflow. *)
Prepare == pc = "prepare" /\ CheckInterrupted("boot") /\ Alone

Boot == UpdateStep("boot", SetStatus("booting"), "provision")

Provision == /\ pc = "provision" /\ ~Interrupted
             /\ services' = "up"
             /\ GoTo("create")
             /\ UNCHANGED <<mode, record, meta, runtime, inner, preview>>

(* provisionRuntimeServicesForRecipe aborts, waits and releases whatever   *)
(* was provisioned, which may fail, before it rethrows.                    *)
ProvisionRejected(why) ==
  /\ pc = "provision"
  /\ ThrowHit(why, why)
  /\ services' \in {"none", "leaked"}
  /\ UNCHANGED <<mode, record, meta, runtime, inner, preview>>

CreateRuntime == /\ pc = "create" /\ ~Interrupted
                 /\ runtime' = "live"
                 /\ GoTo("started")
                 /\ UNCHANGED <<mode, record, meta, services, inner, preview>>

(* Every rejection is rethrown as a RecipeRuntimeCreateError; a runtime    *)
(* that appears after it belongs to nobody.                                *)
CreateRejected(why) == pc = "create" /\ ThrowHit(why, "failure") /\ Alone

Started == /\ pc = "started"
           /\ Registry(SetStatus("running"))
           /\ CheckInterrupted("setup")
           /\ RecordOnly

(* Runtime setup, fixtures, site seeds and startup probes. *)
SetUp == Completes("setup", "step")

-----------------------------------------------------------------------------
(* The workflow. *)
AtStep == pc = "step" /\ step \in DOMAIN Steps

NextStep == step' = step + 1 /\ pc' = "step" /\ UNCHANGED <<verdict, err, output, exit>>

RunStep == AtStep /\ Completes("step", "stepped")

(* The failure of a required step is rethrown.                             *)
StepRejected(why) ==
  /\ AtStep /\ Steps[step] = "required"
  /\ DestroyAfter(why)
  /\ \E kind \in ErrorsAfter(why) : ThrowHit(why, kind)
  /\ UNCHANGED <<mode, record, meta, services, inner, preview>>

(* That of an advisory one is noted, and a pending interruption cleared.   *)
AdvisoryRejected(why) ==
  /\ AtStep /\ Steps[step] = "advisory"
  /\ NextStep /\ hit' = FirstHit(why, "advisory")
  /\ DestroyAfter(why)
  /\ meta' = "none"
  /\ UNCHANGED <<mode, record, services, inner, preview>>

(* throwIfInterrupted after a step that completed, in the same try. *)
CheckStep ==
  /\ pc = "stepped"
  /\ IF Interrupted /\ Steps[step] = "required"
     THEN Throw("interrupted") /\ UNCHANGED meta
     ELSE NextStep /\ UNCHANGED hit /\ meta' = "none"
  /\ UNCHANGED <<mode, record, held, preview>>

StepsDone == pc = "step" /\ step \notin DOMAIN Steps /\ GoTo("observe") /\ Alone

-----------------------------------------------------------------------------
(* Probes, declared artifacts and observations; then the bundle, whose     *)
(* evidence gives the verdict; then a second bundle for the preview hold.  *)
Observe == Completes("observe", "collecting")

Collecting == UpdateStep("collecting", SetStatus("collecting_artifacts"), "bundle")

Bundle == /\ pc = "bundle" /\ ~Interrupted
          /\ verdict' \in {"good", "bad"}
          /\ pc' = IF verdict' = "bad" \/ mode = "plain" THEN "cleanup" ELSE "rebundle"
          /\ UNCHANGED <<step, err, hit, output, exit>>
          /\ Alone

Rebundle == Completes("rebundle", "publish")

(* These operations are rejected like a required step. *)
WorkRejected(why) ==
  /\ pc \in {"setup", "observe", "bundle", "rebundle"}
  /\ DestroyAfter(why)
  /\ \E kind \in ErrorsAfter(why) : ThrowHit(why, kind)
  /\ UNCHANGED <<mode, record, meta, services, inner, preview>>

(* markPreviewLeaseAvailable, whatever the lease says by now. *)
Publish == /\ pc = "publish"
           /\ MarkLease("available")
           /\ published' = (lease # "absent")
           /\ GoTo("cleanup")
           /\ UNCHANGED <<mode, record, meta, held, asked>>

-----------------------------------------------------------------------------
(* The cleanup of a run whose recipe completed: runManagedServiceCleanup   *)
(* around the "runtime.release" operation.                                 *)
StartCleanup == UpdateStep("cleanup", SetCleanup("running"), "release")

(* releaseRuntime starts before the operation waits for it.  The           *)
(* operation's interruptible(), called second, takes the one reject slot:  *)
(* a later interruption ends the operation and not the hold.               *)
BeginRelease ==
  /\ pc = "release" /\ inner = "none" /\ ~Interrupted
  /\ inner' = IF Hold THEN "holding" ELSE "ending"
  /\ UNCHANGED <<mode, record, runner, meta, runtime, services, preview>>

(* When the run is interrupted already both throw at once. *)
ReleaseInterrupted ==
  /\ pc = "release" /\ inner = "none" /\ Interrupted
  /\ inner' = IF Hold THEN "cut" ELSE "ending"
  /\ DestroyActiveRuntime
  /\ pc' = "cleanup_failed" /\ hit' = FirstHit("interrupted", pc)
  /\ UNCHANGED <<step, verdict, err, output, exit>>
  /\ UNCHANGED <<mode, record, meta, services, preview>>

HoldElapses == /\ inner = "holding"
               /\ inner' = "ending"
               /\ UNCHANGED <<mode, record, runner, meta, runtime, services, preview>>

(* The end of releaseRuntime: destroy(), then the lease is marked; either  *)
(* may throw.                                                              *)
InnerDestroy ==
  /\ inner \in {"ending", "cut"}
  /\ \/ runtime' = "destroyed"
        /\ inner' = IF inner = "cut" THEN "marking_cut" ELSE "marking"
     \/ UNCHANGED runtime /\ inner' = "caught"
  /\ UNCHANGED <<mode, record, runner, meta, services, preview>>

InnerMark ==
  /\ inner \in {"marking", "marking_cut"}
  /\ \/ MarkLease("released")
        /\ inner' = IF inner = "marking" THEN "done" ELSE "caught"
     \/ UNCHANGED lease /\ inner' = "caught"
  /\ UNCHANGED <<mode, record, runner, meta, runtime, services, published, asked>>

(* The catch around it.  When a cancellation request is recorded, a lease  *)
(* child drops the error, whatever it was: it marks its lease, clears the  *)
(* interruption, and the release counts as done.                           *)
InnerCatch ==
  /\ inner = "caught"
  /\ \/ /\ mode = "leased" /\ meta = "cancel"
        /\ MarkLease("released") /\ meta' = "none"
        /\ inner' = "swallowed"
     \/ inner' = "failed" /\ UNCHANGED <<lease, meta>>
  /\ UNCHANGED <<mode, record, runner, runtime, services, published, asked>>

Released == /\ pc = "release" /\ inner \in {"done", "swallowed"}
            /\ ~(Interrupted /\ Heard)
            /\ GoTo("teardown") /\ Alone

(* The operation is rejected; the inner task goes on by itself. *)
ReleaseRejected(why) ==
  /\ pc = "release" /\ inner # "none"
  /\ why = "failure" => inner = "failed"
  /\ DestroyAfter(why)
  /\ pc' = "cleanup_failed" /\ hit' = FirstHit(why, pc)
  /\ UNCHANGED <<step, verdict, err, output, exit>>
  /\ UNCHANGED <<mode, record, meta, services, inner, preview>>

(* A mistake: an error of the teardown is dropped. *)
TeardownQuietly ==
  /\ pc = "teardown"
  /\ services' \in {"up", "released"}
  /\ GoTo("cleaned")
  /\ UNCHANGED <<mode, record, meta, runtime, inner, preview>>

(* releaseManagedServices, which may throw and be tried again, the removal *)
(* of the prepared sources, and the write that records the success.        *)
Teardown ==
  /\ pc = "teardown"
  /\ \/ services' = "released" /\ GoTo("cleaned")
     \/ services' \in {services, "released"} /\ GoTo("cleanup_failed")
  /\ UNCHANGED <<mode, record, meta, runtime, inner, preview>>

CleanupSucceeds == UpdateStep("cleaned", SetCleanup("succeeded"), "checked")

(* Whatever the cause, the error is now a RunResourceCleanupError. *)
CleanupFails == /\ pc = "cleanup_failed"
                /\ Registry(SetCleanup("failed"))
                /\ Throw("failure")
                /\ RecordOnly

CheckCleaned == pc = "checked" /\ CheckInterrupted("settle") /\ Alone

-----------------------------------------------------------------------------
(* A mistake: the verdict is not looked at. *)
SettleRegardless == UpdateStep("settle", SetStatus("succeeded"), "result")

(* finalizeCompletedRecipeRun: the status first, the result second. *)
Settle == UpdateStep("settle",
                  SetStatus(IF verdict = "good" THEN "succeeded" ELSE "failed"),
                  "result")

StoreResult ==
  /\ pc = "result"
  /\ LET out == IF verdict = "good" THEN "success" ELSE "failure"
     IN  Registry(SetResult(out)) /\ Return(out, "finally")
  /\ RecordOnly

(* Between the operations any call may fail: a registry or pointer write,  *)
(* runtime.info, reading the benchmarks.  After Settle the catch block     *)
(* then runs for a terminal run.                                           *)
Fails == /\ pc \in {"prepare", "boot", "started", "collecting", "publish", "cleanup",
                    "cleanup_failed", "checked", "settle", "result"}
         /\ Throw("failure")
         /\ Alone

-----------------------------------------------------------------------------
(* A mistake: the catch block forgets the lease. *)
CatchQuietly ==
  /\ pc = "catch"
  /\ GoTo(IF runtime = "none" THEN "late_cleanup"
          ELSE IF err = "timeout" THEN "destroy" ELSE "recover")
  /\ Alone

(* The catch block.  Evidence is collected first, if there is a runtime. *)
Catch ==
  /\ pc = "catch"
  /\ MarkLease("failed")
  /\ GoTo(IF runtime = "none" THEN "late_cleanup"
          ELSE IF err = "timeout" THEN "destroy" ELSE "recover")
  /\ UNCHANGED <<mode, record, meta, held, published, asked>>

(* operation() has called it already, so that it does nothing now. *)
DestroyAfterTimeout ==
  /\ pc = "destroy"
  /\ DestroyActiveRuntime
  /\ GoTo("late_cleanup")
  /\ UNCHANGED <<mode, record, meta, services, inner, preview>>

(* runRecipeCleanup around destroyActiveRuntime, whose errors are dropped. *)
RecoverBegin == UpdateStep("recover", SetCleanup("running"), "recovering")

RecoverEnd ==
  /\ pc = "recovering"
  /\ DestroyActiveRuntime
  /\ Registry(SetCleanup("succeeded"))
  /\ GoTo("late_cleanup")
  /\ UNCHANGED <<mode, meta, services, inner, preview>>

LateCleanup == UpdateStep("late_cleanup", SetCleanup("running"), "late_release")

(* A cleanup that fails here is recorded and the first error kept. *)
LateRelease ==
  /\ pc = "late_release"
  /\ LET released == IF services = "up" THEN "released" ELSE services
     IN  \/ /\ services' = released
            /\ Registry(SetCleanup("succeeded"))
         \/ /\ services' \in {services, released}
            /\ Registry(SetCleanup("failed"))
  /\ GoTo("late_settle")
  /\ UNCHANGED <<mode, meta, runtime, inner, preview>>

(* A mistake: only the error tells an interruption. *)
StatusOfError == CASE err = "interrupted" -> "cancelled"
                   [] err = "timeout"     -> "timed_out"
                   [] OTHER               -> "failed"

(* recipeRunFailureStatus. *)
FailureStatus == CASE Interrupted                      -> "cancelled"
                   [] ~Interrupted /\ err = "timeout"  -> "timed_out"
                   [] ~Interrupted /\ err # "timeout"  -> "failed"

(* finalizeRecoveredRecipeFailure, whose update throws for a terminal run. *)
LateSettle == /\ UpdateAllowed(record, SetStatus(FailureStatus))
              /\ UpdateStep("late_settle", SetStatus(FailureStatus), "late_result")

LateSettleThrows == /\ pc = "late_settle"
                    /\ ~UpdateAllowed(record, SetStatus(FailureStatus))
                    /\ Return("thrown", "finally")
                    /\ Alone

StoreFailure == /\ pc = "late_result"
                /\ Registry(SetResult("failure"))
                /\ Return("failure", "finally")
                /\ RecordOnly

(* The catch block itself may throw, from a write or runtime.info(). *)
CatchThrows == /\ pc \in {"catch", "recover", "recovering", "late_cleanup",
                          "late_release", "late_settle", "late_result"}
               /\ Return("thrown", "finally")
               /\ Alone

(* A mistake: the finally block leaves the services alone. *)
FinallyIdle == pc = "finally" /\ GoTo("exiting") /\ Alone

(* The finally block: one more try at the services; the watcher stops. *)
Finally ==
  /\ pc = "finally"
  /\ IF services = "up" THEN services' \in {"released", "leaked"} ELSE UNCHANGED services
  /\ GoTo("exiting")
  /\ UNCHANGED <<mode, record, meta, runtime, inner, preview>>

(* interruptedRecipeOutput: an interruption that arrived in time to be     *)
(* printed makes the output a failure.                                     *)
Exit ==
  /\ pc = "exiting"
  /\ pc' = "done"
  /\ exit' = IF output = "success" /\ ~Interrupted THEN "success" ELSE "failure"
  /\ UNCHANGED <<step, verdict, err, hit, output>>
  /\ Alone

-----------------------------------------------------------------------------
(* Around the runner. *)
Signal == /\ pc # "done" /\ ~Interrupted
          /\ meta' = "signal"
          /\ Outer /\ UNCHANGED <<record, preview>>

(* watchRunCancellationRequests: the record it judges may be an old one by *)
(* now, so the run may be terminal.                                        *)
Poll == /\ pc \notin {"validate", "invalid", "exiting", "done"}
        /\ ~Interrupted /\ record.cancellation # NoReason
        /\ meta' = "cancel"
        /\ Outer /\ UNCHANGED <<record, preview>>

(* `wp-codebox runs cancel`. *)
Cancel == /\ CancelAllowed(record)
          /\ \E r \in Reason : record' = ApplyCancel(record, r)
          /\ Outer /\ UNCHANGED <<meta, preview>>

(* `preview-lease release`: the cancellation request, if the lease names a *)
(* run, and then the lease, whatever its status.                           *)
AskRelease ==
  /\ lease # "absent" /\ ~asked
  /\ asked' = TRUE
  /\ IF published /\ CancelAllowed(record)
     THEN \E r \in Reason : record' = ApplyCancel(record, r)
     ELSE UNCHANGED record
  /\ Outer /\ UNCHANGED <<meta, lease, published>>

WriteRelease == /\ asked
                /\ lease' = "release_requested" /\ asked' = FALSE
                /\ Outer /\ UNCHANGED <<record, meta, published>>

(* `preview-lease status` after expiresAt. *)
Expire == /\ lease = "available"
          /\ lease' = "expired"
          /\ Outer /\ UNCHANGED <<record, meta, published, asked>>

(* The parent that waits for the preview finds its child gone, or gives up *)
(* after half an hour.                                                     *)
NeverReady == /\ lease = "starting"
              /\ lease' = "failed"
              /\ Outer /\ UNCHANGED <<record, meta, published, asked>>

-----------------------------------------------------------------------------
Rejected(why) == \/ ProvisionRejected(why) \/ CreateRejected(why)
                 \/ WorkRejected(why) \/ StepRejected(why)
                 \/ AdvisoryRejected(why) \/ ReleaseRejected(why)

EndedFromOutside == \E why \in Rejections \ {"failure"} : Rejected(why)

OperationFails == "failure" \in Rejections /\ Rejected("failure")

OperationCompletes == \/ Provision \/ CreateRuntime \/ SetUp \/ RunStep
                      \/ Observe \/ Bundle \/ Rebundle \/ Released

Runner == \/ Validate \/ RefuseRecipe \/ StoreRefusal \/ PlanThrows
          \/ Prepare \/ Boot \/ Started \/ CheckStep \/ StepsDone
          \/ Collecting \/ Publish \/ StartCleanup
          \/ BeginRelease \/ ReleaseInterrupted
          \/ Teardown \/ CleanupSucceeds \/ CleanupFails \/ CheckCleaned
          \/ Settle \/ StoreResult \/ Fails
          \/ Catch \/ DestroyAfterTimeout \/ RecoverBegin \/ RecoverEnd
          \/ LateCleanup \/ LateRelease \/ LateSettle \/ LateSettleThrows
          \/ StoreFailure \/ CatchThrows \/ Finally \/ Exit

(* The inner task lives as long as the process; an interruption rejects    *)
(* the operation before the task goes on.                                  *)
Inner == /\ pc # "done" /\ ~(pc = "release" /\ Interrupted /\ Heard)
         /\ HoldElapses \/ InnerDestroy \/ InnerMark \/ InnerCatch

Outside == Signal \/ Poll \/ Cancel \/ AskRelease \/ WriteRelease \/ Expire \/ NeverReady

Next == \/ Runner \/ OperationCompletes \/ OperationFails \/ EndedFromOutside
        \/ Inner \/ Outside

Spec == Init /\ [][Next]_vars

(* The runner's own steps and the recipe timer are fair; no operation is   *)
(* assumed to complete or to fail.                                         *)
FairSpec == Spec /\ WF_vars(Runner) /\ WF_vars(EndedFromOutside)

-----------------------------------------------------------------------------
(* Types, and the lease belongs to lease children. *)
TypeOK ==
  /\ mode \in Modes
  /\ record \in Record
  /\ pc \in {"validate", "invalid", "prepare", "boot", "provision", "create",
             "started", "setup", "step", "stepped", "observe", "collecting",
             "bundle", "rebundle", "publish", "cleanup", "release", "teardown",
             "cleaned", "cleanup_failed", "checked", "settle", "result", "catch",
             "destroy", "recover", "recovering", "late_cleanup", "late_release",
             "late_settle", "late_result", "finally", "exiting", "done"}
  /\ step \in Nat \ {0}
  /\ verdict \in {"unknown", "good", "bad"}
  /\ err \in {"none", "failure", "timeout", "interrupted"}
  /\ meta \in {"none", "signal", "cancel"}
  /\ hit \in [why : {"none", "timeout", "interrupted"},
              at : {"none", "provision", "create", "setup", "step", "advisory",
                    "observe", "bundle", "rebundle", "release"}]
  /\ runtime \in {"none", "live", "destroyed", "stuck"}
  /\ services \in {"none", "up", "released", "leaked"}
  /\ inner \in {"none", "holding", "ending", "cut", "marking", "marking_cut",
                "caught", "failed", "swallowed", "done"}
  /\ output \in {"none", "success", "failure", "thrown"}
  /\ exit \in {"none", "success", "failure"}
  /\ lease \in {"absent", "starting", "available", "release_requested",
                "released", "expired", "failed"}
  /\ (lease = "absent") = (mode # "leased")
  /\ published \in BOOLEAN /\ asked \in BOOLEAN

(* A run is recorded as succeeded only when its recipe was good, its       *)
(* services are released, and its runtime destroyed; and a command that    *)
(* reports success has recorded so, with the result and a clean cleanup.   *)
(* The exception is a lease child that dropped the error of a destroy()    *)
(* that threw while a cancellation was pending.                            *)
SuccessIsClean ==
  /\ record.status = "succeeded" => /\ verdict = "good"
                                    /\ services = "released"
                                    /\ runtime = "destroyed" \/ inner = "swallowed"
  /\ exit = "success" => /\ record.status = "succeeded"
                         /\ record.result = "success"
                         /\ record.cleanup.status = "succeeded"

(* Whichever way a run went, at its end every release of its services was  *)
(* tried.  Unless its catch block threw, no cleanup is recorded as still   *)
(* running; and destroy() has returned on its runtime, or was tried for    *)
(* two seconds, or threw in a lease child that dropped the error and ended *)
(* in success.                                                             *)
NothingForgotten ==
  pc = "done" =>
    /\ services # "up"
    /\ output # "thrown" =>
         /\ record.cleanup.status # "running"
         /\ runtime = "live" => inner = "swallowed" /\ output = "success"

(* A run that returned an output has settled its record, with the result   *)
(* that goes with the status.                                              *)
SettledUnlessThrown ==
  pc = "done" /\ output # "thrown" =>
    /\ record.status \in Terminal
    /\ record.result = output
    /\ (record.status = "succeeded") = (output = "success")

(* A timeout or an interruption that ends required work gives the run its  *)
(* status, whatever else happens: timed_out (or cancelled, if it is also   *)
(* interrupted), and cancelled.  Excepted are the places where the code    *)
(* rewraps a timeout, a runtime that cannot be destroyed, whose error      *)
(* takes the place of the timeout, the advisory steps, and lease children. *)
OutsideEndsRun ==
  pc = "done" /\ output # "thrown" =>
    /\ hit.why = "timeout" /\ hit.at \notin {"create", "release", "advisory"}
         /\ runtime # "stuck" => record.status \in {"timed_out", "cancelled"}
    /\ hit.why = "interrupted" /\ hit.at # "advisory" /\ mode # "leased"
         => record.status = "cancelled"

(* A finished run leaves no lease that says its preview is available,      *)
(* unless its catch block threw before it marked the lease.                *)
NoDeadPreview == pc = "done" /\ output # "thrown" => lease # "available"

(* Every run ends, although any operation may hang. *)
RunEnds == <>(pc = "done")

(* "Timeout ... interruptions settle as `timed_out`". *)
TimeoutsSettleTimedOut ==
  pc = "done" /\ output # "thrown" /\ hit.why = "timeout" /\ meta = "none"
    => record.status = "timed_out"

(* "... and signal interruptions settle as ... `cancelled`". *)
InterruptionsSettleCancelled ==
  pc = "done" /\ output # "thrown" /\ hit.why = "interrupted"
    => record.status = "cancelled"
=============================================================================
