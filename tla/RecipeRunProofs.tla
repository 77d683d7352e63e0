-------------------------- MODULE RecipeRunProofs --------------------------
(***************************************************************************)
(* Proofs about RecipeRun: types, and what a finished run leaves behind.   *)
(***************************************************************************)
EXTENDS RecipeRun, TLAPS

-----------------------------------------------------------------------------
(* Registry updates. *)

LEMMA StatusUpdate ==
  ASSUME NEW rec \in Record, NEW s \in Status
  PROVE  /\ ApplyUpdate(rec, SetStatus(s)) \in Record
         /\ ApplyUpdate(rec, SetStatus(s)).status = s
         /\ ApplyUpdate(rec, SetStatus(s)).cleanup = rec.cleanup
         /\ ApplyUpdate(rec, SetStatus(s)).result = rec.result
         /\ ApplyUpdate(rec, SetStatus(s)).cancellation = rec.cancellation
  BY DEF Record, Cleanup, Status, Active, Terminal, ApplyUpdate, SetStatus, Keep

LEMMA CleanupUpdate ==
  ASSUME NEW rec \in Record, NEW c \in CleanupStatus
  PROVE  /\ ApplyUpdate(rec, SetCleanup(c)) \in Record
         /\ ApplyUpdate(rec, SetCleanup(c)).status = rec.status
         /\ ApplyUpdate(rec, SetCleanup(c)).cleanup.status = c
         /\ ApplyUpdate(rec, SetCleanup(c)).result = rec.result
         /\ ApplyUpdate(rec, SetCleanup(c)).cancellation = rec.cancellation
  BY DEF Record, Cleanup, CleanupStatus, ApplyUpdate, UpdatedCleanup, SetCleanup, Keep

LEMMA ResultUpdate ==
  ASSUME NEW rec \in Record, NEW r \in {"success", "failure"}
  PROVE  /\ ApplyUpdate(rec, SetResult(r)) \in Record
         /\ ApplyUpdate(rec, SetResult(r)).status = rec.status
         /\ ApplyUpdate(rec, SetResult(r)).cleanup = rec.cleanup
         /\ ApplyUpdate(rec, SetResult(r)).result = r
         /\ ApplyUpdate(rec, SetResult(r)).cancellation = rec.cancellation
  BY DEF Record, Result, ApplyUpdate, SetResult, Keep

LEMMA CancelUpdate ==
  ASSUME NEW rec \in Record, NEW r \in Reason
  PROVE  /\ ApplyCancel(rec, r) \in Record
         /\ ApplyCancel(rec, r).status = rec.status
         /\ ApplyCancel(rec, r).cleanup = rec.cleanup
         /\ ApplyCancel(rec, r).result = rec.result
  BY DEF Record, ApplyCancel

LEMMA FailureStatusType ==
  ASSUME err \in {"none", "failure", "timeout", "interrupted"}
  PROVE  /\ FailureStatus \in Terminal \ {"succeeded"}
         /\ Interrupted => FailureStatus = "cancelled"
         /\ err = "timeout" => FailureStatus \in {"timed_out", "cancelled"}
  BY DEF FailureStatus, Interrupted, Terminal

-----------------------------------------------------------------------------
(* The inductive invariant.  What each stretch of runRecipe knows:         *)

HasReturned == pc \in {"finally", "exiting", "done"} /\ output # "thrown"

Unsettled == pc \in {"catch", "destroy", "recover", "recovering", "late_cleanup",
                    "late_release", "late_settle"}

SettledLate == pc = "late_result" \/ HasReturned

(* before the services and the runtime exist, *)
NothingYet ==
  /\ pc \in {"validate", "invalid", "prepare", "boot", "provision"} => services = "none"
  /\ pc \in {"validate", "invalid", "prepare", "boot", "provision", "create"}
       => runtime = "none" /\ inner = "none"

(* once the release is over, *)
RuntimeGone ==
  /\ inner \in {"marking", "marking_cut", "done"} => runtime = "destroyed"
  /\ pc \in {"teardown", "cleaned", "checked", "settle", "result"}
       => inner \in {"done", "swallowed"}
  /\ pc \in {"release", "teardown", "cleaned", "checked", "settle", "result"}
     /\ inner = "swallowed" => verdict = "good"
  /\ pc \in {"cleaned", "checked", "settle", "result"} => services = "released"

(* in the catch block, *)
Recovered == pc \in {"late_cleanup", "late_release", "late_settle", "late_result"}
               => runtime # "live"

(* on the record, *)
StatusKnown ==
  /\ record.status \in Terminal
       => pc \in {"invalid", "result", "catch", "destroy", "recover", "recovering",
                  "late_cleanup", "late_release", "late_settle", "late_result",
                  "finally", "exiting", "done"}
  /\ record.status = "succeeded" => /\ verdict = "good"
                                    /\ services = "released"
                                    /\ inner \in {"done", "swallowed"}
  /\ pc = "invalid" => record.status = "failed"
  /\ pc = "result" => record.status = IF verdict = "good" THEN "succeeded" ELSE "failed"
  /\ pc = "late_result" => record.status \in Terminal \ {"succeeded"}

CleanupKnown ==
  /\ record.cleanup.status = "running"
       => \/ pc \in {"release", "teardown", "cleaned", "cleanup_failed", "catch",
                     "destroy", "recover", "recovering", "late_cleanup", "late_release"}
          \/ output = "thrown"
  /\ pc \in {"checked", "settle", "result"} => record.cleanup.status = "succeeded"

(* of the lease, *)
LeaseKnown ==
  /\ asked => mode = "leased"
  /\ pc \in {"started", "setup", "step", "stepped", "observe", "collecting", "bundle",
            "rebundle", "publish", "cleanup"} => inner = "none"
  /\ lease = "available" =>
       /\ inner \notin {"done", "swallowed"}
       /\ pc \in {"cleanup", "release", "cleanup_failed", "catch"} \/ output = "thrown"

(* of an operation ended from outside, *)
TimedOutKnown ==
  hit.why = "timeout" /\ hit.at \notin {"create", "release", "advisory"} =>
    /\ inner = "none"
    /\ Unsettled \/ SettledLate \/ output = "thrown"
    /\ runtime # "stuck" =>
         /\ err = "timeout"
         /\ Unsettled => record.status \notin Terminal
         /\ SettledLate => record.status \in {"timed_out", "cancelled"}

InterruptedKnown ==
  hit.why = "interrupted" /\ hit.at # "advisory" /\ mode # "leased" =>
    /\ Interrupted
    /\ Unsettled \/ pc = "cleanup_failed" => record.status \notin Terminal
    /\ SettledLate => record.status = "cancelled"
    /\ pc = "cleanup_failed" \/ Unsettled \/ SettledLate \/ output = "thrown"

(* and when runRecipe has returned. *)
Returned ==
  /\ (output = "none") = (pc \notin {"finally", "exiting", "done"})
  /\ pc \in {"exiting", "done"} => services # "up"
  /\ pc \in {"finally", "exiting", "done"} /\ output # "thrown" =>
       /\ runtime = "live" => inner = "swallowed" /\ output = "success"
       /\ record.status \in Terminal
       /\ record.result = output
       /\ (record.status = "succeeded") = (output = "success")
       /\ output = "success" => record.cleanup.status = "succeeded"
  /\ exit = "success" => pc = "done" /\ output = "success"

IInv == /\ TypeOK
        /\ NothingYet /\ RuntimeGone /\ Recovered
        /\ StatusKnown /\ CleanupKnown /\ Returned
        /\ LeaseKnown /\ TimedOutKnown /\ InterruptedKnown

-----------------------------------------------------------------------------
(* Every step keeps the invariant, one action at a time. *)
LEMMA Inductive == IInv /\ [Next]_vars => IInv'
<1> SUFFICES ASSUME IInv, [Next]_vars PROVE IInv'
  OBVIOUS
<1> USE DEF IInv, TypeOK, NothingYet, RuntimeGone, Recovered, StatusKnown,
        CleanupKnown, Returned, LeaseKnown, TimedOutKnown, InterruptedKnown,
        HasReturned, Unsettled, SettledLate, Terminal, Alone, RecordOnly, GoTo, Throw, Return,
        Registry, UpdateStep, Completes, MarkLease, Interrupted, CheckInterrupted,
        runner, held, preview
<1>1. CASE Runner
  <2>1. CASE Validate
    BY <2>1 DEF Validate
  <2>2. CASE RefuseRecipe
    BY <2>2, StatusUpdate DEF RefuseRecipe, Status, Active
  <2>3. CASE StoreRefusal
    BY <2>3, ResultUpdate DEF StoreRefusal
  <2>4. CASE PlanThrows
    BY <2>4 DEF PlanThrows
  <2>5. CASE Prepare
    BY <2>5 DEF Prepare
  <2>6. CASE Boot
    BY <2>6, StatusUpdate DEF Boot, Status, Active
  <2>7. CASE Started
    BY <2>7, StatusUpdate DEF Started, Status, Active
  <2>8. CASE CheckStep
    BY <2>8 DEF CheckStep, NextStep
  <2>9. CASE StepsDone
    BY <2>9 DEF StepsDone
  <2>10. CASE Collecting
    BY <2>10, StatusUpdate DEF Collecting, Status, Active
  <2>11. CASE Publish
    BY <2>11 DEF Publish
  <2>12. CASE StartCleanup
    BY <2>12, CleanupUpdate DEF StartCleanup, CleanupStatus
  <2>13. CASE BeginRelease
    BY <2>13 DEF BeginRelease, Hold
  <2>14. CASE ReleaseInterrupted
    BY <2>14 DEF ReleaseInterrupted, DestroyActiveRuntime, FirstHit, Hold
  <2>15. CASE Teardown
    BY <2>15 DEF Teardown
  <2>16. CASE CleanupSucceeds
    BY <2>16, CleanupUpdate DEF CleanupSucceeds, CleanupStatus
  <2>17. CASE CleanupFails
    BY <2>17, CleanupUpdate DEF CleanupFails, CleanupStatus
  <2>18. CASE CheckCleaned
    BY <2>18 DEF CheckCleaned
  <2>19. CASE Settle
    BY <2>19, StatusUpdate DEF Settle, Status, Active
  <2>20. CASE StoreResult
    BY <2>20, ResultUpdate DEF StoreResult
  <2>21. CASE Fails
    BY <2>21 DEF Fails
  <2>22. CASE Catch
    BY <2>22 DEF Catch
  <2>23. CASE DestroyAfterTimeout
    BY <2>23 DEF DestroyAfterTimeout, DestroyActiveRuntime
  <2>24. CASE RecoverBegin
    BY <2>24, CleanupUpdate DEF RecoverBegin, CleanupStatus
  <2>25. CASE RecoverEnd
    BY <2>25, CleanupUpdate DEF RecoverEnd, CleanupStatus, DestroyActiveRuntime
  <2>26. CASE LateCleanup
    BY <2>26, CleanupUpdate DEF LateCleanup, CleanupStatus
  <2>27. CASE LateRelease
    BY <2>27, CleanupUpdate DEF LateRelease, CleanupStatus
  <2>28. CASE LateSettle
    BY <2>28, StatusUpdate, FailureStatusType DEF LateSettle, Status, Active
  <2>29. CASE LateSettleThrows
    BY <2>29 DEF LateSettleThrows
  <2>30. CASE StoreFailure
    BY <2>30, ResultUpdate DEF StoreFailure
  <2>31. CASE CatchThrows
    BY <2>31 DEF CatchThrows
  <2>32. CASE Finally
    BY <2>32 DEF Finally
  <2>33. CASE Exit
    BY <2>33 DEF Exit
  <2> QED
    BY <1>1, <2>1, <2>2, <2>3, <2>4, <2>5, <2>6, <2>7, <2>8, <2>9, <2>10, <2>11, <2>12, <2>13, <2>14, <2>15, <2>16, <2>17, <2>18, <2>19, <2>20, <2>21, <2>22, <2>23, <2>24, <2>25, <2>26, <2>27, <2>28, <2>29, <2>30, <2>31, <2>32, <2>33 DEF Runner
<1>2. CASE OperationCompletes
  <2>1. CASE Provision
    BY <2>1 DEF Provision
  <2>2. CASE CreateRuntime
    BY <2>2 DEF CreateRuntime
  <2>3. CASE SetUp
    BY <2>3 DEF SetUp
  <2>4. CASE RunStep
    BY <2>4 DEF RunStep, AtStep
  <2>5. CASE Observe
    BY <2>5 DEF Observe
  <2>6. CASE Bundle
    BY <2>6 DEF Bundle
  <2>7. CASE Rebundle
    BY <2>7 DEF Rebundle
  <2>8. CASE Released
    BY <2>8 DEF Released
  <2> QED
    BY <1>2, <2>1, <2>2, <2>3, <2>4, <2>5, <2>6, <2>7, <2>8 DEF OperationCompletes
<1>3. ASSUME NEW why \in Rejections, Rejected(why)
      PROVE  IInv'
  <2>1. CASE ProvisionRejected(why)
    BY <1>3, <2>1 DEF Rejections, Heard, ProvisionRejected, ThrowHit, FirstHit
  <2>2. CASE CreateRejected(why)
    BY <1>3, <2>2 DEF Rejections, Heard, CreateRejected, ThrowHit, FirstHit
  <2>3. CASE WorkRejected(why)
    <3>1. /\ runtime' \in {"none", "live", "destroyed", "stuck"}
          /\ runtime = "none" => runtime' = "none"
      BY <2>3 DEF WorkRejected, DestroyAfter, DestroyActiveRuntime
    <3>2. PICK kind \in ErrorsAfter(why) : ThrowHit(why, kind)
      BY <2>3 DEF WorkRejected
    <3>3. why \in {"failure", "timeout", "interrupted"} /\ (why = "interrupted" => Interrupted)
      BY <1>3 DEF Rejections
    <3>4. kind \in {why, "failure"} /\ (runtime' # "stuck" => kind = why)
      BY <3>2 DEF ErrorsAfter
    <3>5. /\ pc \in {"setup", "observe", "bundle", "rebundle"}
          /\ UNCHANGED <<mode, record, meta, services, inner, lease, published, asked>>
      BY <2>3 DEF WorkRejected, AtStep
    <3>6. /\ pc' = "catch" /\ err' = kind
          /\ hit' = hit \/ (why # "failure" /\ hit' = [why |-> why, at |-> pc])
          /\ UNCHANGED <<step, verdict, output, exit>>
      BY <3>2 DEF ThrowHit, FirstHit
    <3>7. TypeOK'
      BY <3>1, <3>3, <3>4, <3>5, <3>6
    <3>8. TimedOutKnown' /\ InterruptedKnown'
      BY <3>1, <3>3, <3>4, <3>5, <3>6
    <3> QED
      BY <3>1, <3>5, <3>6, <3>7, <3>8
  <2>4. CASE StepRejected(why)
    <3>1. /\ runtime' \in {"none", "live", "destroyed", "stuck"}
          /\ runtime = "none" => runtime' = "none"
      BY <2>4 DEF StepRejected, DestroyAfter, DestroyActiveRuntime
    <3>2. PICK kind \in ErrorsAfter(why) : ThrowHit(why, kind)
      BY <2>4 DEF StepRejected
    <3>3. why \in {"failure", "timeout", "interrupted"} /\ (why = "interrupted" => Interrupted)
      BY <1>3 DEF Rejections
    <3>4. kind \in {why, "failure"} /\ (runtime' # "stuck" => kind = why)
      BY <3>2 DEF ErrorsAfter
    <3>5. /\ pc = "step"
          /\ UNCHANGED <<mode, record, meta, services, inner, lease, published, asked>>
      BY <2>4 DEF StepRejected, AtStep
    <3>6. /\ pc' = "catch" /\ err' = kind
          /\ hit' = hit \/ (why # "failure" /\ hit' = [why |-> why, at |-> pc])
          /\ UNCHANGED <<step, verdict, output, exit>>
      BY <3>2 DEF ThrowHit, FirstHit
    <3>7. TypeOK'
      BY <3>1, <3>3, <3>4, <3>5, <3>6
    <3>8. TimedOutKnown' /\ InterruptedKnown'
      BY <3>1, <3>3, <3>4, <3>5, <3>6
    <3> QED
      BY <3>1, <3>5, <3>6, <3>7, <3>8
  <2>5. CASE AdvisoryRejected(why)
    <3>1. runtime' \in {"none", "live", "destroyed", "stuck"}
      BY <2>5 DEF AdvisoryRejected, DestroyAfter, DestroyActiveRuntime
    <3> QED
      BY <1>3, <2>5, <3>1
      DEF Rejections, Heard, AdvisoryRejected, NextStep, FirstHit, AtStep
  <2>6. CASE ReleaseRejected(why)
    BY <1>3, <2>6 DEF Rejections, ReleaseRejected, FirstHit, DestroyAfter, DestroyActiveRuntime, ErrorsAfter, Heard, Hold
  <2> QED
    BY <1>3, <2>1, <2>2, <2>3, <2>4, <2>5, <2>6 DEF Rejected
<1>4. CASE OperationFails \/ EndedFromOutside
  BY <1>3, <1>4 DEF OperationFails, EndedFromOutside, Rejections
<1>5. CASE Inner
  <2>1. CASE HoldElapses
    BY <1>5, <2>1 DEF Inner, HoldElapses
  <2>2. CASE InnerDestroy
    BY <1>5, <2>2 DEF Inner, InnerDestroy
  <2>3. CASE InnerMark
    BY <1>5, <2>3 DEF Inner, InnerMark
  <2>4. CASE InnerCatch
    BY <1>5, <2>4 DEF Inner, InnerCatch, Heard, Hold
  <2> QED
    BY <1>5, <2>1, <2>2, <2>3, <2>4 DEF Inner
<1>6. CASE Outside
  <2>1. CASE Signal
    BY <2>1 DEF Signal, Outer
  <2>2. CASE Poll
    BY <2>2 DEF Poll, Outer
  <2>3. CASE Cancel
    BY <2>3, CancelUpdate DEF Cancel, Outer, CancelAllowed
  <2>4. CASE AskRelease
    BY <2>4, CancelUpdate DEF AskRelease, Outer, CancelAllowed
  <2>5. CASE WriteRelease
    <3>1. mode = "leased"
      BY <2>5 DEF WriteRelease
    <3>2. asked' \in BOOLEAN /\ lease' = "release_requested" /\ mode' = "leased"
      BY <2>5, <3>1 DEF WriteRelease, Outer
    <3> QED
      BY <2>5, <3>2 DEF WriteRelease, Outer
  <2>6. CASE Expire
    BY <2>6 DEF Expire, Outer
  <2>7. CASE NeverReady
    BY <2>7 DEF NeverReady, Outer
  <2> QED
    BY <1>6, <2>1, <2>2, <2>3, <2>4, <2>5, <2>6, <2>7 DEF Outside
<1>7. CASE UNCHANGED vars
  BY <1>7 DEF vars
<1> QED
  BY <1>1, <1>2, <1>4, <1>5, <1>6, <1>7 DEF Next

LEMMA Initially == Init => IInv
<1> SUFFICES ASSUME Init PROVE IInv
  OBVIOUS
<1>1. NewRecord("queued") \in Record
  BY DEF NewRecord, Record, Cleanup, CleanupStatus, Status, Active, Result
<1>2. /\ record.status = "queued"
      /\ record.cleanup.status = "not_started"
  BY DEF Init, NewRecord
<1>3. published \in BOOLEAN /\ asked \in BOOLEAN
  BY DEF Init
<1>4. (lease = "absent") = (mode # "leased")
  BY DEF Init
<1>5. hit.why = "none" /\ hit.at = "none" /\ hit = NoHit
  BY DEF Init, NoHit
<1>6. TypeOK
  BY <1>1, <1>3, <1>4, <1>5 DEF Init, TypeOK, NoHit
<1> QED
  BY <1>2, <1>5, <1>6
  DEF Init, IInv, NothingYet, RuntimeGone, Recovered, StatusKnown, CleanupKnown,
      Returned, LeaseKnown, TimedOutKnown, InterruptedKnown, HasReturned, Terminal

LEMMA Invariance == Spec => []IInv
  BY Initially, Inductive, PTL DEF Spec

(* The types hold whatever the workflow and however calls, timeouts and    *)
(* interruptions fall.                                                     *)
THEOREM TypeCorrect == Spec => []TypeOK
<1>1. IInv => TypeOK
  BY DEF IInv
<1> QED
  BY <1>1, Invariance, PTL

(* No success is recorded, or reported, over a live runtime, services that *)
(* were not released or a failed cleanup (recipe-run.ts runRecipe).        *)
THEOREM CleanSuccess == Spec => []SuccessIsClean
<1>1. IInv => SuccessIsClean
  BY DEF IInv, RuntimeGone, StatusKnown, Returned, SuccessIsClean
<1> QED
  BY <1>1, Invariance, PTL

(* No path through runRecipe, its catch and its finally forgets the        *)
(* runtime, the services or a cleanup in progress.                         *)
THEOREM AllReleased == Spec => []NothingForgotten
<1>1. IInv => NothingForgotten
  BY DEF IInv, CleanupKnown, Returned, NothingForgotten
<1> QED
  BY <1>1, Invariance, PTL

(* A run that returned is settled, with the result of its status.          *)
THEOREM Settled == Spec => []SettledUnlessThrown
<1>1. IInv => SettledUnlessThrown
  BY DEF IInv, Returned, SettledUnlessThrown
<1> QED
  BY <1>1, Invariance, PTL

(* A timeout or an interruption of required work gives the run its status, *)
(* whatever happens between it and the end of the catch block.             *)
THEOREM OutsideEnds == Spec => []OutsideEndsRun
<1>1. ASSUME IInv, pc = "done", output # "thrown"
      PROVE  OutsideEndsRun
  <2>1. SettledLate
    BY <1>1 DEF SettledLate, HasReturned
  <2>2. /\ hit.why = "timeout" /\ hit.at \notin {"create", "release", "advisory"}
        /\ runtime # "stuck"
        => record.status \in {"timed_out", "cancelled"}
    BY <1>1, <2>1 DEF IInv, TimedOutKnown
  <2>3. hit.why = "interrupted" /\ hit.at # "advisory" /\ mode # "leased"
        => record.status = "cancelled"
    BY <1>1, <2>1 DEF IInv, InterruptedKnown
  <2> QED
    BY <2>2, <2>3 DEF OutsideEndsRun
<1>2. IInv => OutsideEndsRun
  BY <1>1 DEF OutsideEndsRun
<1> QED
  BY <1>2, Invariance, PTL

(* A run that returned leaves no lease that says "available".              *)
THEOREM PreviewEnds == Spec => []NoDeadPreview
<1>1. IInv => NoDeadPreview
  BY DEF IInv, LeaseKnown, NoDeadPreview
<1> QED
  BY <1>1, Invariance, PTL
=============================================================================
