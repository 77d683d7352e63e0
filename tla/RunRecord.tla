----------------------------- MODULE RunRecord -----------------------------
(***************************************************************************)
(* The run-registry record of one run and the pure functions that compute  *)
(* its next value: runtime-core/src/run-registry.ts.                       *)
(*                                                                         *)
(* A record keeps what the protocol branches on: the status, the cleanup   *)
(* state, the cancellation request and whether a result was stored.        *)
(* Timestamps, runtime and preview descriptors, artifact references and    *)
(* free-form metadata are payload that no branch of the registry reads.    *)
(***************************************************************************)
EXTENDS Naturals

CONSTANTS Reason,       \* who asked for a cancellation (requestedAt and reason)
          NoReason      \* no cancellation was requested

ASSUME ReasonAssumption == NoReason \notin Reason

Terminal == {"succeeded", "failed", "timed_out", "cancelled"}

Active == {"queued", "booting", "running", "collecting_artifacts"}

Status == Active \cup Terminal

CleanupStatus == {"not_started", "running", "succeeded", "failed"}

Result == {"none", "success", "failure"}

Cleanup == [status : CleanupStatus, attempts : Nat]

Record == [status       : Status,
           cleanup      : Cleanup,
           cancellation : Reason \cup {NoReason},
           result       : Result]

(* A mistake in the table: any active run may be recorded as succeeded. *)
TransitionsTooWide ==
  (Active \X Terminal)
    \cup ({"queued"} \X {"booting"})
    \cup ({"queued", "booting"} \X {"running"})
    \cup ({"queued", "booting", "running"} \X {"collecting_artifacts"})

(* Where a run may go from each status; a terminal one leads nowhere. *)
Transitions ==
  ({"queued"} \X {"booting"})
    \cup ({"queued", "booting"} \X {"running"})
    \cup ({"queued", "booting", "running"} \X {"collecting_artifacts"})
    \cup ({"running", "collecting_artifacts"} \X {"succeeded"})
    \cup (Active \X {"cancelled", "failed", "timed_out"})

(* transitionRuntimeRunStatus throws unless this holds. *)
CanTransition(current, next) ==
  \/ next = current
  \/ /\ current \notin Terminal
     /\ <<current, next>> \in Transitions

-----------------------------------------------------------------------------
(* An update names the fields it sets; Keep stands for a field left out. *)
Keep == "keep"

Update == [status  : Status \cup {Keep},
           cleanup : CleanupStatus \cup {Keep},
           result  : Result \cup {Keep}]

SetStatus(s)  == [status |-> s, cleanup |-> Keep, result |-> Keep]
SetCleanup(c) == [status |-> Keep, cleanup |-> c, result |-> Keep]
SetResult(r)  == [status |-> Keep, cleanup |-> Keep, result |-> r]
SetNothing    == [status |-> Keep, cleanup |-> Keep, result |-> Keep]

NewRecord(s) == [status       |-> s,
                 cleanup      |-> [status |-> "not_started", attempts |-> 0],
                 cancellation |-> NoReason,
                 result       |-> "none"]

UpdatedCleanup(current, c) ==
  [status   |-> c,
   attempts |-> IF c = "running" THEN current.attempts + 1 ELSE current.attempts]

(* update() throws, and writes nothing, when the status may not change so. *)
UpdateAllowed(rec, u) == u.status = Keep \/ CanTransition(rec.status, u.status)

ApplyUpdate(rec, u) ==
  [status       |-> IF u.status = Keep THEN rec.status ELSE u.status,
   cleanup      |-> IF u.cleanup = Keep THEN rec.cleanup
                                        ELSE UpdatedCleanup(rec.cleanup, u.cleanup),
   cancellation |-> rec.cancellation,
   result       |-> IF u.result = Keep THEN rec.result ELSE u.result]

(* requestCancellation() returns without writing otherwise. *)
CancelAllowed(rec) == rec.status \notin Terminal /\ rec.cancellation = NoReason

ApplyCancel(rec, r) == [rec EXCEPT !.cancellation = r]
=============================================================================
