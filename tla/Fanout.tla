------------------------------- MODULE Fanout -------------------------------
(***************************************************************************)
(* A fanout (runtime-core/src/fanout-execution.ts, fanout-aggregation.ts): *)
(* executeFanoutRequest runs the plan of RunPlan and then aggregates what  *)
(* its workers answered.  A worker's answer carries references to          *)
(* artifacts, some with the path they are meant for in the final output.   *)
(*                                                                         *)
(* Which workers are required and what they deliver is decided when it is  *)
(* first looked at, after the plan has resolved.                           *)
(***************************************************************************)
EXTENDS RunPlan, Sequences

CONSTANTS Path,        \* final paths
          NoPath,      \* a reference without one
          Deliveries,  \* what a worker may deliver: sequences of paths
          RequiredSets \* which workers may be the required ones

ASSUME FanoutAssumption ==
  /\ NoPath \notin Path
  /\ Deliveries \subseteq Seq(Path \cup {NoPath})
  /\ RequiredSets \subseteq SUBSET Worker

VARIABLES required,   \* which workers are required
          delivered,  \* the artifact references of each answer
          aggregate   \* the status of the aggregate, once there is one

fanout == <<required, delivered, aggregate>>

FanoutInit == /\ Init
              /\ required = {}
              /\ delivered = [w \in Worker |-> <<>>]
              /\ aggregate = "none"

-----------------------------------------------------------------------------
(* The result is what an adapter that was waited for answered, with or     *)
(* without a status; the executor's own results deliver nothing.           *)
Answered(w) == adapter[w] = "done" /\ result[w] \in AdapterResults

(* fanoutWorkerResultRef: an answer without a status has one made from its *)
(* `success`, which the reference does not carry any further.              *)
RefStatus(r) == IF r.status # "none" THEN r.status
                ELSE IF r.success THEN "succeeded" ELSE "failed"

(* normalizeAgentTaskStatus, of a status alone.                            *)
Normalised(status) == CASE status \in {"succeeded", "completed"} -> "succeeded"
                        [] status \in {"timed_out", "timeout"} -> "timeout"
                        [] status = "no_op" -> "no_op"
                        [] OTHER -> "failed"

(* agentTaskStatusSucceeded. *)
Succeeded(w) == Normalised(RefStatus(result[w])) \in {"succeeded", "no_op"}

(* fanoutWorkerResultRefWithDependencyRefs: a skipped worker that delivers *)
(* nothing itself passes on what its dependencies delivered, without the   *)
(* final paths.                                                            *)
Refs(w, delivery) ==
  IF result[w].status = "skipped" /\ delivery[w] = <<>>
  THEN [ref \in UNION {{d} \X DOMAIN delivery[d] : d \in deps[w]} |-> NoPath]
  ELSE delivery[w]

(* normalizeFanoutAggregationInput, which recognises its own output.  The  *)
(* references stay together by the worker they come from.                  *)
Normalise(input) ==
  IF input.normal THEN input
  ELSE [refs |-> input.refs \o input.ofWorkers,
        ofWorkers |-> input.ofWorkers, normal |-> TRUE]

(* detectDuplicateFinalArtifactPathConflicts. *)
DuplicatePaths(refs) ==
  \E v, w \in DOMAIN refs : \E i \in DOMAIN refs[v], j \in DOMAIN refs[w] :
    (v # w \/ i # j) /\ refs[v][i] = refs[w][j] /\ refs[v][i] # NoPath

(* A mistake: an optional worker's failure is nobody's business. *)
OnlyRequiredCount(needed) == \E w \in needed : ~Succeeded(w)

(* detectWorkerDependencyConflicts: of the workers, and of the plan. *)
WorkerConflicts(needed) ==
  \/ \E w \in needed : ~Succeeded(w)
  \/ \E w \in Worker : \E d \in deps[w] : ~Succeeded(d)

(* fanoutAggregationInputFromWorkerArtifacts normalises the input, and     *)
(* aggregateFanoutOutputs normalises it again.                             *)
Aggregate ==
  /\ plan = "resolved" /\ aggregate = "none"
  /\ \E needed \in RequiredSets,
        delivery \in [Worker -> Deliveries \cup {<<>>}] :
       /\ \A w \in Worker : ~Answered(w) => delivery[w] = <<>>
       /\ required' = needed /\ delivered' = delivery
       /\ LET input == [refs |-> <<>>, normal |-> FALSE,
                        ofWorkers |-> [w \in Worker |-> Refs(w, delivery)]]
              refs == Normalise(Normalise(input)).refs
          IN  aggregate' = IF WorkerConflicts(needed) \/ DuplicatePaths(refs)
                           THEN "failed" ELSE "succeeded"
  /\ UNCHANGED vars

(* onAggregationStarted or onAggregationCompleted throws instead. *)
AggregationThrows ==
  /\ plan = "resolved" /\ aggregate = "none"
  /\ aggregate' = "rejected"
  /\ UNCHANGED <<vars, required, delivered>>

FanoutNext == (Next /\ UNCHANGED fanout) \/ Aggregate \/ AggregationThrows

FanoutSpec == FanoutInit /\ [][FanoutNext]_<<vars, fanout>> /\ Fairness

-----------------------------------------------------------------------------
(* A fanout succeeds only if every required worker and every worker some   *)
(* other worker depends on answered itself, with a status of success or    *)
(* with none and a success, and no two artifacts that were delivered are   *)
(* meant for one final path.  It fails only for one of these reasons: what *)
(* a skipped worker passes on, and a second normalisation, conflict with   *)
(* nothing.  (The `success` of an answer with a status does not count.)    *)
SaysSuccess(r) == \/ r.status \in {"succeeded", "completed", "no_op"}
                  \/ r.status = "none" /\ r.success

Claims(w) == {p \in Path : \E i \in DOMAIN delivered[w] : delivered[w][i] = p}

ClaimedTwice ==
  \/ \E v, w \in Worker : v # w /\ Claims(v) \cap Claims(w) # {}
  \/ \E w \in Worker : \E i, j \in DOMAIN delivered[w] :
       i # j /\ delivered[w][i] = delivered[w][j] /\ delivered[w][i] # NoPath

Wanted(w) == w \in required \/ \E v \in Worker : w \in deps[v]

AggregateIsRight ==
  /\ aggregate = "succeeded" =>
       /\ \A w \in Worker : Wanted(w) => Answered(w) /\ SaysSuccess(result[w])
       /\ ~ClaimedTwice
  /\ aggregate = "failed" =>
       \/ \E w \in Worker : Wanted(w) /\ ~SaysSuccess(result[w])
       \/ ClaimedTwice
=============================================================================
