------------------------------ MODULE RunPlan ------------------------------
(***************************************************************************)
(* The run-plan executor (runtime-core/src/run-plan.ts): executeRunPlan    *)
(* over runDependencyAwareConcurrent.  One JavaScript thread runs pump()   *)
(* to completion; between two pumps the workers' callbacks, adapters and   *)
(* timers settle in any order.                                             *)
(*                                                                         *)
(* Workers are numbered in request order, the order pump() scans them in.  *)
(* Descriptors are already normalised: ids are unique, and concurrency is  *)
(* not in "validate" mode, where an out-of-range request throws first.     *)
(***************************************************************************)
EXTENDS Integers, FiniteSets

CONSTANTS NumWorkers,      \* how many workers the plan has
          Requested,       \* the values plan.concurrency may have
          MaxConcurrency,  \* the host's cap on it
          Controls,        \* which timeout and cancellation metadata occur
          AdapterResults   \* what an adapter may answer

(* What an answer may call itself; "none" stands for an answer without a   *)
(* status, "completed" for "passed" as well, and "failed" for every status *)
(* the code does not know.                                                 *)
Statuses == {"succeeded", "completed", "no_op", "failed", "cancelled",
             "timed_out", "timeout", "skipped"}

Result == [success : BOOLEAN, status : Statuses \cup {"none"}]

ASSUME PlanAssumption ==
  /\ NumWorkers \in Nat \ {0}
  /\ Requested \subseteq Int
  /\ MaxConcurrency \in Nat \ {0}
  /\ Controls \subseteq {"none", "timeout", "deadline", "cancelled"}
  /\ AdapterResults \subseteq Result

Worker == 1..NumWorkers

VARIABLES deps,      \* what each worker depends on
          control,   \* each worker's timeout, deadline or cancellation flag
          limit,     \* effectiveConcurrency
          stage,     \* where each worker is between waiting and settled
          result,    \* its result, once there is one
          adapter,   \* its adapter call: idle, running or done
          plan       \* the promise executeRunPlan returned

vars == <<deps, control, limit, stage, result, adapter, plan>>

NoResult == [success |-> FALSE, status |-> "none"]
Unsuccessful(s) == [success |-> FALSE, status |-> s]

-----------------------------------------------------------------------------

(* normalizeRunPlanConcurrency, whose default is 1 and which reads 0 as    *)
(* "not given".                                                            *)
Clamp(value, most) ==
  LET asked == IF value = 0 THEN 1 ELSE value
      below == IF asked < most THEN asked ELSE most
  IN  IF below < 1 THEN 1 ELSE below

(* The plan's cap, then the number of workers. *)
EffectiveConcurrency(value) == Clamp(Clamp(value, MaxConcurrency), NumWorkers)

(* A mistake: only a worker that names itself is refused. *)
NoSelfDependency(needs) == \A w \in Worker : w \notin needs[w]

(* What validateRunPlanDependencies accepts: no set of workers in which    *)
(* everyone depends on someone of the set, so no cycle.                    *)
Acyclic(needs) ==
  \A S \in (SUBSET Worker) \ {{}} : \E w \in S : needs[w] \cap S = {}

ValidDependencies == {needs \in [Worker -> SUBSET Worker] : Acyclic(needs)}

Init == /\ deps \in ValidDependencies
        /\ control \in [Worker -> Controls]
        /\ \E value \in Requested : limit = EffectiveConcurrency(value)
        /\ stage = [w \in Worker |-> "waiting"]
        /\ result = [w \in Worker |-> NoResult]
        /\ adapter = [w \in Worker |-> "idle"]
        /\ plan = "validated"

-----------------------------------------------------------------------------
(* pump(), as a function of the stages it starts from.  Results arrive     *)
(* only between pumps, so the set of ready workers is fixed while it runs. *)

(* The workers `active` counts; one whose callback threw keeps its slot. *)
InHand(st) == {w \in Worker : st[w] \notin {"waiting", "settled"}}

(* A mistake: one settled dependency is enough. *)
ReadyEarly(st) ==
  {w \in Worker : /\ st[w] = "waiting"
                  /\ deps[w] = {} \/ \E d \in deps[w] : st[d] = "settled"}

Ready(st) == {w \in Worker : /\ st[w] = "waiting"
                             /\ \A d \in deps[w] : st[d] = "settled"}

(* A mistake: only a dependency that failed outright dooms a worker. *)
DoomedByFailure(w) == \E d \in deps[w] : result[d].status = "failed"

Doomed(w) == \E d \in deps[w] : ~result[d].success

ToSkip(st) == {w \in Ready(st) : Doomed(w)}

(* A mistake: `active` is read once, before the scan. *)
ToStartUncounted(st) ==
  {w \in Ready(st) \ ToSkip(st) : Cardinality(InHand(st)) < limit}

(* Every ready worker scanned before w has taken a slot, or none was left. *)
ToStart(st) ==
  {w \in Ready(st) \ ToSkip(st) :
     Cardinality(InHand(st)) + Cardinality({v \in Ready(st) : v < w}) < limit}

(* The part of worker() before its first await: a cancelled worker and one *)
(* whose deadline has passed have a result and never reach the adapter.    *)
EntryResult(w, expired) ==
  IF control[w] = "cancelled" THEN Unsuccessful("cancelled")
  ELSE IF w \in expired THEN Unsuccessful("timed_out")
  ELSE NoResult

EntryStage(w, expired) ==
  IF EntryResult(w, expired) = NoResult THEN "starting" ELSE "reporting"

PlanAfter(st) ==
  IF plan \notin {"validated", "running"} THEN plan
  ELSE IF \A w \in Worker : st[w] = "settled" THEN "resolved"
  ELSE IF ToSkip(st) \cup ToStart(st) \cup InHand(st) = {} THEN "unschedulable"
  ELSE "running"

Pump(st) ==
  /\ \E expired \in SUBSET {w \in Worker : control[w] = "deadline"} :
       /\ stage' = [w \in Worker |->
                      IF w \in ToSkip(st) THEN "skipping"
                      ELSE IF w \in ToStart(st) THEN EntryStage(w, expired)
                      ELSE st[w]]
       /\ result' = [w \in Worker |->
                       IF w \in ToSkip(st) THEN Unsuccessful("skipped")
                       ELSE IF w \in ToStart(st) THEN EntryResult(w, expired)
                       ELSE result[w]]
  /\ plan' = PlanAfter(st)
  /\ UNCHANGED <<deps, control, limit, adapter>>

-----------------------------------------------------------------------------
Begin == plan = "validated" /\ Pump(stage)

(* onWorkerStarted is done: the adapter runs, under a timer if there is a  *)
(* timeout or a deadline.                                                  *)
Launch(w) ==
  /\ stage[w] = "starting"
  /\ stage' = [stage EXCEPT ![w] = "executing"]
  /\ adapter' = [adapter EXCEPT ![w] = "running"]
  /\ UNCHANGED <<deps, control, limit, result, plan>>

(* The adapter's result is passed to onWorkerCompleted or onWorkerFailed. *)
Respond(w) ==
  /\ stage[w] = "executing"
  /\ stage' = [stage EXCEPT ![w] = "reporting"]
  /\ adapter' = [adapter EXCEPT ![w] = "done"]
  /\ \E r \in AdapterResults : result' = [result EXCEPT ![w] = r]
  /\ UNCHANGED <<deps, control, limit, plan>>

(* The timer fires first; nothing stops the adapter. *)
Timeout(w) ==
  /\ stage[w] = "executing"
  /\ control[w] \in {"timeout", "deadline"}
  /\ stage' = [stage EXCEPT ![w] = "reporting"]
  /\ result' = [result EXCEPT ![w] = Unsuccessful("timed_out")]
  /\ UNCHANGED <<deps, control, limit, adapter, plan>>

(* An adapter that answers or throws after its timeout settles a promise   *)
(* nobody waits for.                                                       *)
LateResponse(w) ==
  /\ stage[w] # "executing" /\ adapter[w] = "running"
  /\ adapter' = [adapter EXCEPT ![w] = "done"]
  /\ UNCHANGED <<deps, control, limit, stage, result, plan>>

Reject == plan' = IF plan = "running" THEN "rejected" ELSE plan

(* The adapter throws: the plan is rejected, and the worker's slot and its *)
(* place in `running` are never given back.                                *)
AdapterThrows(w) ==
  /\ stage[w] = "executing"
  /\ stage' = [stage EXCEPT ![w] = "broken"]
  /\ adapter' = [adapter EXCEPT ![w] = "done"]
  /\ Reject
  /\ UNCHANGED <<deps, control, limit, result>>

(* So does one of the onWorker... callbacks. *)
CallbackThrows(w) ==
  /\ stage[w] \in {"starting", "reporting", "skipping"}
  /\ stage' = [stage EXCEPT ![w] = "broken"]
  /\ Reject
  /\ UNCHANGED <<deps, control, limit, result, adapter>>

(* A mistake: nothing is scheduled when a worker settles. *)
SettleWithoutPump(w) ==
  /\ stage[w] \in {"reporting", "skipping"}
  /\ stage' = [stage EXCEPT ![w] = "settled"]
  /\ plan' = IF \A v \in Worker : stage'[v] = "settled" THEN "resolved" ELSE plan
  /\ UNCHANGED <<deps, control, limit, result, adapter>>

(* The then() of a worker or of a skipped one, which pumps again, even     *)
(* when the plan was rejected in the meantime.                             *)
Settle(w) ==
  /\ stage[w] \in {"reporting", "skipping"}
  /\ Pump([stage EXCEPT ![w] = "settled"])

(* Nothing is left to happen. *)
Finished ==
  /\ plan \notin {"validated", "running"}
  /\ \A w \in Worker : /\ stage[w] \in {"waiting", "settled", "broken"}
                       /\ adapter[w] # "running"
  /\ UNCHANGED vars

Step(w) == \/ Launch(w) \/ Respond(w) \/ Timeout(w) \/ LateResponse(w)
           \/ AdapterThrows(w) \/ CallbackThrows(w) \/ Settle(w)

Next == Begin \/ (\E w \in Worker : Step(w)) \/ Finished

Spec == Init /\ [][Next]_vars

(* Callbacks and timers settle, and so does an adapter no timer watches;   *)
(* one that a timer watches may hang forever.                              *)
Fairness ==
  /\ WF_vars(Begin)
  /\ \A w \in Worker :
       /\ WF_vars(Launch(w))
       /\ WF_vars(Settle(w))
       /\ WF_vars(Timeout(w))
       /\ WF_vars(control[w] = "none" /\ Respond(w))

FairSpec == Spec /\ Fairness

-----------------------------------------------------------------------------
(* countRunPlanChildResults and runPlanSucceeded. *)
WithStatus(S) == Cardinality({w \in Worker : result[w].status \in S})

Counts ==
  LET completed == Cardinality({w \in Worker : result[w].success})
      skipped   == WithStatus({"skipped"})
      cancelled == WithStatus({"cancelled"})
      timedOut  == WithStatus({"timed_out", "timeout"})
  IN  [completed |-> completed, skipped |-> skipped,
       cancelled |-> cancelled, timed_out |-> timedOut,
       failed |-> NumWorkers - completed - skipped - cancelled - timedOut]

(* A mistake: only failures are looked at. *)
SucceededUnlessFailed(counts) == counts.failed = 0

RunPlanSucceeded(counts) ==
  \A kind \in {"failed", "skipped", "cancelled", "timed_out"} : counts[kind] = 0

-----------------------------------------------------------------------------
TypeOK ==
  /\ deps \in ValidDependencies
  /\ control \in [Worker -> Controls]
  /\ limit \in Worker
  /\ stage \in [Worker -> {"waiting", "skipping", "starting", "executing",
                           "reporting", "settled", "broken"}]
  /\ result \in [Worker -> Result]
  /\ adapter \in [Worker -> {"idle", "running", "done"}]
  /\ plan \in {"validated", "running", "resolved", "rejected", "unschedulable"}

(* No worker's adapter runs before everything it depends on has settled    *)
(* with success, whatever the order of answers, timeouts and callbacks.    *)
DependencyOrder ==
  \A w \in Worker : adapter[w] # "idle" =>
    \A d \in deps[w] : stage[d] = "settled" /\ result[d].success

(* The workers between the start of worker() and its result never exceed   *)
(* the effective concurrency.                                              *)
InWorker == {w \in Worker : stage[w] \in {"starting", "executing", "reporting"}}
ConcurrencyBound == Cardinality(InWorker) <= limit

(* After validation, "Run plan dependencies could not be scheduled" cannot *)
(* happen: some worker is always in hand until all are settled.            *)
AlwaysSchedulable == plan # "unschedulable"

(* The plan reports success exactly when every worker's adapter ran and    *)
(* every result is a success under a status of its own.                    *)
HonestReport ==
  plan = "resolved" =>
    (RunPlanSucceeded(Counts) <=>
       \A w \in Worker : /\ adapter[w] # "idle"
                         /\ result[w].success
                         /\ result[w].status \notin
                              {"skipped", "cancelled", "timed_out", "timeout"})

(* The result a worker's callbacks were told is the one that counts: no    *)
(* late answer replaces a timeout.                                         *)
ResultIsFinal ==
  [][\A w \in Worker : stage[w] \in {"reporting", "skipping", "settled"}
                          => result'[w] = result[w]]_vars

Verdict(w) == IF stage[w] # "settled" THEN "undecided"
              ELSE IF result[w].success THEN "succeeded" ELSE "unsuccessful"

Contract == INSTANCE PlanContract
              WITH Needs <- ValidDependencies, needs <- deps,
                   verdict <- [w \in Worker |-> Verdict(w)],
                   over <- IF plan \in {"resolved", "rejected"} THEN plan ELSE "no"

(* The executor decides each worker once and after its dependencies, and   *)
(* resolves with the last one.                                             *)
ImplementsPlanContract == Contract!Spec

(* A plan whose untimed adapters answer always ends, even when every timed *)
(* adapter hangs.                                                          *)
PlanEnds == <>(plan \notin {"validated", "running"})
=============================================================================
