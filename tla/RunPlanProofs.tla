--------------------------- MODULE RunPlanProofs ---------------------------
(***************************************************************************)
(* Theorems about RunPlan for any number of workers, any dependencies that *)
(* pass validation, any concurrency, timeouts and adapter results, and     *)
(* about the Fanout around it for any deliveries.                          *)
(***************************************************************************)
EXTENDS Fanout, SequenceTheorems, FiniteSetTheorems, WellFoundedInduction, TLAPS

Stages == {"waiting", "skipping", "starting", "executing", "reporting",
           "settled", "broken"}

(* What keeps the order of dependencies inductive: a worker that is past    *)
(* its first await, or whose adapter was called, has all it depends on.    *)
Cleared ==
  \A w \in Worker : stage[w] \in {"starting", "executing"} \/ adapter[w] # "idle" =>
    \A d \in deps[w] : stage[d] = "settled" /\ result[d].success

(* The stages pump() may start from: those of the state, but for a worker  *)
(* whose result just arrived.                                              *)
Arrived(st) ==
  /\ st \in [Worker -> Stages]
  /\ \A w \in Worker : \/ st[w] = stage[w]
                       \/ st[w] = "settled" /\ stage[w] \in {"reporting", "skipping"}

-----------------------------------------------------------------------------
(* A non-empty set of workers has a first and a last one. *)
LEMMA FirstOf ==
  ASSUME NEW T, T \subseteq Nat, T # {}
  PROVE  \E m \in T : \A x \in T : m <= x
<1>1. PICK m \in T : \A y \in T : <<y, m>> \notin OpToRel(<, Nat)
  BY NatLessThanWellFounded, WFMin
<1>2. \A y \in T : ~(y < m)
  BY <1>1 DEF OpToRel
<1> QED BY <1>2

LEMMA LastOf ==
  ASSUME NEW n \in Nat, NEW T, T \subseteq 1..n, T # {}
  PROVE  \E m \in T : \A x \in T : x <= m
<1> DEFINE U == {y \in Nat : \E x \in T : y = n - x}
<1>1. U \subseteq Nat /\ U # {}
  <2>1. PICK x \in T : TRUE
    OBVIOUS
  <2>2. n - x \in U
    BY <2>1
  <2> QED BY <2>2
<1>2. PICK u \in U : \A y \in U : u <= y
  BY <1>1, FirstOf
<1>3. PICK m \in T : u = n - m
  BY <1>2
<1>4. ASSUME NEW x \in T PROVE x <= m
  <2>1. n - x \in U
    OBVIOUS
  <2> QED BY <1>2, <1>3, <2>1
<1> QED BY <1>4

(* Sets of workers are finite and their sizes are compared by inclusion. *)
LEMMA WorkerSets ==
  /\ IsFiniteSet(Worker)
  /\ \A S : S \subseteq Worker => IsFiniteSet(S) /\ Cardinality(S) \in Nat
  /\ \A S, T : S \subseteq T /\ T \subseteq Worker => Cardinality(S) <= Cardinality(T)
<1>1. IsFiniteSet(Worker)
  BY PlanAssumption, FS_Interval DEF Worker
<1>2. ASSUME NEW S, S \subseteq Worker PROVE IsFiniteSet(S) /\ Cardinality(S) \in Nat
  BY <1>1, <1>2, FS_Subset, FS_CardinalityType
<1>3. ASSUME NEW S, NEW T, S \subseteq T, T \subseteq Worker
      PROVE  Cardinality(S) <= Cardinality(T)
  BY <1>2, <1>3, FS_Subset
<1> QED BY <1>1, <1>2, <1>3

(* The effective concurrency is at least 1 and at most the cap. *)
LEMMA ClampBounds ==
  ASSUME NEW value \in Int, NEW most \in Nat \ {0}
  PROVE  Clamp(value, most) \in 1..most
  BY DEF Clamp

-----------------------------------------------------------------------------
(* Type correctness. *)
LEMMA PumpType ==
  ASSUME TypeOK, NEW st, Arrived(st), Pump(st)
  PROVE  TypeOK'
<1> USE DEF TypeOK
<1>1. PICK expired \in SUBSET {w \in Worker : control[w] = "deadline"} :
        /\ stage' = [w \in Worker |->
                      IF w \in ToSkip(st) THEN "skipping"
                      ELSE IF w \in ToStart(st) THEN EntryStage(w, expired)
                      ELSE st[w]]
        /\ result' = [w \in Worker |->
                       IF w \in ToSkip(st) THEN Unsuccessful("skipped")
                       ELSE IF w \in ToStart(st) THEN EntryResult(w, expired)
                       ELSE result[w]]
  BY DEF Pump
<1>2. \A w \in Worker : /\ EntryStage(w, expired) \in {"starting", "reporting"}
                       /\ EntryResult(w, expired) \in Result
                       /\ Unsuccessful("skipped") \in Result
  BY DEF EntryStage, EntryResult, Unsuccessful, NoResult, Result, Statuses
<1>3. stage' \in [Worker -> Stages]
  BY <1>1, <1>2 DEF Arrived, Stages
<1>4. result' \in [Worker -> Result]
  BY <1>1, <1>2
<1>5. plan' \in {"validated", "running", "resolved", "rejected", "unschedulable"}
  BY DEF Pump, PlanAfter
<1> QED BY <1>3, <1>4, <1>5 DEF Pump, Stages

(* Settling one worker gives pump() stages it may start from. *)
LEMMA SettleArrives ==
  ASSUME TypeOK, NEW w \in Worker, stage[w] \in {"reporting", "skipping"}
  PROVE  Arrived([stage EXCEPT ![w] = "settled"])
  BY DEF TypeOK, Arrived, Stages

THEOREM TypeCorrect == Spec => []TypeOK
<1>1. Init => TypeOK
  <2> SUFFICES ASSUME Init PROVE TypeOK
    OBVIOUS
  <2>1. limit \in Worker
    <3>1. PICK value \in Requested : limit = EffectiveConcurrency(value)
      BY DEF Init
    <3>2. Clamp(value, MaxConcurrency) \in Int
      BY ClampBounds, PlanAssumption
    <3> QED BY <3>1, <3>2, ClampBounds, PlanAssumption
            DEF EffectiveConcurrency, Worker
  <2> QED BY <2>1 DEF Init, TypeOK, NoResult, Result, Statuses
<1>2. TypeOK /\ [Next]_vars => TypeOK'
  <2> SUFFICES ASSUME TypeOK, [Next]_vars PROVE TypeOK'
    OBVIOUS
  <2>0. Arrived(stage)
    BY DEF TypeOK, Arrived, Stages
  <2>1. CASE Begin
    BY <2>0, <2>1, PumpType DEF Begin
  <2>2. ASSUME NEW w \in Worker, Settle(w) PROVE TypeOK'
    BY <2>2, SettleArrives, PumpType DEF Settle
  <2>3. ASSUME NEW w \in Worker, Respond(w) PROVE TypeOK'
    BY <2>3, PlanAssumption DEF Respond, TypeOK
  <2>4. ASSUME NEW w \in Worker, Timeout(w) PROVE TypeOK'
    <3>1. Unsuccessful("timed_out") \in Result
      BY DEF Unsuccessful, Result, Statuses
    <3> QED BY <2>4, <3>1 DEF Timeout, TypeOK
  <2>6. ASSUME NEW w \in Worker, Launch(w) \/ LateResponse(w) PROVE TypeOK'
    BY <2>6 DEF Launch, LateResponse, TypeOK
  <2>7. ASSUME NEW w \in Worker, AdapterThrows(w) \/ CallbackThrows(w)
        PROVE  TypeOK'
    BY <2>7 DEF AdapterThrows, CallbackThrows, Reject, TypeOK
  <2>5. CASE Finished \/ UNCHANGED vars
    BY <2>5 DEF Finished, vars, TypeOK
  <2> QED BY <2>1, <2>2, <2>3, <2>4, <2>5, <2>6, <2>7 DEF Next, Step
<1> QED BY <1>1, <1>2, PTL DEF Spec

-----------------------------------------------------------------------------
(* Dependency order.  pump() starts only workers whose dependencies have   *)
(* settled with success, and nothing changes a settled worker.             *)
LEMMA PumpKeepsSettled ==
  ASSUME TypeOK, NEW st, Arrived(st), Pump(st), NEW d \in Worker,
         st[d] = "settled"
  PROVE  stage'[d] = "settled" /\ result'[d] = result[d]
  BY DEF Pump, ToSkip, ToStart, Ready, TypeOK

LEMMA PumpStarts ==
  ASSUME TypeOK, NEW st, Arrived(st), Pump(st), NEW w \in Worker,
         stage'[w] \in {"starting", "executing"},
         st[w] \notin {"starting", "executing"}
  PROVE  w \in ToStart(st)
  BY DEF Pump, ToSkip, TypeOK

LEMMA PumpClears ==
  ASSUME TypeOK, Cleared, NEW st, Arrived(st), Pump(st)
  PROVE  Cleared'
<1> USE DEF TypeOK
<1> SUFFICES ASSUME NEW w \in Worker,
                    stage'[w] \in {"starting", "executing"} \/ adapter'[w] # "idle",
                    NEW d \in deps'[w]
             PROVE  stage'[d] = "settled" /\ result'[d].success
  BY DEF Cleared
<1>1. deps' = deps /\ adapter' = adapter /\ d \in Worker
  BY DEF Pump, ValidDependencies
<1>2. CASE stage[w] \in {"starting", "executing"} \/ adapter[w] # "idle"
  <2>1. stage[d] = "settled" /\ result[d].success
    BY <1>1, <1>2 DEF Cleared
  <2>2. st[d] = "settled"
    BY <1>1, <2>1 DEF Arrived
  <2> QED BY <1>1, <2>1, <2>2, PumpKeepsSettled
<1>3. CASE ~(stage[w] \in {"starting", "executing"} \/ adapter[w] # "idle")
  <2>1. st[w] \notin {"starting", "executing"}
    BY <1>3 DEF Arrived
  <2>2. w \in ToStart(st)
    BY <1>1, <1>3, <2>1, PumpStarts
  <2>3. st[d] = "settled" /\ result[d].success
    BY <1>1, <2>2 DEF ToStart, ToSkip, Ready, Doomed
  <2> QED BY <1>1, <2>3, PumpKeepsSettled
<1> QED BY <1>2, <1>3

LEMMA StepClears ==
  ASSUME TypeOK, Cleared, [Next]_vars
  PROVE  Cleared'
<1>0. Arrived(stage)
  BY DEF TypeOK, Arrived, Stages
<1>1. CASE Begin
  BY <1>0, <1>1, PumpClears DEF Begin
<1>2. ASSUME NEW w \in Worker, Settle(w) PROVE Cleared'
  BY <1>2, SettleArrives, PumpClears DEF Settle
<1>3. ASSUME NEW w \in Worker, Launch(w) \/ Respond(w) PROVE Cleared'
  BY <1>3 DEF Launch, Respond, Cleared, TypeOK, ValidDependencies
<1>4. ASSUME NEW w \in Worker, Timeout(w) \/ LateResponse(w) PROVE Cleared'
  BY <1>4 DEF Timeout, LateResponse, Cleared, TypeOK, ValidDependencies
<1>5. ASSUME NEW w \in Worker, AdapterThrows(w) \/ CallbackThrows(w)
      PROVE  Cleared'
  BY <1>5 DEF AdapterThrows, CallbackThrows, Cleared, TypeOK, ValidDependencies
<1>6. CASE Finished \/ UNCHANGED vars
  BY <1>6 DEF Finished, vars, Cleared
<1> QED BY <1>1, <1>2, <1>3, <1>4, <1>5, <1>6 DEF Next, Step

(* No adapter runs before its worker's dependencies have succeeded. *)
THEOREM DependenciesFirst == Spec => []DependencyOrder
<1>1. Init => Cleared
  BY DEF Init, Cleared
<1>2. TypeOK /\ Cleared /\ [Next]_vars => Cleared'
  BY StepClears
<1>3. Cleared => DependencyOrder
  BY DEF Cleared, DependencyOrder
<1> QED BY <1>1, <1>2, <1>3, TypeCorrect, PTL DEF Spec

-----------------------------------------------------------------------------
(* Concurrency.  The last worker one pump starts sees every other one it   *)
(* started among the ready workers before it.                              *)
LEMMA PumpBounded ==
  ASSUME TypeOK, NEW st, Arrived(st), ToStart(st) # {}
  PROVE  Cardinality(InHand(st) \cup ToStart(st)) <= limit
<1> DEFINE Before(w) == {v \in Ready(st) : v < w}
<1>1. PICK m \in ToStart(st) : \A x \in ToStart(st) : x <= m
  BY LastOf, PlanAssumption DEF ToStart, Ready, Worker
<1>2. Cardinality(InHand(st)) + Cardinality(Before(m)) < limit
  BY <1>1 DEF ToStart
<1>3. ToStart(st) \ {m} \subseteq Before(m) /\ Before(m) \subseteq Worker
  BY <1>1 DEF ToStart, Ready, Worker
<1>4. InHand(st) \subseteq Worker /\ ToStart(st) \subseteq Worker
  BY DEF InHand, ToStart, Ready
<1>5. Cardinality(ToStart(st)) = Cardinality(ToStart(st) \ {m}) + 1
  BY <1>1, <1>4, WorkerSets, FS_RemoveElement
<1>6. Cardinality(ToStart(st) \ {m}) <= Cardinality(Before(m))
  BY <1>3, WorkerSets
<1>7. Cardinality(InHand(st) \cup ToStart(st))
        <= Cardinality(InHand(st)) + Cardinality(ToStart(st))
  <2>1. InHand(st) \cap ToStart(st) \subseteq Worker
    BY <1>4
  <2>2. /\ IsFiniteSet(InHand(st)) /\ IsFiniteSet(ToStart(st))
        /\ Cardinality(InHand(st)) \in Nat /\ Cardinality(ToStart(st)) \in Nat
        /\ Cardinality(InHand(st) \cap ToStart(st)) \in Nat
    BY <1>4, <2>1, WorkerSets
  <2>3. Cardinality(InHand(st) \cup ToStart(st))
          = Cardinality(InHand(st)) + Cardinality(ToStart(st))
              - Cardinality(InHand(st) \cap ToStart(st))
    BY <2>2, FS_Union
  <2> QED BY <2>2, <2>3
<1>8. limit \in Nat /\ Cardinality(InHand(st)) \in Nat
        /\ Cardinality(Before(m)) \in Nat /\ Cardinality(ToStart(st)) \in Nat
        /\ Cardinality(ToStart(st) \ {m}) \in Nat
        /\ Cardinality(InHand(st) \cup ToStart(st)) \in Nat
  BY <1>3, <1>4, WorkerSets, PlanAssumption DEF TypeOK, Worker
<1> QED BY <1>2, <1>5, <1>6, <1>7, <1>8

LEMMA PumpConcurrency ==
  ASSUME TypeOK, ConcurrencyBound, NEW st, Arrived(st), Pump(st)
  PROVE  ConcurrencyBound'
<1>1. limit' = limit /\ limit \in Nat
  BY PlanAssumption DEF Pump, TypeOK, Worker
<1>2. InWorker' \subseteq Worker /\ InWorker \subseteq Worker
        /\ InHand(st) \subseteq Worker /\ ToStart(st) \subseteq Worker
  BY DEF InWorker, InHand, ToStart, Ready
<1>3. \A w \in Worker : stage'[w] \in {"starting", "executing", "reporting"} =>
        \/ w \in ToStart(st)
        \/ st[w] \in {"starting", "executing", "reporting"} /\ st[w] = stage[w]
  BY DEF Pump, Arrived, TypeOK
<1>4. CASE ToStart(st) = {}
  <2>1. InWorker' \subseteq InWorker
    BY <1>3, <1>4 DEF InWorker
  <2>2. Cardinality(InWorker') <= Cardinality(InWorker)
    BY <1>2, <2>1, WorkerSets
  <2> QED BY <1>1, <1>2, <2>2, WorkerSets DEF ConcurrencyBound
<1>5. CASE ToStart(st) # {}
  <2>1. InWorker' \subseteq InHand(st) \cup ToStart(st)
    BY <1>3 DEF InWorker, InHand
  <2>2. Cardinality(InWorker') <= Cardinality(InHand(st) \cup ToStart(st))
    BY <1>2, <2>1, WorkerSets
  <2>3. Cardinality(InHand(st) \cup ToStart(st)) <= limit
    BY <1>5, PumpBounded
  <2>4. InHand(st) \cup ToStart(st) \subseteq Worker
    BY <1>2
  <2>5. Cardinality(InWorker') \in Nat
          /\ Cardinality(InHand(st) \cup ToStart(st)) \in Nat
    BY <1>2, <2>4, WorkerSets
  <2> QED BY <1>1, <2>2, <2>3, <2>5 DEF ConcurrencyBound
<1> QED BY <1>4, <1>5

(* At most `limit` workers are inside worker() at any time. *)
THEOREM BoundedConcurrency == Spec => []ConcurrencyBound
<1>1. Init => ConcurrencyBound
  <2> SUFFICES ASSUME Init PROVE ConcurrencyBound
    OBVIOUS
  <2>1. InWorker = {}
    BY DEF Init, InWorker
  <2>2. PICK value \in Requested : limit = EffectiveConcurrency(value)
    BY DEF Init
  <2>3. Clamp(value, MaxConcurrency) \in Int
    BY ClampBounds, PlanAssumption
  <2>4. limit \in Nat
    BY <2>2, <2>3, ClampBounds, PlanAssumption DEF EffectiveConcurrency
  <2> QED BY <2>1, <2>4, FS_EmptySet DEF ConcurrencyBound
<1>2. TypeOK /\ ConcurrencyBound /\ [Next]_vars => ConcurrencyBound'
  <2> SUFFICES ASSUME TypeOK, ConcurrencyBound, [Next]_vars
               PROVE  ConcurrencyBound'
    OBVIOUS
  <2>0. Arrived(stage)
    BY DEF TypeOK, Arrived, Stages
  <2>1. CASE Begin
    BY <2>0, <2>1, PumpConcurrency DEF Begin
  <2>2. ASSUME NEW w \in Worker, Settle(w) PROVE ConcurrencyBound'
    BY <2>2, SettleArrives, PumpConcurrency DEF Settle
  <2>3. ASSUME InWorker' \subseteq InWorker, limit' = limit
        PROVE  ConcurrencyBound'
    <3>1. InWorker \subseteq Worker /\ InWorker' \subseteq Worker
      BY DEF InWorker
    <3>2. Cardinality(InWorker') <= Cardinality(InWorker)
      BY <2>3, <3>1, WorkerSets
    <3>3. Cardinality(InWorker) \in Nat /\ Cardinality(InWorker') \in Nat
      BY <3>1, WorkerSets
    <3>4. limit \in Nat
      BY PlanAssumption DEF TypeOK, Worker
    <3> QED BY <2>3, <3>2, <3>3, <3>4 DEF ConcurrencyBound
  <2>4. ASSUME NEW w \in Worker,
               Launch(w) \/ Respond(w) \/ Timeout(w) \/ LateResponse(w)
        PROVE  ConcurrencyBound'
    BY <2>3, <2>4 DEF Launch, Respond, Timeout, LateResponse, InWorker, TypeOK
  <2>5. ASSUME NEW w \in Worker, AdapterThrows(w) \/ CallbackThrows(w)
        PROVE  ConcurrencyBound'
    BY <2>3, <2>5 DEF AdapterThrows, CallbackThrows, InWorker, TypeOK
  <2>6. CASE Finished \/ UNCHANGED vars
    BY <2>3, <2>6 DEF Finished, vars, InWorker
  <2> QED BY <2>1, <2>2, <2>4, <2>5, <2>6 DEF Next, Step
<1> QED BY <1>1, <1>2, TypeCorrect, PTL DEF Spec

-----------------------------------------------------------------------------
(* Scheduling never gets stuck.  With nobody in hand the waiting workers   *)
(* depend on settled ones and on each other; as no set of workers is       *)
(* cyclic, one of them is ready, and the first ready one gets a slot.      *)
LEMMA SomeoneIsReady ==
  ASSUME TypeOK, NEW st, Arrived(st), InHand(st) = {},
         ~ \A w \in Worker : st[w] = "settled"
  PROVE  Ready(st) # {}
<1> DEFINE S == {w \in Worker : st[w] = "waiting"}
<1>1. \A w \in Worker : st[w] \in {"waiting", "settled"}
  BY DEF InHand
<1>2. S \in (SUBSET Worker) \ {{}}
  BY <1>1
<1>3. Acyclic(deps) /\ deps \in [Worker -> SUBSET Worker]
  BY DEF TypeOK, ValidDependencies
<1>4. PICK w \in S : deps[w] \cap S = {}
  BY <1>2, <1>3 DEF Acyclic
<1>5. \A d \in deps[w] : st[d] = "settled"
  BY <1>1, <1>3, <1>4
<1> QED BY <1>4, <1>5 DEF Ready

LEMMA FirstReadyGetsSlot ==
  ASSUME TypeOK, NEW st, Arrived(st), InHand(st) = {}, Ready(st) # {}
  PROVE  ToSkip(st) \cup ToStart(st) # {}
<1>0. Ready(st) \subseteq Nat
  BY DEF Ready, Worker
<1>1. PICK m \in Ready(st) : \A x \in Ready(st) : m <= x
  BY <1>0, FirstOf
<1>2. {v \in Ready(st) : v < m} = {}
  BY <1>1, PlanAssumption DEF Ready, Worker
<1>3. Cardinality(InHand(st)) + Cardinality({v \in Ready(st) : v < m}) = 0
  BY <1>2, FS_EmptySet
<1>4. 0 < limit
  BY PlanAssumption DEF TypeOK, Worker
<1> QED BY <1>1, <1>3, <1>4 DEF ToSkip, ToStart

LEMMA PumpSchedules ==
  ASSUME TypeOK, AlwaysSchedulable, NEW st, Arrived(st), Pump(st)
  PROVE  AlwaysSchedulable'
<1>1. plan' = PlanAfter(st)
  BY DEF Pump
<1>2. CASE \A w \in Worker : st[w] = "settled"
  BY <1>1, <1>2 DEF PlanAfter, AlwaysSchedulable
<1>3. CASE InHand(st) # {}
  BY <1>1, <1>3 DEF PlanAfter, AlwaysSchedulable
<1>4. CASE InHand(st) = {} /\ ~ \A w \in Worker : st[w] = "settled"
  <2>1. ToSkip(st) \cup ToStart(st) # {}
    BY <1>4, SomeoneIsReady, FirstReadyGetsSlot
  <2> QED BY <1>1, <2>1 DEF PlanAfter, AlwaysSchedulable
<1> QED BY <1>2, <1>3, <1>4

(* A validated plan is never rejected as one that cannot be scheduled. *)
THEOREM NeverStuck == Spec => []AlwaysSchedulable
<1>1. Init => AlwaysSchedulable
  BY DEF Init, AlwaysSchedulable
<1>2. TypeOK /\ AlwaysSchedulable /\ [Next]_vars => AlwaysSchedulable'
  <2> SUFFICES ASSUME TypeOK, AlwaysSchedulable, [Next]_vars
               PROVE  AlwaysSchedulable'
    OBVIOUS
  <2>0. Arrived(stage)
    BY DEF TypeOK, Arrived, Stages
  <2>1. CASE Begin
    BY <2>0, <2>1, PumpSchedules DEF Begin
  <2>2. ASSUME NEW w \in Worker, Settle(w) PROVE AlwaysSchedulable'
    BY <2>2, SettleArrives, PumpSchedules DEF Settle
  <2>3. ASSUME NEW w \in Worker,
               Launch(w) \/ Respond(w) \/ Timeout(w) \/ LateResponse(w)
        PROVE  AlwaysSchedulable'
    BY <2>3 DEF Launch, Respond, Timeout, LateResponse, AlwaysSchedulable
  <2>4. ASSUME NEW w \in Worker, AdapterThrows(w) \/ CallbackThrows(w)
        PROVE  AlwaysSchedulable'
    BY <2>4 DEF AdapterThrows, CallbackThrows, Reject, AlwaysSchedulable
  <2>5. CASE Finished \/ UNCHANGED vars
    BY <2>5 DEF Finished, vars, AlwaysSchedulable
  <2> QED BY <2>1, <2>2, <2>3, <2>4, <2>5 DEF Next, Step
<1> QED BY <1>1, <1>2, TypeCorrect, PTL DEF Spec

-----------------------------------------------------------------------------
(* No step changes the result a worker was reported with. *)
THEOREM FinalResults == Spec => ResultIsFinal
<1> DEFINE Kept == \A w \in Worker :
                     stage[w] \in {"reporting", "skipping", "settled"}
                       => result'[w] = result[w]
<1>1. TypeOK /\ [Next]_vars => Kept
  <2> SUFFICES ASSUME TypeOK, [Next]_vars PROVE Kept
    OBVIOUS
  <2>1. ASSUME NEW st, Arrived(st), Pump(st) PROVE Kept
    BY <2>1 DEF Pump, ToSkip, ToStart, Ready, Arrived, TypeOK
  <2>2. CASE Begin
    BY <2>1, <2>2 DEF Begin, Arrived, TypeOK, Stages
  <2>3. ASSUME NEW w \in Worker, Settle(w) PROVE Kept
    BY <2>1, <2>3, SettleArrives DEF Settle
  <2>4. ASSUME NEW w \in Worker, Respond(w) \/ Timeout(w) PROVE Kept
    BY <2>4 DEF Respond, Timeout, TypeOK
  <2>5. ASSUME NEW w \in Worker,
               Launch(w) \/ LateResponse(w) \/ AdapterThrows(w) \/ CallbackThrows(w)
        PROVE  Kept
    BY <2>5 DEF Launch, LateResponse, AdapterThrows, CallbackThrows
  <2>6. CASE Finished \/ UNCHANGED vars
    BY <2>6 DEF Finished, vars
  <2> QED BY <2>2, <2>3, <2>4, <2>5, <2>6 DEF Next, Step
<1>2. TypeOK /\ [Next]_vars => [Kept]_vars
  BY <1>1
<1> QED BY <1>2, TypeCorrect, PTL DEF Spec, ResultIsFinal

-----------------------------------------------------------------------------
(* What the report and the refinement rest on: nobody has moved before the *)
(* first pump, whoever has moved was ready, and only an adapter succeeds.  *)
NobodyMoved == plan = "validated" => \A w \in Worker : stage[w] = "waiting"

MovedWhenReady ==
  \A w \in Worker : stage[w] # "waiting" =>
    \A d \in deps[w] : stage[d] = "settled"

SuccessRan == \A w \in Worker : result[w].success => adapter[w] # "idle"

History == NobodyMoved /\ MovedWhenReady /\ SuccessRan

LEMMA PumpHistory ==
  ASSUME TypeOK, History, NEW st, Arrived(st), Pump(st)
  PROVE  History'
<1> USE DEF TypeOK
<1>1. NobodyMoved'
  BY DEF Pump, PlanAfter, NobodyMoved
<1>2. MovedWhenReady'
  <2> SUFFICES ASSUME NEW w \in Worker, stage'[w] # "waiting", NEW d \in deps'[w]
               PROVE  stage'[d] = "settled"
    BY DEF MovedWhenReady
  <2>1. deps' = deps /\ d \in Worker
    BY DEF Pump, ValidDependencies
  <2>2. st[d] = "settled"
    <3>1. CASE stage[w] # "waiting"
      BY <2>1, <3>1 DEF History, MovedWhenReady, Arrived
    <3>2. CASE stage[w] = "waiting"
      <4>1. w \in ToSkip(st) \cup ToStart(st)
        BY <3>2 DEF Pump, Arrived
      <4> QED BY <2>1, <4>1 DEF ToSkip, ToStart, Ready
    <3> QED BY <3>1, <3>2
  <2> QED BY <2>1, <2>2, PumpKeepsSettled
<1>3. SuccessRan'
  <2> SUFFICES ASSUME NEW w \in Worker, result'[w].success
               PROVE  adapter'[w] # "idle"
    BY DEF SuccessRan
  <2>1. result'[w] = result[w] /\ adapter' = adapter
    BY DEF Pump, Unsuccessful, EntryResult, NoResult
  <2> QED BY <2>1 DEF History, SuccessRan
<1> QED BY <1>1, <1>2, <1>3 DEF History

LEMMA HistoryHolds == Spec => []History
<1>1. Init => History
  BY DEF Init, History, NobodyMoved, MovedWhenReady, SuccessRan, NoResult
<1>2. TypeOK /\ History /\ [Next]_vars => History'
  <2> SUFFICES ASSUME TypeOK, History, [Next]_vars PROVE History'
    OBVIOUS
  <2> USE DEF TypeOK, History, NobodyMoved, MovedWhenReady, SuccessRan
  <2>0. Arrived(stage)
    BY DEF Arrived, Stages
  <2>d. deps \in [Worker -> SUBSET Worker]
    BY DEF ValidDependencies
  <2>1. CASE Begin
    BY <2>0, <2>1, PumpHistory DEF Begin
  <2>2. ASSUME NEW w \in Worker, Settle(w) PROVE History'
    BY <2>2, SettleArrives, PumpHistory DEF Settle
  <2>3. ASSUME NEW w \in Worker, Launch(w) \/ Respond(w) PROVE History'
    BY <2>3, <2>d DEF Launch, Respond
  <2>4. ASSUME NEW w \in Worker, Timeout(w) \/ LateResponse(w) PROVE History'
    BY <2>4, <2>d DEF Timeout, LateResponse, Unsuccessful
  <2>5. ASSUME NEW w \in Worker, AdapterThrows(w) \/ CallbackThrows(w)
        PROVE  History'
    BY <2>5, <2>d DEF AdapterThrows, CallbackThrows, Reject
  <2>6. CASE Finished \/ UNCHANGED vars
    BY <2>6 DEF Finished, vars
  <2> QED BY <2>1, <2>2, <2>3, <2>4, <2>5, <2>6 DEF Next, Step
<1> QED BY <1>1, <1>2, TypeCorrect, PTL DEF Spec

-----------------------------------------------------------------------------
(* A set of workers is empty, or all of them, exactly when its size says so. *)
LEMMA EmptyOrAll ==
  ASSUME NEW S, S \subseteq Worker
  PROVE  /\ Cardinality(S) = 0 <=> S = {}
         /\ Cardinality(S) = NumWorkers <=> S = Worker
<1>1. IsFiniteSet(S) /\ IsFiniteSet(Worker)
  BY WorkerSets
<1>2. Cardinality(Worker) = NumWorkers
  BY PlanAssumption, FS_Interval DEF Worker
<1>3. Cardinality(S) = Cardinality(Worker) => S = Worker
  BY <1>1, FS_Subset
<1> QED BY <1>1, <1>2, <1>3, FS_EmptySet

(* The plan reports success exactly when every worker's own adapter did. *)
THEOREM ReportIsHonest == Spec => []HonestReport
<1>1. TypeOK /\ History => HonestReport
  <2> SUFFICES ASSUME TypeOK, History PROVE HonestReport
    OBVIOUS
  <2> DEFINE Good == {w \in Worker : result[w].success}
             Of(S) == {w \in Worker : result[w].status \in S}
             Late == {"timed_out", "timeout"}
  <2>1. /\ Counts.completed = Cardinality(Good)
        /\ Counts.skipped = Cardinality(Of({"skipped"}))
        /\ Counts.cancelled = Cardinality(Of({"cancelled"}))
        /\ Counts.timed_out = Cardinality(Of(Late))
        /\ Counts.failed = NumWorkers - Cardinality(Good)
             - Cardinality(Of({"skipped"})) - Cardinality(Of({"cancelled"}))
             - Cardinality(Of(Late))
    BY DEF Counts, WithStatus
  <2>2. /\ Cardinality(Good) \in Nat
        /\ \A S : Cardinality(Of(S)) \in Nat
    BY WorkerSets
  <2>3. /\ Cardinality(Good) = NumWorkers <=> Good = Worker
        /\ \A S : Cardinality(Of(S)) = 0 <=> Of(S) = {}
    BY EmptyOrAll
  <2>4. RunPlanSucceeded(Counts) <=>
          /\ Counts.failed = 0 /\ Counts.skipped = 0
          /\ Counts.cancelled = 0 /\ Counts.timed_out = 0
    BY DEF RunPlanSucceeded
  <2> DEFINE good == Cardinality(Good)
             skipped == Cardinality(Of({"skipped"}))
             cancelled == Cardinality(Of({"cancelled"}))
             late == Cardinality(Of(Late))
  <2>a. /\ good \in Nat /\ skipped \in Nat /\ cancelled \in Nat /\ late \in Nat
        /\ NumWorkers \in Nat
    BY <2>2, PlanAssumption
  <2>b. /\ good = NumWorkers <=> Good = Worker
        /\ skipped = 0 <=> Of({"skipped"}) = {}
        /\ cancelled = 0 <=> Of({"cancelled"}) = {}
        /\ late = 0 <=> Of(Late) = {}
    BY <2>3
  <2>c. RunPlanSucceeded(Counts) <=>
          /\ NumWorkers - good - skipped - cancelled - late = 0
          /\ skipped = 0 /\ cancelled = 0 /\ late = 0
    BY <2>1, <2>4
  <2> HIDE DEF good, skipped, cancelled, late
  <2>d. RunPlanSucceeded(Counts) <=>
          good = NumWorkers /\ skipped = 0 /\ cancelled = 0 /\ late = 0
    BY <2>a, <2>c
  <2>5. RunPlanSucceeded(Counts) <=>
          /\ Good = Worker
          /\ Of({"skipped"}) = {} /\ Of({"cancelled"}) = {} /\ Of(Late) = {}
    BY <2>b, <2>d
  <2> HIDE DEF Good, Of
  <2>6. (Good = Worker) <=> \A w \in Worker : result[w].success
    BY DEF Good
  <2>7. \A S : (Of(S) = {}) <=> \A w \in Worker : result[w].status \notin S
    BY DEF Of
  <2>8. \A w \in Worker : result[w].success => adapter[w] # "idle"
    BY DEF History, SuccessRan
  <2> QED BY <2>5, <2>6, <2>7, <2>8 DEF HonestReport
<1> QED BY <1>1, TypeCorrect, HistoryHolds, PTL

-----------------------------------------------------------------------------
(* The executor implements the contract: settling a worker is its decision *)
(* and a failure of a callback or an adapter is the plan's; every other    *)
(* step is a stutter.                                                      *)
LEMMA SettleDecides ==
  ASSUME TypeOK, Cleared, History, AlwaysSchedulable,
         NEW w \in Worker, Settle(w)
  PROVE  Contract!DecideOne
<1> DEFINE st == [stage EXCEPT ![w] = "settled"]
<1> USE DEF TypeOK
<1>1. Arrived(st) /\ Pump(st) /\ stage[w] \in {"reporting", "skipping"}
  BY SettleArrives DEF Settle
<1>2. deps' = deps /\ plan' = PlanAfter(st)
  BY <1>1 DEF Pump
<1>3. \A v \in Worker : (stage'[v] = "settled") <=> (st[v] = "settled")
  BY <1>1 DEF Pump, ToSkip, ToStart, Ready, EntryStage
<1>4. \A v \in Worker : st[v] = "settled" => result'[v] = result[v]
  BY <1>1, PumpKeepsSettled
<1>5. \A v \in Worker : st[v] = IF v = w THEN "settled" ELSE stage[v]
  OBVIOUS
<1> HIDE DEF st
<1>6. \A v \in Worker : Verdict(v)' = IF v # w THEN Verdict(v)
                                     ELSE IF result[w].success THEN "succeeded"
                                     ELSE "unsuccessful"
  BY <1>3, <1>4, <1>5 DEF Verdict
<1>7. Verdict(w) = "undecided"
  BY <1>1 DEF Verdict
<1>8. \A d \in deps[w] : d \in Worker /\ stage[d] = "settled"
  BY <1>1 DEF History, MovedWhenReady, ValidDependencies
<1>9. result[w].success => \A d \in deps[w] : result[d].success
  BY DEF History, SuccessRan, Cleared
<1>10. Contract!Decide(w)
  <2>1. \A d \in deps[w] : Verdict(d) # "undecided"
    BY <1>8 DEF Verdict
  <2>2. result[w].success => \A d \in deps[w] : Verdict(d) = "succeeded"
    BY <1>8, <1>9 DEF Verdict
  <2> QED BY <1>2, <1>6, <1>7, <1>8, <2>1, <2>2 DEF Contract!Decide
<1>11. (\A v \in Worker : Verdict(v)' # "undecided")
          <=> \A v \in Worker : st[v] = "settled"
  BY <1>3 DEF Verdict
<1>12. plan \in {"validated", "running"} =>
          plan' \in {"resolved", "unschedulable", "running"}
            /\ (plan' = "resolved" <=> \A v \in Worker : st[v] = "settled")
  BY <1>2 DEF PlanAfter
<1>13. plan \in {"resolved", "rejected"} => plan' = plan
  BY <1>2 DEF PlanAfter
<1>14. plan \in {"validated", "running", "resolved", "rejected"}
  BY DEF AlwaysSchedulable
<1> QED BY <1>10, <1>11, <1>12, <1>13, <1>14 DEF Contract!DecideOne

LEMMA OthersStutter ==
  ASSUME TypeOK, NEW w \in Worker,
         Launch(w) \/ Respond(w) \/ Timeout(w) \/ LateResponse(w)
  PROVE  UNCHANGED Contract!cvars
<1>1. deps' = deps /\ plan' = plan
  BY DEF Launch, Respond, Timeout, LateResponse
<1>2. \A v \in Worker : Verdict(v)' = Verdict(v)
  BY DEF Launch, Respond, Timeout, LateResponse, Verdict, TypeOK
<1> QED BY <1>1, <1>2 DEF Contract!cvars

LEMMA ThrowFails ==
  ASSUME TypeOK, NEW w \in Worker, AdapterThrows(w) \/ CallbackThrows(w)
  PROVE  Contract!Fail \/ UNCHANGED Contract!cvars
<1>1. deps' = deps /\ Reject
  BY DEF AdapterThrows, CallbackThrows
<1>2. \A v \in Worker : Verdict(v)' = Verdict(v)
  BY DEF AdapterThrows, CallbackThrows, Verdict, TypeOK
<1>3. Verdict(w) = "undecided"
  BY DEF AdapterThrows, CallbackThrows, Verdict
<1> QED BY <1>1, <1>2, <1>3 DEF Reject, Contract!Fail, Contract!cvars

LEMMA BeginStutters ==
  ASSUME TypeOK, History, Begin
  PROVE  UNCHANGED Contract!cvars
<1> USE DEF TypeOK
<1>1. deps' = deps /\ plan' = PlanAfter(stage) /\ plan = "validated"
  BY DEF Begin, Pump
<1>2. \A v \in Worker : stage[v] = "waiting"
  BY <1>1 DEF History, NobodyMoved
<1>3. \A v \in Worker : stage'[v] # "settled"
  BY <1>2 DEF Begin, Pump, EntryStage
<1>4. \A v \in Worker : Verdict(v)' = Verdict(v)
  BY <1>2, <1>3 DEF Verdict
<1>5. 1 \in Worker
  BY PlanAssumption DEF Worker
<1>6. plan' \notin {"resolved", "rejected"}
  BY <1>1, <1>2, <1>5 DEF PlanAfter
<1> QED BY <1>1, <1>4, <1>6 DEF Contract!cvars

THEOREM ImplementsContract == Spec => ImplementsPlanContract
<1>1. Init => Contract!Init
  BY DEF Init, Contract!Init, Verdict
<1>2. TypeOK /\ Cleared /\ History /\ AlwaysSchedulable /\ [Next]_vars
        => [Contract!Next]_Contract!cvars
  <2> SUFFICES ASSUME TypeOK, Cleared, History, AlwaysSchedulable, [Next]_vars
               PROVE  [Contract!Next]_Contract!cvars
    OBVIOUS
  <2>1. CASE Begin
    BY <2>1, BeginStutters
  <2>2. ASSUME NEW w \in Worker, Settle(w) PROVE [Contract!Next]_Contract!cvars
    BY <2>2, SettleDecides DEF Contract!Next
  <2>3. ASSUME NEW w \in Worker,
               Launch(w) \/ Respond(w) \/ Timeout(w) \/ LateResponse(w)
        PROVE  [Contract!Next]_Contract!cvars
    BY <2>3, OthersStutter
  <2>4. ASSUME NEW w \in Worker, AdapterThrows(w) \/ CallbackThrows(w)
        PROVE  [Contract!Next]_Contract!cvars
    BY <2>4, ThrowFails DEF Contract!Next
  <2>5. CASE Finished \/ UNCHANGED vars
    BY <2>5 DEF Finished, vars, Contract!cvars, Verdict
  <2> QED BY <2>1, <2>2, <2>3, <2>4, <2>5 DEF Next, Step
<1>3. Spec => []Cleared
  <2>1. Init => Cleared
    BY DEF Init, Cleared
  <2>2. TypeOK /\ Cleared /\ [Next]_vars => Cleared'
    BY StepClears
  <2> QED BY <2>1, <2>2, TypeCorrect, PTL DEF Spec
<1> QED BY <1>1, <1>2, <1>3, TypeCorrect, HistoryHolds, NeverStuck, PTL
        DEF Spec, ImplementsPlanContract, Contract!Spec

-----------------------------------------------------------------------------
(***************************************************************************)
(* The fanout around the plan.  Its aggregate is computed when the plan    *)
(* has resolved; a resolved plan is settled for good, and who is reported  *)
(* as succeeded has answered itself.                                       *)
(***************************************************************************)
(* Between its start and its answer a worker has no result, and a success  *)
(* is an answer.                                                           *)
Answering ==
  \A w \in Worker :
    /\ stage[w] \in {"waiting", "starting", "executing"} => result[w] = NoResult
    /\ SaysSuccess(result[w]) => Answered(w)

ResolvedIsSettled ==
  plan = "resolved" => \A w \in Worker : stage[w] = "settled"

AggregatesResolved ==
  /\ aggregate \in {"none", "succeeded", "failed", "rejected"}
  /\ aggregate # "none" => plan = "resolved"

LEMMA PumpAnswering ==
  ASSUME TypeOK, Answering, ResolvedIsSettled, NEW st, Arrived(st), Pump(st)
  PROVE  Answering' /\ ResolvedIsSettled'
<1> USE DEF TypeOK, SaysSuccess, Answered
<1>1. ASSUME NEW w \in Worker
      PROVE  /\ stage'[w] \in {"waiting", "starting", "executing"} => result'[w] = NoResult
             /\ SaysSuccess(result'[w]) => Answered(w)'
  <2>0. adapter' = adapter
    BY DEF Pump
  <2>1. CASE w \in ToSkip(st)
    BY <2>0, <2>1 DEF Pump, Unsuccessful
  <2>2. CASE w \notin ToSkip(st) /\ w \in ToStart(st)
    <3>1. PICK expired \in SUBSET {v \in Worker : control[v] = "deadline"} :
            /\ stage'[w] = EntryStage(w, expired)
            /\ result'[w] = EntryResult(w, expired)
      BY <2>2 DEF Pump
    <3> QED BY <2>0, <3>1 DEF EntryStage, EntryResult, NoResult, Unsuccessful
  <2>3. CASE w \notin ToSkip(st) /\ w \notin ToStart(st)
    <3>1. stage'[w] = st[w] /\ result'[w] = result[w]
      BY <2>3 DEF Pump
    <3> QED BY <2>0, <3>1 DEF Answering, Arrived
  <2> QED BY <2>1, <2>2, <2>3
<1>2. Answering'
  BY <1>1 DEF Answering
<1>3. ResolvedIsSettled'
  <2> SUFFICES ASSUME plan' = "resolved", NEW w \in Worker PROVE stage'[w] = "settled"
    BY DEF ResolvedIsSettled
  <2>1. st[w] = "settled"
    BY DEF Pump, PlanAfter, ResolvedIsSettled, Arrived
  <2> QED BY <2>1, PumpKeepsSettled
<1> QED BY <1>2, <1>3

LEMMA AnsweringHolds == Spec => [](Answering /\ ResolvedIsSettled)
<1>1. Init => Answering /\ ResolvedIsSettled
  BY DEF Init, Answering, ResolvedIsSettled, NoResult, SaysSuccess
<1>2. TypeOK /\ Answering /\ ResolvedIsSettled /\ [Next]_vars
        => Answering' /\ ResolvedIsSettled'
  <2> SUFFICES ASSUME TypeOK, Answering, ResolvedIsSettled, [Next]_vars
               PROVE  Answering' /\ ResolvedIsSettled'
    OBVIOUS
  <2> USE DEF TypeOK, Answering, ResolvedIsSettled, SaysSuccess, Answered
  <2>0. Arrived(stage)
    BY DEF Arrived, Stages
  <2>1. CASE Begin
    BY <2>0, <2>1, PumpAnswering DEF Begin
  <2>2. ASSUME NEW w \in Worker, Settle(w) PROVE Answering' /\ ResolvedIsSettled'
    BY <2>2, SettleArrives, PumpAnswering DEF Settle
  <2>3. ASSUME NEW w \in Worker, Launch(w) PROVE Answering' /\ ResolvedIsSettled'
    <3>1. ~SaysSuccess(result[w]) /\ result' = result
      BY <2>3 DEF Launch, NoResult
    <3>2. \A v \in Worker : v # w => adapter'[v] = adapter[v] /\ stage'[v] = stage[v]
      BY <2>3 DEF Launch
    <3> QED BY <2>3, <3>1, <3>2 DEF Launch
  <2>7. ASSUME NEW w \in Worker, LateResponse(w) PROVE Answering' /\ ResolvedIsSettled'
    BY <2>7 DEF LateResponse
  <2>4. ASSUME NEW w \in Worker, Respond(w) \/ Timeout(w)
        PROVE  Answering' /\ ResolvedIsSettled'
    BY <2>4 DEF Respond, Timeout, Unsuccessful
  <2>5. ASSUME NEW w \in Worker, AdapterThrows(w) \/ CallbackThrows(w)
        PROVE  Answering' /\ ResolvedIsSettled'
    BY <2>5 DEF AdapterThrows, CallbackThrows, Reject
  <2>6. CASE Finished \/ UNCHANGED vars
    BY <2>6 DEF Finished, vars
  <2> QED BY <2>1, <2>2, <2>3, <2>4, <2>5, <2>6, <2>7 DEF Next, Step
<1> QED BY <1>1, <1>2, TypeCorrect, PTL DEF Spec

(* A fanout runs its plan as executeRunPlan does, so what is proved of the *)
(* plan holds in a fanout (executeFanoutRequest).                          *)
THEOREM FanoutRunsPlan == FanoutSpec => Spec
<1>1. FanoutInit => Init
  BY DEF FanoutInit
<1>2. [FanoutNext]_<<vars, fanout>> => [Next]_vars
  BY DEF FanoutNext, Aggregate, AggregationThrows, fanout
<1> QED BY <1>1, <1>2, PTL DEF FanoutSpec, Spec

(* A resolved plan is only passed by late answers. *)
LEMMA ResolvedRests ==
  ASSUME TypeOK, ResolvedIsSettled, plan = "resolved", [Next]_vars
  PROVE  /\ result' = result /\ deps' = deps /\ plan' = plan
         /\ \A w \in Worker : adapter[w] = "done" => adapter'[w] = "done"
<1> USE DEF TypeOK, ResolvedIsSettled
<1>1. \A w \in Worker : stage[w] = "settled"
  OBVIOUS
<1>2. CASE \E w \in Worker : LateResponse(w)
  BY <1>2 DEF LateResponse
<1>3. CASE UNCHANGED vars
  BY <1>3 DEF vars
<1> QED BY <1>1, <1>2, <1>3
        DEF Next, Step, Begin, Launch, Respond, Timeout, AdapterThrows, CallbackThrows,
            Settle, Finished

(* Normalising the input twice gives the references of the workers, each   *)
(* of them once.                                                           *)
LEMMA NormalisedOnce ==
  ASSUME NEW delivery
  PROVE  LET blocks == [w \in Worker |-> Refs(w, delivery)]
             input  == [refs |-> <<>>, normal |-> FALSE, ofWorkers |-> blocks]
         IN  Normalise(Normalise(input)).refs = blocks
<1> DEFINE blocks == [w \in Worker |-> Refs(w, delivery)]
           input  == [refs |-> <<>>, normal |-> FALSE, ofWorkers |-> blocks]
           S == {Refs(w, delivery) : w \in Worker}
<1>1. blocks \in Seq(S)
  BY PlanAssumption DEF Worker
<1> HIDE DEF blocks, S
<1>2. <<>> \o blocks = blocks
  BY <1>1, ConcatEmptySeq
<1>3. Normalise(input) = [refs |-> <<>> \o blocks, ofWorkers |-> blocks, normal |-> TRUE]
  BY DEF Normalise
<1>4. Normalise(Normalise(input)).refs = <<>> \o blocks
  BY <1>3 DEF Normalise
<1> QED BY <1>2, <1>4 DEF blocks

(* What skipped workers pass on conflicts with nothing: two references     *)
(* have one final path exactly when two that were delivered have.          *)
LEMMA DuplicatesAreClaims ==
  ASSUME NEW delivery \in [Worker -> Deliveries \cup {<<>>}],
         delivered' = delivery
  PROVE  DuplicatePaths([w \in Worker |-> Refs(w, delivery)]) <=> ClaimedTwice'
<1> DEFINE blocks == [w \in Worker |-> Refs(w, delivery)]
           Twice == \/ \E v, w \in Worker : v # w /\
                         \E p \in Path : /\ \E i \in DOMAIN delivery[v] : delivery[v][i] = p
                                         /\ \E i \in DOMAIN delivery[w] : delivery[w][i] = p
                    \/ \E w \in Worker : \E i, j \in DOMAIN delivery[w] :
                         i # j /\ delivery[w][i] = delivery[w][j] /\ delivery[w][i] # NoPath
<1>1. ClaimedTwice' <=> Twice
  BY DEF ClaimedTwice, Claims
<1>2. \A w \in Worker : delivery[w] \in Seq(Path \cup {NoPath})
  <2> DEFINE Lists == Seq(Path \cup {NoPath})
  <2>1. Deliveries \subseteq Lists /\ <<>> \in Lists
    BY FanoutAssumption, EmptySeq
  <2> HIDE DEF Lists
  <2>2. \A w \in Worker : delivery[w] \in Lists
    BY <2>1
  <2> QED BY <2>2 DEF Lists
<1>3. \A w \in Worker : \A i \in DOMAIN delivery[w] :
        delivery[w][i] \in Path \cup {NoPath} /\ blocks[w] = delivery[w]
  <2> SUFFICES ASSUME NEW w \in Worker, NEW i \in DOMAIN delivery[w]
               PROVE  delivery[w][i] \in Path \cup {NoPath} /\ blocks[w] = delivery[w]
    OBVIOUS
  <2>1. i \in 1..Len(delivery[w])
    BY <1>2, LenProperties
  <2>2. delivery[w][i] \in Path \cup {NoPath}
    BY <1>2, <2>1, ElementOfSeq
  <2>3. delivery[w] # <<>>
    BY <2>1
  <2> QED BY <2>2, <2>3 DEF Refs
<1>4. \A w \in Worker : \A i \in DOMAIN blocks[w] :
        blocks[w][i] # NoPath => i \in DOMAIN delivery[w] /\ blocks[w] = delivery[w]
  BY DEF Refs
<1>5. ASSUME DuplicatePaths(blocks) PROVE Twice
  <2>1. PICK v \in Worker, w \in Worker :
          \E i \in DOMAIN blocks[v], j \in DOMAIN blocks[w] :
            (v # w \/ i # j) /\ blocks[v][i] = blocks[w][j] /\ blocks[v][i] # NoPath
    BY <1>5 DEF DuplicatePaths
  <2>2. PICK i \in DOMAIN blocks[v], j \in DOMAIN blocks[w] :
          (v # w \/ i # j) /\ blocks[v][i] = blocks[w][j] /\ blocks[v][i] # NoPath
    BY <2>1
  <2>3. /\ i \in DOMAIN delivery[v] /\ j \in DOMAIN delivery[w]
        /\ blocks[v] = delivery[v] /\ blocks[w] = delivery[w]
    BY <1>4, <2>2
  <2>4. delivery[v][i] = delivery[w][j] /\ delivery[v][i] # NoPath /\ delivery[v][i] \in Path
    <3>1. delivery[v][i] = delivery[w][j] /\ delivery[v][i] # NoPath
      BY <2>2, <2>3
    <3> QED BY <1>3, <2>3, <3>1
  <2> HIDE DEF blocks
  <2>5. CASE v # w
    BY <2>3, <2>4, <2>5
  <2>6. CASE v = w
    <3>1. i # j
      BY <2>2, <2>6
    <3> QED BY <2>3, <2>4, <2>6, <3>1
  <2> QED BY <2>5, <2>6
<1>6. ASSUME Twice PROVE DuplicatePaths(blocks)
  <2>0. DOMAIN blocks = Worker
    OBVIOUS
  <2> HIDE DEF blocks
  <2>1. ASSUME NEW v \in Worker, NEW w \in Worker, NEW i \in DOMAIN delivery[v],
               NEW j \in DOMAIN delivery[w], v # w \/ i # j,
               delivery[v][i] = delivery[w][j], delivery[v][i] # NoPath
        PROVE  DuplicatePaths(blocks)
    <3>1. blocks[v] = delivery[v] /\ blocks[w] = delivery[w]
      BY <1>3
    <3> QED BY <2>0, <2>1, <3>1 DEF DuplicatePaths
  <2>2. ASSUME NEW v \in Worker, NEW w \in Worker, v # w, NEW p \in Path,
               NEW i \in DOMAIN delivery[v], delivery[v][i] = p,
               NEW j \in DOMAIN delivery[w], delivery[w][j] = p
        PROVE  DuplicatePaths(blocks)
    BY <2>1, <2>2, FanoutAssumption
  <2> QED BY <1>6, <2>1, <2>2
<1> QED BY <1>1, <1>5, <1>6

LEMMA AggregateOK ==
  ASSUME TypeOK, Answering, Aggregate
  PROVE  AggregateIsRight' /\ aggregate' \in {"succeeded", "failed"} /\ plan' = "resolved"
<1>0. UNCHANGED <<result, deps, adapter, plan>> /\ plan = "resolved"
  BY DEF Aggregate, vars
<1>1. PICK needed \in RequiredSets, delivery \in [Worker -> Deliveries \cup {<<>>}] :
        /\ \A w \in Worker : ~Answered(w) => delivery[w] = <<>>
        /\ required' = needed /\ delivered' = delivery
        /\ LET input == [refs |-> <<>>, normal |-> FALSE,
                         ofWorkers |-> [w \in Worker |-> Refs(w, delivery)]]
               refs == Normalise(Normalise(input)).refs
           IN  aggregate' = IF WorkerConflicts(needed) \/ DuplicatePaths(refs)
                            THEN "failed" ELSE "succeeded"
  BY DEF Aggregate
<1> DEFINE blocks == [w \in Worker |-> Refs(w, delivery)]
<1>2. aggregate' = IF WorkerConflicts(needed) \/ DuplicatePaths(blocks)
                   THEN "failed" ELSE "succeeded"
  BY <1>1, NormalisedOnce
<1>3. DuplicatePaths(blocks) <=> ClaimedTwice'
  BY <1>1, DuplicatesAreClaims
<1> HIDE DEF blocks
<1>4. \A w \in Worker : Succeeded(w) <=> SaysSuccess(result[w])
  BY DEF Succeeded, Normalised, RefStatus, SaysSuccess
<1>5. WorkerConflicts(needed) <=> \E w \in Worker : Wanted(w)' /\ ~SaysSuccess(result'[w])
  <2>1. needed \subseteq Worker /\ \A v \in Worker : deps[v] \subseteq Worker
    BY FanoutAssumption DEF TypeOK, ValidDependencies
  <2>2. \A w \in Worker : Wanted(w)' <=> (w \in needed \/ \E v \in Worker : w \in deps[v])
    BY <1>0, <1>1 DEF Wanted
  <2> QED BY <1>0, <1>4, <2>1, <2>2 DEF WorkerConflicts
<1>6. \A w \in Worker : SaysSuccess(result'[w]) => Answered(w)'
  BY <1>0 DEF Answering, Answered
<1> QED BY <1>0, <1>2, <1>3, <1>5, <1>6 DEF AggregateIsRight

(* A fanout succeeds only if everyone it needs has answered itself, with a *)
(* status of success or with none and a success (fanoutWorkerResultRef,    *)
(* agentTaskStatusSucceeded), and no two artifacts are meant for one path; *)
(* it fails only for one of these (aggregateFanoutOutputs), for any number *)
(* of workers.                                                             *)
THEOREM AggregatesRightly == FanoutSpec => []AggregateIsRight
<1>1. FanoutInit => AggregatesResolved /\ AggregateIsRight
  BY DEF FanoutInit, AggregatesResolved, AggregateIsRight
<1>2. TypeOK /\ Answering /\ ResolvedIsSettled /\ AggregatesResolved /\ AggregateIsRight
        /\ [FanoutNext]_<<vars, fanout>>
        => AggregatesResolved' /\ AggregateIsRight'
  <2> SUFFICES ASSUME TypeOK, Answering, ResolvedIsSettled, AggregatesResolved,
                      AggregateIsRight, [FanoutNext]_<<vars, fanout>>
               PROVE  AggregatesResolved' /\ AggregateIsRight'
    OBVIOUS
  <2>1. CASE Aggregate
    BY <2>1, AggregateOK DEF AggregatesResolved
  <2>2. CASE AggregationThrows
    BY <2>2 DEF AggregationThrows, vars, AggregatesResolved, AggregateIsRight
  <2>3. CASE [Next]_vars /\ UNCHANGED fanout
    <3>0. UNCHANGED <<required, delivered, aggregate>>
      BY <2>3 DEF fanout
    <3>1. CASE aggregate = "none"
      BY <3>0, <3>1 DEF AggregatesResolved, AggregateIsRight
    <3>2. CASE aggregate # "none"
      <4>1. plan = "resolved"
        BY <3>2 DEF AggregatesResolved
      <4>2. /\ result' = result /\ deps' = deps /\ plan' = plan
            /\ \A w \in Worker : adapter[w] = "done" => adapter'[w] = "done"
        BY <2>3, <4>1, ResolvedRests
      <4>3. ClaimedTwice' <=> ClaimedTwice
        BY <3>0 DEF ClaimedTwice, Claims
      <4>4. \A w \in Worker : Wanted(w)' <=> Wanted(w)
        BY <3>0, <4>2 DEF Wanted
      <4>5. AggregateIsRight'
        BY <3>0, <4>2, <4>3, <4>4 DEF AggregateIsRight, Answered
      <4> QED BY <3>0, <4>1, <4>2, <4>5 DEF AggregatesResolved
    <3> QED BY <3>1, <3>2
  <2> QED BY <2>1, <2>2, <2>3 DEF FanoutNext, fanout
<1> QED BY <1>1, <1>2, FanoutRunsPlan, TypeCorrect, AnsweringHolds, PTL DEF FanoutSpec
=============================================================================
