---------------------------- MODULE PlanContract ----------------------------
(***************************************************************************)
(* What executing a run plan promises, without timers, callbacks or        *)
(* concurrency limits: each worker is decided once, after everything it    *)
(* depends on, a worker that depends on an unsuccessful one is itself      *)
(* unsuccessful, and the plan ends when every worker is decided, or fails. *)
(***************************************************************************)
CONSTANTS Worker,    \* the workers of the plan
          Needs      \* the dependency relations a plan may come with

VARIABLES needs,     \* what each worker depends on
          verdict,   \* each worker's verdict, undecided at first
          over       \* how the plan ended, if it has

cvars == <<needs, verdict, over>>

Init == /\ needs \in Needs
        /\ verdict = [w \in Worker |-> "undecided"]
        /\ over = "no"

Decide(w) ==
  /\ verdict[w] = "undecided"
  /\ \A d \in needs[w] : verdict[d] # "undecided"
  /\ \E v \in {"succeeded", "unsuccessful"} :
       /\ v = "succeeded" => \A d \in needs[w] : verdict[d] = "succeeded"
       /\ verdict' = [verdict EXCEPT ![w] = v]
  /\ UNCHANGED needs

(* The last decision resolves the plan in the same step. *)
DecideOne == \E w \in Worker :
               /\ Decide(w)
               /\ over' = IF /\ over = "no"
                             /\ \A v \in Worker : verdict'[v] # "undecided"
                          THEN "resolved" ELSE over

Fail == /\ over = "no"
        /\ \E w \in Worker : verdict[w] = "undecided"
        /\ over' = "rejected"
        /\ UNCHANGED <<needs, verdict>>

Next == DecideOne \/ Fail

Spec == Init /\ [][Next]_cvars
=============================================================================
