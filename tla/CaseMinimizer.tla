--------------------------- MODULE CaseMinimizer ---------------------------
(***************************************************************************)
(* minimizeFuzzCase (runtime-core/src/fuzz-case-minimizer.ts): the steps   *)
(* of a failing case are reduced by removing a chunk of them at a time, as *)
(* long as the replay of what is left preserves the failure; a pass that   *)
(* removes nothing halves the chunk.                                       *)
(*                                                                         *)
(* What a replay shows is any choice, and need not be the same twice: all  *)
(* replays run on the site that the earlier ones left.                     *)
(***************************************************************************)
EXTENDS Integers, Sequences

CONSTANTS MaxSteps   \* bound: the steps of the case

ASSUME StepsAssumption == MaxSteps \in Nat

VARIABLES steps,    \* how many steps the case has
          failed,   \* it is the replay of a failed or an erroneous case
          kept,     \* currentSteps
          chunk,    \* chunkSize
          start,    \* where the chunk to be removed next starts
          verdict,  \* what the last replay of each set of steps showed
          reached    \* the status of the result

minimizerVars == <<steps, failed, kept, chunk, start, verdict, reached>>

Indices(s) == {s[i] : i \in 1..Len(s)}
AtMost(a, b) == IF a < b THEN a ELSE b
AtLeast(a, b) == IF a > b THEN a ELSE b

MinimizerInit == /\ steps \in 0..MaxSteps
                 /\ failed \in BOOLEAN
                 /\ kept = [i \in 1..steps |-> i]
                 /\ chunk = AtLeast(1, steps \div 2)
                 /\ start = 0
                 /\ verdict = [s \in SUBSET (1..MaxSteps) |-> "untried"]
                 /\ reached = "none"

Blocked == /\ reached = "none"
           /\ steps < 2 \/ ~failed
           /\ reached' = "blocked"
           /\ UNCHANGED <<steps, failed, kept, chunk, start, verdict>>

Minimizing == reached = "none" /\ steps >= 2 /\ failed /\ chunk >= 1
PassGoesOn == start < Len(kept) /\ Len(kept) > 1

Candidate == SubSeq(kept, 1, start)
             \o SubSeq(kept, AtMost(Len(kept), start + chunk) + 1, Len(kept))

(* A chunk that is all there is cannot be removed. *)
SkipEmpty == /\ Minimizing /\ PassGoesOn
             /\ Candidate = <<>>
             /\ start' = start + chunk
             /\ UNCHANGED <<steps, failed, kept, chunk, verdict, reached>>

(* A mistake: the pass goes on behind the chunk that was removed. *)
ReplayOnward ==
  /\ Minimizing /\ PassGoesOn
  /\ Candidate # <<>>
  /\ \E preserved \in BOOLEAN :
       /\ verdict' = [verdict EXCEPT ![Indices(Candidate)] =
                        IF preserved THEN "preserved" ELSE "lost"]
       /\ kept' = IF preserved THEN Candidate ELSE kept
  /\ start' = start + chunk
  /\ UNCHANGED <<steps, failed, chunk, reached>>

(* replayMinimizedSequence and preservesFailure: the first chunk that can  *)
(* be spared is removed and the pass starts again; `reducedThisPass` is    *)
(* that it did not come to its end.                                        *)
Replay ==
  /\ Minimizing /\ PassGoesOn
  /\ Candidate # <<>>
  /\ \E preserved \in BOOLEAN :
       /\ verdict' = [verdict EXCEPT ![Indices(Candidate)] =
                        IF preserved THEN "preserved" ELSE "lost"]
       /\ IF preserved THEN kept' = Candidate /\ start' = 0
          ELSE start' = start + chunk /\ UNCHANGED kept
  /\ UNCHANGED <<steps, failed, chunk, reached>>

Halve == /\ Minimizing /\ ~PassGoesOn
         /\ chunk' = chunk \div 2
         /\ start' = 0
         /\ UNCHANGED <<steps, failed, kept, verdict, reached>>

(* The result is replayed once more, for its evidence only. *)
Finish == /\ reached = "none" /\ chunk = 0
          /\ reached' = IF Len(kept) < steps THEN "reduced" ELSE "unchanged"
          /\ UNCHANGED <<steps, failed, kept, chunk, start, verdict>>

MinimizerNext == Blocked \/ SkipEmpty \/ Replay \/ Halve \/ Finish

MinimizerSpec == MinimizerInit /\ [][MinimizerNext]_minimizerVars

-----------------------------------------------------------------------------
(* The result is what the last replay that preserved the failure ran, or   *)
(* the whole case, and each of its steps was tried: without it the failure *)
(* was gone (minimizeFuzzCase).  A chunk that could not be spared early is *)
(* tried again when the steps around it are gone.                          *)
MinimizedStillFails ==
  reached \in {"reduced", "unchanged"} =>
    /\ Len(kept) = steps \/ verdict[Indices(kept)] = "preserved"
    /\ Len(kept) > 1 =>
         \A i \in Indices(kept) : verdict[Indices(kept) \ {i}] = "lost"
=============================================================================
