----------------------------- MODULE MCRunPlan -----------------------------
(* A small instance of RunPlan and of the Fanout around it. *)
EXTENDS Fanout

(* A missing concurrency is 0; a negative one and one above the cap occur. *)
MCRequested == {-1, 0, 2, 9}

(* A success without a status and one with nothing done; a failure that    *)
(* calls itself completed, and a success that calls itself cancelled.      *)
MCAdapterResults ==
  {[success |-> TRUE, status |-> "none"],
   [success |-> TRUE, status |-> "no_op"],
   [success |-> FALSE, status |-> "completed"],
   [success |-> TRUE, status |-> "cancelled"]}

(* One path: two workers may deliver for it. *)
MCDeliveries == {<<"result.json">>}

(* Everybody is optional, or the first two workers are not. *)
MCRequiredSets == {{}, {1, 2}}
=============================================================================
