-------------------------- MODULE ServiceContract --------------------------
(***************************************************************************)
(* What a recipe run may rely on when it asks for managed runtime services *)
(* (cli/src/runtime-services.ts): the call either hands over a handle on   *)
(* all of them or throws, a throw may leave something behind but never     *)
(* hands anything over later, and only a handle that was held is released. *)
(* RecipeRun keeps the same four values in its variable `services`.        *)
(***************************************************************************)
VARIABLES call,      \* the guarded call: open, held or thrown
          services   \* none, up, released or leaked

vars == <<call, services>>

Init == call = "open" /\ services = "none"

HandOver == call = "open" /\ call' = "held" /\ services' = "up"

Throw == call = "open" /\ call' = "thrown" /\ services' \in {"none", "leaked"}

Release == /\ call = "held" /\ services = "up"
           /\ services' = "released"
           /\ UNCHANGED call

Next == HandOver \/ Throw \/ Release

Spec == Init /\ [][Next]_vars
=============================================================================
