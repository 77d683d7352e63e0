---------------------------- MODULE SiteContract ----------------------------
(***************************************************************************)
(* What the clients of the Cloudflare Worker may rely on (mutations of the *)
(* site kept in R2): a mutation is applied to the site as it is, as a      *)
(* whole and on top of all earlier ones, or not at all, and a client that  *)
(* is told of a success finds its mutation in the site.  A client that is  *)
(* told of a failure knows nothing: the mutation may have been applied, or *)
(* may still be.                                                           *)
(***************************************************************************)
CONSTANTS Mutator   \* the requests to mutate the site, and their mutations

VARIABLES site,   \* the mutations the published site contains
          told    \* what the client of each request was told

vars == <<site, told>>

Init == site = {} /\ told = [m \in Mutator |-> "nothing"]

Apply(m) == site' = site \union {m} /\ UNCHANGED told

Tell(m) == /\ told[m] = "nothing"
           /\ \/ m \in site /\ told' = [told EXCEPT ![m] = "success"]
              \/ told' = [told EXCEPT ![m] = "failure"]
           /\ UNCHANGED site

(* The coordinator's restart answers several clients at once. *)
Fail == /\ \E failed \in SUBSET {m \in Mutator : told[m] = "nothing"} :
             told' = [m \in Mutator |-> IF m \in failed THEN "failure" ELSE told[m]]
        /\ UNCHANGED site

Next == Fail \/ \E m \in Mutator : Apply(m) \/ Tell(m)

Spec == Init /\ [][Next]_vars
=============================================================================
