-------------------------- MODULE RegistryContract --------------------------
(***************************************************************************)
(* What the run registry promises of one record: every call reads and      *)
(* writes it in one step.  A status follows the transition table, a        *)
(* terminal status is final, and the first cancellation request is the one *)
(* that is kept.  RunRegistry says which calls keep the promise.           *)
(***************************************************************************)
EXTENDS RunRecord

CONSTANTS CreateStatus,   \* the statuses create() is called with
          Updates         \* the updates the callers of the registry perform

VARIABLES present,   \* the record file exists
          value      \* its contents, once it does

cvars == <<present, value>>

Init == /\ present = FALSE
        /\ \E s \in CreateStatus : value = NewRecord(s)

CreateOnce == /\ ~present
              /\ present' = TRUE
              /\ \E s \in CreateStatus : value' = NewRecord(s)

UpdateOnce == /\ present
              /\ \E u \in Updates : /\ UpdateAllowed(value, u)
                                    /\ value' = ApplyUpdate(value, u)
              /\ UNCHANGED present

CancelOnce == /\ present
              /\ CancelAllowed(value)
              /\ \E r \in Reason : value' = ApplyCancel(value, r)
              /\ UNCHANGED present

Next == CreateOnce \/ UpdateOnce \/ CancelOnce

Spec == Init /\ [][Next]_cvars
=============================================================================
