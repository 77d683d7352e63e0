----------------------------- MODULE FuzzSuite -----------------------------
(***************************************************************************)
(* A fuzz suite against one WordPress runtime (runtime-core/src/           *)
(* fuzz-suite-runner.ts, with the reset executor of runtime-playground/    *)
(* src/public.ts): the cases run one after another, each after the reset   *)
(* its policy asks for.  checkpoint-per-case makes one checkpoint of the   *)
(* site, when the first case asks for it, and restores it before every     *)
(* such case; restore-snapshot restores a snapshot taken before the suite. *)
(*                                                                         *)
(* The site is the set of cases whose effects it shows, and whether a      *)
(* restore left it torn.  The restore's PHP throws when it cannot write a  *)
(* file, but looks at no result of its queries and removals: a restore     *)
(* that was only carried out in part is reported as passed.  A case that   *)
(* timed out may act on the site later: its PHP is not stopped.            *)
(***************************************************************************)
EXTENDS Integers

CONSTANTS Cases,   \* how many cases the suite has
          Name     \* the names checkpoints are given by the policies

ASSUME SuiteAssumption == Cases \in Nat

VARIABLES policy,       \* of each case: its mode and the checkpoint's name
          current,      \* the case in hand
          at,           \* where it is: reset, restore or run
          created,      \* checkpointCreated
          checkpoints,  \* the runtime's checkpoints: the site each one holds
          site,         \* the cases whose effects the site shows, or Torn
          began,        \* the site each case found when it was executed
          abandoned,    \* the cases whose PHP may still be running
          outcome,      \* of each case
          partly       \* the cases whose restore passed in part: nobody is told

suiteVars == <<policy, current, at, created, checkpoints, site, began, abandoned, outcome, partly>>

Case == 1..Cases
Torn == 0
NoSite == {-1}

Policies == [mode : {"none", "snapshot"}, name : {"-"}] \union [mode : {"checkpoint"}, name : Name]

SuiteInit ==
  /\ policy \in [Case -> Policies]
  /\ current = 1 /\ at = "reset"
  /\ created = FALSE
  /\ checkpoints = [n \in Name |-> NoSite]
  /\ site = {}
  /\ began = [c \in Case |-> NoSite]
  /\ abandoned = {}
  /\ outcome = [c \in Case |-> "none"]
  /\ partly = {}

Mode == policy[current].mode
Checkpoint == policy[current].name

-----------------------------------------------------------------------------
(* Every case ends with its outcome, and the next one follows. *)
Ends(status) ==
  /\ outcome' = [outcome EXCEPT ![current] = status]
  /\ current' = current + 1
  /\ at' = "reset"

GoesOn(next) == at' = next /\ UNCHANGED <<current, outcome>>

(* executeFuzzSuiteCaseReset: a reset that fails, or throws, or that is    *)
(* not supported, is the end of the case.                                  *)
ResetFails == Ends("error")

(* The policy is not valid, or nobody can carry it out. *)
Refuse ==
  /\ at = "reset" /\ current \in Case
  /\ ResetFails
  /\ UNCHANGED <<policy, created, checkpoints, site, began, abandoned, partly>>

NotRequired ==
  /\ at = "reset" /\ current \in Case /\ Mode = "none"
  /\ GoesOn("run")
  /\ UNCHANGED <<policy, created, checkpoints, site, began, abandoned, partly>>

(* A mistake: every case makes the checkpoint it then restores. *)
CreateEveryTime ==
  /\ at = "reset" /\ current \in Case /\ Mode = "checkpoint"
  /\ checkpoints' = [checkpoints EXCEPT ![Checkpoint] = site]
  /\ created' = TRUE
  /\ GoesOn("restore")
  /\ UNCHANGED <<policy, site, began, abandoned, partly>>

(* resetFuzzSuiteCase: the first checkpoint case makes the checkpoint; the *)
(* command may fail, or throw, with the checkpoint made.                   *)
CreateCheckpoint ==
  /\ at = "reset" /\ current \in Case /\ Mode = "checkpoint"
  /\ IF created
     THEN GoesOn("restore") /\ UNCHANGED <<created, checkpoints>>
     ELSE \/ /\ checkpoints' = [checkpoints EXCEPT ![Checkpoint] = site]
             /\ \/ created' = TRUE /\ GoesOn("restore")
                \/ UNCHANGED created /\ ResetFails
          \/ UNCHANGED <<created, checkpoints>> /\ ResetFails
  /\ UNCHANGED <<policy, site, began, abandoned, partly>>

(* What a restore of saved leaves that was not carried out whole: the      *)
(* tables and files that were not dropped or removed are still there.      *)
Mixed(saved) == {s \union {Torn} : s \in SUBSET (site \union saved)}

(* restoreSnapshotPayload: the response may be refused before anything is  *)
(* touched, PHP may fail in the middle, or its exit code is 0.             *)
Restored(saved) ==
  \/ site' = saved /\ GoesOn("run") /\ UNCHANGED partly
  \/ site' \in Mixed(saved) /\ GoesOn("run") /\ partly' = partly \union {current}
  \/ site' \in {site} \union Mixed(saved) /\ ResetFails /\ UNCHANGED partly

(* restoreCheckpoint: an unknown name is refused. *)
RestoreCheckpoint ==
  /\ at = "restore"
  /\ IF checkpoints[Checkpoint] = NoSite
     THEN ResetFails /\ UNCHANGED <<site, partly>>
     ELSE Restored(checkpoints[Checkpoint])
  /\ UNCHANGED <<policy, created, checkpoints, began, abandoned>>

(* restore-snapshot: the snapshot may be unknown, or unsupported. *)
RestoreSnapshot ==
  /\ at = "reset" /\ current \in Case /\ Mode = "snapshot"
  /\ Restored({})
  /\ UNCHANGED <<policy, created, checkpoints, began, abandoned>>

-----------------------------------------------------------------------------
(* No plan, no executor, or a mutation without its proof: not executed. *)
Skip ==
  /\ at = "run"
  /\ Ends("skipped")
  /\ UNCHANGED <<policy, created, checkpoints, site, began, abandoned, partly>>

(* The executor runs the case's command, workload or actions; it may fail  *)
(* or throw half way, and a timeout leaves its PHP running.                *)
Execute ==
  /\ at = "run"
  /\ began' = [began EXCEPT ![current] = site]
  /\ site' \in {site, site \union {current}}
  /\ \/ \E status \in {"passed", "failed", "error"} : Ends(status) /\ UNCHANGED abandoned
     \/ Ends("error") /\ abandoned' = abandoned \union {current}
  /\ UNCHANGED <<policy, created, checkpoints, partly>>

(* The PHP of a case that was given up acts on whatever the site is now. *)
ActsLate ==
  /\ \E c \in abandoned : site' = site \union {c}
  /\ UNCHANGED <<policy, current, at, created, checkpoints, began, abandoned, outcome, partly>>

SuiteNext == \/ Refuse \/ NotRequired \/ CreateCheckpoint \/ RestoreCheckpoint \/ RestoreSnapshot
             \/ Skip \/ Execute \/ ActsLate

SuiteSpec == SuiteInit /\ [][SuiteNext]_suiteVars

-----------------------------------------------------------------------------
(* A restore of this policy may have torn the site: its case ended in an   *)
(* error, or the restore passed in part.                                   *)
TornBy(mode) == \E d \in Case : policy[d].mode = mode /\ (outcome[d] = "error" \/ d \in partly)

(* A case whose reset was carried out whole never runs on what a case of   *)
(* the same policy left behind, whichever resets and checkpoints failed    *)
(* before, nor on a site that another case's restore of its policy tore,   *)
(* with an error or unnoticed; only the PHP of a case that timed out can   *)
(* still reach it.  The checkpoint holds what cases of other policies did  *)
(* before it was made (resetFuzzSuiteCase, executeFuzzSuiteCaseReset).  Of *)
(* a case in partly nothing is promised: it runs on whatever its own      *)
(* restore left, and no result tells.                                      *)
CasesAreIsolated ==
  \A c \in Case : began[c] # NoSite /\ c \notin partly =>
    CASE policy[c].mode = "checkpoint" ->
           \A d \in began[c] : IF d = Torn THEN TornBy("snapshot")
                               ELSE d \in abandoned \/ policy[d].mode # "checkpoint"
      [] policy[c].mode = "snapshot" -> began[c] \subseteq abandoned
      [] OTHER -> TRUE
=============================================================================
