------------------------------- MODULE MCHost -------------------------------
(***************************************************************************)
(* The components of one host process, checked one at a time: the services *)
(* of a recipe, the preview lease, a host command and the artifact bundle. *)
(* They share no state, so their product would only multiply their states: *)
(* `focus` is the one that moves, from its own initial states, while the   *)
(* others stay in one of theirs.                                           *)
(***************************************************************************)
EXTENDS RuntimeServices, PreviewLease, HostCommand, ArtifactBundle

VARIABLE focus

HostInit ==
  /\ focus \in {"services", "lease", "command", "bundle"}
  /\ Init /\ LeaseInit /\ CommandInit /\ BundleInit
  /\ focus # "command" => exit = "none"
  /\ focus # "bundle" => recipe = [flow |-> "recipe", wants |-> {}]

HostNext ==
  /\ UNCHANGED focus
  /\ \/ focus = "services" /\ Next /\ UNCHANGED <<leaseVars, commandVars, bundleVars>>
     \/ focus = "lease" /\ LeaseNext /\ UNCHANGED <<vars, commandVars, bundleVars>>
     \/ focus = "command" /\ CommandNext /\ UNCHANGED <<vars, leaseVars, bundleVars>>
     \/ focus = "bundle" /\ BundleNext /\ UNCHANGED <<vars, leaseVars, commandVars>>

(* The fairness of each component, while it moves. *)
HostFairness ==
  /\ WF_vars(focus = "services" /\ Progress)
  /\ WF_leaseVars(focus = "lease" /\ ParentSteps)
  /\ WF_leaseVars(focus = "lease" /\ ReadyTimeout)
  /\ WF_commandVars(focus = "command" /\ TimeoutFires)
  /\ WF_commandVars(focus = "command" /\ KillerFires)
  /\ WF_commandVars(focus = "command" /\ Data)
  /\ WF_commandVars(focus = "command" /\ ErrorEvent)
  /\ WF_commandVars(focus = "command" /\ CloseEvent)

HostSpec ==
  /\ HostInit
  /\ [][HostNext]_<<focus, vars, leaseVars, commandVars, bundleVars>>
  /\ HostFairness

-----------------------------------------------------------------------------
(* The promises that only the component in focus can keep.                 *)

(* runtime-services.ts: the guarded call ends. *)
ServicesEnd == focus = "services" => GuardedCallEnds
(* waitForPreviewLease: the starting command answers. *)
StartAnswers == focus = "lease" => ParentAnswers
=============================================================================
