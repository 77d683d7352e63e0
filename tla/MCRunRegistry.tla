--------------------------- MODULE MCRunRegistry ---------------------------
(* Small instances of RunRegistry. *)
EXTENDS RunRegistry

(* The CLI creates every record as queued (recipe-run-context.ts). *)
MCCreateStatus == {"queued"}

(* The updates of a recipe run, heartbeat included. *)
MCUpdates ==
  {SetStatus(s) : s \in {"booting", "running", "collecting_artifacts",
                         "succeeded"}}
    \cup {SetCleanup(c) : c \in {"running", "succeeded"}}
    \cup {SetNothing}
=============================================================================
