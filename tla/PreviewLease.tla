---------------------------- MODULE PreviewLease ----------------------------
(***************************************************************************)
(* The preview lease file (cli/src/commands/preview-lease.ts), shared by   *)
(* the command that starts the detached recipe run and waits for its       *)
(* preview, the detached run itself (the child, see RecipeRun), and any    *)
(* number of `preview-lease status` and `preview-lease release` commands.  *)
(* Every change but the first is a read of the whole file, a merge and an  *)
(* atomic rename, without a lock, so a change may be made of a stale read. *)
(***************************************************************************)
EXTENDS Naturals

CONSTANTS Command   \* the status and release commands that are run

VARIABLES lease,      \* the lease file
          child,      \* the detached run: unborn, booting, held, over or dead
          parent,     \* where the starting command is
          pc,         \* where the child's marks and each command are
          seen,       \* what each process last read
          mark,       \* the status each process is about to write
          asked,      \* the registry holds a cancellation request for the run
          late,       \* the 30 minutes of the starting command are over
          expired,    \* the published preview has reached its expiry
          answer,     \* the status the starting command answered with
          published   \* history: the child has written "available"

leaseVars == <<lease, child, parent, pc, seen, mark, asked, late, expired, answer, published>>

Status == {"starting", "available", "release_requested", "released", "expired", "failed"}

(* Everybody that reads and writes the file. *)
Process == {"parent", "child"} \cup Command

(* What the properties need of the file: status, pid and runId. *)
Lease == [status : Status, pid : BOOLEAN, run : BOOLEAN]
Fresh == [status |-> "starting", pid |-> FALSE, run |-> FALSE]

LeaseInit ==
  /\ lease = Fresh
  /\ child = "unborn"
  /\ parent = "spawn"
  /\ pc = [p \in Command \cup {"child"} |-> "idle"]
  /\ seen = [p \in Process |-> Fresh]
  /\ mark = [p \in Process |-> "starting"]
  /\ asked = FALSE
  /\ late = FALSE /\ expired = FALSE
  /\ answer = "none"
  /\ published = FALSE

-----------------------------------------------------------------------------
(* The two halves of updatePreviewLease. *)
Read(p) == seen' = [seen EXCEPT ![p] = lease]

Forget(p) == seen' = [seen EXCEPT ![p] = Fresh]

WithStatus(l, status) == [status |-> status, pid |-> l.pid, run |-> l.run]

(* The starting command.  The first lease is on disk; the child is spawned *)
(* and its pid merged into whatever the file then holds.                   *)
Spawn ==
  /\ parent = "spawn"
  /\ child' = "booting"
  /\ Read("parent")
  /\ parent' = "pid"
  /\ UNCHANGED <<lease, pc, mark, asked, late, expired, answer, published>>

(* A mistake: the command answers first and merges the pid afterwards. *)
PidAfterAnswer ==
  /\ parent \in {"pid", "done"}
  /\ IF parent = "pid"
     THEN parent' = "waiting" /\ UNCHANGED lease
     ELSE /\ ~lease.pid /\ UNCHANGED parent
          /\ lease' = [status |-> seen["parent"].status, pid |-> TRUE, run |-> seen["parent"].run]
  /\ UNCHANGED <<child, pc, seen, mark, asked, late, expired, answer, published>>

WritePid ==
  /\ parent = "pid"
  /\ lease' = [status |-> seen["parent"].status, pid |-> TRUE, run |-> seen["parent"].run]
  /\ parent' = "waiting"
  /\ Forget("parent")
  /\ UNCHANGED <<child, pc, mark, asked, late, expired, answer, published>>

ChildAlive == child \in {"booting", "held", "over"}

(* A status to write, from a read of its own. *)
ParentUpdates(status) ==
  /\ parent' = "updating"
  /\ mark' = [mark EXCEPT !["parent"] = status]
  /\ UNCHANGED answer

Answers(status) ==
  /\ parent' = "done" /\ answer' = status
  /\ UNCHANGED mark

(* A mistake: a child that died is not noticed, nor the time that passed. *)
PollPatiently ==
  /\ parent = "waiting"
  /\ IF lease.status = "starting" THEN UNCHANGED <<parent, mark, answer>> ELSE Answers(lease.status)
  /\ UNCHANGED <<lease, child, pc, seen, asked, late, expired, published>>

(* waitForPreviewLease and refreshPreviewLeaseStatus: one poll.  Once the  *)
(* time is over the file is marked without another look at its status.     *)
Poll ==
  /\ parent = "waiting"
  /\ \/ /\ lease.status = "available" /\ expired
        /\ ParentUpdates("expired")
     \/ /\ lease.status # "starting" /\ ~(lease.status = "available" /\ expired)
        /\ Answers(lease.status)
     \/ /\ late \/ (lease.status = "starting" /\ ~ChildAlive)
        /\ ParentUpdates("failed")
     \/ /\ lease.status = "starting" /\ ChildAlive /\ ~late
        /\ UNCHANGED <<parent, mark, answer>>
  /\ UNCHANGED <<lease, child, pc, seen, asked, late, expired, published>>

ParentReads ==
  /\ parent = "updating"
  /\ Read("parent")
  /\ parent' = "writing"
  /\ UNCHANGED <<lease, child, pc, mark, asked, late, expired, answer, published>>

ParentWrites ==
  /\ parent = "writing"
  /\ lease' = WithStatus(seen["parent"], mark["parent"])
  /\ Answers(mark["parent"])
  /\ Forget("parent")
  /\ UNCHANGED <<child, pc, asked, late, expired, published>>

-----------------------------------------------------------------------------

(* The child marks its lease available, released or failed; which and when *)
(* is RecipeRun's business.  Each mark is a read, a merge and a rename.    *)
Marks == CASE child = "booting" -> {"available", "released", "failed"}
           [] child = "held" -> {"released", "failed"}
           [] OTHER -> {"failed"}

ChildReads ==
  /\ ChildAlive /\ pc["child"] = "idle"
  /\ \E m \in Marks : mark' = [mark EXCEPT !["child"] = m]
  /\ Read("child")
  /\ pc' = [pc EXCEPT !["child"] = "writing"]
  /\ UNCHANGED <<lease, child, parent, asked, late, expired, answer, published>>

ChildWrites ==
  /\ ChildAlive /\ pc["child"] = "writing"
  /\ lease' = [status |-> mark["child"], pid |-> seen["child"].pid,
               run |-> seen["child"].run \/ mark["child"] = "available"]
  /\ published' = (published \/ mark["child"] = "available")
  /\ child' = IF mark["child"] = "available" THEN "held" ELSE "over"
  /\ pc' = [pc EXCEPT !["child"] = IF mark["child"] = "failed" THEN "done" ELSE "idle"]
  /\ Forget("child")
  /\ UNCHANGED <<parent, mark, asked, late, expired, answer>>

(* The child's process ends, on its own or killed. *)
ChildEnds ==
  /\ ChildAlive
  /\ child' = "dead"
  /\ UNCHANGED <<lease, parent, pc, seen, mark, asked, late, expired, answer, published>>

-----------------------------------------------------------------------------
(* preview-lease release: the run, if the lease names one, is asked to     *)
(* stop; then release_requested is merged into a second read.              *)
StartRelease(c) ==
  /\ pc[c] = "idle"
  /\ asked' = (asked \/ lease.run)
  /\ mark' = [mark EXCEPT ![c] = "release_requested"]
  /\ pc' = [pc EXCEPT ![c] = "reading"]
  /\ UNCHANGED <<lease, child, parent, seen, late, expired, answer, published>>

(* preview-lease status: only an expired preview is written back. *)
StartStatus(c) ==
  /\ pc[c] = "idle"
  /\ lease.status = "available" /\ expired
  /\ mark' = [mark EXCEPT ![c] = "expired"]
  /\ pc' = [pc EXCEPT ![c] = "reading"]
  /\ UNCHANGED <<lease, child, parent, seen, asked, late, expired, answer, published>>

CommandReads(c) ==
  /\ pc[c] = "reading"
  /\ Read(c)
  /\ pc' = [pc EXCEPT ![c] = "writing"]
  /\ UNCHANGED <<lease, child, parent, mark, asked, late, expired, answer, published>>

CommandWrites(c) ==
  /\ pc[c] = "writing"
  /\ lease' = WithStatus(seen[c], mark[c])
  /\ pc' = [pc EXCEPT ![c] = "done"]
  /\ Forget(c)
  /\ UNCHANGED <<child, parent, mark, asked, late, expired, answer, published>>

-----------------------------------------------------------------------------
ReadyTimeout ==
  /\ parent # "spawn" /\ ~late
  /\ late' = TRUE
  /\ UNCHANGED <<lease, child, parent, pc, seen, mark, asked, expired, answer, published>>

PreviewExpires ==
  /\ published /\ ~expired
  /\ expired' = TRUE
  /\ UNCHANGED <<lease, child, parent, pc, seen, mark, asked, late, answer, published>>

ParentSteps == Spawn \/ WritePid \/ Poll \/ ParentReads \/ ParentWrites

LeaseNext ==
  \/ ParentSteps \/ ReadyTimeout \/ PreviewExpires
  \/ ChildReads \/ ChildWrites \/ ChildEnds
  \/ \E c \in Command : \/ StartRelease(c) \/ StartStatus(c)
                        \/ CommandReads(c) \/ CommandWrites(c)

LeaseSpec == LeaseInit /\ [][LeaseNext]_leaseVars

(* The starting command keeps polling and its 30 minutes pass; nothing is  *)
(* assumed of the child or of other commands.                              *)
Fairness == WF_leaseVars(ParentSteps) /\ WF_leaseVars(ReadyTimeout)

-----------------------------------------------------------------------------
(* The values of the variables. *)
LeaseTypeOK ==
  /\ lease \in Lease
  /\ child \in {"unborn", "booting", "held", "over", "dead"}
  /\ parent \in {"spawn", "pid", "waiting", "updating", "writing", "done"}
  /\ pc \in [Command \cup {"child"} -> {"idle", "reading", "writing", "done"}]
  /\ seen \in [Process -> Lease]
  /\ mark \in [Process -> Status]
  /\ asked \in BOOLEAN /\ late \in BOOLEAN /\ expired \in BOOLEAN /\ published \in BOOLEAN
  /\ answer \in Status \cup {"none"}

(* A starting command that exits with 0, and a file that says available,   *)
(* speak of a preview the child did publish, and of a lease that names the *)
(* run, so that a release can find it - whatever stale reads were merged.  *)
AvailableIsPublished ==
  /\ answer = "available" => published
  /\ lease.status = "available" => published /\ lease.run

(* Once the starting command has answered, nobody takes the lease back to  *)
(* "starting": the last stale copy of it has been written.                 *)
AnsweredIsSettled ==
  parent = "done" => lease.status # "starting" /\ answer # "starting"

(* Both: the file is true although everybody merges what may be stale.     *)
LeaseIsTrue == AvailableIsPublished /\ AnsweredIsSettled

(* The starting command answers: the preview, its failure or a timeout. *)
ParentAnswers == <>(parent = "done")
=============================================================================
