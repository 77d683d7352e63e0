---------------------------- MODULE RunRegistry ----------------------------
(***************************************************************************)
(* The file-backed run registry (runtime-core/src/run-registry.ts) as the  *)
(* processes that share it run it.  One JSON file holds one run's record.  *)
(* There is no lock: update() and requestCancellation() read the file,     *)
(* compute the next record from what they read, write it to a temporary    *)
(* file named after their process id and rename that over the record.      *)
(*                                                                         *)
(* A Process is an operating-system process with at most one registry call *)
(* under way for the run, which is how the CLI uses the class: the runner  *)
(* (the Owner, which creates the record) awaits each update, and every     *)
(* `runs cancel` or `preview-lease release` is a process of its own.       *)
(***************************************************************************)
EXTENDS RunRecord

CONSTANTS Process,       \* the processes that open the registry
          Owner,         \* the one that creates the record
          CreateStatus,  \* the statuses create() is called with
          Updates,       \* the updates the processes perform
          MaxAttempts    \* bound: cleanup attempts counted in the record

ASSUME RegistryAssumption ==
  /\ Owner \in Process
  /\ CreateStatus \subseteq Status
  /\ Updates \subseteq Update
  /\ MaxAttempts \in Nat

VARIABLES file,      \* the record file: absent, torn (half written) or whole
          record,    \* its contents when whole
          pc,        \* where each process is in its call
          buf,       \* the record it read, then the record it writes
          temp,      \* its temporary file
          current,   \* history: nobody has replaced the record since it read
          recorded   \* history: every status the record file has held

vars == <<file, record, pc, buf, temp, current, recorded>>

(* What a process holds between two calls: nothing. *)
Blank == NewRecord("queued")

Init == /\ file = "absent"
        /\ \E s \in CreateStatus : record = NewRecord(s)
        /\ pc = [p \in Process |-> "idle"]
        /\ buf = [p \in Process |-> Blank]
        /\ temp = [p \in Process |-> "absent"]
        /\ current = [p \in Process |-> FALSE]
        /\ recorded = {}

-----------------------------------------------------------------------------
(* A mistake: the record is written in place. *)
BeginWriteInPlace(p, next) ==
  /\ buf' = [buf EXCEPT ![p] = next]
  /\ file' = "torn"
  /\ pc' = [pc EXCEPT ![p] = "writing"]
  /\ UNCHANGED <<temp, record, recorded>>

(* Opening the temporary file truncates it; its contents follow. *)
BeginWrite(p, next) ==
  /\ buf' = [buf EXCEPT ![p] = next]
  /\ temp' = [temp EXCEPT ![p] = "torn"]
  /\ pc' = [pc EXCEPT ![p] = "writing"]
  /\ UNCHANGED <<file, record, recorded>>

(* create(): nothing is read, and the run id is fresh. *)
Create(p) ==
  /\ p = Owner
  /\ pc[p] = "idle" /\ file = "absent"
  /\ \E s \in CreateStatus : BeginWrite(p, NewRecord(s))
  /\ current' = [current EXCEPT ![p] = TRUE]

(* The call of p is over: returned, thrown or killed. *)
EndCall(p, where) ==
  /\ pc' = [pc EXCEPT ![p] = where]
  /\ buf' = [buf EXCEPT ![p] = Blank]

(* The readFile every other call starts with. *)
ReadRecord(p) ==
  /\ pc[p] = "idle" /\ file = "whole"
  /\ buf' = [buf EXCEPT ![p] = record]
  /\ current' = [current EXCEPT ![p] = TRUE]
  /\ pc' = [pc EXCEPT ![p] = "read"]
  /\ UNCHANGED <<file, record, temp, recorded>>

(* read(), an update() that throws and a requestCancellation() that finds  *)
(* the run terminal or already asked to stop: no write follows.            *)
Return(p) ==
  /\ pc[p] = "read"
  /\ EndCall(p, "idle")
  /\ current' = [current EXCEPT ![p] = FALSE]
  /\ UNCHANGED <<file, record, temp, recorded>>

UpdateRecord(p) ==
  /\ pc[p] = "read"
  /\ \E u \in Updates :
       /\ UpdateAllowed(buf[p], u)
       /\ u.cleanup = "running" => buf[p].cleanup.attempts < MaxAttempts
       /\ BeginWrite(p, ApplyUpdate(buf[p], u))
  /\ UNCHANGED current

(* A mistake: a finished run may still be asked to stop. *)
RequestOfFinishedRun(p) ==
  /\ pc[p] = "read"
  /\ buf[p].cancellation = NoReason
  /\ \E r \in Reason : BeginWrite(p, ApplyCancel(buf[p], r))
  /\ UNCHANGED current

RequestCancellation(p) ==
  /\ pc[p] = "read"
  /\ CancelAllowed(buf[p])
  /\ \E r \in Reason : BeginWrite(p, ApplyCancel(buf[p], r))
  /\ UNCHANGED current

FillTemp(p) ==
  /\ pc[p] = "writing"
  /\ temp' = [temp EXCEPT ![p] = "whole"]
  /\ pc' = [pc EXCEPT ![p] = "written"]
  /\ UNCHANGED <<file, record, buf, current, recorded>>

(* rename(): the record is replaced, and every other read is now stale. *)
Rename(p) ==
  /\ pc[p] = "written"
  /\ file' = temp[p]
  /\ record' = buf[p]
  /\ recorded' = recorded \cup {buf[p].status}
  /\ temp' = [temp EXCEPT ![p] = "absent"]
  /\ current' = [q \in Process |-> FALSE]
  /\ EndCall(p, "idle")

(* A killed process leaves its temporary file behind. *)
Crash(p) ==
  /\ pc[p] # "crashed"
  /\ EndCall(p, "crashed")
  /\ current' = [current EXCEPT ![p] = FALSE]
  /\ UNCHANGED <<file, record, temp, recorded>>

Step(p) == \/ Create(p) \/ ReadRecord(p) \/ Return(p)
           \/ UpdateRecord(p) \/ RequestCancellation(p)
           \/ FillTemp(p) \/ Rename(p) \/ Crash(p)

Next == \E p \in Process : Step(p)

Spec == Init /\ [][Next]_vars

-----------------------------------------------------------------------------
FileState == {"absent", "torn", "whole"}

TypeOK ==
  /\ file \in FileState
  /\ record \in Record
  /\ pc \in [Process -> {"idle", "read", "writing", "written", "crashed"}]
  /\ buf \in [Process -> Record]
  /\ temp \in [Process -> FileState]
  /\ current \in [Process -> BOOLEAN]
  /\ recorded \subseteq Status

(* Whatever the interleaving and wherever a process is killed, a reader    *)
(* never parses half a record: write() goes through a temporary file and a *)
(* rename.                                                                 *)
RecordNeverTorn == file # "torn"

(* No interleaving of stale updates records a success for a run that was   *)
(* never recorded as running: the transition table lets a run succeed only *)
(* from running or collecting_artifacts.                                   *)
SuccessAfterRunning ==
  "succeeded" \in recorded =>
     recorded \cap {"running", "collecting_artifacts"} # {}

Contract == INSTANCE RegistryContract
              WITH present <- file # "absent", value <- record

(* A call whose read is still current when it renames behaves as one       *)
(* atomic call of the contract: it moves the status along the table, never *)
(* reopens a terminal run and never drops or replaces a cancellation.      *)
CurrentWritesAreAtomic ==
  [][\A p \in Process : current[p] /\ Rename(p) => Contract!Next]_vars

(* With a single process every behaviour is one of the contract. *)
ImplementsContract == Contract!Spec

(* transitionRuntimeRunStatus refuses to leave a terminal status:          *)
(* "Cannot transition terminal runtime run status".                        *)
TerminalIsFinal ==
  [][(file = "whole" /\ record.status \in Terminal)
       => record'.status = record.status]_vars
=============================================================================
