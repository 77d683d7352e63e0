------------------------- MODULE RunRegistryProofs -------------------------
(***************************************************************************)
(* Theorems about RunRegistry for any set of processes, reasons and        *)
(* updates, and any bound on the cleanup attempts.                         *)
(***************************************************************************)
EXTENDS RunRegistry, TLAPS

(* What one atomic call of the contract may do to the record. *)
OneCall(old, new) ==
  \/ /\ file = "absent"
     /\ \E s \in CreateStatus : new = NewRecord(s)
  \/ /\ file # "absent"
     /\ \E u \in Updates : UpdateAllowed(old, u) /\ new = ApplyUpdate(old, u)
  \/ /\ file # "absent"
     /\ CancelAllowed(old)
     /\ \E r \in Reason : new = ApplyCancel(old, r)

(* A process that may still rename holds what a call of the contract on    *)
(* the present record would read or write.                                 *)
BufferCurrent ==
  \A p \in Process : current[p] =>
    /\ pc[p] = "read" => file # "absent" /\ buf[p] = record
    /\ pc[p] \in {"writing", "written"} => OneCall(record, buf[p])

(* Only a complete temporary file is ever renamed. *)
TempComplete == /\ \A p \in Process : pc[p] = "written" => temp[p] = "whole"
                /\ file # "torn"

(* Statuses a process has read are statuses the file has held; a success   *)
(* in the making follows from one of them.                                 *)
Started == recorded \cap {"running", "collecting_artifacts", "succeeded"} # {}

StatusHistory ==
  /\ file = "whole" => record.status \in recorded
  /\ \A p \in Process :
       /\ pc[p] = "read" => buf[p].status \in recorded
       /\ (pc[p] \in {"writing", "written"} /\ buf[p].status = "succeeded")
            => Started
  /\ SuccessAfterRunning

IInv == BufferCurrent /\ TempComplete

-----------------------------------------------------------------------------
(* The pure functions of RunRecord keep a record a record. *)
LEMMA NewRecordType ==
  ASSUME NEW s \in Status
  PROVE  NewRecord(s) \in Record
  BY DEF NewRecord, Record, Cleanup, CleanupStatus, Result

LEMMA ApplyUpdateType ==
  ASSUME NEW rec \in Record, NEW u \in Update
  PROVE  ApplyUpdate(rec, u) \in Record
  BY DEF ApplyUpdate, UpdatedCleanup, Record, Update, Cleanup

LEMMA ApplyCancelType ==
  ASSUME NEW rec \in Record, NEW r \in Reason
  PROVE  ApplyCancel(rec, r) \in Record
  BY DEF ApplyCancel, Record

(* An update moves a run to succeeded only from a running, collecting or   *)
(* succeeded one.                                                          *)
LEMMA SuccessNeedsStart ==
  ASSUME NEW rec \in Record, NEW u \in Update, UpdateAllowed(rec, u),
         ApplyUpdate(rec, u).status = "succeeded"
  PROVE  rec.status \in {"running", "collecting_artifacts", "succeeded"}
  BY DEF ApplyUpdate, UpdateAllowed, CanTransition, Transitions, Record, Update,
         Status, Active, Terminal, Keep

-----------------------------------------------------------------------------
(* Type correctness: no interleaving of calls and crashes leaves the       *)
(* types of the registry.                                                  *)
THEOREM TypeCorrect == Spec => []TypeOK
<1>1. Init => TypeOK
  BY RegistryAssumption, NewRecordType
  DEF Init, TypeOK, Blank, FileState, Status, Active
<1>2. TypeOK /\ [Next]_vars => TypeOK'
  <2> SUFFICES ASSUME TypeOK, [Next]_vars PROVE TypeOK'
    OBVIOUS
  <2> USE DEF TypeOK, FileState
  <2>b. Blank \in Record
    BY NewRecordType DEF Blank, Status, Active
  <2>w. ASSUME NEW p \in Process, NEW next \in Record, BeginWrite(p, next)
        PROVE  /\ pc' \in [Process -> {"idle", "read", "writing", "written", "crashed"}]
               /\ buf' \in [Process -> Record]
               /\ temp' \in [Process -> FileState]
    BY <2>w DEF BeginWrite
  <2>1. ASSUME NEW p \in Process, Create(p) PROVE TypeOK'
    <3>1. PICK s \in CreateStatus : BeginWrite(p, NewRecord(s))
      BY <2>1 DEF Create
    <3>2. NewRecord(s) \in Record
      BY NewRecordType, RegistryAssumption
    <3>3. QED
      BY <2>1, <3>1, <3>2, <2>w DEF Create, BeginWrite
  <2>2. ASSUME NEW p \in Process, ReadRecord(p) PROVE TypeOK'
    BY <2>2 DEF ReadRecord
  <2>3. ASSUME NEW p \in Process, Return(p) PROVE TypeOK'
    BY <2>3, <2>b DEF Return, EndCall
  <2>4. ASSUME NEW p \in Process, UpdateRecord(p) PROVE TypeOK'
    <3>1. PICK u \in Updates : BeginWrite(p, ApplyUpdate(buf[p], u))
      BY <2>4 DEF UpdateRecord
    <3>2. ApplyUpdate(buf[p], u) \in Record
      BY ApplyUpdateType, RegistryAssumption
    <3>3. QED
      BY <2>4, <3>1, <3>2, <2>w DEF UpdateRecord, BeginWrite
  <2>5. ASSUME NEW p \in Process, RequestCancellation(p) PROVE TypeOK'
    <3>1. PICK r \in Reason : BeginWrite(p, ApplyCancel(buf[p], r))
      BY <2>5 DEF RequestCancellation
    <3>2. ApplyCancel(buf[p], r) \in Record
      BY ApplyCancelType
    <3>3. QED
      BY <2>5, <3>1, <3>2, <2>w DEF RequestCancellation, BeginWrite
  <2>6. ASSUME NEW p \in Process, FillTemp(p) PROVE TypeOK'
    BY <2>6 DEF FillTemp
  <2>7. ASSUME NEW p \in Process, Rename(p) PROVE TypeOK'
    <3>1. buf[p].status \in Status
      BY DEF Record
    <3>2. QED
      BY <2>7, <2>b, <3>1 DEF Rename, EndCall
  <2>8. ASSUME NEW p \in Process, Crash(p) PROVE TypeOK'
    BY <2>8, <2>b DEF Crash, EndCall
  <2>9. CASE UNCHANGED vars
    BY <2>9 DEF vars
  <2>10. QED
    BY <2>1, <2>2, <2>3, <2>4, <2>5, <2>6, <2>7, <2>8, <2>9 DEF Next, Step
<1>3. QED
  BY <1>1, <1>2, PTL DEF Spec

-----------------------------------------------------------------------------
(* The inductive invariant behind the theorems below. *)
LEMMA Inductive == Spec => []IInv
<1>1. Init => IInv
  BY DEF Init, IInv, BufferCurrent, TempComplete
<1>2. TypeOK /\ IInv /\ [Next]_vars => IInv'
  <2> SUFFICES ASSUME TypeOK, IInv, [Next]_vars PROVE IInv'
    OBVIOUS
  <2> USE DEF TypeOK, IInv, BufferCurrent, TempComplete, OneCall
  <2>1. ASSUME NEW p \in Process, Create(p) PROVE IInv'
    BY <2>1 DEF Create, BeginWrite
  <2>2. ASSUME NEW p \in Process, ReadRecord(p) PROVE IInv'
    BY <2>2 DEF ReadRecord
  <2>3. ASSUME NEW p \in Process, Return(p) PROVE IInv'
    BY <2>3 DEF Return, EndCall
  <2>4. ASSUME NEW p \in Process, UpdateRecord(p) PROVE IInv'
    BY <2>4 DEF UpdateRecord, BeginWrite
  <2>5. ASSUME NEW p \in Process, RequestCancellation(p) PROVE IInv'
    BY <2>5 DEF RequestCancellation, BeginWrite
  <2>6. ASSUME NEW p \in Process, FillTemp(p) PROVE IInv'
    BY <2>6 DEF FillTemp
  <2>7. ASSUME NEW p \in Process, Rename(p) PROVE IInv'
    BY <2>7 DEF Rename, EndCall
  <2>8. ASSUME NEW p \in Process, Crash(p) PROVE IInv'
    BY <2>8 DEF Crash, EndCall
  <2>9. CASE UNCHANGED vars
    BY <2>9 DEF vars
  <2>10. QED
    BY <2>1, <2>2, <2>3, <2>4, <2>5, <2>6, <2>7, <2>8, <2>9 DEF Next, Step
<1>3. QED
  BY <1>1, <1>2, TypeCorrect, PTL DEF Spec

(* A reader never parses half a record, whatever calls overlap and         *)
(* wherever processes are killed.                                          *)
THEOREM NeverTorn == Spec => []RecordNeverTorn
  BY Inductive, PTL DEF IInv, TempComplete, RecordNeverTorn

(* The contract's instance of RunRecord computes the same functions. *)
LEMMA ContractOperators ==
  ASSUME NEW s, NEW rec, NEW u, NEW r
  PROVE  /\ Contract!NewRecord(s) = NewRecord(s)
         /\ Contract!UpdateAllowed(rec, u) <=> UpdateAllowed(rec, u)
         /\ Contract!ApplyUpdate(rec, u) = ApplyUpdate(rec, u)
         /\ Contract!CancelAllowed(rec) <=> CancelAllowed(rec)
         /\ Contract!ApplyCancel(rec, r) = ApplyCancel(rec, r)
<1> USE DEF Keep, Contract!Keep, Terminal, Contract!Terminal
<1>1. Contract!NewRecord(s) = NewRecord(s)
  BY DEF Contract!NewRecord, NewRecord
<1>2. Contract!UpdateAllowed(rec, u) <=> UpdateAllowed(rec, u)
  BY DEF Contract!UpdateAllowed, UpdateAllowed, Contract!CanTransition,
     CanTransition, Contract!Transitions, Transitions, Contract!Active, Active
<1>3. Contract!ApplyUpdate(rec, u) = ApplyUpdate(rec, u)
  BY DEF Contract!ApplyUpdate, ApplyUpdate, Contract!UpdatedCleanup, UpdatedCleanup
<1>4. Contract!CancelAllowed(rec) <=> CancelAllowed(rec)
  BY DEF Contract!CancelAllowed, CancelAllowed
<1>5. Contract!ApplyCancel(rec, r) = ApplyCancel(rec, r)
  BY DEF Contract!ApplyCancel, ApplyCancel
<1>6. QED
  BY <1>1, <1>2, <1>3, <1>4, <1>5

(* A step of Rename by a process that holds a call of the contract. *)
LEMMA RenameIsCall ==
  ASSUME NEW p \in Process, pc[p] = "written" => OneCall(record, buf[p]),
         TempComplete, Rename(p)
  PROVE  Contract!Next
<1>1. file' = "whole" /\ record' = buf[p] /\ OneCall(record, record')
  BY DEF TempComplete, Rename
<1>2. (file # "absent")' = TRUE
  BY <1>1
<1>3. CASE file = "absent"
  <2>1. Contract!CreateOnce
    BY <1>1, <1>2, <1>3, ContractOperators DEF OneCall, Contract!CreateOnce
  <2>2. QED
    BY <2>1 DEF Contract!Next
<1>4. CASE file # "absent"
  <2>1. UNCHANGED (file # "absent")
    BY <1>1, <1>4
  <2>2. Contract!UpdateOnce \/ Contract!CancelOnce
    BY <1>1, <1>4, <2>1, ContractOperators
    DEF OneCall, Contract!UpdateOnce, Contract!CancelOnce
  <2>3. QED
    BY <2>2 DEF Contract!Next
<1>5. QED
  BY <1>3, <1>4

(* A call whose read is still current when it renames is one atomic call   *)
(* of the contract.                                                        *)
THEOREM CurrentWrites == Spec => CurrentWritesAreAtomic
<1>1. IInv => (\A p \in Process : current[p] /\ Rename(p) => Contract!Next)
  BY RenameIsCall DEF IInv, BufferCurrent, Rename
<1>2. QED
  BY <1>1, Inductive, PTL DEF CurrentWritesAreAtomic

-----------------------------------------------------------------------------
(* With one process nobody can make its read stale. *)
AlwaysCurrent ==
  \A p \in Process : pc[p] \in {"read", "writing", "written"} => current[p]

(* One process: the registry implements the atomic contract. *)
THEOREM SerialImplements ==
  ASSUME Process = {Owner}
  PROVE  Spec => ImplementsContract
<1>1. Init => Contract!Init
  BY ContractOperators DEF Init, Contract!Init
<1>2. Init => AlwaysCurrent
  BY DEF Init, AlwaysCurrent
<1>3. TypeOK /\ AlwaysCurrent /\ [Next]_vars => AlwaysCurrent'
  BY DEF TypeOK, AlwaysCurrent, Next, Step, vars, Create, ReadRecord, Return,
     UpdateRecord, RequestCancellation, FillTemp, Rename, Crash, BeginWrite, EndCall
<1>4. AlwaysCurrent /\ IInv /\ [Next]_vars => [Contract!Next]_(Contract!cvars)
  <2> SUFFICES ASSUME AlwaysCurrent, IInv, [Next]_vars
               PROVE  [Contract!Next]_(Contract!cvars)
    OBVIOUS
  <2>1. ASSUME NEW p \in Process, Rename(p) PROVE Contract!Next
    BY <2>1, RenameIsCall DEF AlwaysCurrent, IInv, BufferCurrent, Rename
  <2>2. ASSUME NEW p \in Process, Step(p), ~Rename(p)
        PROVE  UNCHANGED <<file, record>>
    BY <2>2 DEF Step, Create, ReadRecord, Return, UpdateRecord,
       RequestCancellation, FillTemp, Crash, BeginWrite
  <2>3. CASE UNCHANGED vars
    BY <2>3 DEF vars, Contract!cvars
  <2>4. QED
    BY <2>1, <2>2, <2>3 DEF Next, Contract!cvars
<1>5. QED
  BY <1>1, <1>2, <1>3, <1>4, TypeCorrect, Inductive, PTL
  DEF Spec, ImplementsContract, Contract!Spec

-----------------------------------------------------------------------------
(* However stale the updates, no run is recorded as succeeded before one   *)
(* of them recorded it as running or collecting artifacts, provided create *)
(* is not called with the status succeeded, which the CLI never does.      *)
THEOREM SuccessHistory ==
  ASSUME "succeeded" \notin CreateStatus
  PROVE  Spec => []SuccessAfterRunning
<1> USE DEF StatusHistory, SuccessAfterRunning, Started
<1>1. Init => StatusHistory
  BY DEF Init
<1>2. TypeOK /\ IInv /\ StatusHistory /\ [Next]_vars => StatusHistory'
  <2> SUFFICES ASSUME TypeOK, IInv, StatusHistory, [Next]_vars
               PROVE  StatusHistory'
    OBVIOUS
  <2> USE DEF TypeOK, FileState
  <2>1. ASSUME NEW p \in Process, Create(p) PROVE StatusHistory'
    BY <2>1 DEF Create, BeginWrite, NewRecord
  <2>2. ASSUME NEW p \in Process, ReadRecord(p) PROVE StatusHistory'
    BY <2>2 DEF ReadRecord
  <2>3. ASSUME NEW p \in Process, Return(p) PROVE StatusHistory'
    BY <2>3 DEF Return, EndCall
  <2>4. ASSUME NEW p \in Process, UpdateRecord(p) PROVE StatusHistory'
    <3>1. PICK u \in Updates : /\ UpdateAllowed(buf[p], u)
                               /\ BeginWrite(p, ApplyUpdate(buf[p], u))
      BY <2>4 DEF UpdateRecord
    <3>2. ApplyUpdate(buf[p], u).status = "succeeded" => Started
      BY <2>4, <3>1, SuccessNeedsStart, RegistryAssumption DEF UpdateRecord
    <3>3. QED
      BY <2>4, <3>1, <3>2 DEF UpdateRecord, BeginWrite
  <2>5. ASSUME NEW p \in Process, RequestCancellation(p) PROVE StatusHistory'
    <3>1. PICK r \in Reason : BeginWrite(p, ApplyCancel(buf[p], r))
      BY <2>5 DEF RequestCancellation
    <3>2. ApplyCancel(buf[p], r).status # "succeeded"
      BY <2>5 DEF RequestCancellation, CancelAllowed, ApplyCancel, Terminal, Record
    <3>3. QED
      BY <2>5, <3>1, <3>2 DEF RequestCancellation, BeginWrite
  <2>6. ASSUME NEW p \in Process, FillTemp(p) PROVE StatusHistory'
    BY <2>6 DEF FillTemp
  <2>7. ASSUME NEW p \in Process, Rename(p) PROVE StatusHistory'
    BY <2>7 DEF Rename, EndCall
  <2>8. ASSUME NEW p \in Process, Crash(p) PROVE StatusHistory'
    BY <2>8 DEF Crash, EndCall
  <2>9. CASE UNCHANGED vars
    BY <2>9 DEF vars
  <2>10. QED
    BY <2>1, <2>2, <2>3, <2>4, <2>5, <2>6, <2>7, <2>8, <2>9 DEF Next, Step
<1>3. QED
  BY <1>1, <1>2, TypeCorrect, Inductive, PTL DEF Spec
=============================================================================
