---------------------- MODULE PlaygroundRuntimeProofs ----------------------
(***************************************************************************)
(* For any set of commands: the active signal is that of an open command;  *)
(* without overlap an open command's PHP obeys no other command's signal,  *)
(* and its own if it is guarded; and a destroy() that resolved, or a       *)
(* startup that failed and unwound, leaves nothing but a lease its         *)
(* provider did not release.                                               *)
(*                                                                         *)
(* The variables fall into two groups that meet in Begin, Destroy and      *)
(* Booted only: what startup made and disposal undoes (Accounts), and the  *)
(* signals of the commands (Signals).                                      *)
(***************************************************************************)
EXTENDS PlaygroundRuntime, TLAPS

(* As long as no disposal fails, what is held is still to be disposed of;  *)
(* a destroy() that resolved found no startup, or one that was ready, and  *)
(* only a late startup can begin after it.                                 *)
Accounts ==
  /\ status = "created" <=> destroy = "no"
  /\ boot = "none" => held = {}
  /\ destroy = "disposing" => boot = "ready"
  /\ destroy = "resolved" /\ ~late => boot \in {"none", "ready"}
  /\ boot = "unwinding" /\ ~spoiled => held \subseteq todo \cup {"lease"}
  /\ destroy = "disposing" /\ ~spoiled => held \subseteq todo \cup {"lease"}

(* Without overlap there is one open command at most, and the slot is its. *)
Signals ==
  /\ \A c \in Command : handler[c] = "new" => result[c] = "none"
  /\ ~overlapped => \A c \in Command : Open(c) => slot = c

IInv == /\ RuntimeTypeOK /\ SlotIsOpen /\ OwnSignal /\ ResolvedLeavesNothing
        /\ Accounts /\ Signals

LEMMA InitOK == ASSUME Init PROVE IInv
<1>1. \A c \in Command : ~Open(c)
  BY DEF Init, Open
<1>2. SlotIsOpen /\ OwnSignal /\ Signals
  BY <1>1 DEF Init, SlotIsOpen, OwnSignal, Signals
<1>3. RuntimeTypeOK
  <2>1. 0 \in 0..MaxAttempts /\ 0 \in 0..MaxRuns
    BY RuntimeAssumption
  <2>2. runs \in [Command -> 0..MaxRuns] /\ attempt \in 0..MaxAttempts
    BY <2>1 DEF Init
  <2> QED BY <2>2 DEF Init, RuntimeTypeOK
<1>4. ResolvedLeavesNothing /\ Accounts
  BY DEF Init, ResolvedLeavesNothing, Accounts
<1> QED BY <1>2, <1>3, <1>4 DEF IInv

(* Steps that leave the commands alone keep what is said of them. *)
LEMMA CallsKept == ASSUME IInv, UNCHANGED calls
                   PROVE SlotIsOpen' /\ OwnSignal' /\ Signals'
BY DEF calls, IInv, SlotIsOpen, OwnSignal, Signals, Open

(* Steps that leave startup, disposal and destroy() alone. *)
LEMMA RestKept == ASSUME IInv, UNCHANGED <<status, startup, disposal, destroy>>
                  PROVE ResolvedLeavesNothing' /\ Accounts'
BY DEF startup, disposal, IInv, ResolvedLeavesNothing, Accounts

LEMMA BootStep ==
  ASSUME IInv, NEW from \in {"staging", "archive", "cli", "proxy", "lease"},
         NEW made \in SUBSET Resources,
         NEW to \in {"archive", "cli", "proxy", "lease", "ready"}, BootAt(from, made, to)
  PROVE IInv'
<1>1. UNCHANGED calls
  BY DEF BootAt
<1>2. RuntimeTypeOK'
  BY <1>1 DEF BootAt, calls, IInv, RuntimeTypeOK, Accounts
<1>3. ResolvedLeavesNothing' /\ Accounts'
  BY DEF BootAt, IInv, RuntimeTypeOK, ResolvedLeavesNothing, Accounts
<1> QED BY <1>1, <1>2, <1>3, CallsKept DEF IInv

LEMMA FailStep ==
  ASSUME IInv, boot \in {"staging", "archive", "cli", "proxy", "lease"},
         NEW made \in SUBSET Resources, Fail(made)
  PROVE IInv'
<1>1. UNCHANGED calls
  BY DEF Fail
<1>2. RuntimeTypeOK'
  BY <1>1 DEF Fail, calls, IInv, RuntimeTypeOK, Accounts
<1>3. ResolvedLeavesNothing' /\ Accounts'
  BY DEF Fail, IInv, RuntimeTypeOK, ResolvedLeavesNothing, Accounts
<1> QED BY <1>1, <1>2, <1>3, CallsKept DEF IInv

LEMMA DisposeStep ==
  ASSUME IInv, NEW x \in Resources, NEW ok \in BOOLEAN, Dispose(x, ok)
  PROVE IInv'
<1>1. UNCHANGED calls /\ x \in todo
  BY DEF Dispose, IsNext
<1>2. RuntimeTypeOK'
  BY <1>1 DEF Dispose, Disposed, EndOfDisposal, calls, IInv, RuntimeTypeOK, Accounts
<1>3. ~spoiled' => ~spoiled /\ held' \ {"lease"} \subseteq held \ {x}
  BY DEF Dispose, Disposed, IInv, RuntimeTypeOK
<1>4. ResolvedLeavesNothing' /\ Accounts'
  <2>1. CASE boot = "unwinding"
    BY <1>1, <1>3, <2>1 DEF Dispose, Disposed, EndOfDisposal, IInv, RuntimeTypeOK,
                            ResolvedLeavesNothing, Accounts
  <2>2. CASE boot # "unwinding"
    <3>1. destroy = "disposing" /\ boot = "ready" /\ status = "destroyed"
      BY <1>1, <2>2 DEF IInv, RuntimeTypeOK, Accounts
    <3> QED
      BY <1>1, <1>3, <2>2, <3>1 DEF Dispose, Disposed, EndOfDisposal, IInv, RuntimeTypeOK,
                                    ResolvedLeavesNothing, Accounts
  <2> QED BY <2>1, <2>2
<1> QED BY <1>1, <1>2, <1>4, CallsKept DEF IInv

-----------------------------------------------------------------------------
LEMMA BeginStep == ASSUME IInv, NEW c \in Command, Begin(c) PROVE IInv'
<1>1. RuntimeTypeOK'
  BY DEF Begin, disposal, IInv, RuntimeTypeOK, Accounts
<1>2. result[c] = "none" /\ \A d \in Command : Open(d)' <=> d = c \/ Open(d)
  BY DEF Begin, IInv, RuntimeTypeOK, Signals, Open
<1>3. SlotIsOpen'
  BY <1>2 DEF Begin, IInv, SlotIsOpen
<1>4. OwnSignal' /\ Signals'
  BY <1>2 DEF Begin, IInv, RuntimeTypeOK, OwnSignal, Signals
<1>5. ResolvedLeavesNothing' /\ Accounts'
  BY DEF Begin, disposal, IInv, RuntimeTypeOK, ResolvedLeavesNothing, Accounts
<1> QED BY <1>1, <1>3, <1>4, <1>5 DEF IInv

LEMMA FinallyStep ==
  ASSUME IInv, NEW c \in Command, NEW outcome \in {"ended", "timedout"}, Open(c),
         Finally(c, outcome), aborted' \subseteq Command
  PROVE IInv'
<1>1. RuntimeTypeOK'
  BY DEF Finally, startup, disposal, IInv, RuntimeTypeOK
<1>2. \A d \in Command : Open(d)' <=> d # c /\ Open(d)
  BY DEF Finally, IInv, RuntimeTypeOK, Open
<1>3. SlotIsOpen'
  BY <1>2, RuntimeAssumption DEF Finally, IInv, RuntimeTypeOK, SlotIsOpen
<1>4. OwnSignal' /\ Signals'
  BY <1>2 DEF Finally, IInv, RuntimeTypeOK, OwnSignal, Signals, Open
<1> QED BY <1>1, <1>3, <1>4, RestKept DEF Finally, IInv

(* A step of a handler opens and closes nothing; when it runs PHP without  *)
(* overlap, the slot is its own.                                           *)
LEMMA HandlerStep ==
  ASSUME IInv, NEW c \in Command,
         Booted(c) \/ RunPhp(c) \/ Abandon(c) \/ HandlerEnds(c) \/ PhpEnds(c)
  PROVE IInv'
<1>1. RuntimeTypeOK'
  <2>1. CASE RunPhp(c)
    BY <2>1, RuntimeAssumption DEF RunPhp, startup, disposal, IInv, RuntimeTypeOK
  <2>2. CASE Booted(c) \/ Abandon(c) \/ HandlerEnds(c) \/ PhpEnds(c)
    BY <2>2
       DEF Booted, Abandon, HandlerEnds, PhpEnds, GoOn, startup, disposal, IInv, RuntimeTypeOK
  <2> QED BY <2>1, <2>2
<1>2. \A d \in Command : Open(d)' <=> Open(d)
  BY DEF Booted, RunPhp, Abandon, HandlerEnds, PhpEnds, GoOn, IInv, RuntimeTypeOK, Open
<1>3. UNCHANGED <<slot, controllers, overlapped, result>>
  BY DEF Booted, RunPhp, Abandon, HandlerEnds, PhpEnds
<1>4. SlotIsOpen'
  BY <1>2, <1>3 DEF IInv, RuntimeTypeOK, SlotIsOpen, Open
<1>5. Signals'
  BY <1>2, <1>3
     DEF Booted, RunPhp, Abandon, HandlerEnds, PhpEnds, GoOn, IInv, RuntimeTypeOK, Signals
<1>6. OwnSignal'
  <2>1. CASE RunPhp(c)
    BY <1>2, <1>3, <2>1 DEF RunPhp, IInv, RuntimeTypeOK, OwnSignal, Signals
  <2>2. CASE ~RunPhp(c)
    BY <1>2, <1>3, <2>2
       DEF Booted, Abandon, HandlerEnds, PhpEnds, GoOn, IInv, RuntimeTypeOK, OwnSignal
  <2> QED BY <2>1, <2>2
<1>7. UNCHANGED <<status, startup, disposal, destroy>>
  BY DEF Booted, RunPhp, Abandon, HandlerEnds, PhpEnds
<1> QED BY <1>1, <1>4, <1>5, <1>6, <1>7, RestKept DEF IInv

LEMMA DestroyStep == ASSUME IInv, Destroy PROVE IInv'
<1>1. RuntimeTypeOK'
  BY DEF Destroy, startup, disposal, IInv, RuntimeTypeOK, Accounts
<1>2. SlotIsOpen' /\ OwnSignal' /\ Signals'
  BY DEF Destroy, IInv, SlotIsOpen, OwnSignal, Signals, Open
<1>3. ResolvedLeavesNothing' /\ Accounts'
  BY DEF Destroy, startup, disposal, IInv, ResolvedLeavesNothing, Accounts
<1> QED BY <1>1, <1>2, <1>3 DEF IInv

LEMMA AwaitedStep == ASSUME IInv, Awaited PROVE IInv'
<1>1. RuntimeTypeOK'
  <2>1. UNCHANGED <<status, boot, attempt, held, spoiled, late, calls>>
    BY DEF Awaited, startup
  <2>2. todo' \subseteq Resources /\ destroy' \in {"disposing", "rejected"}
    BY DEF Awaited, IInv, RuntimeTypeOK
  <2>3. todo' # {} => boot' = "unwinding" \/ destroy' = "disposing"
    BY DEF Awaited, IInv, RuntimeTypeOK
  <2> QED BY <2>1, <2>2, <2>3 DEF calls, IInv, RuntimeTypeOK
<1>2. ResolvedLeavesNothing' /\ Accounts'
  BY DEF Awaited, startup, IInv, ResolvedLeavesNothing, Accounts
<1> QED BY <1>1, <1>2, CallsKept DEF Awaited, IInv

-----------------------------------------------------------------------------
LEMMA StepOK == ASSUME IInv, [Next]_vars PROVE IInv'
<1>1. ASSUME NEW c \in Command, Begin(c) \/ Goes(c) \/ PhpEnds(c) \/ Timeout(c) PROVE IInv'
  <2>1. CASE Begin(c)
    BY <2>1, BeginStep
  <2>2. CASE Settle(c)
    BY <2>2, FinallyStep DEF Settle, IInv, RuntimeTypeOK
  <2>3. CASE Timeout(c)
    BY <2>3, FinallyStep DEF Timeout, IInv, RuntimeTypeOK
  <2>4. CASE Booted(c) \/ RunPhp(c) \/ Abandon(c) \/ HandlerEnds(c) \/ PhpEnds(c)
    BY <2>4, HandlerStep
  <2> QED BY <1>1, <2>1, <2>2, <2>3, <2>4 DEF Goes
<1>2. CASE Boots \/ BootsCli
  <2>1. CASE Stage \/ Resolved \/ CliStarts \/ ProxyListens \/ Leased
    BY <2>1, BootStep DEF Stage, Resolved, CliStarts, ProxyListens, Leased, Resources
  <2>2. CASE StageFails \/ ResolveFails \/ CliFails \/ ProxyFails \/ LeaseFails
    BY <2>2, FailStep
       DEF StageFails, ResolveFails, CliFails, ProxyFails, LeaseFails, Resources
  <2>3. CASE PortTaken
    <3>1. RuntimeTypeOK'
      BY <2>3, RuntimeAssumption DEF PortTaken, disposal, calls, IInv, RuntimeTypeOK
    <3>2. ResolvedLeavesNothing' /\ Accounts'
      BY <2>3 DEF PortTaken, disposal, IInv, ResolvedLeavesNothing, Accounts
    <3> QED BY <2>3, <3>1, <3>2, CallsKept DEF PortTaken, IInv
  <2> QED BY <1>2, <2>1, <2>2, <2>3 DEF Boots, BootsCli
<1>3. CASE CloseProxy \/ DisposeRest
  BY <1>3, DisposeStep DEF CloseProxy, DisposeRest, Resources
<1>4. CASE Destroy
  BY <1>4, DestroyStep
<1>5. CASE Awaited
  BY <1>5, AwaitedStep
<1>6. CASE UNCHANGED vars
  BY <1>6 DEF vars, IInv, RuntimeTypeOK, SlotIsOpen, OwnSignal, ResolvedLeavesNothing,
              Accounts, Signals, Open
<1> QED BY <1>1, <1>2, <1>3, <1>4, <1>5, <1>6 DEF Next

(* The inductive invariant holds in every state of every run. *)
THEOREM Invariant == Spec => []IInv
BY InitOK, StepOK, PTL DEF Spec

(* Types, and disposal is under way only where somebody waits for it. *)
THEOREM RuntimeTyped == Spec => []RuntimeTypeOK
<1>1. IInv => RuntimeTypeOK
  BY DEF IInv
<1> QED BY <1>1, Invariant, PTL

(* The active signal never outlives the execute() that set it. *)
THEOREM SlotTrue == Spec => []SlotIsOpen
<1>1. IInv => SlotIsOpen
  BY DEF IInv
<1> QED BY <1>1, Invariant, PTL

(* The PHP of a command that does not overlap with others obeys its own    *)
(* signal, or no signal if it is one of those that wait without.           *)
THEOREM AbortReachesOwn == Spec => []OwnSignal
<1>1. IInv => OwnSignal
  BY DEF IInv
<1> QED BY <1>1, Invariant, PTL

(* destroy() that resolved, and a startup that unwound, leave nothing.     *)
THEOREM NothingIsLeft == Spec => []ResolvedLeavesNothing
<1>1. IInv => ResolvedLeavesNothing
  BY DEF IInv
<1> QED BY <1>1, Invariant, PTL
=============================================================================
