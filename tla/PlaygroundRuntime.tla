------------------------- MODULE PlaygroundRuntime -------------------------
(***************************************************************************)
(* A Playground runtime (runtime-playground/src/playground-runtime.ts) and *)
(* the startup of its server (playground-cli-runner.ts): the server is     *)
(* started by the first command that needs it, once; commands are aborted  *)
(* by their timeout or by destroy(); destroy() waits for a startup that is *)
(* under way and disposes of what it made.                                 *)
(*                                                                         *)
(* A command is two things that part ways: the execute() call, which ends  *)
(* at its timeout, and its handler, which goes on until its PHP answers or *)
(* is abandoned.  The Playground CLI, its server, the lease provider and   *)
(* PHP are external.                                                       *)
(***************************************************************************)
EXTENDS Naturals

CONSTANTS Command, NoCommand,
          Timed,         \* commands with a timeoutMs
          Unguarded,     \* commands that also wait without a signal
          MaxRuns,       \* bound: PHP runs of a handler
          MaxAttempts    \* tries of a dynamic port (6 in the code)

ASSUME RuntimeAssumption ==
  /\ NoCommand \notin Command /\ Unguarded \subseteq Command
  /\ MaxRuns \in Nat /\ MaxAttempts \in Nat \ {0}

VARIABLES status,        \* created or destroyed
          boot,          \* cliServerPromise, and where startup is
          attempt,       \* the port tried
          held,          \* what startup made and nobody disposed of yet
          todo,          \* what is left to dispose of
          spoiled,       \* a disposal failed
          late,          \* history: startup began in a destroyed runtime
          destroy,       \* no, waiting, disposing, resolved or rejected
          handler,       \* new, booting, between, awaiting or over
          bound,         \* the command whose signal the awaited PHP run obeys
          runs,          \* PHP runs so far
          result,        \* none, ended or timedout: of execute()
          controllers,   \* activeExecutionAbortControllers
          slot,          \* activeExecutionSignal
          aborted,       \* controllers that were aborted
          overlapped     \* history: a command began while another was open

vars == <<status, boot, attempt, held, todo, spoiled, late, destroy, handler, bound,
          runs, result, controllers, slot, aborted, overlapped>>

startup  == <<boot, attempt, late>>
disposal == <<held, todo, spoiled>>
calls    == <<handler, bound, runs, result, controllers, slot, aborted, overlapped>>

Resources == {"staging", "server", "proxy", "lease"}
(* The order of disposal: each wrapper disposes of its own, then of what   *)
(* it wraps.                                                               *)
Rank == [lease |-> 1, proxy |-> 2, server |-> 3, staging |-> 4]
IsNext(x) == x \in todo /\ \A y \in todo : Rank[x] =< Rank[y]

Open(c) == handler[c] # "new" /\ result[c] = "none"

Init == /\ status = "created" /\ boot = "none" /\ attempt = 0
        /\ held = {} /\ todo = {} /\ spoiled = FALSE /\ late = FALSE
        /\ destroy = "no"
        /\ handler = [c \in Command |-> "new"]
        /\ bound = [c \in Command |-> NoCommand]
        /\ runs = [c \in Command |-> 0]
        /\ result = [c \in Command |-> "none"]
        /\ controllers = {} /\ slot = NoCommand /\ aborted = {}
        /\ overlapped = FALSE

-----------------------------------------------------------------------------
(* Startup: stageReadonlyPlaygroundMounts, the WordPress archive, the CLI  *)
(* (once per port), the preview proxy and the lease.                       *)
BootAt(from, made, to) ==
  /\ boot = from /\ boot' = to
  /\ held' = held \cup made
  /\ UNCHANGED <<status, attempt, todo, spoiled, late, destroy, calls>>

(* Startup fails: what it made, `made` being the last of it, is disposed   *)
(* of before the promise is rejected.                                      *)
Fail(made) ==
  /\ held' = held \cup made
  /\ todo' = held'
  /\ boot' = IF todo' = {} THEN "failed" ELSE "unwinding"
  /\ UNCHANGED <<status, attempt, spoiled, late, destroy, calls>>

Stage      == BootAt("staging", {"staging"}, "archive")
StageFails == boot = "staging" /\ Fail({})

Resolved     == BootAt("archive", {}, "cli")
ResolveFails == boot = "archive" /\ Fail({})

CliStarts == BootAt("cli", {"server"}, "proxy")

(* startPlaygroundCliWithDynamicPortRetry: the port was taken meanwhile.   *)
PortTaken ==
  /\ boot = "cli"
  /\ attempt + 1 < MaxAttempts
  /\ attempt' = attempt + 1
  /\ UNCHANGED <<status, boot, disposal, late, destroy, calls>>

CliFails == boot = "cli" /\ Fail({})

ProxyListens == BootAt("proxy", {"proxy"}, "lease")
ProxyFails   == boot = "proxy" /\ Fail({})

(* A lease that was acquired and not reached is released. *)
Leased      == \E lease \in {{}, {"lease"}} : BootAt("lease", lease, "ready")
LeaseFails  == boot = "lease" /\ \E lease \in {{}, {"lease"}} : Fail(lease)

-----------------------------------------------------------------------------
(* Disposal of what is left to do, by a failed startup or by destroy().    *)
(* A lease that is not released is left; when the server cannot be         *)
(* disposed of, the staged mounts still are.                               *)
Disposed(x, ok) == held' = IF ok THEN held \ {x} ELSE held

EndOfDisposal ==
  IF todo' # {} THEN UNCHANGED <<boot, destroy>>
  ELSE IF boot = "unwinding" THEN boot' = "failed" /\ UNCHANGED destroy
  ELSE /\ destroy' = IF spoiled' THEN "rejected" ELSE "resolved"
       /\ UNCHANGED boot

(* A mistake: a disposal that fails is where it ends. *)
DisposeOrStop(x, ok) ==
  /\ IsNext(x) /\ ~spoiled
  /\ Disposed(x, ok)
  /\ todo' = IF ok THEN todo \ {x} ELSE todo
  /\ spoiled' = (spoiled \/ ~ok)
  /\ EndOfDisposal
  /\ UNCHANGED <<status, attempt, late, calls>>

Dispose(x, ok) ==
  /\ IsNext(x)
  /\ Disposed(x, ok)
  /\ todo' = todo \ {x}
  /\ spoiled' = (spoiled \/ (~ok /\ x # "lease"))
  /\ EndOfDisposal
  /\ UNCHANGED <<status, attempt, late, calls>>

(* Closing the proxy does not fail, but waits for its clients. *)
CloseProxy == Dispose("proxy", TRUE)
DisposeRest == \E x \in Resources \ {"proxy"}, ok \in BOOLEAN : Dispose(x, ok)

-----------------------------------------------------------------------------
(* execute(): its controller is registered and becomes the active signal;  *)
(* the handler starts the server if nobody has.  A destroyed runtime does  *)
(* not refuse.                                                             *)
Begin(c) ==
  /\ handler[c] = "new"
  /\ controllers' = controllers \cup {c}
  /\ slot' = c
  /\ overlapped' = (overlapped \/ \E d \in Command : Open(d))
  /\ handler' = [handler EXCEPT ![c] = "booting"]
  /\ boot' = IF boot = "none" THEN "staging" ELSE boot
  /\ late' = (late \/ (boot = "none" /\ status = "destroyed"))
  /\ UNCHANGED <<status, attempt, disposal, destroy, bound, runs, result, aborted>>

Booted(c) ==
  /\ handler[c] = "booting" /\ boot \in {"ready", "failed"}
  /\ handler' = [handler EXCEPT ![c] = IF boot = "ready" THEN "between" ELSE "over"]
  /\ UNCHANGED <<status, startup, disposal, destroy, bound, runs, result,
                 controllers, slot, aborted, overlapped>>

(* A mistake: the run obeys no signal. *)
RunUnbound(c) ==
  /\ handler[c] = "between" /\ runs[c] < MaxRuns
  /\ runs' = [runs EXCEPT ![c] = @ + 1]
  /\ bound' = [bound EXCEPT ![c] = NoCommand]
  /\ handler' = [handler EXCEPT ![c] = "awaiting"]
  /\ UNCHANGED <<status, startup, disposal, destroy, result, controllers, slot,
                 aborted, overlapped>>

(* runPlaygroundCommand: the run obeys the signal that is active now, be   *)
(* it the command's own, another's or nobody's.  Some commands also wait   *)
(* for the server by themselves: inspectMountedInputs runs its PHP without *)
(* abortable(), and so do the mounts that a replay export materializes.    *)
RunPhp(c) ==
  /\ handler[c] = "between" /\ runs[c] < MaxRuns
  /\ runs' = [runs EXCEPT ![c] = @ + 1]
  /\ \E signal \in IF c \in Unguarded THEN {slot, NoCommand} ELSE {slot} :
       bound' = [bound EXCEPT ![c] = signal]
  /\ handler' = [handler EXCEPT ![c] = "awaiting"]
  /\ UNCHANGED <<status, startup, disposal, destroy, result, controllers, slot,
                 aborted, overlapped>>

(* The handler gets its answer, or the abort's rejection (PHP goes on),    *)
(* and goes on or gives up.                                                *)
GoOn(c) == \E to \in {"between", "over"} : handler' = [handler EXCEPT ![c] = to]

PhpEnds(c) ==
  /\ handler[c] = "awaiting"
  /\ GoOn(c)
  /\ UNCHANGED <<status, startup, disposal, destroy, bound, runs, result,
                 controllers, slot, aborted, overlapped>>

Abandon(c) ==
  /\ handler[c] = "awaiting" /\ bound[c] \in aborted
  /\ GoOn(c)
  /\ UNCHANGED <<status, startup, disposal, destroy, bound, runs, result,
                 controllers, slot, aborted, overlapped>>

HandlerEnds(c) ==
  /\ handler[c] = "between"
  /\ handler' = [handler EXCEPT ![c] = "over"]
  /\ UNCHANGED <<status, startup, disposal, destroy, bound, runs, result,
                 controllers, slot, aborted, overlapped>>

(* The finally block of execute(). *)
Finally(c, outcome) ==
  /\ result' = [result EXCEPT ![c] = outcome]
  /\ controllers' = controllers \ {c}
  /\ slot' = IF slot = c THEN NoCommand ELSE slot
  /\ UNCHANGED <<status, startup, disposal, destroy, handler, bound, runs, overlapped>>

Settle(c) ==
  /\ Open(c) /\ handler[c] = "over"
  /\ Finally(c, "ended")
  /\ UNCHANGED aborted

Timeout(c) ==
  /\ Open(c) /\ c \in Timed
  /\ aborted' = aborted \cup {c}
  /\ Finally(c, "timedout")

-----------------------------------------------------------------------------
(* A mistake: only a server that is up is disposed of. *)
DestroyUnawaited ==
  /\ status = "created"
  /\ status' = "destroyed"
  /\ aborted' = aborted \cup controllers
  /\ IF boot = "ready"
     THEN /\ todo' = held
          /\ destroy' = "disposing"
     ELSE destroy' = "resolved" /\ UNCHANGED todo
  /\ UNCHANGED <<startup, held, spoiled, handler, bound, runs, result, controllers,
                 slot, overlapped>>

(* destroy(): a second call returns at once. *)
Destroy ==
  /\ status = "created"
  /\ status' = "destroyed"
  /\ aborted' = aborted \cup controllers
  /\ destroy' = IF boot = "none" THEN "resolved" ELSE "waiting"
  /\ UNCHANGED <<startup, disposal, handler, bound, runs, result, controllers, slot,
                 overlapped>>

(* The startup that destroy() awaited has ended; its failure is destroy's. *)
Awaited ==
  /\ destroy = "waiting" /\ boot \in {"ready", "failed"}
  /\ IF boot = "ready"
     THEN destroy' = "disposing" /\ todo' = held
     ELSE destroy' = "rejected" /\ UNCHANGED todo
  /\ UNCHANGED <<status, startup, held, spoiled, calls>>

Boots == Stage \/ StageFails \/ Resolved \/ ResolveFails \/ ProxyListens \/ ProxyFails
         \/ Leased \/ LeaseFails
BootsCli == CliStarts \/ PortTaken \/ CliFails

Goes(c) == Booted(c) \/ RunPhp(c) \/ Abandon(c) \/ HandlerEnds(c) \/ Settle(c)

Next == \/ \E c \in Command : Begin(c) \/ Goes(c) \/ PhpEnds(c) \/ Timeout(c)
        \/ Boots \/ BootsCli \/ CloseProxy \/ DisposeRest
        \/ Destroy \/ Awaited

Spec == Init /\ [][Next]_vars

(* Startup goes on, the CLI and the closing of the proxy excepted; handlers *)
(* go on, PHP excepted; timers fire.                                        *)
FairRuntime == WF_vars(Boots) /\ WF_vars(DisposeRest) /\ WF_vars(Awaited)
FairCommand(c) == WF_vars(Goes(c)) /\ WF_vars(Timeout(c))

-----------------------------------------------------------------------------
(* The values of the variables; there is something left to dispose of only *)
(* while a failed startup unwinds or destroy() disposes.                   *)
RuntimeTypeOK ==
  /\ status \in {"created", "destroyed"}
  /\ boot \in {"none", "staging", "archive", "cli", "proxy", "lease", "ready",
               "unwinding", "failed"}
  /\ attempt \in 0..MaxAttempts
  /\ held \subseteq Resources
  /\ todo \subseteq Resources
  /\ todo # {} => boot = "unwinding" \/ destroy = "disposing"
  /\ spoiled \in BOOLEAN /\ late \in BOOLEAN /\ overlapped \in BOOLEAN
  /\ destroy \in {"no", "waiting", "disposing", "resolved", "rejected"}
  /\ handler \in [Command -> {"new", "booting", "between", "awaiting", "over"}]
  /\ bound \in [Command -> Command \cup {NoCommand}]
  /\ runs \in [Command -> 0..MaxRuns]
  /\ result \in [Command -> {"none", "ended", "timedout"}]
  /\ controllers \subseteq Command /\ aborted \subseteq Command
  /\ slot \in Command \cup {NoCommand}

(* The active signal is that of a command whose execute() is open: a       *)
(* signal that outlived its command would abort the next one's PHP.        *)
SlotIsOpen ==
  /\ slot # NoCommand => Open(slot)
  /\ controllers = {c \in Command : Open(c)}

(* Unless commands overlap, what runs PHP for an open command obeys its    *)
(* own signal, so that its timeout and destroy() reach it, whatever the    *)
(* handlers of earlier commands still do.  The PHP of a command that waits *)
(* without a signal may obey none, but never another command's.            *)
OwnSignal ==
  ~overlapped =>
     \A c \in Command : Open(c) /\ handler[c] = "awaiting" =>
       bound[c] = c \/ (c \in Unguarded /\ bound[c] = NoCommand)

(* When destroy() has resolved, or a failed startup has unwound without a  *)
(* failure, nothing is left but a lease its provider did not release; the  *)
(* exception is a startup that a command began in the destroyed runtime.   *)
ResolvedLeavesNothing ==
  /\ destroy = "resolved" /\ ~late => held \subseteq {"lease"}
  /\ boot = "failed" /\ ~spoiled => held \subseteq {"lease"}

(* As long as the CLI and the proxy's clients do not hang for ever,        *)
(* destroy() ends, and a command that was aborted ends although its PHP    *)
(* never does, if commands do not overlap.  The exception is a command     *)
(* without a timeout that waits without a signal: destroy() does not reach *)
(* it, and nothing else ends it.                                           *)
NothingHangs == /\ []<>(boot # "cli")
                /\ []<>~IsNext("proxy")

AbortsTakeEffect ==
  NothingHangs =>
    /\ destroy = "waiting" ~> destroy \in {"resolved", "rejected"}
    /\ []~overlapped =>
         \A c \in Timed \cup (Command \ Unguarded) : c \in aborted ~> ~Open(c)
=============================================================================
