---------------------------- MODULE HostCommand ----------------------------
(***************************************************************************)
(* executeHostCommand (runtime-core/src/host-command-executor.ts): one     *)
(* detached child, the leader of a process group, with its output captured *)
(* up to a bound, a timeout that signals the group twice, and a promise    *)
(* that settles on the first of the child's `error` and `close` events.    *)
(*                                                                         *)
(* Processes other than the leader stand for what the command starts: they *)
(* may stay in the group or leave it (setsid), and may or may not keep the *)
(* output pipe, which is what `close` waits for.                           *)
(***************************************************************************)
EXTENDS Naturals, Sequences

CONSTANTS Descendant,  \* the processes the command may start
          MaxBytes,    \* maxOutputBytes
          MaxWritten,  \* bound: characters the command writes
          Widths       \* the UTF-8 widths of those characters

ASSUME CommandAssumption ==
  /\ MaxBytes \in Nat \ {0} /\ MaxWritten \in Nat
  /\ Widths \subseteq Nat \ {0} /\ "leader" \notin Descendant

VARIABLES process,    \* each process: none, tied, quiet, escaped, away or gone
          exit,       \* how the leader ended
          timer,      \* the timeout: armed, cleared or fired
          killer,     \* the SIGKILL timer: off, armed or fired
          written,    \* the characters written so far, as their widths
          pending,    \* how many of them are still in the pipe
          captured,   \* the output the executor has kept
          truncated,  \* outputTruncated
          events,     \* the child's events that are still to come
          promise,    \* open, resolved or rejected
          settles,    \* history: how often the promise was settled
          result,     \* failureClassification of the result
          host        \* the executor's own process is running

commandVars == <<process, exit, timer, killer, written, pending, captured, truncated,
                 events, promise, settles, result, host>>

Proc == {"leader"} \cup Descendant

InGroup(p) == process[p] \in {"tied", "quiet"}
HasPipe(p) == process[p] \in {"tied", "escaped"}
Running(p) == InGroup(p) \/ HasPipe(p) \/ process[p] = "away"

(* spawn either starts the leader, or fails and promises the events        *)
(* `error` and then `close`.                                               *)
CommandInit ==
  /\ \/ /\ process = [p \in Proc |-> IF p = "leader" THEN "tied" ELSE "none"]
        /\ events = <<"close">> /\ exit = "none"
     \/ /\ process = [p \in Proc |-> IF p = "leader" THEN "gone" ELSE "none"]
        /\ events = <<"error", "close">> /\ exit = "failed"
  /\ timer = "armed" /\ killer = "off"
  /\ written = <<>> /\ pending = 0
  /\ captured = <<>> /\ truncated = FALSE
  /\ promise = "open" /\ settles = 0 /\ result = "none"
  /\ host = TRUE

output == <<written, pending, captured, truncated>>
outcome == <<events, promise, settles, result>>

-----------------------------------------------------------------------------
(* What the command does. *)
Fork(d) ==
  /\ process[d] = "none"
  /\ Running("leader")
  /\ \E kind \in {"tied", "quiet", "escaped", "away"} : process' = [process EXCEPT ![d] = kind]
  /\ UNCHANGED <<exit, timer, killer, output, outcome, host>>

Exit(p) ==
  /\ Running(p)
  /\ process' = [process EXCEPT ![p] = "gone"]
  /\ IF p = "leader" THEN exit' \in {"zero", "nonzero"} ELSE UNCHANGED exit
  /\ UNCHANGED <<timer, killer, output, outcome, host>>

Emit(p) ==
  /\ HasPipe(p) /\ Len(written) < MaxWritten
  /\ \E w \in Widths : written' = Append(written, w)
  /\ pending' = pending + 1
  /\ UNCHANGED <<process, exit, timer, killer, captured, truncated, outcome, host>>

-----------------------------------------------------------------------------
(* appendBoundedHostCommandOutput: bytes are compared, characters cut.  A  *)
(* chunk holds whole characters: one that the pipe cuts in two, which the  *)
(* code decodes to replacement characters, is not modelled.                *)
Bytes(text) ==
  LET upTo[i \in 0..Len(text)] == IF i = 0 THEN 0 ELSE upTo[i - 1] + text[i]
  IN  upTo[Len(text)]

Fewer(a, b) == IF a =< b THEN a ELSE b

(* A mistake: the flag is assigned, not accumulated. *)
DataForgetsFlag ==
  /\ pending > 0 /\ host
  /\ LET next == captured \o SubSeq(written, Len(written) - pending + 1, Len(written))
     IN  captured' = SubSeq(next, 1, Fewer(MaxBytes, Len(next))) /\ truncated' = (Bytes(captured) > MaxBytes)
  /\ pending' = 0
  /\ UNCHANGED <<process, exit, timer, killer, written, outcome, host>>

Data ==
  /\ pending > 0 /\ host
  /\ LET next == captured \o SubSeq(written, Len(written) - pending + 1, Len(written))
     IN  \/ Bytes(captured) >= MaxBytes /\ captured' = captured /\ truncated' = TRUE
         \/ /\ Bytes(captured) < MaxBytes /\ Bytes(next) =< MaxBytes
            /\ captured' = next /\ UNCHANGED truncated
         \/ /\ Bytes(captured) < MaxBytes /\ Bytes(next) > MaxBytes
            /\ captured' = SubSeq(next, 1, Fewer(MaxBytes, Len(next))) /\ truncated' = TRUE
  /\ pending' = 0
  /\ UNCHANGED <<process, exit, timer, killer, written, outcome, host>>

(* terminateHostCommandProcessTree: the group, or what is left of it.      *)
Signalled(dies) ==
  /\ process' = [p \in Proc |-> IF p \in dies THEN "gone" ELSE process[p]]
  /\ exit' = IF "leader" \in dies THEN "signal" ELSE exit

(* A mistake: nothing follows the SIGTERM. *)
TimeoutTermOnly ==
  /\ timer = "armed" /\ host
  /\ timer' = "fired" /\ UNCHANGED killer
  /\ \E dies \in SUBSET {p \in Proc : InGroup(p)} : Signalled(dies)
  /\ UNCHANGED <<output, outcome, host>>

(* The timeout fires; a process may ignore the SIGTERM. *)
TimeoutFires ==
  /\ timer = "armed" /\ host
  /\ timer' = "fired" /\ killer' = "armed"
  /\ \E dies \in SUBSET {p \in Proc : InGroup(p)} : Signalled(dies)
  /\ UNCHANGED <<output, outcome, host>>

(* The SIGKILL that follows, whether or not the promise has settled.       *)
KillerFires ==
  /\ killer = "armed" /\ host
  /\ killer' = "fired"
  /\ Signalled({p \in Proc : InGroup(p)})
  /\ UNCHANGED <<timer, output, outcome, host>>

(* The `settled` flag. *)
Settle(as) ==
  IF promise = "open"
  THEN /\ promise' = as
       /\ settles' = settles + 1
       /\ timer' = IF timer = "armed" THEN "cleared" ELSE timer
  ELSE UNCHANGED <<promise, settles, timer>>

ErrorEvent ==
  /\ events # <<>> /\ Head(events) = "error" /\ host
  /\ events' = Tail(events)
  /\ Settle("rejected")
  /\ UNCHANGED <<process, exit, killer, output, result, host>>

Classify == CASE timer = "fired" -> "timeout"
              [] timer # "fired" /\ exit = "signal" -> "signal"
              [] timer # "fired" /\ exit \in {"nonzero", "failed"} -> "non_zero_exit"
              [] OTHER -> "none"

(* `close` comes after the leader's exit and the end of its pipes; writing *)
(* the artifacts may still fail.                                           *)
CloseEvent ==
  /\ events # <<>> /\ Head(events) = "close" /\ host
  /\ ~Running("leader") /\ pending = 0
  /\ \A p \in Proc : ~HasPipe(p)
  /\ events' = Tail(events)
  /\ \E as \in {"resolved", "rejected"} : Settle(as)
  /\ result' = IF promise = "open" THEN Classify ELSE result
  /\ UNCHANGED <<process, exit, killer, output, host>>

(* A caller that has its result may exit; the SIGKILL timer does not keep  *)
(* it (unref).                                                             *)
HostExits ==
  /\ promise # "open" /\ host
  /\ host' = FALSE
  /\ UNCHANGED <<process, exit, timer, killer, output, outcome>>

Executor == Data \/ TimeoutFires \/ KillerFires \/ ErrorEvent \/ CloseEvent

CommandNext == \/ Executor \/ HostExits
               \/ \E p \in Proc : Exit(p) \/ Emit(p)
               \/ \E d \in Descendant : Fork(d)

CommandSpec == CommandInit /\ [][CommandNext]_commandVars

(* Timers fire and events are delivered, each of them: the output of a     *)
(* command that never stops writing does not hold the timers up.           *)
FairTimers == WF_commandVars(TimeoutFires) /\ WF_commandVars(KillerFires)
FairEvents == WF_commandVars(Data) /\ WF_commandVars(ErrorEvent) /\ WF_commandVars(CloseEvent)

-----------------------------------------------------------------------------
(* What was captured is a beginning of what was written, never more than   *)
(* the bound's number of characters, and all of it in a settled result     *)
(* that does not say it was truncated.  The promise settles once.          *)
CapturedFaithfully ==
  /\ settles = IF promise = "open" THEN 0 ELSE 1
  /\ Len(captured) =< MaxBytes
  /\ Len(captured) =< Len(written) /\ captured = SubSeq(written, 1, Len(captured))
  /\ promise = "resolved" /\ ~truncated => captured = written

(* A timeout ends the command: everything that stayed in its group dies,   *)
(* unless the caller leaves first, and the promise settles, unless a       *)
(* process that left the group keeps the output pipe for good.             *)
TimeoutEndsCommand ==
  /\ timer = "fired" ~> (~host \/ \A p \in Proc : ~InGroup(p))
  /\ []<>(\A p \in Proc : process[p] # "escaped") =>
       (timer = "fired" ~> promise # "open")
=============================================================================
