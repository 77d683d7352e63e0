---------------------------- MODULE MCPlayground ----------------------------
(***************************************************************************)
(* The components of the Playground backend, checked one at a time: the    *)
(* runtime and its commands, the preview proxy in front of its server, the *)
(* archive cache its startup shares with other processes, a fuzz suite     *)
(* that runs on it and the minimizer of a failing case.  They share no     *)
(* state: `focus` is the one that moves, from its own initial states,      *)
(* while the others stay in one of theirs.                                 *)
(***************************************************************************)
EXTENDS PlaygroundRuntime, ArchiveCache, PreviewProxy, FuzzSuite, CaseMinimizer

VARIABLES focus

fuzzVars == <<suiteVars, minimizerVars>>

(* The names of checkpoints are interchangeable: the first that is used is "a". *)
FirstNamedA ==
  \A c \in Case :
    policy[c].mode = "checkpoint" /\ (\A d \in 1..(c - 1) : policy[d].mode # "checkpoint")
      => policy[c].name = "a"

PlaygroundInit ==
  /\ focus \in {"runtime", "proxy", "cache", "suite", "minimizer"}
  /\ Init /\ ProxyInit /\ CacheInit /\ SuiteInit /\ MinimizerInit
  /\ focus # "proxy" => via = [r \in Request |-> "v4"] /\ listener["v6"] = "open"
  /\ focus # "cache" => lock = {} /\ archive = "none"
  /\ FirstNamedA
  /\ focus # "suite" => \A c \in Case : policy[c].mode = "none"
  /\ focus # "minimizer" => steps = 0 /\ ~failed

PlaygroundNext ==
  /\ UNCHANGED focus
  /\ \/ focus = "runtime" /\ Next /\ UNCHANGED <<proxyVars, cacheVars, fuzzVars>>
     \/ focus = "proxy" /\ ProxyNext /\ UNCHANGED <<vars, cacheVars, fuzzVars>>
     \/ focus = "cache" /\ CacheNext /\ UNCHANGED <<vars, proxyVars, fuzzVars>>
     \/ focus = "suite" /\ SuiteNext
          /\ UNCHANGED <<vars, proxyVars, cacheVars, minimizerVars>>
     \/ focus = "minimizer" /\ MinimizerNext
          /\ UNCHANGED <<vars, proxyVars, cacheVars, suiteVars>>

(* The fairness of each component, while it moves. *)
PlaygroundFairness ==
  /\ WF_vars(focus = "runtime" /\ Boots)
  /\ WF_vars(focus = "runtime" /\ DisposeRest)
  /\ WF_vars(focus = "runtime" /\ Awaited)
  /\ \A c \in Command : /\ WF_vars(focus = "runtime" /\ Goes(c))
                        /\ WF_vars(focus = "runtime" /\ Timeout(c))
  /\ WF_proxyVars(focus = "proxy" /\ Disposing)
  /\ \A r \in Request :
       /\ WF_proxyVars(focus = "proxy" /\ (Handle(r) \/ Enqueue(r)))
       /\ WF_proxyVars(focus = "proxy" /\ Start(r))
       /\ WF_proxyVars(focus = "proxy" /\ Answer(r))
  /\ \A p \in Process :
       WF_cacheVars(focus = "cache" /\ Steps(p) /\ pc[p] # "downloading")

PlaygroundSpec ==
  /\ PlaygroundInit
  /\ [][PlaygroundNext]_<<focus, vars, proxyVars, cacheVars, fuzzVars>>
  /\ PlaygroundFairness

-----------------------------------------------------------------------------
(* A promise that is about the component in focus.                         *)

(* withPlaygroundArchiveCacheLock: the wait for the lock is limited. *)
RequestsEnd == focus = "cache" => EveryoneIsAnswered
=============================================================================
