-------------------------- MODULE RuntimeServices --------------------------
(***************************************************************************)
(* The managed runtime services of a recipe (cli/src/runtime-services.ts): *)
(* provisionRuntimeServicesForRecipe() starts one Docker container per     *)
(* service, one after another, next to a guard (the recipe's timeout and   *)
(* interruption race) that may reject while a docker command is under way. *)
(* The call then aborts its controller, waits for the provisioning it can  *)
(* no longer use, releases whatever came of it and reports the evidence.   *)
(*                                                                         *)
(* Containers are what Docker really runs; `evidence` is what the code     *)
(* says about them.  Every docker command has a timeout and may fail.      *)
(***************************************************************************)
EXTENDS Integers, Sequences

CONSTANTS Count,        \* the services of the recipe, provisioned in order
          MaxReleases   \* bound: how often the holder calls release()

ASSUME ServicesAssumption == Count \in Nat /\ MaxReleases \in Nat

VARIABLES guard,      \* the guarded call: open, held, rejected or thrown
          aborted,    \* its abort controller
          at,         \* the service being provisioned
          step,       \* where provisioning, or a release, is
          container,  \* what Docker runs for each service
          cut,        \* services whose `docker run` ended without an answer
          evidence,   \* the evidence list, one entry per service reached
          removing,   \* services whose `docker rm` is under way
          releases,   \* calls of release() made
          reported    \* the evidence given to onEvidence, and how often

vars == <<guard, aborted, at, step, container, cut, evidence, removing,
          releases, reported>>

Service == 1..Count

(* The entry of a service that provisioning has not reached, and the one   *)
(* it pushes when it does.                                                 *)
Absent == [readiness |-> "none", lifecycle |-> "none",
           teardown |-> "none", diagnostic |-> "none"]
Pending == [readiness |-> "pending", lifecycle |-> "provisioning",
            teardown |-> "none", diagnostic |-> "none"]

(* What the code makes of an entry. *)
Provisioned(e) == [readiness |-> "ready", lifecycle |-> "provisioned",
                   teardown |-> e.teardown, diagnostic |-> e.diagnostic]
Failed(e, code) == [readiness |-> "failed", lifecycle |-> "failed",
                    teardown |-> e.teardown, diagnostic |-> code]
TornDown(e) == [readiness |-> e.readiness, lifecycle |-> "released",
                teardown |-> "completed", diagnostic |-> e.diagnostic]
TeardownFailed(e) == [readiness |-> e.readiness, lifecycle |-> "failed",
                      teardown |-> "failed", diagnostic |-> "teardown-failed"]

Init == /\ guard = "open" /\ aborted = FALSE
        /\ at = 1 /\ step = "enter"
        /\ container = [s \in Service |-> "none"]
        /\ cut = {}
        /\ evidence = [s \in Service |-> Absent]
        /\ removing = {}
        /\ releases = 0
        /\ reported = <<>>

-----------------------------------------------------------------------------
(* releaseServices: every container that is not known to be gone gets its  *)
(* docker rm, all at once.                                                 *)
Release(services) == removing' = {s \in services : evidence'[s].teardown # "completed"}

(* The catch of provisionMysqlDockerService: the service's own container   *)
(* is removed if `docker run` had answered, then the earlier ones are.     *)
Started == step \in {"port", "ready"}

Diagnosis == IF aborted THEN "interrupted"
             ELSE IF Started THEN "readiness-failed" ELSE "provision-failed"

(* A mistake: the catch leaves the earlier services to the caller. *)
FailAlone ==
  /\ evidence' = [evidence EXCEPT ![at] = Failed(@, Diagnosis)]
  /\ IF Started THEN step' = "cleanup" /\ Release({at})
                ELSE step' = "unwind" /\ Release({})
  /\ UNCHANGED at

Fail ==
  /\ evidence' = [evidence EXCEPT ![at] = Failed(@, Diagnosis)]
  /\ IF Started THEN step' = "cleanup" /\ Release({at})
                ELSE step' = "unwind" /\ Release(1..(at - 1))
  /\ UNCHANGED at

Goto(there) == step' = there /\ UNCHANGED <<at, evidence, removing>>

(* The next service is pushed on the evidence list; an abort that has      *)
(* already happened is noticed before any command runs.                    *)
Enter ==
  /\ step = "enter" /\ at \in Service
  /\ IF aborted
     THEN /\ evidence' = [evidence EXCEPT ![at] = Failed(Pending, "interrupted")]
          /\ step' = "unwind" /\ Release(1..(at - 1))
     ELSE /\ evidence' = [evidence EXCEPT ![at] = Pending]
          /\ step' = "inspect" /\ UNCHANGED removing
  /\ UNCHANGED <<guard, aborted, at, container, cut, releases, reported>>

(* The promise of provisionRuntimeServices resolves with the handle. *)
Resolve ==
  /\ step = "enter" /\ at \notin Service
  /\ Goto("resolved")
  /\ UNCHANGED <<guard, aborted, container, cut, releases, reported>>

(* ensureDockerImage: an image that is not there is pulled, unless the     *)
(* inspection failed because of the abort.                                 *)
Image ==
  /\ \/ step = "inspect" /\ Goto("run")
     \/ step = "inspect" /\ ~aborted /\ Goto("pull")
     \/ step = "inspect" /\ aborted /\ Fail
     \/ step = "pull" /\ (Goto("run") \/ Fail)
  /\ UNCHANGED <<guard, aborted, container, cut, releases, reported>>

(* docker run answers: the container is up, or was never created. *)
RunContainer ==
  /\ step = "run"
  /\ \/ Goto("port") /\ container' = [container EXCEPT ![at] = "up"]
     \/ Fail /\ UNCHANGED container
  /\ UNCHANGED <<guard, aborted, cut, releases, reported>>

(* docker run is killed by the abort or by its own timeout: whether the    *)
(* daemon had created the container is not known.                          *)
RunIsCut ==
  /\ step = "run"
  /\ \E c \in {"none", "up"} : container' = [container EXCEPT ![at] = c]
  /\ cut' = cut \cup {at}
  /\ Fail
  /\ UNCHANGED <<guard, aborted, releases, reported>>

Port ==
  /\ step = "port"
  /\ Goto("ready") \/ Fail
  /\ UNCHANGED <<guard, aborted, container, cut, releases, reported>>

(* waitForReady, then the abort is looked at once more. *)
Ready ==
  /\ step = "ready"
  /\ \/ /\ ~aborted
        /\ evidence' = [evidence EXCEPT ![at] = Provisioned(@)]
        /\ at' = at + 1 /\ step' = "enter"
        /\ UNCHANGED removing
     \/ Fail
  /\ UNCHANGED <<guard, aborted, container, cut, releases, reported>>

-----------------------------------------------------------------------------

(* releaseService(): docker rm --force removes the container, or finds it  *)
(* absent, or fails and says so.                                           *)
Remove(s) ==
  /\ s \in removing
  /\ removing' = removing \ {s}
  /\ \/ /\ container' = [container EXCEPT ![s] = "none"]
        /\ evidence' = [evidence EXCEPT ![s] = TornDown(@)]
     \/ /\ container' \in {container, [container EXCEPT ![s] = "none"]}
        /\ evidence' = [evidence EXCEPT ![s] = TeardownFailed(@)]
  /\ UNCHANGED <<guard, aborted, at, step, cut, releases, reported>>

(* The releases of one releaseServices have all settled. *)
SomeFailed == \E s \in Service : evidence[s].teardown = "failed"

(* A mistake: a cleanup that failed is not swallowed. *)
CleanedUpOnSuccess ==
  /\ step = "cleanup" /\ removing = {} /\ ~SomeFailed
  /\ step' = "unwind" /\ evidence' = evidence /\ Release(1..(at - 1))
  /\ UNCHANGED <<guard, aborted, at, container, cut, releases, reported>>

CleanedUp ==
  /\ step = "cleanup" /\ removing = {}
  /\ step' = "unwind" /\ evidence' = evidence /\ Release(1..(at - 1))
  /\ UNCHANGED <<guard, aborted, at, container, cut, releases, reported>>

(* Failures of that unwinding are swallowed; the promise rejects. *)
Unwound ==
  /\ step = "unwind" /\ removing = {}
  /\ Goto("rejected")
  /\ UNCHANGED <<guard, aborted, container, cut, releases, reported>>

-----------------------------------------------------------------------------
(* The signal of the run's interruption aborts the controller, the guard   *)
(* may be told later.                                                      *)
Abort ==
  /\ guard = "open" /\ ~aborted
  /\ aborted' = TRUE
  /\ UNCHANGED <<guard, at, step, container, cut, evidence, removing, releases, reported>>

(* The guard rejects: a timeout, an interruption, or the provisioning. *)
GuardRejects ==
  /\ guard = "open"
  /\ guard' = "rejected" /\ aborted' = TRUE
  /\ UNCHANGED <<at, step, container, cut, evidence, removing, releases, reported>>

GuardPasses ==
  /\ guard = "open" /\ step = "resolved"
  /\ guard' = "held"
  /\ UNCHANGED <<aborted, at, step, container, cut, evidence, removing, releases, reported>>

(* A mistake: the evidence is reported before the release, not in the      *)
(* finally block after it.                                                 *)
ReleaseAfterReport ==
  /\ guard = "rejected" /\ step = "resolved"
  /\ reported' = Append(reported, evidence)
  /\ step' = "releasing" /\ evidence' = evidence /\ Release(Service)
  /\ UNCHANGED <<guard, aborted, at, container, cut, releases>>

(* The catch of the guarded call: provisioning succeeded after all. *)
ReleaseLate ==
  /\ guard = "rejected" /\ step = "resolved"
  /\ step' = "releasing" /\ evidence' = evidence /\ Release(Service)
  /\ UNCHANGED <<guard, aborted, at, container, cut, releases, reported>>

(* A mistake: a holder that has released its services does it again. *)
ReleaseAgain ==
  /\ guard = "held" /\ step \in {"resolved", "released"}
  /\ releases < MaxReleases
  /\ releases' = releases + 1
  /\ step' = "releasing" /\ evidence' = evidence /\ Release(Service)
  /\ UNCHANGED <<guard, aborted, at, container, cut, reported>>

(* release() of the handle; its holder tries again only after a failure    *)
(* (managedServicesReleased in commands/recipe-run.ts).                    *)
ReleaseHeld ==
  /\ guard = "held" /\ step = "resolved"
  /\ releases < MaxReleases
  /\ releases' = releases + 1
  /\ step' = "releasing" /\ evidence' = evidence /\ Release(Service)
  /\ UNCHANGED <<guard, aborted, at, container, cut, reported>>

(* release() settles: it rejects when one of the removals failed. *)
ReleaseSettles ==
  /\ step = "releasing" /\ removing = {}
  /\ Goto(IF SomeFailed THEN "resolved" ELSE "released")
  /\ IF guard = "rejected"
     THEN guard' = "thrown" /\ reported' = Append(reported, evidence)
     ELSE UNCHANGED <<guard, reported>>
  /\ UNCHANGED <<aborted, container, cut, releases>>

(* The guarded call rethrows with the evidence of the failed provisioning. *)
Rethrow ==
  /\ guard = "rejected" /\ step = "rejected"
  /\ guard' = "thrown" /\ reported' = Append(reported, evidence)
  /\ UNCHANGED <<aborted, at, step, container, cut, evidence, removing, releases>>

(* mysqld may exit at any time; --rm then removes its container. *)
ContainerExits(s) ==
  /\ container[s] = "up"
  /\ container' = [container EXCEPT ![s] = "none"]
  /\ UNCHANGED <<guard, aborted, at, step, cut, evidence, removing, releases, reported>>

Provisioning == Enter \/ Resolve \/ Image \/ RunContainer \/ RunIsCut \/ Port \/ Ready

Settling == GuardPasses \/ ReleaseLate \/ ReleaseSettles \/ Rethrow \/ CleanedUp \/ Unwound

Next == \/ Provisioning \/ Settling
        \/ Abort \/ GuardRejects \/ ReleaseHeld
        \/ \E s \in Service : Remove(s) \/ ContainerExits(s)

Spec == Init /\ [][Next]_vars

(* Every docker command and the readiness probe have a timeout, promises   *)
(* settle their awaits, and the guard follows the promise it was given.    *)
Progress == \/ Provisioning \/ Settling
            \/ step = "rejected" /\ GuardRejects
            \/ \E s \in Service : Remove(s)

FairSpec == Spec /\ WF_vars(Progress)

-----------------------------------------------------------------------------
Entry == [readiness : {"none", "pending", "ready", "failed"},
          lifecycle : {"none", "provisioning", "provisioned", "released", "failed"},
          teardown : {"none", "completed", "failed"},
          diagnostic : {"none", "readiness-failed", "provision-failed",
                        "teardown-failed", "interrupted"}]

(* The values of the variables. *)
ServicesTypeOK ==
  /\ guard \in {"open", "held", "rejected", "thrown"}
  /\ aborted \in BOOLEAN
  /\ at \in 1..(Count + 1)
  /\ step \in {"enter", "inspect", "pull", "run", "port", "ready", "cleanup", "unwind",
               "rejected", "resolved", "releasing", "released"}
  /\ container \in [Service -> {"none", "up"}]
  /\ cut \subseteq Service
  /\ evidence \in [Service -> Entry]
  /\ removing \subseteq Service
  /\ releases \in 0..MaxReleases

(* Evidence that says a service was torn down is true: its container is    *)
(* gone, whatever order removals, retries and exits happened in.           *)
TeardownIsTrue ==
  \A s \in Service : evidence[s].teardown = "completed" => container[s] = "none"

(* When the guarded call has thrown, every container that still runs is    *)
(* one whose removal was recorded as failed, or whose `docker run` was cut *)
(* off before it answered.  A holder whose release() resolved holds        *)
(* nothing, also when an earlier release() failed for some of them.        *)
OnlyKnownLeftovers ==
  /\ guard = "thrown" =>
       \A s \in Service : container[s] = "up" =>
         evidence[s].teardown = "failed" \/ s \in cut
  /\ guard = "held" /\ step = "released" => \A s \in Service : container[s] = "none"

(* A guarded call that throws has reported its evidence exactly once, and  *)
(* nothing changes the evidence after the report.                          *)
ReportIsFinal ==
  /\ guard = "thrown" => Len(reported) = 1
  /\ reported # <<>> => reported = <<evidence>>

(* A guarded call ends, also when the guard rejects while docker runs. *)
GuardedCallEnds == <>(guard \in {"held", "thrown"})

(* test "a timeout waits for and tears down late provisioning": no         *)
(* container outlives a guarded call that threw, unless its removal failed *)
(* and the evidence says so.                                               *)
LateProvisioningTornDown ==
  guard = "thrown" =>
    \A s \in Service : container[s] = "up" => evidence[s].teardown = "failed"

(* What the recipe run sees of all this. *)
Seen == IF guard = "held" THEN (IF step = "released" THEN "released" ELSE "up")
        ELSE IF guard = "thrown" /\ (SomeFailed \/ cut # {}) THEN "leaked"
        ELSE "none"

Contract == INSTANCE ServiceContract
              WITH call <- IF guard = "rejected" THEN "open" ELSE guard,
                   services <- Seen

(* The guarded call implements what RecipeRun assumes of its services. *)
ImplementsServiceContract == Contract!Spec
=============================================================================
