---------------------------- MODULE ArchiveCache ----------------------------
(***************************************************************************)
(* The WordPress archive cache (runtime-playground/src/                    *)
(* playground-cli-runner.ts), shared by every process that starts a        *)
(* Playground of one WordPress version.  A directory next to the archive   *)
(* is the lock; under it the archive is validated, downloaded to a file of *)
(* the process's own and renamed into place.  The archive is read without  *)
(* the lock afterwards, for as long as the server starts.                  *)
(*                                                                         *)
(* A process may be killed anywhere; nobody removes the lock of a process  *)
(* that was killed.                                                        *)
(***************************************************************************)
EXTENDS Naturals

CONSTANTS Process   \* the processes that want the archive

VARIABLES pc,       \* where each process is
          lock,     \* the processes that made the lock directory that exists
          archive,  \* <version>.zip: none, invalid or good
          partial,  \* each process's own .partial file: none, part or whole
          renames   \* history: how often a download was renamed into place

cacheVars == <<pc, lock, archive, partial, renames>>

(* What an earlier process may have left: an archive that is not a zip,    *)
(* and the lock of a process that is gone.                                 *)
CacheInit ==
  /\ pc = [p \in Process |-> "resolving"]
  /\ lock \in {{}, {"gone"}}
  /\ archive \in {"none", "invalid", "good"}
  /\ partial = [p \in Process |-> "none"]
  /\ renames = 0

At(p, here, there) == pc[p] = here /\ pc' = [pc EXCEPT ![p] = there]

-----------------------------------------------------------------------------
(* A mistake: the directory is made with `recursive`, which never fails. *)
AcquireAnyway(p) ==
  /\ At(p, "resolving", "validating")
  /\ lock' = lock \cup {p}
  /\ UNCHANGED <<archive, partial, renames>>

(* withPlaygroundArchiveCacheLock: mkdir makes the directory or finds it.  *)
Acquire(p) ==
  /\ At(p, "resolving", "validating")
  /\ lock = {}
  /\ lock' = {p}
  /\ UNCHANGED <<archive, partial, renames>>

(* A mistake: the wait has no end. *)
WaitOn(p) ==
  /\ At(p, "resolving", "resolving")
  /\ lock # {}
  /\ UNCHANGED <<lock, archive, partial, renames>>

(* The lock was found taken for more than two minutes. *)
GiveUp(p) ==
  /\ At(p, "resolving", "failed")
  /\ lock # {}
  /\ UNCHANGED <<lock, archive, partial, renames>>

(* A mistake: the archive is looked for before it is validated. *)
HitUnvalidated(p) ==
  /\ At(p, "validating", "hit")
  /\ archive # "none"
  /\ UNCHANGED <<lock, archive, partial, renames>>

(* validateWordPressArchivePaths with deleteInvalid, and the look that     *)
(* follows: the archive is there, or is to be downloaded, or an invalid    *)
(* one cannot be removed.                                                  *)
Hit(p) ==
  /\ At(p, "validating", "hit")
  /\ archive = "good"
  /\ UNCHANGED <<lock, archive, partial, renames>>

Miss(p) ==
  /\ At(p, "validating", "downloading")
  /\ archive # "good"
  /\ archive' = "none"
  /\ UNCHANGED <<lock, partial, renames>>

CannotRemove(p) ==
  /\ At(p, "validating", "failing")
  /\ archive = "invalid"
  /\ UNCHANGED <<lock, archive, partial, renames>>

(* downloadWordPressArchiveToCache: a download that is a zip is written to *)
(* the process's own file, which is then renamed.                          *)
Download(p) ==
  /\ At(p, "downloading", "writing")
  /\ partial' = [partial EXCEPT ![p] = "part"]
  /\ UNCHANGED <<lock, archive, renames>>

Written(p) ==
  /\ At(p, "writing", "renaming")
  /\ partial' = [partial EXCEPT ![p] = "whole"]
  /\ UNCHANGED <<lock, archive, renames>>

Rename(p) ==
  /\ At(p, "renaming", "revalidating")
  /\ archive' = "good"
  /\ partial' = [partial EXCEPT ![p] = "none"]
  /\ renames' = renames + 1
  /\ UNCHANGED lock

(* The network, the disk or the rename fails: the file is removed. *)
DownloadFails(p) ==
  /\ \E here \in {"downloading", "writing", "renaming"} : At(p, here, "failing")
  /\ partial' = [partial EXCEPT ![p] = "none"]
  /\ UNCHANGED <<lock, archive, renames>>

Revalidate(p) ==
  /\ At(p, "revalidating", IF archive = "good" THEN "hit" ELSE "failing")
  /\ UNCHANGED <<lock, archive, partial, renames>>

(* The finally block: the lock directory is removed, whoever made it. *)
Release(p) ==
  /\ At(p, "hit", "using") \/ At(p, "failing", "failed")
  /\ lock' = {}
  /\ UNCHANGED <<archive, partial, renames>>

Kill(p) ==
  /\ pc[p] \notin {"failed", "killed"}
  /\ pc' = [pc EXCEPT ![p] = "killed"]
  /\ UNCHANGED <<lock, archive, partial, renames>>

Steps(p) == \/ Acquire(p) \/ GiveUp(p) \/ Hit(p) \/ Miss(p) \/ CannotRemove(p)
            \/ Download(p) \/ Written(p) \/ Rename(p) \/ DownloadFails(p)
            \/ Revalidate(p) \/ Release(p)

CacheNext == \E p \in Process : Steps(p) \/ Kill(p)

CacheSpec == CacheInit /\ [][CacheNext]_cacheVars

(* The wait for the lock has a limit and file operations settle; fetch()   *)
(* has no timeout, so a download may last for ever.                        *)
Progress(p) == WF_cacheVars(Steps(p) /\ pc[p] # "downloading")

-----------------------------------------------------------------------------
(* The values of the variables; a .partial file belongs to a download that *)
(* is under way, or whose process was killed.                              *)
CacheTypeOK ==
  /\ pc \in [Process -> {"resolving", "validating", "downloading", "writing", "renaming",
                         "revalidating", "hit", "failing", "using", "failed", "killed"}]
  /\ lock \subseteq Process \cup {"gone"}
  /\ archive \in {"none", "invalid", "good"}
  /\ partial \in [Process -> {"none", "part", "whole"}]
  /\ \A p \in Process : partial[p] # "none" => pc[p] \in {"writing", "renaming", "killed"}
  /\ renames \in Nat

Inside(p) == pc[p] \in {"validating", "downloading", "writing", "renaming",
                        "revalidating", "hit", "failing"}

(* One process at a time validates, deletes and renames, and the lock it   *)
(* removes in the end is its own, also next to the locks of killed ones.   *)
OneAtATime == \A p \in Process : Inside(p) => lock = {p}

(* The archive a process was given is whole and stays whole while the      *)
(* process reads it without the lock, whatever the others do.              *)
GivenArchiveStays ==
  \A p \in Process : pc[p] \in {"hit", "using"} => archive = "good"

(* However many processes start, and whichever are killed, a version is    *)
(* downloaded into the cache once.                                         *)
DownloadedOnce == renames <= 1 /\ (renames = 1 => archive = "good")

(* Everyone's request ends, also behind the lock of a process that is gone *)
(* or that downloads for ever; only that one's own request may hang.       *)
EveryoneIsAnswered ==
  \A p \in Process : <>[](pc[p] \in {"using", "failed", "killed", "downloading"})
=============================================================================
