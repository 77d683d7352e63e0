--------------------------- MODULE BackendProofs ---------------------------
(***************************************************************************)
(* The Playground backend's archive cache, fuzz suite, preview proxy and   *)
(* case minimizer, each on its own: for any set of processes, any of them  *)
(* killed anywhere, one at a time is inside the lock, an archive that was  *)
(* given out stays whole, and it is downloaded once; for any number of     *)
(* cases under any policies, no case whose reset was carried out whole     *)
(* finds what another of its policy left behind; for any number of         *)
(* requests and leaving clients, a listener lets one through at a time, in *)
(* the order of arrival, and the server outlives the clients; and a        *)
(* minimized case of any length still fails, and no step of it can be      *)
(* spared.                                                                 *)
(***************************************************************************)
EXTENDS ArchiveCache, FuzzSuite, PreviewProxy, CaseMinimizer, SequenceTheorems, TLAPS

(***************************************************************************)
(* The archive cache.  The inductive step needs to know more than the      *)
(* three properties: who is past the rename has a good archive, and nobody *)
(* turns a good archive into another.                                      *)
(***************************************************************************)

(* Who has looked or renamed knows the archive; who is still to rename was *)
(* told that there is none.                                                *)
KnowsArchive ==
  /\ \A p \in Process : pc[p] \in {"downloading", "writing", "renaming"} => archive = "none"
  /\ \A p \in Process : pc[p] \in {"revalidating", "hit", "using"} => archive = "good"
  /\ renames \in {0, 1}
  /\ renames = 1 => archive = "good"

CacheInv == CacheTypeOK /\ OneAtATime /\ KnowsArchive

LEMMA CacheInitOK == CacheInit => CacheInv
BY DEF CacheInit, CacheInv, CacheTypeOK, OneAtATime, KnowsArchive, Inside

LEMMA CacheStepOK == ASSUME CacheInv, [CacheNext]_cacheVars PROVE CacheInv'
<1>1. ASSUME NEW p \in Process, Acquire(p) PROVE CacheInv'
  BY <1>1 DEF Acquire, At, CacheInv, CacheTypeOK, OneAtATime, KnowsArchive, Inside
<1>2. ASSUME NEW p \in Process, GiveUp(p) PROVE CacheInv'
  BY <1>2 DEF GiveUp, At, CacheInv, CacheTypeOK, OneAtATime, KnowsArchive, Inside
<1>3. ASSUME NEW p \in Process, Hit(p) PROVE CacheInv'
  BY <1>3 DEF Hit, At, CacheInv, CacheTypeOK, OneAtATime, KnowsArchive, Inside
<1>4. ASSUME NEW p \in Process, Miss(p) PROVE CacheInv'
  BY <1>4 DEF Miss, At, CacheInv, CacheTypeOK, OneAtATime, KnowsArchive, Inside
<1>5. ASSUME NEW p \in Process, CannotRemove(p) PROVE CacheInv'
  BY <1>5 DEF CannotRemove, At, CacheInv, CacheTypeOK, OneAtATime, KnowsArchive, Inside
<1>6. ASSUME NEW p \in Process, Download(p) PROVE CacheInv'
  BY <1>6 DEF Download, At, CacheInv, CacheTypeOK, OneAtATime, KnowsArchive, Inside
<1>7. ASSUME NEW p \in Process, Written(p) PROVE CacheInv'
  BY <1>7 DEF Written, At, CacheInv, CacheTypeOK, OneAtATime, KnowsArchive, Inside
<1>8. ASSUME NEW p \in Process, Rename(p) PROVE CacheInv'
  <2>1. CacheTypeOK' /\ OneAtATime'
    BY <1>8 DEF Rename, At, CacheInv, CacheTypeOK, OneAtATime, Inside
  <2>2. renames = 0
    BY <1>8 DEF Rename, At, CacheInv, KnowsArchive
  <2>3. \A q \in Process : q # p => pc[q] \notin {"downloading", "writing", "renaming"}
    BY <1>8 DEF Rename, At, CacheInv, OneAtATime, Inside
  <2>4. KnowsArchive'
    BY <1>8, <2>2, <2>3 DEF Rename, At, CacheInv, CacheTypeOK, KnowsArchive
  <2> QED BY <2>1, <2>4 DEF CacheInv
<1>9. ASSUME NEW p \in Process, DownloadFails(p) PROVE CacheInv'
  BY <1>9 DEF DownloadFails, At, CacheInv, CacheTypeOK, OneAtATime, KnowsArchive, Inside
<1>10. ASSUME NEW p \in Process, Revalidate(p) PROVE CacheInv'
  BY <1>10 DEF Revalidate, At, CacheInv, CacheTypeOK, OneAtATime, KnowsArchive, Inside
<1>11. ASSUME NEW p \in Process, Release(p) PROVE CacheInv'
  BY <1>11 DEF Release, At, CacheInv, CacheTypeOK, OneAtATime, KnowsArchive, Inside
<1>12. ASSUME NEW p \in Process, Kill(p) PROVE CacheInv'
  BY <1>12 DEF Kill, CacheInv, CacheTypeOK, OneAtATime, KnowsArchive, Inside
<1>13. CASE UNCHANGED cacheVars
  BY <1>13 DEF cacheVars, CacheInv, CacheTypeOK, OneAtATime, KnowsArchive, Inside
<1> QED
  BY <1>1, <1>2, <1>3, <1>4, <1>5, <1>6, <1>7, <1>8, <1>9, <1>10, <1>11, <1>12, <1>13 DEF CacheNext, Steps

(* The inductive invariant of the archive cache. *)
THEOREM CacheInvariant == CacheSpec => []CacheInv
<1>1. CacheInv /\ [CacheNext]_cacheVars => CacheInv'  BY CacheStepOK
<1> QED BY CacheInitOK, <1>1, PTL DEF CacheSpec

(* Every value of the cache's variables is of its type, and no .partial    *)
(* file outlives the request of a process that was not killed.             *)
THEOREM CacheTyped == CacheSpec => []CacheTypeOK
<1>1. CacheInv => CacheTypeOK  BY DEF CacheInv
<1> QED BY CacheInvariant, <1>1, PTL

(* The directory excludes: for any number of processes only one is inside, *)
(* and it removes no lock but its own.                                     *)
THEOREM MutualExclusion == CacheSpec => []OneAtATime
<1>1. CacheInv => OneAtATime  BY DEF CacheInv
<1> QED BY CacheInvariant, <1>1, PTL

(* An archive that a process was given stays whole for good. *)
THEOREM ArchiveStays == CacheSpec => []GivenArchiveStays
<1>1. CacheInv => GivenArchiveStays  BY DEF CacheInv, KnowsArchive, GivenArchiveStays
<1> QED BY CacheInvariant, <1>1, PTL

(* A version is renamed into the cache at most once. *)
THEOREM OneDownload == CacheSpec => []DownloadedOnce
<1>1. CacheInv => DownloadedOnce  BY DEF CacheInv, KnowsArchive, DownloadedOnce
<1> QED BY CacheInvariant, <1>1, PTL

-----------------------------------------------------------------------------
(***************************************************************************)
(* The fuzz suite.  The site need not be clean of what cases left behind:  *)
(* the invariant says when it is, while a checkpoint of it may still have  *)
(* to be made and while a case runs that asked for one.                    *)
(***************************************************************************)

(* The values of the suite's variables; a case in hand has no outcome yet. *)
SuiteTypeOK ==
  /\ policy \in [Case -> Policies]
  /\ current \in 1..(Cases + 1)
  /\ at \in {"reset", "restore", "run"}
  /\ at # "reset" => current \in Case
  /\ created \in BOOLEAN
  /\ checkpoints \in [Name -> (SUBSET (0..Cases)) \cup {NoSite}]
  /\ site \subseteq 0..Cases
  /\ began \in [Case -> (SUBSET (0..Cases)) \cup {NoSite}]
  /\ abandoned \subseteq Case
  /\ outcome \in [Case -> {"none", "passed", "failed", "error", "skipped"}]
  /\ partly \subseteq Case
  /\ \A c \in Case : c >= current => outcome[c] = "none" /\ began[c] = NoSite

(* A site that shows nothing of a case with checkpoints, unless its PHP    *)
(* may still be running.                                                   *)
Clean(s) == \A d \in s : IF d = Torn THEN TornBy("snapshot")
                         ELSE d \in abandoned \/ policy[d].mode # "checkpoint"

(* The site is clean as long as there may have to be a checkpoint of it,   *)
(* and whenever a case with checkpoints runs after a whole restore.        *)
CleanSite ==
  ~created \/ (at = "run" /\ Mode = "checkpoint" /\ current \notin partly) => Clean(site)

CleanCheckpoints == \A n \in Name : checkpoints[n] # NoSite => Clean(checkpoints[n])

AfterReset ==
  /\ at = "restore" => created /\ Mode = "checkpoint"
  /\ at = "run" /\ Mode = "checkpoint" => created
  /\ at = "run" /\ Mode = "snapshot" /\ current \notin partly => site \subseteq abandoned

SuiteInv == SuiteTypeOK /\ CleanSite /\ CleanCheckpoints /\ AfterReset /\ CasesAreIsolated

LEMMA ModesOK == ASSUME SuiteTypeOK, NEW c \in Case
                 PROVE /\ policy[c].mode \in {"none", "snapshot", "checkpoint"}
                       /\ policy[c].mode = "checkpoint" => policy[c].name \in Name
BY DEF SuiteTypeOK, Policies

LEMMA SuiteInitOK == SuiteInit => SuiteInv
<1> SUFFICES ASSUME SuiteInit PROVE SuiteInv  OBVIOUS
<1>1. SuiteTypeOK
  <2>1. 1 \in 1..(Cases + 1)  BY SuiteAssumption
  <2>2. NoSite \in (SUBSET (0..Cases)) \cup {NoSite} /\ {} \in SUBSET (0..Cases)  OBVIOUS
  <2>3. checkpoints \in [Name -> (SUBSET (0..Cases)) \cup {NoSite}]
    BY <2>2 DEF SuiteInit
  <2>4. began \in [Case -> (SUBSET (0..Cases)) \cup {NoSite}]
    BY <2>2 DEF SuiteInit
  <2>5. outcome \in [Case -> {"none", "passed", "failed", "error", "skipped"}]
    BY DEF SuiteInit
  <2> QED BY <2>1, <2>3, <2>4, <2>5 DEF SuiteInit, SuiteTypeOK
<1>2. CleanSite /\ CleanCheckpoints /\ AfterReset
  BY DEF SuiteInit, CleanSite, CleanCheckpoints, AfterReset, Clean
<1>3. CasesAreIsolated  BY DEF SuiteInit, CasesAreIsolated
<1> QED BY <1>1, <1>2, <1>3 DEF SuiteInv

(* An error stays an error, a restore in part stays one, and so does PHP   *)
(* that is given up.                                                       *)
Goes == /\ policy' = policy /\ abandoned \subseteq abandoned' /\ partly \subseteq partly'
        /\ \A c \in Case : outcome[c] = "error" => outcome'[c] = "error"

LEMMA TornStays == ASSUME Goes PROVE TornBy("snapshot") => TornBy("snapshot")'
BY DEF TornBy, Goes

LEMMA CheckpointsKept == ASSUME Goes, checkpoints' = checkpoints, CleanCheckpoints
                         PROVE  CleanCheckpoints'
<1>1. TornBy("snapshot") => TornBy("snapshot")'  BY TornStays
<1> QED BY <1>1 DEF CleanCheckpoints, Clean, Goes

LEMMA CheckpointsMade ==
  ASSUME SuiteTypeOK, Goes, CleanSite, CleanCheckpoints,
         checkpoints' = checkpoints
           \/ (~created /\ checkpoints' = [checkpoints EXCEPT ![Checkpoint] = site])
  PROVE  CleanCheckpoints'
<1>1. TornBy("snapshot") => TornBy("snapshot")'  BY TornStays
<1>2. SUFFICES ASSUME ~created, checkpoints' = [checkpoints EXCEPT ![Checkpoint] = site]
               PROVE  CleanCheckpoints'
  BY CheckpointsKept
<1> SUFFICES ASSUME NEW n \in Name, checkpoints'[n] # NoSite, NEW d \in checkpoints'[n]
             PROVE  IF d = Torn THEN TornBy("snapshot")'
                    ELSE d \in abandoned' \/ policy'[d].mode # "checkpoint"
  BY DEF CleanCheckpoints, Clean
<1>3. checkpoints'[n] = site \/ checkpoints'[n] = checkpoints[n]
  BY <1>2 DEF SuiteTypeOK
<1> QED BY <1>1, <1>2, <1>3 DEF CleanSite, CleanCheckpoints, Clean, Goes

(* A clean site stays clean when what is added to it may be there. *)
LEMMA SiteKept ==
  ASSUME Goes, Clean(site),
         \A d \in site' : d \notin site =>
           IF d = Torn THEN TornBy("snapshot")'
           ELSE d \in abandoned' \/ policy'[d].mode # "checkpoint"
  PROVE  Clean(site)'
<1>1. TornBy("snapshot") => TornBy("snapshot")'  BY TornStays
<1> QED BY <1>1 DEF Clean, Goes

LEMMA IsolationKept == ASSUME Goes, began' = began, CasesAreIsolated
                       PROVE  CasesAreIsolated'
<1>1. TornBy("snapshot") => TornBy("snapshot")'  BY TornStays
<1> SUFFICES ASSUME NEW c \in Case, began'[c] # NoSite, c \notin partly'
             PROVE  /\ policy'[c].mode = "checkpoint" =>
                         \A d \in began'[c] : IF d = Torn THEN TornBy("snapshot")'
                           ELSE d \in abandoned' \/ policy'[d].mode # "checkpoint"
                    /\ policy'[c].mode = "snapshot" => began'[c] \subseteq abandoned'
  BY DEF CasesAreIsolated
<1> QED BY <1>1 DEF CasesAreIsolated, Goes

LEMMA EndsOK ==
  ASSUME SuiteTypeOK, current \in Case, NEW s \in {"passed", "failed", "error", "skipped"},
         Ends(s)
  PROVE  /\ outcome' \in [Case -> {"none", "passed", "failed", "error", "skipped"}]
         /\ current' \in 1..(Cases + 1) /\ current' = current + 1
         /\ at' = "reset"
         /\ \A c \in Case : outcome[c] = "error" => outcome'[c] = "error"
         /\ \A c \in Case : c >= current' => outcome'[c] = "none" /\ began[c] = NoSite /\ c # current
         /\ outcome'[current] = s
BY SuiteAssumption DEF SuiteTypeOK, Ends, Case

(* What a restore leaves: a torn site has a case to its name. *)
LEMMA RestoredOK ==
  ASSUME SuiteTypeOK, current \in Case, NEW saved \in SUBSET (0..Cases), Restored(saved),
         UNCHANGED <<policy, created, checkpoints, began, abandoned>>
  PROVE  /\ SuiteTypeOK' /\ Goes
         /\ Mode = "snapshot" /\ Torn \in site' => Torn \in site \union saved \/ TornBy("snapshot")'
<1>1. Torn \in 0..Cases  BY SuiteAssumption DEF Torn
<1>2. site' \subseteq 0..Cases
  <2>1. \A s \in Mixed(saved) : s \subseteq 0..Cases  BY <1>1 DEF Mixed, SuiteTypeOK
  <2> QED BY <2>1 DEF Restored, SuiteTypeOK
<1>3. ASSUME GoesOn("run"), partly' \in {partly, partly \union {current}}
      PROVE  SuiteTypeOK' /\ Goes
  <2>1. at' = "run" /\ UNCHANGED <<current, outcome>>  BY <1>3 DEF GoesOn
  <2>2. partly' \subseteq Case /\ partly \subseteq partly'  BY <1>3 DEF SuiteTypeOK
  <2>3. Goes  BY <2>1, <2>2 DEF Goes
  <2> QED BY <1>2, <2>1, <2>2, <2>3 DEF SuiteTypeOK
<1>4. ASSUME Ends("error"), UNCHANGED partly
      PROVE  SuiteTypeOK' /\ Goes /\ outcome'[current] = "error"
  <2>1. Goes /\ at' = "reset" /\ outcome'[current] = "error"  BY <1>4, EndsOK DEF Goes
  <2> QED BY <1>2, <1>4, <2>1, EndsOK DEF SuiteTypeOK
<1>5. SuiteTypeOK' /\ Goes  BY <1>3, <1>4 DEF Restored, ResetFails
<1>6. ASSUME Mode = "snapshot", current \in partly' \/ outcome'[current] = "error"
      PROVE  TornBy("snapshot")'
  <2>1. policy'[current].mode = "snapshot"  BY <1>6 DEF Mode
  <2> QED BY <1>6, <2>1 DEF TornBy, Case
<1> QED BY <1>4, <1>5, <1>6 DEF Restored, ResetFails

LEMMA SuiteStepOK == ASSUME SuiteInv, [SuiteNext]_suiteVars PROVE SuiteInv'
<1> USE DEF SuiteInv
<1>1. CASE Refuse
  <2>1. Ends("error") /\ current \in Case /\ UNCHANGED <<policy, created, checkpoints, site, began, abandoned, partly>>
    BY <1>1 DEF Refuse, ResetFails
  <2>2. SuiteTypeOK' /\ Goes /\ at' = "reset"  BY <2>1, EndsOK DEF SuiteTypeOK, Goes
  <2>3. CleanSite'  BY <2>1, <2>2, SiteKept DEF CleanSite
  <2>4. CleanCheckpoints' /\ CasesAreIsolated'  BY <2>1, <2>2, CheckpointsKept, IsolationKept
  <2> QED BY <2>2, <2>3, <2>4 DEF AfterReset
<1>2. CASE NotRequired
  <2>1. /\ current \in Case /\ Mode = "none" /\ at' = "run"
        /\ UNCHANGED <<policy, created, checkpoints, site, began, abandoned, current, outcome, partly>>
    BY <1>2 DEF NotRequired, GoesOn
  <2>2. SuiteTypeOK' /\ Goes /\ Mode' = "none"  BY <2>1 DEF SuiteTypeOK, Goes, Mode
  <2>3. CleanSite'  BY <2>1, <2>2, SiteKept DEF CleanSite
  <2>4. CleanCheckpoints' /\ CasesAreIsolated'  BY <2>1, <2>2, CheckpointsKept, IsolationKept
  <2> QED BY <2>1, <2>2, <2>3, <2>4 DEF AfterReset
<1>3. CASE CreateCheckpoint
  <2>0. /\ at = "reset" /\ current \in Case /\ Mode = "checkpoint"
        /\ UNCHANGED <<policy, site, began, abandoned, partly>>
        /\ Checkpoint \in Name
    BY <1>3, ModesOK DEF CreateCheckpoint, Mode, Checkpoint
  <2>1. /\ created' \in BOOLEAN /\ (created => created')
        /\ checkpoints' = checkpoints
             \/ (~created /\ checkpoints' = [checkpoints EXCEPT ![Checkpoint] = site])
        /\ (created' /\ GoesOn("restore")) \/ Ends("error")
    BY <1>3 DEF CreateCheckpoint, ResetFails, SuiteTypeOK
  <2>2. checkpoints' \in [Name -> (SUBSET (0..Cases)) \cup {NoSite}]
    BY <2>1 DEF SuiteTypeOK
  <2>3. CASE created' /\ GoesOn("restore")
    <3>1. SuiteTypeOK' /\ Goes /\ Mode' = "checkpoint" /\ at' = "restore"
      BY <2>0, <2>1, <2>2, <2>3 DEF SuiteTypeOK, GoesOn, Goes, Mode
    <3> QED BY <2>0, <2>1, <2>3, <3>1, CheckpointsMade, IsolationKept DEF CleanSite, AfterReset
  <2>4. CASE Ends("error")
    <3>1. SuiteTypeOK' /\ Goes /\ at' = "reset"
      BY <2>0, <2>1, <2>2, <2>4, EndsOK DEF SuiteTypeOK, Goes
    <3>2. CleanSite'  BY <2>0, <2>1, <3>1, SiteKept DEF CleanSite
    <3> QED BY <2>0, <2>1, <3>1, <3>2, CheckpointsMade, IsolationKept DEF AfterReset
  <2> QED BY <2>1, <2>3, <2>4
<1>4. CASE RestoreCheckpoint
  <2>0. /\ at = "restore" /\ current \in Case /\ Mode = "checkpoint" /\ created
        /\ UNCHANGED <<policy, created, checkpoints, began, abandoned>>
        /\ Checkpoint \in Name
    BY <1>4, ModesOK DEF RestoreCheckpoint, Mode, Checkpoint, AfterReset, SuiteTypeOK
  <2>1. CASE checkpoints[Checkpoint] = NoSite /\ ResetFails /\ UNCHANGED <<site, partly>>
    <3>0. Ends("error")  BY <2>1 DEF ResetFails
    <3>1. SuiteTypeOK' /\ Goes /\ at' = "reset"
      BY <2>0, <2>1, <3>0, EndsOK DEF SuiteTypeOK, Goes
    <3>2. CleanCheckpoints' /\ CasesAreIsolated'  BY <2>0, <3>1, CheckpointsKept, IsolationKept
    <3> QED BY <2>0, <3>1, <3>2 DEF AfterReset, CleanSite
  <2>2. CASE checkpoints[Checkpoint] # NoSite /\ Restored(checkpoints[Checkpoint])
    <3>1. checkpoints[Checkpoint] \subseteq 0..Cases  BY <2>0, <2>2 DEF SuiteTypeOK
    <3>2. SuiteTypeOK' /\ Goes
      BY <2>0, <2>2, <3>1, RestoredOK
    <3>3. CleanCheckpoints' /\ CasesAreIsolated'  BY <2>0, <3>2, CheckpointsKept, IsolationKept
    <3>4. \/ site' = checkpoints[Checkpoint] /\ GoesOn("run")
          \/ GoesOn("run") /\ current \in partly'
          \/ at' = "reset"
      BY <2>2 DEF Restored, ResetFails, Ends
    <3>5. CASE GoesOn("run")
      <4>1. Mode' = "checkpoint" /\ at' = "run" /\ created' /\ current' = current
        BY <2>0, <3>5 DEF GoesOn, Mode
      <4>2. Clean(checkpoints[Checkpoint])  BY <2>0, <2>2 DEF CleanCheckpoints
      <4>3. TornBy("snapshot") => TornBy("snapshot")'  BY <3>2, TornStays
      <4>4. CleanSite'  BY <2>0, <3>2, <3>4, <4>1, <4>2, <4>3 DEF CleanSite, Clean, Goes
      <4> QED BY <3>2, <3>3, <4>1, <4>4 DEF AfterReset
    <3>6. CASE at' = "reset"
      BY <2>0, <3>2, <3>3, <3>6 DEF AfterReset, CleanSite
    <3> QED BY <3>4, <3>5, <3>6
  <2> QED BY <1>4, <2>1, <2>2 DEF RestoreCheckpoint
<1>5. CASE RestoreSnapshot
  <2>0. /\ at = "reset" /\ current \in Case /\ Mode = "snapshot" /\ Restored({})
        /\ UNCHANGED <<policy, created, checkpoints, began, abandoned>>
    BY <1>5 DEF RestoreSnapshot
  <2>1. SuiteTypeOK' /\ Goes /\ (Torn \in site' => Torn \in site \/ TornBy("snapshot")')
    BY <2>0, RestoredOK DEF Mode
  <2>2. CleanCheckpoints' /\ CasesAreIsolated'  BY <2>0, <2>1, CheckpointsKept, IsolationKept
  <2>3. site' \subseteq site \union {Torn}  BY <2>0 DEF Restored, Mixed
  <2>4. /\ (GoesOn("run") /\ (site' = {} \/ current \in partly')) \/ at' = "reset"
        /\ Mode' = "snapshot" \/ at' = "reset"
    BY <2>0 DEF Restored, ResetFails, Ends, GoesOn, Mode
  <2>5. CleanSite'
    <3>1. SUFFICES ASSUME ~created PROVE Clean(site)'
      BY <2>0, <2>4 DEF CleanSite
    <3>2. Clean(site)  BY <3>1 DEF CleanSite
    <3> QED BY <2>1, <2>3, <3>2, SiteKept
  <2>6. AfterReset'  BY <2>4 DEF AfterReset, GoesOn
  <2> QED BY <2>1, <2>2, <2>5, <2>6
<1>6. CASE Skip
  <2>1. /\ Ends("skipped") /\ current \in Case
        /\ UNCHANGED <<policy, created, checkpoints, site, began, abandoned, partly>>
    BY <1>6 DEF Skip, SuiteTypeOK
  <2>2. SuiteTypeOK' /\ Goes /\ at' = "reset"  BY <2>1, EndsOK DEF SuiteTypeOK, Goes
  <2>3. CleanSite'  BY <2>1, <2>2, SiteKept DEF CleanSite
  <2>4. CleanCheckpoints' /\ CasesAreIsolated'  BY <2>1, <2>2, CheckpointsKept, IsolationKept
  <2> QED BY <2>2, <2>3, <2>4 DEF AfterReset
<1>7. CASE Execute
  <2>0. /\ at = "run" /\ current \in Case
        /\ began' = [began EXCEPT ![current] = site]
        /\ site' \in {site, site \union {current}}
        /\ UNCHANGED <<policy, created, checkpoints, partly>>
        /\ abandoned' \in {abandoned, abandoned \union {current}}
    BY <1>7 DEF Execute, SuiteTypeOK
  <2>1. PICK s \in {"passed", "failed", "error", "skipped"} : Ends(s)
    BY <1>7 DEF Execute
  <2>2. Goes /\ at' = "reset"  BY <2>0, <2>1, EndsOK DEF Goes
  <2>3. SuiteTypeOK'
    <3>1. site' \subseteq 0..Cases /\ abandoned' \subseteq Case
      BY <2>0, SuiteAssumption DEF SuiteTypeOK, Case
    <3>2. began' \in [Case -> (SUBSET (0..Cases)) \cup {NoSite}]
      BY <2>0 DEF SuiteTypeOK
    <3>3. \A c \in Case : c >= current' => outcome'[c] = "none" /\ began'[c] = NoSite
      BY <2>0, <2>1, EndsOK DEF SuiteTypeOK
    <3> QED BY <2>0, <2>1, <2>2, <3>1, <3>2, <3>3, EndsOK DEF SuiteTypeOK
  <2>4. CleanSite'
    <3>1. ~created => Clean(site) /\ Mode # "checkpoint"
      BY <2>0 DEF CleanSite, AfterReset
    <3>2. policy'[current].mode = Mode /\ current # Torn
      BY <2>0, SuiteAssumption DEF Mode, Torn, Case
    <3> QED BY <2>0, <2>2, <3>1, <3>2, SiteKept DEF CleanSite
  <2>5. CasesAreIsolated'
    <3>1. TornBy("snapshot") => TornBy("snapshot")'  BY <2>2, TornStays
    <3>2. Mode = "checkpoint" /\ current \notin partly =>
            \A d \in site : IF d = Torn THEN TornBy("snapshot")'
                            ELSE d \in abandoned' \/ policy'[d].mode # "checkpoint"
      BY <2>0, <2>2, <3>1 DEF CleanSite, Clean, Goes
    <3>3. Mode = "snapshot" /\ current \notin partly => site \subseteq abandoned'
      BY <2>0 DEF AfterReset
    <3> SUFFICES ASSUME NEW c \in Case, began'[c] # NoSite, c \notin partly'
                 PROVE  /\ policy'[c].mode = "checkpoint" =>
                             \A d \in began'[c] : IF d = Torn THEN TornBy("snapshot")'
                               ELSE d \in abandoned' \/ policy'[d].mode # "checkpoint"
                        /\ policy'[c].mode = "snapshot" => began'[c] \subseteq abandoned'
      BY DEF CasesAreIsolated
    <3>4. CASE c = current
      BY <2>0, <3>2, <3>3, <3>4 DEF SuiteTypeOK, Mode
    <3>5. CASE c # current
      <4>1. began'[c] = began[c]  BY <2>0, <3>5 DEF SuiteTypeOK
      <4> QED BY <2>0, <2>2, <3>1, <4>1 DEF CasesAreIsolated, Goes
    <3> QED BY <3>4, <3>5
  <2>6. CleanCheckpoints'  BY <2>0, <2>2, CheckpointsKept
  <2> QED BY <2>2, <2>3, <2>4, <2>5, <2>6 DEF AfterReset
<1>8. CASE ActsLate
  <2>1. PICK c \in abandoned : site' = site \union {c}  BY <1>8 DEF ActsLate
  <2>2. UNCHANGED <<policy, current, at, created, checkpoints, began, abandoned, outcome, partly>>
    BY <1>8 DEF ActsLate
  <2>3. c \in Case /\ c # Torn /\ site' \subseteq 0..Cases
    BY <2>1, SuiteAssumption DEF SuiteTypeOK, Case, Torn
  <2>4. SuiteTypeOK' /\ Goes /\ Mode' = Mode  BY <2>2, <2>3 DEF SuiteTypeOK, Goes, Mode
  <2>5. CleanSite'  BY <2>1, <2>2, <2>3, <2>4, SiteKept DEF CleanSite
  <2>6. AfterReset'  BY <2>1, <2>2, <2>4 DEF AfterReset
  <2>7. CleanCheckpoints' /\ CasesAreIsolated'  BY <2>2, <2>4, CheckpointsKept, IsolationKept
  <2> QED BY <2>4, <2>5, <2>6, <2>7
<1>9. CASE UNCHANGED suiteVars
  <2>1. UNCHANGED <<policy, current, at, created, checkpoints, site, began, abandoned, outcome, partly>>
    BY <1>9 DEF suiteVars
  <2>2. SuiteTypeOK' /\ Goes /\ Mode' = Mode  BY <2>1 DEF SuiteTypeOK, Goes, Mode
  <2>3. CleanSite' /\ AfterReset'  BY <2>1, <2>2, SiteKept DEF CleanSite, AfterReset
  <2>4. CleanCheckpoints' /\ CasesAreIsolated'  BY <2>1, <2>2, CheckpointsKept, IsolationKept
  <2> QED BY <2>2, <2>3, <2>4
<1> QED BY <1>1, <1>2, <1>3, <1>4, <1>5, <1>6, <1>7, <1>8, <1>9 DEF SuiteNext

(* The inductive invariant of the suite. *)
THEOREM SuiteInvariant == SuiteSpec => []SuiteInv
<1> QED BY SuiteInitOK, SuiteStepOK, PTL DEF SuiteSpec

(* For any number of cases and any policies, whatever resets failed or     *)
(* were only carried out in part, no case whose own reset was whole finds  *)
(* what another case of its policy left behind.                            *)
THEOREM Isolation == SuiteSpec => []CasesAreIsolated
<1>1. SuiteInv => CasesAreIsolated  BY DEF SuiteInv
<1> QED BY SuiteInvariant, <1>1, PTL

-----------------------------------------------------------------------------
(***************************************************************************)
(* The preview proxy.  The order of arrival at a queue is at every moment  *)
(* that of the started requests, then the woken one, then the waiting ones;*)
(* the waiting ones are all different, so that whoever is woken leaves the *)
(* queue.                                                                  *)
(***************************************************************************)

ProxyTypeOK ==
  /\ stage \in [Request -> {"new", "routing", "queued", "woken", "active", "over"}]
  /\ via \in [Request -> Listener]
  /\ client \in [Request -> {"here", "gone", "answered"}]
  /\ upstream \in [Request -> {"none", "sent", "unsent", "ended"}]
  /\ busy \in [Listener -> BOOLEAN]
  /\ pending \in [Listener -> Seq(Request)]
  /\ arrived \in [Listener -> Seq(Request)]
  /\ started \in [Listener -> Seq(Request)]
  /\ listener \in [Listener -> {"absent", "open", "closing", "closed"}]
  /\ server \in {"up", "disposed"}

(* A listener that is closed, or is not there, has nobody connected. *)
ClosedIsEmpty ==
  /\ \A l \in Listener : listener[l] \in {"closed", "absent"} => Connected(l) = {}
  /\ server = "disposed" => \A l \in Listener : listener[l] \in {"closed", "absent"}

(* `active` is true as long as somebody has the turn, and then the waiting *)
(* ones are those of the queue, each of them once.                         *)
TurnsOK ==
  \A l \in Listener :
    /\ \A q, r \in Through(l) : q = r
    /\ busy[l] <=> Through(l) # {}
    /\ ~busy[l] => pending[l] = <<>>
    /\ \A i \in 1..Len(pending[l]) : /\ stage[pending[l][i]] = "queued" /\ via[pending[l][i]] = l
    /\ \A i, j \in 1..Len(pending[l]) : pending[l][i] = pending[l][j] => i = j

(* How many requests have got the turn. *)
Turns(l) == Len(arrived[l]) - Len(pending[l])

(* The order of arrival is that of the started ones, the woken one and the *)
(* waiting ones.                                                           *)
OrderOK ==
  \A l \in Listener :
    /\ Turns(l) >= 0
    /\ \A i \in 1..Len(pending[l]) : arrived[l][Turns(l) + i] = pending[l][i]
    /\ \A i \in 1..Len(started[l]) : started[l][i] = arrived[l][i]
    /\ \A r \in Request : via[r] = l /\ stage[r] = "woken" =>
         Len(started[l]) = Turns(l) - 1 /\ arrived[l][Turns(l)] = r
    /\ (\A r \in Request : via[r] = l => stage[r] # "woken") => Len(started[l]) = Turns(l)

ProxyInv == ProxyTypeOK /\ ClosedIsEmpty /\ TurnsOK /\ OrderOK

LEMMA ProxyInitOK == ProxyInit => ProxyInv
<1> SUFFICES ASSUME ProxyInit PROVE ProxyInv  OBVIOUS
<1>1. ProxyTypeOK  BY DEF ProxyInit, ProxyTypeOK, Listener
<1>2. ClosedIsEmpty  BY DEF ProxyInit, ClosedIsEmpty, Connected
<1>3. TurnsOK  BY DEF ProxyInit, TurnsOK, Through
<1>4. OrderOK  BY DEF ProxyInit, OrderOK, Turns
<1> QED BY <1>1, <1>2, <1>3, <1>4 DEF ProxyInv

-----------------------------------------------------------------------------
(* What a step that passes no turn on leaves of the queues. *)
LEMMA QueuesKept ==
  ASSUME ProxyTypeOK, TurnsOK, OrderOK, UNCHANGED <<via, queues, order>>,
         NEW r \in Request, NEW s \in {"routing", "over"},
         stage' = [stage EXCEPT ![r] = s], stage[r] \in {"new", "routing"}
  PROVE  TurnsOK' /\ OrderOK'
<1>1. \A q \in Request : stage'[q] = stage[q] \/ (q = r /\ stage[q] \in {"new", "routing"}
                                                     /\ stage'[q] \in {"routing", "over"})
  BY DEF ProxyTypeOK
<1>2. \A l \in Listener : Through(l)' = Through(l)
  BY <1>1 DEF Through
<1>3. \A q \in Request : stage'[q] = "woken" <=> stage[q] = "woken"
  BY <1>1
<1>4. \A q \in Request : stage[q] = "queued" => stage'[q] = "queued"
  BY <1>1
<1>5. \A l \in Listener : \A i \in 1..Len(pending[l]) : pending[l][i] \in Request
  BY DEF ProxyTypeOK
<1>6. TurnsOK'  BY <1>2, <1>4, <1>5 DEF TurnsOK, queues
<1>7. OrderOK'  BY <1>3 DEF OrderOK, Turns, queues, order
<1> QED BY <1>6, <1>7

(* A step that leaves the stages alone, too. *)
LEMMA QueuesAlone == ASSUME TurnsOK, OrderOK, UNCHANGED <<via, stage, queues, order>>
                     PROVE  TurnsOK' /\ OrderOK'
<1>1. \A l \in Listener : Through(l)' = Through(l) /\ Turns(l)' = Turns(l)
  BY DEF Through, Turns, queues, order
<1>2. busy' = busy /\ pending' = pending /\ arrived' = arrived /\ started' = started
  BY DEF queues, order
<1>3. TurnsOK'  BY <1>1, <1>2 DEF TurnsOK
<1>4. OrderOK'  BY <1>1, <1>2 DEF OrderOK
<1> QED BY <1>3, <1>4

(* As long as no listener moves and nobody arrives, nobody is connected anew. *)
LEMMA ClosedKept ==
  ASSUME ClosedIsEmpty, UNCHANGED <<via, listener, server>>,
         \A r \in Request : stage[r] = "new" => stage'[r] = "new",
         \A r \in Request : client'[r] = "here" => client[r] = "here"
  PROVE  ClosedIsEmpty'
<1>1. \A l \in Listener : Connected(l)' \subseteq Connected(l)  BY DEF Connected
<1> QED BY <1>1 DEF ClosedIsEmpty

(* The end of a request whose turn it is. *)
LEMMA PassOnOK ==
  ASSUME ProxyTypeOK, TurnsOK, OrderOK, UNCHANGED <<via, order>>,
         NEW r \in Request, stage[r] = "active", PassOn(r)
  PROVE  /\ TurnsOK' /\ OrderOK'
         /\ stage' \in [Request -> {"new", "routing", "queued", "woken", "active", "over"}]
         /\ busy' \in [Listener -> BOOLEAN]
         /\ pending' \in [Listener -> Seq(Request)]
         /\ \A q \in Request : stage[q] = "new" => stage'[q] = "new"
<1> DEFINE l == via[r]
<1> DEFINE h == Head(pending[l])
<1>1. l \in Listener /\ Through(l) = {r} /\ pending[l] \in Seq(Request)
  BY DEF ProxyTypeOK, TurnsOK, Through
<1> HIDE DEF l
<1>2. CASE pending[l] = <<>>
  <2>1. /\ busy' = [busy EXCEPT ![l] = FALSE] /\ pending' = [pending EXCEPT ![l] = <<>>]
        /\ pending' = pending
        /\ stage' = [q \in Request |-> IF q = r THEN "over" ELSE stage[q]]
    BY <1>1, <1>2 DEF PassOn, l, ProxyTypeOK
  <2>2. \A m \in Listener : Through(m)' = IF m = l THEN {} ELSE Through(m)
    BY <1>1, <2>1 DEF Through, l
  <2>3. \A q \in Request : stage'[q] = stage[q] \/ q = r  BY <2>1
  <2>4. TurnsOK'
    <3> SUFFICES ASSUME NEW m \in Listener
                 PROVE /\ \A p, q \in Through(m)' : p = q
                       /\ busy'[m] <=> Through(m)' # {}
                       /\ ~busy'[m] => pending[m] = <<>>
                       /\ \A i \in 1..Len(pending[m]) :
                            stage'[pending[m][i]] = "queued" /\ via[pending[m][i]] = m
                       /\ \A i, j \in 1..Len(pending[m]) : pending[m][i] = pending[m][j] => i = j
      BY <2>1 DEF TurnsOK
    <3>1. \A i \in 1..Len(pending[m]) : pending[m][i] \in Request /\ pending[m][i] # r
      BY DEF ProxyTypeOK, TurnsOK
    <3>2. busy'[m] = IF m = l THEN FALSE ELSE busy[m]  BY <2>1 DEF ProxyTypeOK
    <3> QED BY <1>2, <2>2, <2>3, <3>1, <3>2 DEF TurnsOK
  <2>5. \A q \in Request : stage'[q] = "woken" <=> stage[q] = "woken"
    BY <2>1
  <2>6. OrderOK'
    <3>1. \A m \in Listener : Turns(m)' = Turns(m)  BY <2>1 DEF Turns, order
    <3>2. arrived' = arrived /\ started' = started  BY DEF order
    <3> QED BY <2>1, <2>5, <3>1, <3>2 DEF OrderOK
  <2> QED BY <2>1, <2>4, <2>6 DEF ProxyTypeOK
<1>3. CASE pending[l] # <<>>
  <2>1. /\ busy' = [busy EXCEPT ![l] = TRUE] /\ pending' = [pending EXCEPT ![l] = Tail(pending[l])]
        /\ stage' = [q \in Request |-> IF q = r THEN "over" ELSE IF q = h THEN "woken" ELSE stage[q]]
    BY <1>1, <1>3 DEF PassOn, l
  <2>2. /\ h = pending[l][1] /\ h \in Request /\ Len(pending[l]) >= 1
        /\ stage[h] = "queued" /\ via[h] = l /\ h # r
    BY <1>1, <1>3 DEF TurnsOK
  <2>3. /\ Tail(pending[l]) \in Seq(Request) /\ Len(Tail(pending[l])) = Len(pending[l]) - 1
        /\ \A i \in 1..(Len(pending[l]) - 1) : Tail(pending[l])[i] = pending[l][i + 1]
    BY <1>1, <1>3
  <2> HIDE DEF h
  <2>4. /\ \A m \in Listener : m # l => pending'[m] = pending[m]
        /\ pending'[l] = Tail(pending[l])
        /\ pending' \in [Listener -> Seq(Request)]
    BY <1>1, <2>1, <2>3 DEF ProxyTypeOK
  <2>5. \A m \in Listener : Through(m)' = IF m = l THEN {h} ELSE Through(m)
    BY <1>1, <2>1, <2>2 DEF Through, l
  <2>6. TurnsOK'
    <3> SUFFICES ASSUME NEW m \in Listener
                 PROVE /\ \A p, q \in Through(m)' : p = q
                       /\ busy'[m] <=> Through(m)' # {}
                       /\ ~busy'[m] => pending'[m] = <<>>
                       /\ \A i \in 1..Len(pending'[m]) :
                            stage'[pending'[m][i]] = "queued" /\ via[pending'[m][i]] = m
                       /\ \A i, j \in 1..Len(pending'[m]) : pending'[m][i] = pending'[m][j] => i = j
      BY DEF TurnsOK
    <3>1. CASE m = l
      <4>1. busy'[m] = TRUE  BY <1>1, <2>1, <3>1 DEF ProxyTypeOK
      <4>2. \A i \in 1..(Len(pending[l]) - 1) :
               /\ pending[l][i + 1] \in Request /\ stage[pending[l][i + 1]] = "queued"
               /\ via[pending[l][i + 1]] = l /\ pending[l][i + 1] # h
        <5> TAKE i \in 1..(Len(pending[l]) - 1)
        <5>1. i + 1 \in 1..Len(pending[l]) /\ 1 \in 1..Len(pending[l]) /\ i + 1 # 1
          BY <1>1, <2>2
        <5>2. pending[l][i + 1] \in Request  BY <1>1, <5>1
        <5> QED BY <1>1, <2>2, <5>1, <5>2 DEF TurnsOK
      <4>3. \A i \in 1..Len(pending'[m]) :
               stage'[pending'[m][i]] = "queued" /\ via[pending'[m][i]] = m
        BY <2>1, <2>3, <2>4, <3>1, <4>2
      <4>4. \A i, j \in 1..Len(pending'[m]) : pending'[m][i] = pending'[m][j] => i = j
        <5> TAKE i, j \in 1..Len(pending'[m])
        <5> HAVE pending'[m][i] = pending'[m][j]
        <5>1. /\ i \in 1..(Len(pending[l]) - 1) /\ j \in 1..(Len(pending[l]) - 1)
              /\ pending[l][i + 1] = pending[l][j + 1]
          BY <2>3, <2>4, <3>1
        <5>2. i + 1 \in 1..Len(pending[l]) /\ j + 1 \in 1..Len(pending[l])
          BY <1>1, <5>1
        <5>3. i + 1 = j + 1  BY <1>1, <5>1, <5>2 DEF TurnsOK
        <5> QED BY <5>1, <5>3
      <4> QED BY <2>5, <3>1, <4>1, <4>3, <4>4
    <3>2. CASE m # l
      <4>1. busy'[m] = busy[m]  BY <2>1, <3>2 DEF ProxyTypeOK
      <4>2. \A i \in 1..Len(pending[m]) : pending[m][i] \in Request /\ pending[m][i] \notin {r, h}
        <5> TAKE i \in 1..Len(pending[m])
        <5>1. stage[pending[m][i]] = "queued" /\ via[pending[m][i]] = m
          BY DEF TurnsOK
        <5>2. pending[m][i] \in Request  BY DEF ProxyTypeOK
        <5> QED BY <2>2, <3>2, <5>1, <5>2
      <4>3. \A i \in 1..Len(pending[m]) : stage'[pending[m][i]] = stage[pending[m][i]]
        BY <2>1, <4>2
      <4> QED BY <2>4, <2>5, <3>2, <4>1, <4>3 DEF TurnsOK
    <3> QED BY <3>1, <3>2
  <2>7. OrderOK'
    <3> SUFFICES ASSUME NEW m \in Listener
                 PROVE /\ Turns(m)' >= 0
                       /\ \A i \in 1..Len(pending'[m]) : arrived[m][Turns(m)' + i] = pending'[m][i]
                       /\ \A i \in 1..Len(started[m]) : started[m][i] = arrived[m][i]
                       /\ \A q \in Request : via[q] = m /\ stage'[q] = "woken" =>
                            Len(started[m]) = Turns(m)' - 1 /\ arrived[m][Turns(m)'] = q
                       /\ (\A q \in Request : via[q] = m => stage'[q] # "woken")
                            => Len(started[m]) = Turns(m)'
      BY DEF OrderOK, Turns, order
    <3>1. CASE m = l
      <4>1. Turns(m)' = Turns(l) + 1
        <5>1. Turns(m)' = Len(arrived[l]) - Len(Tail(pending[l]))
          BY <2>4, <3>1 DEF Turns, order
        <5>2. Len(arrived[l]) \in Nat /\ Len(pending[l]) \in Nat
          BY <1>1 DEF ProxyTypeOK
        <5>3. Turns(l) = Len(arrived[l]) - Len(pending[l])  BY DEF Turns
        <5>4. Len(Tail(pending[l])) = Len(pending[l]) - 1  BY <2>3
        <5>5. \A a, b, c \in Int : c = b - 1 => a - c = (a - b) + 1  OBVIOUS
        <5>6. Len(Tail(pending[l])) \in Int /\ Len(arrived[l]) \in Int /\ Len(pending[l]) \in Int
          BY <5>2, <5>4
        <5>7. Len(arrived[l]) - Len(Tail(pending[l])) = (Len(arrived[l]) - Len(pending[l])) + 1
          BY <5>4, <5>5, <5>6
        <5> QED BY <5>1, <5>3, <5>7
      <4>2. Turns(l) \in Nat  BY <1>1 DEF OrderOK, Turns, ProxyTypeOK
      <4>3. \A q \in Request : via[q] = l => stage[q] # "woken"
        BY <1>1 DEF Through
      <4>4. Len(started[l]) = Turns(l)  BY <1>1, <4>3 DEF OrderOK
      <4>5. \A i \in 1..Len(pending[l]) : arrived[l][Turns(l) + i] = pending[l][i]
        BY <1>1 DEF OrderOK
      <4>6. \A q \in Request : via[q] = l /\ stage'[q] = "woken" => q = h
        BY <2>1, <4>3
      <4>7. stage'[h] = "woken"  BY <2>1, <2>2
      <4>8. arrived[l][Turns(l) + 1] = h
        BY <1>1, <2>2, <4>5
      <4>9. \A i \in 1..(Len(pending[l]) - 1) : arrived[l][Turns(l) + 1 + i] = pending[l][i + 1]
        <5> TAKE i \in 1..(Len(pending[l]) - 1)
        <5>1. i + 1 \in 1..Len(pending[l]) /\ Turns(l) + 1 + i = Turns(l) + (i + 1)
          BY <1>1, <4>2
        <5> QED BY <4>5, <5>1
      <4>10. \A i \in 1..Len(pending'[m]) : arrived[m][Turns(m)' + i] = pending'[m][i]
        <5> TAKE i \in 1..Len(pending'[m])
        <5>1. i \in 1..(Len(pending[l]) - 1) /\ pending'[m][i] = pending[l][i + 1]
          BY <2>3, <2>4, <3>1
        <5>2. arrived[l][Turns(l) + 1 + i] = pending[l][i + 1]  BY <4>9, <5>1
        <5> QED BY <3>1, <4>1, <5>1, <5>2
      <4>11. \A i \in 1..Len(started[m]) : started[m][i] = arrived[m][i]
        BY DEF OrderOK
      <4>12. \A q \in Request : via[q] = m /\ stage'[q] = "woken" =>
               Len(started[m]) = Turns(m)' - 1 /\ arrived[m][Turns(m)'] = q
        BY <3>1, <4>1, <4>2, <4>4, <4>6, <4>8
      <4>13. Turns(m)' >= 0  BY <4>1, <4>2
      <4> QED BY <2>2, <3>1, <4>7, <4>10, <4>11, <4>12, <4>13
    <3>2. CASE m # l
      <4>1. Turns(m)' = Turns(m)  BY <2>4, <3>2 DEF Turns, order
      <4>2. \A q \in Request : via[q] = m => (stage'[q] = "woken" <=> stage[q] = "woken")
        BY <2>1, <2>2, <3>2 DEF l
      <4> QED BY <2>4, <3>2, <4>1, <4>2 DEF OrderOK
    <3> QED BY <3>1, <3>2
  <2>8. /\ stage' \in [Request -> {"new", "routing", "queued", "woken", "active", "over"}]
        /\ busy' \in [Listener -> BOOLEAN]
    BY <2>1 DEF ProxyTypeOK
  <2>9. \A q \in Request : stage[q] = "new" => stage'[q] = "new"
    BY <2>1, <2>2
  <2> QED BY <2>4, <2>6, <2>7, <2>8, <2>9
<1> QED BY <1>2, <1>3

(* A request gets the turn, or its place at the end of the queue. *)
LEMMA EnqueueOK ==
  ASSUME ProxyTypeOK, TurnsOK, OrderOK, NEW r \in Request, Enqueue(r)
  PROVE  /\ TurnsOK' /\ OrderOK'
         /\ stage' \in [Request -> {"new", "routing", "queued", "woken", "active", "over"}]
         /\ busy' \in [Listener -> BOOLEAN]
         /\ pending' \in [Listener -> Seq(Request)]
         /\ arrived' \in [Listener -> Seq(Request)]
         /\ \A q \in Request : stage[q] = "new" => stage'[q] = "new"
<1>0. PICK l \in Listener : l = via[r]  BY DEF ProxyTypeOK
<1>1. /\ l \in Listener /\ pending[l] \in Seq(Request) /\ arrived[l] \in Seq(Request)
      /\ stage[r] = "routing" /\ started' = started /\ via' = via
      /\ arrived' = [arrived EXCEPT ![l] = Append(arrived[l], r)]
  BY <1>0 DEF Enqueue, ProxyTypeOK
<1>2. /\ arrived' \in [Listener -> Seq(Request)]
      /\ arrived'[l] = Append(arrived[l], r)
      /\ \A m \in Listener : m # l => arrived'[m] = arrived[m]
  BY <1>1 DEF ProxyTypeOK
<1>3. /\ Len(arrived[l]) \in Nat /\ Len(pending[l]) \in Nat
      /\ Len(arrived'[l]) = Len(arrived[l]) + 1
      /\ arrived'[l][Len(arrived[l]) + 1] = r
      /\ \A i \in 1..Len(arrived[l]) : arrived'[l][i] = arrived[l][i]
  BY <1>1, <1>2
<1>4. PICK a \in Nat, b \in Nat, t \in Nat, s \in Nat :
        a = Len(arrived[l]) /\ b = Len(pending[l]) /\ t = Turns(l) /\ s = Len(started[l])
  <2>1. Turns(l) \in Nat  BY <1>1 DEF OrderOK, Turns, ProxyTypeOK
  <2>2. Len(started[l]) \in Nat  BY <1>1 DEF ProxyTypeOK
  <2> QED BY <1>3, <2>1, <2>2
<1>5. t = a - b /\ s <= t /\ s <= a
  <2>1. t = a - b  BY <1>4 DEF Turns
  <2>2. CASE \A q \in Request : via[q] = l => stage[q] # "woken"
    <3>1. Len(started[l]) = Turns(l)  BY <1>1, <2>2 DEF OrderOK
    <3>2. s = t  BY <1>4, <3>1
    <3> QED BY <2>1, <3>2
  <2>3. CASE \E q \in Request : via[q] = l /\ stage[q] = "woken"
    <3>1. Len(started[l]) = Turns(l) - 1  BY <1>1, <2>3 DEF OrderOK
    <3>2. s = t - 1  BY <1>4, <3>1
    <3> QED BY <2>1, <3>2
  <2> QED BY <2>2, <2>3
<1>6. \A i \in 1..s : started[l][i] = arrived'[l][i]
  <2> TAKE i \in 1..s
  <2>1. i \in 1..a  BY <1>5
  <2>2. arrived'[l][i] = arrived[l][i]  BY <1>3, <1>4, <2>1
  <2>3. started[l][i] = arrived[l][i]  BY <1>1, <1>4 DEF OrderOK
  <2> QED BY <2>2, <2>3
<1>7. \A m \in Listener : \A i \in 1..Len(pending[m]) :
         pending[m][i] \in Request /\ pending[m][i] # r /\ stage[pending[m][i]] = "queued"
  <2> TAKE m \in Listener
  <2> TAKE i \in 1..Len(pending[m])
  <2>1. stage[pending[m][i]] = "queued"  BY DEF TurnsOK
  <2>2. pending[m][i] \in Request  BY DEF ProxyTypeOK
  <2> QED BY <1>1, <2>1, <2>2
<1>8. CASE busy[l]
  <2>1. /\ stage' = [stage EXCEPT ![r] = "queued"] /\ busy' = busy
        /\ pending' = [pending EXCEPT ![l] = Append(pending[l], r)]
    BY <1>0, <1>8 DEF Enqueue
  <2>2. /\ pending' \in [Listener -> Seq(Request)]
        /\ pending'[l] = Append(pending[l], r)
        /\ \A m \in Listener : m # l => pending'[m] = pending[m]
    BY <1>1, <2>1 DEF ProxyTypeOK
  <2>3. /\ Len(pending'[l]) = Len(pending[l]) + 1 /\ pending'[l][Len(pending[l]) + 1] = r
        /\ \A i \in 1..Len(pending[l]) : pending'[l][i] = pending[l][i]
    BY <1>1, <2>2
  <2>4. \A q \in Request : (stage'[q] \in {"woken", "active"} <=> stage[q] \in {"woken", "active"})
                           /\ (stage'[q] = "woken" <=> stage[q] = "woken")
                           /\ (stage[q] = "queued" => stage'[q] = "queued")
    BY <1>1, <2>1 DEF ProxyTypeOK
  <2>5. \A m \in Listener : Through(m)' = Through(m)
    BY <1>1, <2>4 DEF Through
  <2>6. \A m \in Listener : Turns(m)' = Turns(m)
    <3> TAKE m \in Listener
    <3>1. CASE m = l
      <4>1. Turns(l)' = Len(arrived'[l]) - Len(pending'[l])  BY DEF Turns
      <4>2. Turns(l)' = (a + 1) - (b + 1)  BY <1>3, <1>4, <2>3, <4>1
      <4>3. (a + 1) - (b + 1) = t  BY <1>5
      <4> QED BY <1>4, <3>1, <4>2, <4>3
    <3>2. CASE m # l  BY <1>2, <2>2, <3>2 DEF Turns
    <3> QED BY <3>1, <3>2
  <2>7. TurnsOK'
    <3> SUFFICES ASSUME NEW m \in Listener
                 PROVE /\ ~busy[m] => pending'[m] = <<>>
                       /\ \A i \in 1..Len(pending'[m]) :
                            stage'[pending'[m][i]] = "queued" /\ via[pending'[m][i]] = m
                       /\ \A i, j \in 1..Len(pending'[m]) : pending'[m][i] = pending'[m][j] => i = j
      BY <1>1, <2>1, <2>5 DEF TurnsOK
    <3>1. CASE m = l
      <4>1. stage'[r] = "queued" /\ via[r] = l  BY <1>0, <2>1 DEF ProxyTypeOK
      <4>2. \A i \in 1..Len(pending'[l]) : i \in 1..Len(pending[l]) \/ i = Len(pending[l]) + 1
        BY <1>3, <2>3
      <4>3. \A i \in 1..Len(pending'[l]) : stage'[pending'[l][i]] = "queued" /\ via[pending'[l][i]] = l
        <5> TAKE i \in 1..Len(pending'[l])
        <5>1. CASE i \in 1..Len(pending[l])
          <6>1. stage[pending[l][i]] = "queued" /\ via[pending[l][i]] = l  BY <1>1, <5>1 DEF TurnsOK
          <6>2. pending'[l][i] = pending[l][i] /\ pending[l][i] \in Request  BY <1>1, <1>7, <2>3, <5>1
          <6> QED BY <2>4, <6>1, <6>2
        <5>2. CASE i = Len(pending[l]) + 1  BY <2>3, <4>1, <5>2
        <5> QED BY <4>2, <5>1, <5>2
      <4>4. \A i, j \in 1..Len(pending'[l]) : pending'[l][i] = pending'[l][j] => i = j
        <5> TAKE i, j \in 1..Len(pending'[l])
        <5>1. \A k, n \in 1..Len(pending[l]) : pending[l][k] = pending[l][n] => k = n
          BY <1>1 DEF TurnsOK
        <5>2. \A k \in 1..Len(pending[l]) : pending[l][k] # r  BY <1>1, <1>7
        <5> QED BY <2>3, <4>2, <5>1, <5>2
      <4> QED BY <1>8, <3>1, <4>3, <4>4
    <3>2. CASE m # l
      <4>1. \A i \in 1..Len(pending[m]) : stage'[pending[m][i]] = "queued"
        BY <1>7, <2>4
      <4>2. pending'[m] = pending[m]  BY <2>2, <3>2
      <4> QED BY <4>1, <4>2 DEF TurnsOK
    <3> QED BY <3>1, <3>2
  <2>8. OrderOK'
    <3>1. \A m \in Listener : \A i \in 1..Len(pending'[m]) : arrived'[m][Turns(m) + i] = pending'[m][i]
      <4> TAKE m \in Listener
      <4> TAKE i \in 1..Len(pending'[m])
      <4>1. CASE m = l /\ i \in 1..Len(pending[l])
        <5>0. i \in 1..b  BY <1>4, <4>1
        <5>1. t + i \in 1..a  BY <1>5, <5>0
        <5>2. arrived[l][t + i] = pending[l][i]  BY <1>1, <1>4, <4>1 DEF OrderOK
        <5> QED BY <1>3, <1>4, <2>3, <4>1, <5>1, <5>2
      <4>2. CASE m = l /\ i = Len(pending[l]) + 1
        <5>0. i = b + 1  BY <1>4, <4>2
        <5>1. t + i = a + 1  BY <1>5, <5>0
        <5> QED BY <1>3, <1>4, <2>3, <4>2, <5>1
      <4>3. CASE m # l
        <5>1. pending'[m] = pending[m] /\ arrived'[m] = arrived[m]  BY <1>2, <2>2, <4>3
        <5> QED BY <5>1 DEF OrderOK
      <4> QED BY <1>3, <2>3, <4>1, <4>2, <4>3
    <3>2. \A m \in Listener : \A i \in 1..Len(started[m]) : started[m][i] = arrived'[m][i]
      <4> TAKE m \in Listener
      <4>1. CASE m = l  BY <1>4, <1>6, <4>1
      <4>2. CASE m # l
        <5>1. arrived'[m] = arrived[m]  BY <1>2, <4>2
        <5> QED BY <5>1 DEF OrderOK
      <4> QED BY <4>1, <4>2
    <3>3. \A m \in Listener : \A q \in Request : via[q] = m /\ stage[q] = "woken" =>
             Len(started[m]) = Turns(m) - 1 /\ arrived'[m][Turns(m)] = q
      <4> TAKE m \in Listener
      <4> TAKE q \in Request
      <4> HAVE via[q] = m /\ stage[q] = "woken"
      <4>1. Len(started[m]) = Turns(m) - 1 /\ arrived[m][Turns(m)] = q  BY DEF OrderOK
      <4>2. CASE m = l
        <5>0. s = t - 1 /\ arrived[l][t] = q  BY <1>4, <4>1, <4>2
        <5>1. t \in 1..a  BY <1>5, <5>0
        <5>2. arrived'[l][t] = arrived[l][t]  BY <1>3, <1>4, <5>1
        <5> QED BY <1>4, <4>1, <4>2, <5>0, <5>2
      <4>3. CASE m # l  BY <1>2, <4>1, <4>3
      <4> QED BY <4>2, <4>3
    <3>4. \A m \in Listener : (\A q \in Request : via[q] = m => stage[q] # "woken")
                                => Len(started[m]) = Turns(m)
      BY DEF OrderOK
    <3>5. \A m \in Listener : Turns(m) >= 0  BY DEF OrderOK
    <3> SUFFICES ASSUME NEW m \in Listener
                 PROVE /\ Turns(m)' >= 0
                       /\ \A i \in 1..Len(pending'[m]) : arrived'[m][Turns(m)' + i] = pending'[m][i]
                       /\ \A i \in 1..Len(started'[m]) : started'[m][i] = arrived'[m][i]
                       /\ \A q \in Request : via'[q] = m /\ stage'[q] = "woken" =>
                            Len(started'[m]) = Turns(m)' - 1 /\ arrived'[m][Turns(m)'] = q
                       /\ (\A q \in Request : via'[q] = m => stage'[q] # "woken")
                            => Len(started'[m]) = Turns(m)'
      BY DEF OrderOK
    <3>6. Turns(m)' = Turns(m) /\ started' = started /\ via' = via  BY <1>1, <2>6
    <3> QED BY <2>4, <3>1, <3>2, <3>3, <3>4, <3>5, <3>6
  <2> QED BY <1>1, <1>2, <2>1, <2>2, <2>7, <2>8 DEF ProxyTypeOK
<1>9. CASE ~busy[l]
  <2>1. /\ stage' = [stage EXCEPT ![r] = "woken"] /\ pending' = pending
        /\ busy' = [busy EXCEPT ![l] = TRUE]
    BY <1>0, <1>9 DEF Enqueue
  <2>2. pending[l] = <<>> /\ Through(l) = {}  BY <1>1, <1>9 DEF TurnsOK
  <2>3. /\ \A q \in Request : q # r => stage'[q] = stage[q]
        /\ stage'[r] = "woken" /\ via[r] = l
    BY <1>0, <2>1 DEF ProxyTypeOK
  <2>4. \A m \in Listener : Through(m)' = IF m = l THEN {r} ELSE Through(m)
    BY <1>1, <2>2, <2>3 DEF Through
  <2>5. /\ Turns(l) = Len(arrived[l]) /\ Turns(l)' = Len(arrived[l]) + 1
        /\ \A m \in Listener : m # l => Turns(m)' = Turns(m)
    <3>1. b = 0 /\ t = a  BY <1>4, <1>5, <2>2
    <3>2. Turns(l)' = a + 1
      <4>1. Turns(l)' = Len(arrived'[l]) - Len(pending[l])  BY <2>1 DEF Turns
      <4>2. (a + 1) - b = a + 1  BY <3>1
      <4> QED BY <1>3, <1>4, <4>1, <4>2
    <3>3. \A m \in Listener : m # l => Turns(m)' = Turns(m)
      BY <1>2, <2>1 DEF Turns
    <3> QED BY <1>4, <3>1, <3>2, <3>3
  <2>6. TurnsOK'
    <3> SUFFICES ASSUME NEW m \in Listener
                 PROVE /\ \A p, q \in Through(m)' : p = q
                       /\ busy'[m] <=> Through(m)' # {}
                       /\ ~busy'[m] => pending[m] = <<>>
                       /\ \A i \in 1..Len(pending[m]) :
                            stage'[pending[m][i]] = "queued" /\ via[pending[m][i]] = m
                       /\ \A i, j \in 1..Len(pending[m]) : pending[m][i] = pending[m][j] => i = j
      BY <1>1, <2>1 DEF TurnsOK
    <3>1. busy'[m] = IF m = l THEN TRUE ELSE busy[m]  BY <2>1 DEF ProxyTypeOK
    <3>2. \A i \in 1..Len(pending[m]) : stage'[pending[m][i]] = "queued" /\ via[pending[m][i]] = m
      BY <1>7, <2>3 DEF TurnsOK
    <3>3. CASE m = l
      <4>1. \A i, j \in 1..Len(pending[m]) : pending[m][i] = pending[m][j] => i = j
        BY DEF TurnsOK
      <4> QED BY <2>2, <2>4, <3>1, <3>2, <3>3, <4>1
    <3>4. CASE m # l
      <4>1. Through(m)' = Through(m) /\ busy'[m] = busy[m]  BY <2>4, <3>1, <3>4
      <4> QED BY <3>2, <4>1 DEF TurnsOK
    <3> QED BY <3>3, <3>4
  <2>7. OrderOK'
    <3> SUFFICES ASSUME NEW m \in Listener
                 PROVE /\ Turns(m)' >= 0
                       /\ \A i \in 1..Len(pending[m]) : arrived'[m][Turns(m)' + i] = pending[m][i]
                       /\ \A i \in 1..Len(started[m]) : started[m][i] = arrived'[m][i]
                       /\ \A q \in Request : via[q] = m /\ stage'[q] = "woken" =>
                            Len(started[m]) = Turns(m)' - 1 /\ arrived'[m][Turns(m)'] = q
                       /\ (\A q \in Request : via[q] = m => stage'[q] # "woken")
                            => Len(started[m]) = Turns(m)'
      <4>1. pending' = pending /\ started' = started /\ via' = via  BY <1>1, <2>1
      <4> QED BY <4>1 DEF OrderOK
    <3>1. CASE m = l
      <4>1. \A q \in Request : via[q] = l => stage[q] # "woken"
        BY <2>2 DEF Through
      <4>2. Len(started[l]) = Len(arrived[l])  BY <1>1, <2>5, <4>1 DEF OrderOK
      <4>3. Len(pending[l]) = 0  BY <2>2
      <4>4. \A q \in Request : via[q] = l /\ stage'[q] = "woken" => q = r
        BY <2>3, <4>1
      <4>5. s = a /\ Turns(l)' = a + 1 /\ arrived'[l][a + 1] = r
        BY <1>3, <1>4, <2>5, <4>2
      <4>6. \A i \in 1..Len(pending[l]) : FALSE  BY <4>3
      <4> QED BY <1>4, <1>6, <2>3, <3>1, <4>4, <4>5, <4>6
    <3>2. CASE m # l
      <4>1. \A q \in Request : via[q] = m => (stage'[q] = "woken" <=> stage[q] = "woken")
        BY <2>3, <3>2
      <4>2. Turns(m)' = Turns(m) /\ arrived'[m] = arrived[m]  BY <1>2, <2>5, <3>2
      <4> QED BY <4>1, <4>2 DEF OrderOK
    <3> QED BY <3>1, <3>2
  <2> QED BY <1>1, <1>2, <2>1, <2>6, <2>7 DEF ProxyTypeOK
<1> QED BY <1>8, <1>9 DEF ProxyTypeOK, Listener

(* A woken request is the next one of the order. *)
LEMMA StartOK ==
  ASSUME ProxyTypeOK, TurnsOK, OrderOK, NEW r \in Request, Start(r)
  PROVE  /\ TurnsOK' /\ OrderOK'
         /\ stage' \in [Request -> {"new", "routing", "queued", "woken", "active", "over"}]
         /\ started' \in [Listener -> Seq(Request)]
         /\ \A q \in Request : stage[q] = "new" => stage'[q] = "new"
<1>0. PICK l \in Listener : l = via[r]  BY DEF ProxyTypeOK
<1>1. /\ l \in Listener /\ started[l] \in Seq(Request) /\ arrived[l] \in Seq(Request)
      /\ stage[r] = "woken" /\ UNCHANGED <<via, busy, pending, arrived>>
      /\ started' = [started EXCEPT ![l] = Append(started[l], r)]
      /\ stage' = [stage EXCEPT ![r] = "active"]
  BY <1>0 DEF Start, ProxyTypeOK, queues
<1>2. /\ started' \in [Listener -> Seq(Request)]
      /\ started'[l] = Append(started[l], r)
      /\ \A m \in Listener : m # l => started'[m] = started[m]
      /\ \A q \in Request : q # r => stage'[q] = stage[q]
      /\ stage'[r] = "active" /\ via[r] = l
      /\ stage' \in [Request -> {"new", "routing", "queued", "woken", "active", "over"}]
  BY <1>0, <1>1 DEF ProxyTypeOK
<1>3. \A m \in Listener : Through(m)' = Through(m) /\ Turns(m)' = Turns(m)
  BY <1>1, <1>2 DEF Through, Turns
<1>4. TurnsOK'
  <2>1. \A m \in Listener : \A i \in 1..Len(pending[m]) :
          stage'[pending[m][i]] = "queued" /\ via[pending[m][i]] = m
    BY <1>1, <1>2 DEF TurnsOK, ProxyTypeOK
  <2> QED BY <1>1, <1>3, <2>1 DEF TurnsOK
<1>5. OrderOK'
  <2> SUFFICES ASSUME NEW m \in Listener
               PROVE /\ Turns(m) >= 0
                     /\ \A i \in 1..Len(pending[m]) : arrived[m][Turns(m) + i] = pending[m][i]
                     /\ \A i \in 1..Len(started'[m]) : started'[m][i] = arrived[m][i]
                     /\ \A q \in Request : via[q] = m /\ stage'[q] = "woken" =>
                          Len(started'[m]) = Turns(m) - 1 /\ arrived[m][Turns(m)] = q
                     /\ (\A q \in Request : via[q] = m => stage'[q] # "woken")
                          => Len(started'[m]) = Turns(m)
    BY <1>1, <1>3 DEF OrderOK
  <2>1. CASE m = l
    <3>1. Len(started[l]) = Turns(l) - 1 /\ arrived[l][Turns(l)] = r
      BY <1>1, <1>2 DEF OrderOK
    <3>2. Turns(l) \in Int /\ Len(started[l]) \in Nat
      BY <1>1 DEF Turns, ProxyTypeOK
    <3>3. /\ Len(started'[l]) = Len(started[l]) + 1 /\ started'[l][Len(started[l]) + 1] = r
          /\ \A i \in 1..Len(started[l]) : started'[l][i] = started[l][i]
      BY <1>1, <1>2
    <3>4. Len(started'[l]) = Turns(l) /\ started'[l][Turns(l)] = r
      BY <3>1, <3>2, <3>3
    <3>5. \A i \in 1..Len(started'[l]) : started'[l][i] = arrived[l][i]
      <4> TAKE i \in 1..Len(started'[l])
      <4>1. i \in 1..Len(started[l]) \/ i = Turns(l)  BY <3>1, <3>2, <3>4
      <4> QED BY <1>1, <3>1, <3>3, <3>4, <4>1 DEF OrderOK
    <3>6. \A q \in Request : via[q] = l => stage'[q] # "woken"
      BY <1>1, <1>2 DEF TurnsOK, Through
    <3> QED BY <2>1, <3>4, <3>5, <3>6 DEF OrderOK
  <2>2. CASE m # l
    <3>1. started'[m] = started[m]  BY <1>2, <2>2
    <3>2. \A q \in Request : via[q] = m => (stage'[q] = "woken" <=> stage[q] = "woken")
      BY <1>2, <2>2
    <3> QED BY <3>1, <3>2 DEF OrderOK
  <2> QED BY <2>1, <2>2
<1>6. \A q \in Request : stage[q] = "new" => stage'[q] = "new"
  BY <1>1, <1>2
<1> QED BY <1>2, <1>4, <1>5, <1>6

LEMMA ProxyStepOK == ASSUME ProxyInv, [ProxyNext]_proxyVars PROVE ProxyInv'
<1> USE DEF ProxyInv
<1>1. ASSUME NEW r \in Request, Arrive(r) PROVE ProxyInv'
  <2>1. TurnsOK' /\ OrderOK'  BY <1>1, QueuesKept DEF Arrive
  <2>2. ProxyTypeOK'  BY <1>1 DEF Arrive, ProxyTypeOK, queues, order, servers
  <2>3. ClosedIsEmpty'
    <3>1. \A l \in Listener : l # via[r] => Connected(l)' \subseteq Connected(l)
      BY <1>1 DEF Arrive, Connected, ProxyTypeOK
    <3> QED BY <1>1, <3>1 DEF Arrive, ClosedIsEmpty, ProxyTypeOK, servers
  <2> QED BY <2>1, <2>2, <2>3
<1>2. ASSUME NEW r \in Request, Handle(r) PROVE ProxyInv'
  <2>1. TurnsOK' /\ OrderOK'  BY <1>2, QueuesKept DEF Handle
  <2>2. ProxyTypeOK'  BY <1>2 DEF Handle, ProxyTypeOK, queues, order, servers
  <2>3. ClosedIsEmpty'  BY <1>2, ClosedKept DEF Handle, ProxyTypeOK, servers
  <2> QED BY <2>1, <2>2, <2>3
<1>3. ASSUME NEW r \in Request, Enqueue(r) PROVE ProxyInv'
  <2>1. TurnsOK' /\ OrderOK'  BY <1>3, EnqueueOK
  <2>2. ProxyTypeOK'  BY <1>3, EnqueueOK DEF Enqueue, ProxyTypeOK, servers
  <2>3. ClosedIsEmpty'  BY <1>3, EnqueueOK, ClosedKept DEF Enqueue, servers
  <2> QED BY <2>1, <2>2, <2>3
<1>4. ASSUME NEW r \in Request, Start(r) PROVE ProxyInv'
  <2>1. TurnsOK' /\ OrderOK'  BY <1>4, StartOK
  <2>2. ProxyTypeOK'
    <3>1. upstream' \in [Request -> {"none", "sent", "unsent", "ended"}]
      BY <1>4 DEF Start, ProxyTypeOK
    <3> QED BY <1>4, <3>1, StartOK DEF Start, ProxyTypeOK, servers, queues
  <2>3. ClosedIsEmpty'  BY <1>4, StartOK, ClosedKept DEF Start, servers
  <2> QED BY <2>1, <2>2, <2>3
<1>5. ASSUME NEW r \in Request, Answer(r) \/ CloseUnsent(r) PROVE ProxyInv'
  <2>1. /\ stage[r] = "active" /\ PassOn(r) /\ UNCHANGED <<via, order, servers>>
        /\ upstream' = [upstream EXCEPT ![r] = "ended"]
        /\ client' = client \/ client' = [client EXCEPT ![r] = "answered"]
    BY <1>5 DEF Answer, CloseUnsent
  <2>2. TurnsOK' /\ OrderOK'  BY <2>1, PassOnOK
  <2>3. ProxyTypeOK'  BY <2>1, PassOnOK DEF ProxyTypeOK, order, servers
  <2>4. ClosedIsEmpty'  BY <2>1, PassOnOK, ClosedKept DEF ProxyTypeOK, servers
  <2> QED BY <2>2, <2>3, <2>4
<1>6. ASSUME NEW r \in Request, Leave(r) PROVE ProxyInv'
  <2>1. UNCHANGED <<via, order, servers>> /\ client' = [client EXCEPT ![r] = "gone"]
    BY <1>6 DEF Leave
  <2>2. \A q \in Request : client'[q] = "here" => client[q] = "here"
    BY <2>1 DEF ProxyTypeOK
  <2>3. CASE stage[r] = "active" /\ upstream' = [upstream EXCEPT ![r] = "ended"] /\ PassOn(r)
    <3>1. TurnsOK' /\ OrderOK'  BY <2>1, <2>3, PassOnOK
    <3>2. ProxyTypeOK'  BY <2>1, <2>3, PassOnOK DEF ProxyTypeOK, order, servers
    <3>3. ClosedIsEmpty'  BY <2>1, <2>2, <2>3, PassOnOK, ClosedKept DEF servers
    <3> QED BY <3>1, <3>2, <3>3
  <2>4. CASE UNCHANGED <<stage, upstream, queues>>
    <3>1. TurnsOK' /\ OrderOK'  BY <2>1, <2>4, QueuesAlone
    <3>2. ProxyTypeOK'  BY <2>1, <2>4 DEF ProxyTypeOK, queues, order, servers
    <3>3. ClosedIsEmpty'  BY <2>1, <2>2, <2>4, ClosedKept DEF servers
    <3> QED BY <3>1, <3>2, <3>3
  <2> QED BY <1>6, <2>3, <2>4 DEF Leave
<1>7. ASSUME DisposeProxy \/ ListenerClosed \/ DisposeServer PROVE ProxyInv'
  <2>1. UNCHANGED <<stage, via, client, upstream, queues, order>>
    BY <1>7 DEF DisposeProxy, ListenerClosed, DisposeServer
  <2>2. TurnsOK' /\ OrderOK'  BY <2>1, QueuesAlone
  <2>3. listener' \in [Listener -> {"absent", "open", "closing", "closed"}] /\ server' \in {"up", "disposed"}
    <3>1. CASE DisposeProxy  BY <3>1 DEF DisposeProxy, ProxyTypeOK
    <3>2. CASE ListenerClosed
      <4>1. server' = server  BY <3>2 DEF ListenerClosed
      <4>2. CASE listener' = [l \in Listener |->
                                IF l = "v4" THEN "closed"
                                ELSE IF listener[l] = "open" THEN "closing" ELSE listener[l]]
        BY <4>1, <4>2 DEF ProxyTypeOK
      <4>3. CASE listener' = [listener EXCEPT !["v6"] = "closed"]
        BY <4>1, <4>3 DEF ProxyTypeOK
      <4> QED BY <3>2, <4>2, <4>3 DEF ListenerClosed
    <3>3. CASE DisposeServer  BY <3>3 DEF DisposeServer, ProxyTypeOK
    <3> QED BY <1>7, <3>1, <3>2, <3>3
  <2>4. ProxyTypeOK'  BY <2>1, <2>3 DEF ProxyTypeOK, queues, order
  <2>5. \A l \in Listener : Connected(l)' = Connected(l)  BY <2>1 DEF Connected
  <2>6. ClosedIsEmpty'
    <3>1. CASE DisposeProxy
      BY <2>5, <3>1 DEF DisposeProxy, ClosedIsEmpty, ProxyTypeOK, Listener
    <3>2. CASE ListenerClosed
      BY <2>5, <3>2 DEF ListenerClosed, ClosedIsEmpty, ProxyTypeOK, Listener
    <3>3. CASE DisposeServer
      BY <2>5, <3>3 DEF DisposeServer, ClosedIsEmpty, Listener
    <3> QED BY <1>7, <3>1, <3>2, <3>3
  <2> QED BY <2>2, <2>4, <2>6
<1>8. CASE UNCHANGED proxyVars
  <2>1. UNCHANGED <<stage, via, client, upstream, queues, order, servers>>
    BY <1>8 DEF proxyVars, queues, order, servers
  <2>2. TurnsOK' /\ OrderOK'  BY <2>1, QueuesAlone
  <2>3. ProxyTypeOK'  BY <2>1 DEF ProxyTypeOK, queues, order, servers
  <2>4. ClosedIsEmpty'  BY <2>1, ClosedKept DEF servers
  <2> QED BY <2>2, <2>3, <2>4
<1> QED BY <1>1, <1>2, <1>3, <1>4, <1>5, <1>6, <1>7, <1>8 DEF ProxyNext, Disposing

(* The inductive invariant of the proxy. *)
THEOREM ProxyInvariant == ProxySpec => []ProxyInv
<1> QED BY ProxyInitOK, ProxyStepOK, PTL DEF ProxySpec

(* Every value of the proxy's variables is of its type. *)
THEOREM ProxyTyped == ProxySpec => []ProxyTypeOK
<1>1. ProxyInv => ProxyTypeOK  BY DEF ProxyInv
<1> QED BY ProxyInvariant, <1>1, PTL

(* For any number of requests, leaving clients and any disposal: one       *)
(* request at a time through each listener, no wake-up lost, in the order  *)
(* of arrival.                                                             *)
THEOREM QueueIsFair == ProxySpec => []OneAtATimeInOrder
<1>1. ProxyInv => OneAtATimeInOrder
  <2> SUFFICES ASSUME ProxyTypeOK, TurnsOK, OrderOK, NEW l \in Listener
               PROVE  /\ \A q, r \in Through(l) : q = r
                      /\ pending[l] # <<>> => Through(l) # {}
                      /\ Len(started[l]) =< Len(arrived[l])
                      /\ started[l] = SubSeq(arrived[l], 1, Len(started[l]))
    BY DEF ProxyInv, OneAtATimeInOrder
  <2>1. /\ \A q, r \in Through(l) : q = r
        /\ pending[l] # <<>> => Through(l) # {}
    BY DEF ProxyTypeOK, TurnsOK
  <2>2. /\ arrived[l] \in Seq(Request) /\ started[l] \in Seq(Request)
        /\ Len(pending[l]) \in Nat
    BY DEF ProxyTypeOK
  <2>3. PICK a \in Nat, b \in Nat, s \in Nat :
          a = Len(arrived[l]) /\ b = Len(pending[l]) /\ s = Len(started[l])
    BY <2>2
  <2>4. s <= a
    <3>1. Turns(l) = a - b  BY <2>3 DEF Turns
    <3>2. CASE \A r \in Request : via[r] = l => stage[r] # "woken"
      <4>1. s = Turns(l)  BY <2>3, <3>2 DEF OrderOK
      <4> QED BY <3>1, <4>1
    <3>3. CASE \E r \in Request : via[r] = l /\ stage[r] = "woken"
      <4>1. s = Turns(l) - 1  BY <2>3, <3>3 DEF OrderOK
      <4> QED BY <3>1, <4>1
    <3> QED BY <3>2, <3>3
  <2>5. started[l] = SubSeq(arrived[l], 1, s)
    <3>1. \A i \in 1..s : started[l][i] = arrived[l][i]  BY <2>3 DEF OrderOK
    <3>2. /\ SubSeq(arrived[l], 1, s) \in Seq(Request)
          /\ Len(SubSeq(arrived[l], 1, s)) = s
          /\ \A i \in 1..s : SubSeq(arrived[l], 1, s)[i] = arrived[l][i]
      BY <2>2, <2>3, <2>4, SubSeqProperties
    <3> QED BY <2>2, <2>3, <3>1, <3>2, SeqEqual
  <2> QED BY <2>1, <2>3, <2>4, <2>5
<1> QED BY ProxyInvariant, <1>1, PTL

(* For any number of clients: a server that is disposed has none left. *)
THEOREM DisposedLast == ProxySpec => []ServerOutlivesClients
<1>1. ProxyInv => ServerOutlivesClients
  BY DEF ProxyInv, ClosedIsEmpty, ServerOutlivesClients
<1> QED BY ProxyInvariant, <1>1, PTL

-----------------------------------------------------------------------------
(***************************************************************************)
(* The case minimizer.  Every candidate leaves something out of what is    *)
(* kept, so no later replay overwrites the verdict on what is kept; and a  *)
(* pass that removes one step at a time and comes to its end has tried     *)
(* each of them on exactly what is kept.                                   *)
(***************************************************************************)
Increasing(s) == \A i, j \in 1..Len(s) : i < j => s[i] < s[j]

MinimizerTypeOK ==
  /\ steps \in 0..MaxSteps /\ failed \in BOOLEAN
  /\ kept \in Seq(1..steps)
  /\ chunk \in Nat /\ start \in Nat
  /\ verdict \in [SUBSET (1..MaxSteps) -> {"untried", "preserved", "lost"}]
  /\ reached \in {"none", "blocked", "reduced", "unchanged"}

Spared(i) == verdict[Indices(kept) \ {kept[i]}] = "lost"

(* What is kept is in order and fails; the steps before `start` were tried *)
(* one by one, and all of them once the chunk is spent.                    *)
KeptFails == Len(kept) = steps \/ verdict[Indices(kept)] = "preserved"
EachTried ==
  /\ chunk = 1 => \A i \in 1..Len(kept) : i =< start => Spared(i)
  /\ chunk = 0 /\ Len(kept) > 1 => \A i \in 1..Len(kept) : Spared(i)
EndsSpent == reached \in {"reduced", "unchanged"} => chunk = 0

MinimizerInv == /\ MinimizerTypeOK /\ Increasing(kept)
                /\ KeptFails /\ EachTried /\ EndsSpent

(* Cutting the places a+1..b out of a sequence. *)
Cut(s, a, b) == SubSeq(s, 1, a) \o SubSeq(s, b + 1, Len(s))

LEMMA CutOut ==
  ASSUME NEW S, NEW s \in Seq(S), NEW a \in Nat, NEW b \in Nat, a =< b, b =< Len(s)
  PROVE  /\ Cut(s, a, b) \in Seq(S) /\ Len(Cut(s, a, b)) = a + (Len(s) - b)
         /\ \A i \in 1..Len(Cut(s, a, b)) :
              Cut(s, a, b)[i] = IF i =< a THEN s[i] ELSE s[i - a + b]
<1> DEFINE x == SubSeq(s, 1, a)
           y == SubSeq(s, b + 1, Len(s))
<1>0. PICK n \in Nat : n = Len(s)
  BY LenProperties
<1>1. x \in Seq(S) /\ Len(x) = a /\ \A i \in 1..a : x[i] = s[i]
  <2>1. \A i \in 1..a : s[i] \in S
    BY <1>0, ElementOfSeq
  <2>2. /\ x \in Seq(S)
        /\ Len(x) = IF 1 =< a THEN a - 1 + 1 ELSE 0
        /\ \A i \in 1..(a - 1 + 1) : x[i] = s[1 + i - 1]
    BY <2>1, SubSeqProperties
  <2>3. a - 1 + 1 = a /\ \A i \in 1..a : 1 + i - 1 = i
    OBVIOUS
  <2> QED BY <2>2, <2>3
<1>2. /\ y \in Seq(S) /\ Len(y) = n - b
      /\ \A i \in 1..(n - b) : y[i] = s[b + i]
  <2>1. \A i \in (b + 1)..n : s[i] \in S
    BY <1>0, ElementOfSeq
  <2>2. /\ y \in Seq(S)
        /\ Len(y) = IF b + 1 =< n THEN n - (b + 1) + 1 ELSE 0
        /\ \A i \in 1..(n - (b + 1) + 1) : y[i] = s[b + 1 + i - 1]
    BY <1>0, <2>1, SubSeqProperties
  <2>3. n - (b + 1) + 1 = n - b /\ \A i \in Nat : b + 1 + i - 1 = b + i
    OBVIOUS
  <2>4. b =< n
    BY <1>0
  <2> HIDE DEF y
  <2>5. Len(y) = n - b
    <3>1. CASE b + 1 =< n
      BY <2>2, <2>3, <3>1
    <3>2. CASE ~(b + 1 =< n)
      <4>1. n - b = 0
        BY <2>4, <3>2
      <4> QED BY <2>2, <3>2, <4>1
    <3> QED BY <3>1, <3>2
  <2>6. ASSUME NEW i \in 1..(n - b) PROVE y[i] = s[b + i]
    BY <2>2, <2>3
  <2> QED BY <2>2, <2>5, <2>6
<1> DEFINE c == x \o y
<1>3. /\ c \in Seq(S) /\ Len(c) = a + (n - b)
      /\ \A i \in 1..(a + (n - b)) : c[i] = IF i =< a THEN x[i] ELSE y[i - a]
  <2> HIDE DEF x, y
  <2>1. /\ x \o y \in Seq(S) /\ Len(x \o y) = Len(x) + Len(y)
        /\ \A i \in 1..(Len(x) + Len(y)) :
             (x \o y)[i] = IF i =< Len(x) THEN x[i] ELSE y[i - Len(x)]
    BY <1>1, <1>2, ConcatProperties
  <2>2. Len(x) = a /\ Len(y) = n - b
    BY <1>1, <1>2
  <2> QED BY <2>1, <2>2
<1>4. ASSUME NEW i \in 1..(a + (n - b))
      PROVE  c[i] = IF i =< a THEN s[i] ELSE s[i - a + b]
  <2> HIDE DEF x, y, c
  <2>1. CASE i =< a
    BY <1>1, <1>3, <2>1
  <2>2. CASE ~(i =< a)
    <3>1. i - a \in 1..(n - b) /\ b + (i - a) = i - a + b
      BY <2>2, <1>0
    <3>2. c[i] = y[i - a] /\ y[i - a] = s[b + (i - a)]
      BY <1>2, <1>3, <2>2, <3>1
    <3> QED BY <2>2, <3>1, <3>2
  <2> QED BY <2>1, <2>2
<1>5. /\ c \in Seq(S) /\ Len(c) = a + (Len(s) - b)
      /\ \A i \in 1..Len(c) : c[i] = IF i =< a THEN s[i] ELSE s[i - a + b]
  <2> HIDE DEF c
  <2> QED BY <1>0, <1>3, <1>4
<1> QED BY <1>5 DEF Cut

(* A candidate is what is kept without the places start+1..b; it is in     *)
(* order, and what it leaves out it does not hold.                         *)
LEMMA CandidateOK ==
  ASSUME MinimizerTypeOK, Increasing(kept), start < Len(kept), chunk >= 1
  PROVE  /\ Candidate \in Seq(1..steps) /\ Increasing(Candidate)
         /\ Indices(Candidate) \subseteq Indices(kept)
         /\ kept[start + 1] \in Indices(kept) \ Indices(Candidate)
         /\ chunk = 1 => Indices(Candidate) = Indices(kept) \ {kept[start + 1]}
         /\ chunk = 1 /\ Len(kept) > 1 => Candidate # <<>>
<1> DEFINE c == Candidate
<1>1. PICK n \in Nat : n = Len(kept)
  BY LenProperties DEF MinimizerTypeOK
<1>2. PICK a \in Nat : a = start
  BY DEF MinimizerTypeOK
<1>0. PICK k \in Nat : k = chunk
  BY DEF MinimizerTypeOK
<1>a. a < n /\ k >= 1
  BY <1>0, <1>1, <1>2
<1>3. PICK b \in Nat : b = AtMost(n, a + k)
  BY DEF AtMost
<1>4. a < b /\ b =< n /\ (chunk = 1 => b = a + 1)
  <2>1. a < b /\ b =< n /\ (k = 1 => b = a + 1)
    BY <1>3, <1>a DEF AtMost
  <2> QED BY <1>0, <2>1
<1>5. /\ c \in Seq(1..steps) /\ Len(c) = a + (n - b)
      /\ \A i \in 1..(a + (n - b)) : c[i] = IF i =< a THEN kept[i] ELSE kept[i - a + b]
  <2>1. Candidate = Cut(kept, a, b)
    BY <1>0, <1>1, <1>2, <1>3 DEF Candidate, Cut
  <2>2. kept \in Seq(1..steps) /\ a =< b /\ b =< Len(kept)
    BY <1>1, <1>4 DEF MinimizerTypeOK
  <2>3. /\ Cut(kept, a, b) \in Seq(1..steps) /\ Len(Cut(kept, a, b)) = a + (Len(kept) - b)
        /\ \A i \in 1..Len(Cut(kept, a, b)) :
             Cut(kept, a, b)[i] = IF i =< a THEN kept[i] ELSE kept[i - a + b]
    BY <2>2, CutOut
  <2>4. /\ c \in Seq(1..steps) /\ Len(c) = a + (Len(kept) - b)
        /\ \A i \in 1..Len(c) : c[i] = IF i =< a THEN kept[i] ELSE kept[i - a + b]
    BY <2>1, <2>3
  <2> QED BY <1>1, <2>4
<1>6. PICK m \in Nat : m = a + (n - b) /\ m = Len(c)
  BY <1>4, <1>5
<1> HIDE DEF c
(* Where the i-th element of the candidate comes from. *)
<1> DEFINE from(i) == IF i =< a THEN i ELSE i - a + b
<1>7. \A i \in 1..m : from(i) \in 1..n /\ c[i] = kept[from(i)] /\ from(i) \notin (a + 1)..b
  <2> TAKE i \in 1..m
  <2>1. CASE i =< a
    BY <1>4, <1>5, <1>6, <2>1
  <2>2. CASE ~(i =< a)
    <3>1. i - a + b \in 1..n /\ i - a + b > b
      BY <1>4, <1>6, <2>2
    <3> QED BY <1>5, <1>6, <2>2, <3>1
  <2> QED BY <2>1, <2>2
<1>8. \A i, j \in 1..m : i < j => from(i) < from(j)
  BY <1>4, <1>6
<1>9. \A i, j \in 1..n : i < j => kept[i] < kept[j]
  BY <1>1 DEF Increasing
<1>10. \A i \in 1..n : kept[i] \in 1..steps
  BY <1>1, ElementOfSeq DEF MinimizerTypeOK
<1> HIDE DEF from
<1>11. Increasing(c)
  <2>1. \A i, j \in 1..m : i < j => c[i] < c[j]
    BY <1>7, <1>8, <1>9
  <2> QED BY <1>6, <2>1 DEF Increasing
<1>12. \A i, j \in 1..n : kept[i] = kept[j] => i = j
  <2>0. steps \in Nat
    BY StepsAssumption DEF MinimizerTypeOK
  <2> SUFFICES ASSUME NEW i \in 1..n, NEW j \in 1..n, kept[i] = kept[j] PROVE i = j
    OBVIOUS
  <2>1. ~(i < j) /\ ~(j < i)
    BY <1>9, <1>10, <2>0
  <2> QED BY <2>1
<1>13. Indices(c) = {c[i] : i \in 1..m} /\ Indices(kept) = {kept[i] : i \in 1..n}
  BY <1>1, <1>6 DEF Indices
<1>14. Indices(c) \subseteq Indices(kept)
  BY <1>7, <1>13
<1>15. a + 1 \in 1..n /\ a + 1 \in (a + 1)..b
  BY <1>4
<1>16. kept[a + 1] \in Indices(kept) \ Indices(c)
  BY <1>7, <1>12, <1>13, <1>15
<1>17. ASSUME chunk = 1 PROVE Indices(c) = Indices(kept) \ {kept[a + 1]}
  <2>1. ASSUME NEW j \in 1..n, j # a + 1 PROVE kept[j] \in Indices(c)
    <3>1. CASE j =< a
      <4>1. j \in 1..m /\ from(j) = j
        BY <1>4, <1>6, <3>1 DEF from
      <4> QED BY <1>7, <1>13, <4>1
    <3>2. CASE ~(j =< a)
      <4>1. j - 1 \in 1..m /\ from(j - 1) = j
        BY <1>4, <1>6, <1>17, <2>1, <3>2 DEF from
      <4> QED BY <1>7, <1>13, <4>1
    <3> QED BY <3>1, <3>2
  <2> QED BY <1>13, <1>14, <1>16, <2>1
<1>18. ASSUME chunk = 1, n > 1 PROVE c # <<>>
  <2>1. m = n - 1
    BY <1>0, <1>4, <1>6, <1>18
  <2>2. m # 0
    BY <1>18, <2>1
  <2>3. Len(<<>>) = 0
    OBVIOUS
  <2> QED BY <1>6, <2>2, <2>3
<1> QED BY <1>1, <1>2, <1>5, <1>11, <1>14, <1>16, <1>17, <1>18 DEF c

LEMMA MinimizerInitOK == MinimizerInit => MinimizerInv
<1> SUFFICES ASSUME MinimizerInit PROVE MinimizerInv  OBVIOUS
<1>0. steps \in Nat /\ steps \div 2 \in Nat
  BY StepsAssumption DEF MinimizerInit
<1>1. kept \in Seq(1..steps) /\ Len(kept) = steps /\ \A i \in 1..steps : kept[i] = i
  BY <1>0 DEF MinimizerInit
<1>2. chunk \in Nat /\ chunk >= 1
  BY <1>0 DEF MinimizerInit, AtLeast
<1>3. MinimizerTypeOK
  BY <1>1, <1>2 DEF MinimizerInit, MinimizerTypeOK
<1>4. Increasing(kept)
  BY <1>1 DEF Increasing
<1>5. KeptFails
  BY <1>1 DEF KeptFails
<1>6. EachTried /\ EndsSpent
  <2>1. start = 0 /\ reached = "none"
    BY DEF MinimizerInit
  <2> QED BY <1>0, <1>1, <1>2, <2>1 DEF EachTried, EndsSpent
<1> QED BY <1>3, <1>4, <1>5, <1>6 DEF MinimizerInv

(* A candidate that loses the failure is one more step tried, when the     *)
(* chunk is one step; one that preserves it is what is kept from now on.   *)
LEMMA ReplayOK == ASSUME MinimizerInv, Replay PROVE MinimizerInv'
<1>1. /\ Minimizing /\ PassGoesOn /\ Candidate # <<>>
      /\ UNCHANGED <<steps, failed, chunk, reached>>
  BY DEF Replay
<1>2. PICK preserved \in BOOLEAN :
        /\ verdict' = [verdict EXCEPT ![Indices(Candidate)] =
                         IF preserved THEN "preserved" ELSE "lost"]
        /\ IF preserved THEN kept' = Candidate /\ start' = 0
           ELSE start' = start + chunk /\ UNCHANGED kept
  BY DEF Replay
<1>3. MinimizerTypeOK /\ Increasing(kept) /\ KeptFails /\ EachTried /\ EndsSpent
  BY DEF MinimizerInv
<1>4. start < Len(kept) /\ chunk >= 1 /\ Len(kept) > 1 /\ reached = "none"
  BY <1>1 DEF Minimizing, PassGoesOn
<1>5. /\ Candidate \in Seq(1..steps) /\ Increasing(Candidate)
      /\ Indices(Candidate) \subseteq Indices(kept)
      /\ kept[start + 1] \in Indices(kept) \ Indices(Candidate)
      /\ chunk = 1 => Indices(Candidate) = Indices(kept) \ {kept[start + 1]}
  BY <1>3, <1>4, CandidateOK
<1>6. 1..steps \subseteq 1..MaxSteps
  BY <1>3, StepsAssumption DEF MinimizerTypeOK
<1>7. \A i \in 1..Len(kept) : kept[i] \in 1..steps
  BY <1>3, ElementOfSeq DEF MinimizerTypeOK
<1>8. Indices(kept) \in SUBSET (1..MaxSteps)
  BY <1>6, <1>7 DEF Indices
<1>9. Indices(Candidate) \in SUBSET (1..MaxSteps)
  BY <1>5, <1>8
<1>10. EndsSpent'
  BY <1>1, <1>4 DEF EndsSpent
<1>11. CASE preserved
  <2>1. kept' = Candidate /\ start' = 0
    BY <1>2, <1>11
  <2>2. verdict' = [verdict EXCEPT ![Indices(Candidate)] = "preserved"]
    BY <1>2, <1>11
  <2>3. MinimizerTypeOK' /\ Increasing(kept')
    BY <1>1, <1>3, <1>5, <2>1, <2>2 DEF MinimizerTypeOK
  <2>4. KeptFails'
    <3>1. Indices(kept)' = Indices(Candidate)
      BY <2>1 DEF Indices
    <3> QED BY <1>3, <1>9, <2>2, <3>1 DEF KeptFails, MinimizerTypeOK
  <2>5. EachTried'
    <3>1. \A i \in 1..Len(kept') : ~(i =< start')
      BY <2>1, <2>3 DEF MinimizerTypeOK
    <3> QED BY <1>1, <1>4, <3>1 DEF EachTried
  <2> QED BY <1>10, <2>3, <2>4, <2>5 DEF MinimizerInv
<1>12. CASE ~preserved
  <2>1. kept' = kept /\ start' = start + chunk
    BY <1>2, <1>12
  <2>2. verdict' = [verdict EXCEPT ![Indices(Candidate)] = "lost"]
    BY <1>2, <1>12
  <2>3. MinimizerTypeOK' /\ Increasing(kept')
    <3>1. start' \in Nat
      BY <1>3, <2>1 DEF MinimizerTypeOK
    <3>2. verdict' \in [SUBSET (1..MaxSteps) -> {"untried", "preserved", "lost"}]
      BY <1>3, <2>2 DEF MinimizerTypeOK
    <3> QED BY <1>1, <1>3, <2>1, <3>1, <3>2 DEF MinimizerTypeOK
  <2>4. KeptFails'
    <3>1. Indices(kept)' = Indices(kept) /\ Indices(Candidate) # Indices(kept)
      BY <1>5, <2>1 DEF Indices
    <3>2. verdict'[Indices(kept)] = verdict[Indices(kept)]
      BY <1>3, <1>8, <2>2, <3>1 DEF MinimizerTypeOK
    <3> QED BY <1>1, <1>3, <2>1, <3>1, <3>2 DEF KeptFails
  <2>5. EachTried'
    <3>0. Indices(kept)' = Indices(kept)
      BY <2>1 DEF Indices
    <3>a. chunk' = chunk /\ chunk # 0
      BY <1>1, <1>4
    <3>b. (\A i \in 1..Len(kept) : chunk = 1 /\ i =< start + 1 =>
             verdict'[Indices(kept) \ {kept[i]}] = "lost") => EachTried'
      <4>1. SUFFICES ASSUME chunk = 1,
                            \A i \in 1..Len(kept) : i =< start + 1 =>
                              verdict'[Indices(kept) \ {kept[i]}] = "lost",
                            NEW i \in 1..Len(kept), i =< start + chunk
                     PROVE  Spared(i)'
        BY <2>1, <3>a DEF EachTried
      <4>2. verdict'[Indices(kept) \ {kept[i]}] = "lost"
        BY <4>1
      <4> QED BY <2>1, <3>0, <4>2 DEF Spared
    <3>1. SUFFICES ASSUME chunk = 1, NEW i \in 1..Len(kept), i =< start + 1
                   PROVE  verdict'[Indices(kept) \ {kept[i]}] = "lost"
      BY <3>b
    <3>2. Indices(kept) \ {kept[i]} \in SUBSET (1..MaxSteps)
      BY <1>8
    <3>3. CASE i = start + 1
      BY <1>3, <1>5, <2>2, <3>1, <3>2, <3>3 DEF MinimizerTypeOK
    <3>4. CASE i # start + 1
      <4>1. i =< start
        BY <1>3, <3>1, <3>4 DEF MinimizerTypeOK
      <4>2. verdict[Indices(kept) \ {kept[i]}] = "lost"
        BY <1>3, <3>1, <4>1 DEF EachTried, Spared
      <4> QED BY <1>3, <2>2, <3>2, <4>2 DEF MinimizerTypeOK
    <3> QED BY <3>3, <3>4
  <2> QED BY <1>10, <2>3, <2>4, <2>5 DEF MinimizerInv
<1> QED BY <1>11, <1>12

LEMMA MinimizerRests ==
  ASSUME MinimizerInv, UNCHANGED <<steps, failed, kept, chunk, start, verdict>>,
         reached' \in {"none", "blocked", "reduced", "unchanged"},
         reached' \in {"reduced", "unchanged"} => chunk = 0
  PROVE  MinimizerInv'
<1>0. MinimizerTypeOK /\ Increasing(kept) /\ KeptFails /\ EachTried
  BY DEF MinimizerInv
<1>1. MinimizerTypeOK' /\ Increasing(kept')
  BY <1>0 DEF MinimizerTypeOK
<1>2. Indices(kept)' = Indices(kept)
  BY DEF Indices
<1>3. KeptFails'
  BY <1>0, <1>2 DEF KeptFails
<1>4. \A i \in 1..Len(kept) : Spared(i)' <=> Spared(i)
  BY <1>2 DEF Spared
<1>5. EachTried'
  BY <1>0, <1>4 DEF EachTried
<1>6. EndsSpent'
  BY DEF EndsSpent
<1> QED BY <1>1, <1>3, <1>5, <1>6 DEF MinimizerInv

LEMMA MinimizerStepOK == ASSUME MinimizerInv, [MinimizerNext]_minimizerVars PROVE MinimizerInv'
<1>0. MinimizerTypeOK /\ Increasing(kept) /\ KeptFails /\ EachTried /\ EndsSpent
  BY DEF MinimizerInv
<1>1. CASE Blocked
  BY <1>1, MinimizerRests DEF Blocked
<1>2. CASE SkipEmpty
  <2>1. /\ start < Len(kept) /\ chunk >= 1 /\ Len(kept) > 1 /\ Candidate = <<>>
        /\ start' = start + chunk
        /\ UNCHANGED <<steps, failed, kept, chunk, verdict, reached>>
    BY <1>2 DEF SkipEmpty, Minimizing, PassGoesOn
  <2>2. chunk # 1
    BY <1>0, <2>1, CandidateOK
  <2>3. MinimizerTypeOK' /\ Increasing(kept') /\ KeptFails' /\ EndsSpent'
    BY <1>0, <2>1 DEF MinimizerTypeOK, KeptFails, EndsSpent, Indices
  <2>4. EachTried'
    BY <2>1, <2>2 DEF EachTried
  <2> QED BY <2>3, <2>4 DEF MinimizerInv
<1>3. CASE Replay
  BY <1>3, ReplayOK
<1>4. CASE Halve
  <2>1. /\ ~(start < Len(kept) /\ Len(kept) > 1) /\ chunk >= 1 /\ reached = "none"
        /\ chunk' = chunk \div 2 /\ start' = 0
        /\ UNCHANGED <<steps, failed, kept, verdict, reached>>
    BY <1>4 DEF Halve, Minimizing, PassGoesOn
  <2>2. chunk' \in Nat /\ (chunk' = 0 => chunk = 1)
    BY <1>0, <2>1 DEF MinimizerTypeOK
  <2>3. MinimizerTypeOK' /\ Increasing(kept') /\ KeptFails' /\ EndsSpent'
    BY <1>0, <2>1, <2>2 DEF MinimizerTypeOK, KeptFails, EndsSpent, Indices
  <2>4. EachTried'
    <3>0. Indices(kept)' = Indices(kept)
      BY <2>1 DEF Indices
    <3>1. PICK n \in Nat : n = Len(kept)
      BY <1>0, LenProperties DEF MinimizerTypeOK
    <3>2. \A i \in 1..n : ~(i =< start')
      BY <2>1
    <3>3. ASSUME chunk' = 0, n > 1, NEW i \in 1..n
          PROVE  verdict'[Indices(kept)' \ {kept'[i]}] = "lost"
      <4>1. chunk = 1 /\ n =< start /\ i =< start
        BY <1>0, <2>1, <2>2, <3>1, <3>3 DEF MinimizerTypeOK
      <4>2. verdict[Indices(kept) \ {kept[i]}] = "lost"
        BY <1>0, <3>1, <4>1 DEF EachTried, Spared
      <4> QED BY <2>1, <3>0, <4>2
    <3> QED BY <2>1, <3>1, <3>2, <3>3 DEF EachTried, Spared
  <2> QED BY <2>3, <2>4 DEF MinimizerInv
<1>5. CASE Finish
  <2>1. chunk = 0 /\ reached' \in {"reduced", "unchanged"}
        /\ UNCHANGED <<steps, failed, kept, chunk, start, verdict>>
    BY <1>5 DEF Finish
  <2> QED BY <2>1, MinimizerRests
<1>6. CASE UNCHANGED minimizerVars
  <2>1. reached' = reached /\ UNCHANGED <<steps, failed, kept, chunk, start, verdict>>
    BY <1>6 DEF minimizerVars
  <2> QED BY <1>0, <2>1, MinimizerRests DEF MinimizerTypeOK, EndsSpent
<1> QED BY <1>1, <1>2, <1>3, <1>4, <1>5, <1>6 DEF MinimizerNext

LEMMA MinimizerInvariant == MinimizerSpec => []MinimizerInv
BY MinimizerInitOK, MinimizerStepOK, PTL DEF MinimizerSpec

(* In every state the variables of the minimizer have their types, and     *)
(* what it keeps is a part of the case, in order (minimizeFuzzCase).       *)
THEOREM MinimizerTypeCorrect == MinimizerSpec => [](MinimizerTypeOK /\ Increasing(kept))
<1>1. MinimizerInv => MinimizerTypeOK /\ Increasing(kept)  BY DEF MinimizerInv
<1> QED BY <1>1, MinimizerInvariant, PTL

(* A result is the whole case or was seen to fail when it last ran, and    *)
(* without any one of its steps the failure was gone (minimizeFuzzCase).   *)
THEOREM MinimizedStillFailsAlways == MinimizerSpec => []MinimizedStillFails
<1>1. MinimizerInv => MinimizedStillFails
  <2> SUFFICES ASSUME MinimizerInv, reached \in {"reduced", "unchanged"}
               PROVE  /\ Len(kept) = steps \/ verdict[Indices(kept)] = "preserved"
                      /\ Len(kept) > 1 =>
                           \A i \in Indices(kept) : verdict[Indices(kept) \ {i}] = "lost"
    BY DEF MinimizedStillFails
  <2>1. chunk = 0
    BY DEF MinimizerInv, EndsSpent
  <2>2. Len(kept) > 1 => \A i \in 1..Len(kept) : verdict[Indices(kept) \ {kept[i]}] = "lost"
    BY <2>1 DEF MinimizerInv, EachTried, Spared
  <2>3. \A i \in Indices(kept) : \E j \in 1..Len(kept) : i = kept[j]
    BY DEF Indices
  <2> QED BY <2>2, <2>3 DEF MinimizerInv, KeptFails
<1> QED BY <1>1, MinimizerInvariant, PTL
=============================================================================
