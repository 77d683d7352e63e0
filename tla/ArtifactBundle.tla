--------------------------- MODULE ArtifactBundle ---------------------------
(***************************************************************************)
(* The artifact bundle: a directory whose files hold digests of each       *)
(* other, written by three parts of the program, one after the other:      *)
(*   - the bundle builder of the Playground backend                        *)
(*     (runtime-playground/src/artifact-bundle-builder.ts),                *)
(*   - the evidence of a recipe run (cli/src/recipe-evidence.ts,           *)
(*     commands/recipe-run-benchmark-artifacts.ts), or                     *)
(*   - the trace of an episode (runtime-core/src/runtime-episode.ts),      *)
(* and read by verifyArtifactBundle() of runtime-core.                     *)
(*                                                                         *)
(* A call is a program of steps, each one write or one refresh of a        *)
(* manifest in memory; any step may fail and end the call.  A digest is    *)
(* the version of the file it was computed from.  The digest of the file   *)
(* list is the list: contentDigest and the bundle's id stand and fall      *)
(* together, so `id` is both.  The manifest's digest of itself, which      *)
(* leaves itself out, is not modelled.                                     *)
(***************************************************************************)
EXTENDS Naturals, Sequences

CONSTANTS Wishes,      \* what a recipe may ask for: a set of sets of wishes
          MaxFaults,   \* bound: steps that fail
          MaxChanges   \* bound: changes of the site between calls

Collected == {"content", "pointers", "review", "metadata", "references", "index"}
Wish == {"typed", "evidence", "verify", "agent", "preview", "bench"}
Added == {"snapshots", "trace", "typed", "evidence", "verification", "attestation",
          "agent", "failure", "summaries", "benchmarks"}
File == Collected \cup Added

ASSUME BundleAssumption ==
  Wishes \subseteq SUBSET Wish /\ MaxFaults \in Nat /\ MaxChanges \in Nat

VARIABLES recipe,      \* the flow, and what it asks for
          site,        \* the state of the site
          plan,        \* the calls to come
          call,        \* the call under way, and each writer's steps to come
          todo,
          draft,       \* each writer's manifest in memory
          disk,        \* the version of each file, 0 when there is none
          patch,       \* the site the collected files speak of
          manifest,    \* manifest.json: its files, their digests and the id
          references,  \* runtime-reference-manifest.json
          index,       \* runtime-replay-index.json
          reviewed,    \* the id in review.json
          mode,        \* running, recovering or over
          faults,      \* steps that failed or were abandoned
          bundled,     \* recipe: a collection has returned; episode: the last call did
          declared,    \* the typed artifacts: open, absent, taken, or lost when a call
                       \* took them that failed or a later collection unlisted them
          broken,      \* history: a collection was cut off that nobody does again
          named        \* history: the manifests written, as pairs of id and patch

run == <<recipe, plan, call, mode, faults, bundled, declared, broken>>
bundleVars ==
  <<run, site, todo, draft, disk, patch, manifest, references, index, reviewed, named>>

Empty == [listed |-> {}, id |-> {}, sha |-> [f \in {} |-> 0]]
Nothing == [whole |-> FALSE, id |-> {}, of |-> [f \in {} |-> 0]]
Digests(files) == [f \in files |-> disk[f]]

-----------------------------------------------------------------------------
(* The calls, as programs. *)
Do(op, files) == [do |-> op, on |-> files]
Write(f) == Do("write", {f})

Wants(w) == w \in recipe.wants

(* A mistake: the manifest is saved before its files are written. *)
ManifestFirst == <<Do("start", Collected), Do("save", {})>>

(* ArtifactBundleBuilder.build.                                            *)
CollectProgram ==
  <<Do("start", Collected), Write("content"), Do("review", {}), Do("clear", {}),
    Write("metadata"), Do("hash", {}), Write("pointers"), Do("hash", {}),
    Do("refer", {}), Do("index", {}), Do("hash", {}), Do("save", {})>>

(* A file of evidence is written, and then come                            *)
(* updateRecipeArtifactEvidenceReferences and what it refreshes.           *)
Update(f, listed) ==
  <<Write(f), Do("read", {}), Do("list", listed), Do("name", {}), Write("metadata"),
    Do("review", {}), Do("hash", {}), Do("rerefer", {}), Do("hash", {}),
    Do("reindex", {}), Do("hash", {}), Do("save", {})>>

(* materializeTypedRecipeDeclaredArtifacts. *)
TypedProgram == Update("typed", {"typed"})

AppendProgram == Update("evidence", {"evidence"})

(* finalizeRecipeArtifactEvidence: the report on the bundle is itself a    *)
(* file of the bundle, written as a placeholder before it is verified.     *)
Verified == IF Wants("verify") THEN {"verification"} ELSE {}
FinalizeProgram ==
  (IF Wants("verify")
   THEN Update("verification", Verified) \o Update("verification", Verified)
   ELSE <<>>)
  \o Update("attestation", {"attestation"} \cup Verified)

AgentProgram == Update("agent", {"agent"})

(* writeBenchmarkArtifactEvidence: the files are listed and hashed, and    *)
(* the id stays.                                                           *)
Add(f) == <<Write(f), Do("read", {}), Do("list", {f}), Do("hash", {}), Do("save", {})>>

BenchProgram == Add("summaries") \o Add("benchmarks")

(* The evidence that the catch block of runRecipe appends.                 *)
FailureProgram ==
  IF Wants("evidence")
  THEN <<Write("evidence")>> \o Update("failure", {"failure", "evidence"})
  ELSE Update("failure", {"failure"})

(* persistRuntimeSnapshotBundles, then persistRuntimeEpisodeTraceArtifacts. *)
SnapshotProgram ==
  IF Wants("snapshots")
  THEN <<Do("read", {}), Write("snapshots"), Do("list", {"snapshots"}), Do("hash", {}),
         Do("save", {})>>
  ELSE <<>>

TraceProgram ==
  <<Write("trace"), Write("metadata"), Write("review"),
    Do("read", {}), Do("list", {"trace"}), Do("hash", {}), Do("save", {}),
    Do("read", {}), Do("refer", {}), Do("hash", {}), Do("save", {}),
    Do("read", {}), Do("index", {}), Do("hash", {}), Do("save", {})>>

Program(c) == CASE c = "collect" -> CollectProgram
                [] c = "typed" -> TypedProgram
                [] c = "append" -> AppendProgram
                [] c = "finalize" -> FinalizeProgram
                [] c = "agent" -> AgentProgram
                [] c = "bench" -> BenchProgram
                [] c = "failure" -> FailureProgram
                [] c = "episode" -> CollectProgram \o SnapshotProgram \o TraceProgram

(* The calls of runRecipe, and of an episode that collects twice.          *)
Evidence(r) == (IF "typed" \in r.wants THEN <<"typed">> ELSE <<>>)
                 \o (IF "evidence" \in r.wants THEN <<"append">> ELSE <<>>) \o <<"finalize">>
                 \o (IF "agent" \in r.wants THEN <<"agent">> ELSE <<>>)
Calls(r) ==
  IF r.flow = "episode" THEN <<"episode", "episode">>
  ELSE <<"collect">> \o Evidence(r)
         \o (IF "preview" \in r.wants THEN <<"collect">> \o Evidence(r) ELSE <<>>)
         \o (IF "bench" \in r.wants THEN <<"bench">> ELSE <<>>)

(* The calls of its catch block.                                           *)
Appending == (IF Wants("typed") THEN <<"typed">> ELSE <<>>) \o <<"failure">>
Recovery(collected) ==
  (IF collected THEN <<>> ELSE <<"collect">>) \o <<"finalize">>
    \o (IF Wants("agent") THEN <<"agent">> ELSE <<>>) \o Appending

BundleInit ==
  /\ recipe \in {[flow |-> "recipe", wants |-> w] : w \in Wishes}
                \cup {[flow |-> "episode", wants |-> w] : w \in {{}, {"snapshots"}}}
  /\ site = 0 /\ plan = Calls(recipe) /\ call = "none"
  /\ todo = [w \in {"run", "abandoned"} |-> <<>>]
  /\ draft = [w \in {"run", "abandoned"} |-> Empty]
  /\ disk = [f \in File |-> 0]
  /\ patch = 0 /\ manifest = Empty /\ references = Nothing /\ index = Nothing
  /\ reviewed = {} /\ named = {}
  /\ mode = "running" /\ faults = 0 /\ bundled = FALSE
  /\ declared = "open" /\ broken = FALSE

-----------------------------------------------------------------------------
(* A step of a writer. *)
Op(w, op) == todo[w] # <<>> /\ Head(todo[w]).do = op
Files(w) == Head(todo[w]).on
Written(files) == disk' = [f \in File |-> IF f \in files THEN disk[f] + 1 ELSE disk[f]]
Drafted(w, m) == draft' = [draft EXCEPT ![w] = m]

StartManifest(w) ==
  /\ Op(w, "start")
  /\ Drafted(w, [listed |-> Files(w), id |-> Files(w), sha |-> [f \in {} |-> 0]])
  /\ UNCHANGED <<disk, patch, manifest, references, index, reviewed, named>>

WriteFile(w) ==
  /\ Op(w, "write")
  /\ Written(Files(w))
  /\ patch' = IF "content" \in Files(w) THEN site ELSE patch
  /\ UNCHANGED <<draft, manifest, references, index, reviewed, named>>

(* review.json is written with the id; both reference files are "{}".      *)
WriteReview(w) ==
  /\ Op(w, "review")
  /\ Written({"review"}) /\ reviewed' = draft[w].id
  /\ UNCHANGED <<draft, patch, manifest, references, index, named>>

ClearReferences(w) ==
  /\ Op(w, "clear")
  /\ Written({"references", "index", "pointers"}) /\ references' = Nothing /\ index' = Nothing
  /\ UNCHANGED <<draft, patch, manifest, reviewed, named>>

ReadManifest(w) ==
  /\ Op(w, "read")
  /\ Drafted(w, manifest)
  /\ UNCHANGED <<disk, patch, manifest, references, index, reviewed, named>>

(* upsertArtifactManifestFiles. *)
ListFiles(w) ==
  /\ Op(w, "list")
  /\ Drafted(w, [draft[w] EXCEPT !.listed = @ \cup Files(w)])
  /\ UNCHANGED <<disk, patch, manifest, references, index, reviewed, named>>

(* A mistake: the bundle keeps the name it was collected under. *)
KeepName(w) ==
  /\ Op(w, "name")
  /\ UNCHANGED <<draft, disk, patch, manifest, references, index, reviewed, named>>

(* refreshManifestFileListDigest. *)
NameBundle(w) ==
  /\ Op(w, "name")
  /\ Drafted(w, [draft[w] EXCEPT !.id = draft[w].listed])
  /\ UNCHANGED <<disk, patch, manifest, references, index, reviewed, named>>

(* refreshArtifactManifestFileSha256s: a file that is not there rejects.   *)
HashFiles(w) ==
  /\ Op(w, "hash") /\ \A f \in draft[w].listed : disk[f] > 0
  /\ Drafted(w, [draft[w] EXCEPT !.sha = Digests(draft[w].listed)])
  /\ UNCHANGED <<disk, patch, manifest, references, index, reviewed, named>>

(* The reference manifest takes its digests from the manifest in memory,   *)
(* and leaves out what is written after it.                                *)
Only(sha, files) == [f \in DOMAIN sha \cap files |-> sha[f]]
Referred == File \ {"review", "metadata", "references", "index"}
Indexed == {"content", "trace"}

WriteReferences(w) ==
  /\ Op(w, "refer")
  /\ Written({"references"})
  /\ references' = [whole |-> TRUE, id |-> draft[w].id, of |-> Only(draft[w].sha, Referred)]
  /\ UNCHANGED <<draft, patch, manifest, index, reviewed, named>>

(* The replay index also refers to the reference manifest as it is now.    *)
WriteIndex(w) ==
  /\ Op(w, "index")
  /\ Written({"index"})
  /\ index' = [whole |-> TRUE, id |-> draft[w].id,
               of |-> [f \in {"references"} \cup (DOMAIN draft[w].sha \cap Indexed) |->
                         IF f = "references" THEN disk[f] ELSE draft[w].sha[f]]]
  /\ UNCHANGED <<draft, patch, manifest, references, reviewed, named>>

(* refreshRuntimeReferenceFiles: the references a file has are refreshed,  *)
(* unless it is not a reference file yet.                                  *)
Refreshed(file, m) ==
  [whole |-> TRUE, id |-> m.id,
   of |-> [f \in DOMAIN file.of |-> IF f \in DOMAIN m.sha THEN m.sha[f] ELSE file.of[f]]]

RefreshReferences(w) ==
  /\ Op(w, "rerefer")
  /\ IF references.whole
     THEN Written({"references"}) /\ references' = Refreshed(references, draft[w])
     ELSE UNCHANGED <<disk, references>>
  /\ UNCHANGED <<draft, patch, manifest, index, reviewed, named>>

RefreshIndex(w) ==
  /\ Op(w, "reindex")
  /\ IF index.whole
     THEN Written({"index"}) /\ index' = Refreshed(index, draft[w])
     ELSE UNCHANGED <<disk, index>>
  /\ UNCHANGED <<draft, patch, manifest, references, reviewed, named>>

SaveManifest(w) ==
  /\ Op(w, "save")
  /\ manifest' = draft[w]
  /\ named' = named \cup {<<draft[w].id, patch>>}
  /\ UNCHANGED <<draft, disk, patch, references, index, reviewed>>

Act(w) == \/ StartManifest(w) \/ WriteFile(w) \/ WriteReview(w) \/ ClearReferences(w)
          \/ ReadManifest(w) \/ ListFiles(w) \/ NameBundle(w) \/ HashFiles(w)
          \/ WriteReferences(w) \/ WriteIndex(w) \/ RefreshReferences(w)
          \/ RefreshIndex(w) \/ SaveManifest(w)

Step(w) ==
  /\ Act(w)
  /\ todo' = [todo EXCEPT ![w] = Tail(@)]
  /\ UNCHANGED <<run, site>>

-----------------------------------------------------------------------------
files == <<draft, disk, patch, manifest, references, index, reviewed, named>>
Idle == call = "none" /\ todo["run"] = <<>>

Upcoming(c) == Idle /\ plan # <<>> /\ Head(plan) = c

(* The typed artifacts are marked as materialized before the first of them *)
(* is written: a recovery does it only when nobody has.                    *)
Begin ==
  /\ Idle /\ plan # <<>>
  /\ Head(plan) = "typed" => mode = "running" \/ declared = "open"
  /\ declared' = CASE Head(plan) = "typed" -> "taken"
                    [] Head(plan) = "collect" /\ declared = "taken" -> "lost"
                    [] OTHER -> declared
  /\ call' = Head(plan) /\ plan' = Tail(plan)
  /\ todo' = [todo EXCEPT !["run"] = Program(Head(plan))]
  /\ bundled' = (bundled /\ recipe.flow = "recipe")
  /\ UNCHANGED <<recipe, site, mode, faults, broken, files>>

(* No typed artifact was found, or all that were are materialized already. *)
NothingTyped ==
  /\ Upcoming("typed")
  /\ plan' = Tail(plan)
  /\ declared' = IF declared = "open" THEN "absent" ELSE declared
  /\ UNCHANGED <<recipe, site, call, mode, faults, bundled, broken, todo, files>>

End ==
  /\ call # "none" /\ todo["run"] = <<>>
  /\ call' = "none"
  /\ bundled' = (bundled \/ call \in {"collect", "episode"})
  /\ mode' = IF plan = <<>> THEN "over" ELSE mode
  /\ UNCHANGED <<recipe, site, plan, faults, declared, broken, todo, files>>

(* A step fails: the recipe's catch block takes over, which goes on to its *)
(* last calls when one before it fails; an episode's caller may call       *)
(* again.  What precedes the typed artifacts may fail as well.             *)
Collecting == call \in {"collect", "episode"}

Caught ==
  /\ call' = "none" /\ faults' = faults + 1
  /\ IF recipe.flow = "episode" THEN UNCHANGED plan
     ELSE plan' = CASE mode = "running" -> Recovery(bundled)
                    [] mode = "recovering" /\ call \in {"finalize", "agent"} -> Appending
                    [] OTHER -> <<>>
  /\ mode' = IF plan' = <<>> THEN "over"
             ELSE IF recipe.flow = "recipe" THEN "recovering" ELSE mode
  /\ broken' = (broken \/ (call = "collect" /\ bundled))
  /\ declared' = IF call = "typed" THEN "lost" ELSE declared
  /\ UNCHANGED <<recipe, site, bundled, files>>

StepFails ==
  /\ (call # "none" /\ todo["run"] # <<>>) \/ Upcoming("typed")
  /\ faults < MaxFaults
  /\ todo' = [todo EXCEPT !["run"] = <<>>]
  /\ Caught

(* The recipe's timeout, an interruption, or the 30 seconds of a recovery  *)
(* end the wait for a collection; the builder goes on.  One at a time.     *)
Abandon ==
  /\ call = "collect" /\ todo["run"] # <<>> /\ todo["abandoned"] = <<>>
  /\ faults < MaxFaults
  /\ call' = "none" /\ faults' = faults + 1 /\ broken' = TRUE
  /\ plan' = IF mode = "running" THEN Recovery(bundled) ELSE <<>>
  /\ mode' = IF plan' = <<>> THEN "over" ELSE "recovering"
  /\ todo' = [w \in {"run", "abandoned"} |-> IF w = "run" THEN <<>> ELSE todo["run"]]
  /\ draft' = [draft EXCEPT !["abandoned"] = draft["run"]]
  /\ UNCHANGED <<recipe, site, bundled, declared, disk, patch, manifest, references,
                 index, reviewed, named>>

(* A step of the episode, or a visitor of the preview, changes the site    *)
(* before it is collected again.                                           *)
SiteChanges ==
  /\ Idle /\ disk["content"] > 0 /\ site < MaxChanges
  /\ plan # <<>> /\ Head(plan) \in {"collect", "episode"}
  /\ site' = site + 1
  /\ UNCHANGED <<run, todo, files>>

BundleNext == \/ \E w \in {"run", "abandoned"} : Step(w)
        \/ Begin \/ NothingTyped \/ End \/ StepFails \/ Abandon \/ SiteChanges

BundleSpec == BundleInit /\ [][BundleNext]_bundleVars

-----------------------------------------------------------------------------
(* verifyArtifactBundle. *)
Current(of) == \A f \in DOMAIN of : of[f] = disk[f]

RefersWell(file) ==
  file.whole /\ file.id = manifest.id /\ DOMAIN file.of \subseteq manifest.listed /\ Current(file.of)

FilesMatchBut(left) ==
  /\ manifest.listed = {f \in File : disk[f] > 0} \ left
  /\ DOMAIN manifest.sha = manifest.listed /\ Current(manifest.sha)
  /\ reviewed = manifest.id
  /\ RefersWell(references) /\ RefersWell(index)
FilesMatch == FilesMatchBut({})

(* The typed artifacts that are on disk and that nobody lists any more.    *)
Unlisted == IF declared = "lost" THEN {"typed"} \ manifest.listed ELSE {}

DigestMatches == manifest.id = manifest.listed

Over == mode = "over" /\ todo["abandoned"] = <<>>

(* Every file a manifest lists is there, whatever failed, was abandoned or *)
(* writes next to it: nobody hashes or lists what is not written yet.      *)
ListedFilesExist == \A f \in manifest.listed : disk[f] > 0

(* When a recipe run has ended, its bundle verifies - also when one step   *)
(* of it failed, wherever that was, because the recovery mends it; a       *)
(* collection that nobody repeats and benchmarks excepted, and but for the *)
(* typed artifacts whose writing failed or that a second collection did    *)
(* not find again: they stay in the directory, orphaned.  An episode's     *)
(* collection that has returned leaves files that match each other,        *)
(* whatever became of the ones before it, and so do benchmarks.            *)
OneFaultIsMended ==
  Over /\ ~broken =>
    /\ /\ recipe.flow = "recipe" /\ faults =< 1
       /\ disk["benchmarks"] = 0 /\ disk["summaries"] = 0
       => FilesMatchBut(Unlisted) /\ DigestMatches
    /\ recipe.flow = "episode" /\ bundled => FilesMatch
    /\ recipe.flow = "recipe" /\ faults = 0 => FilesMatchBut(Unlisted)

(* "Orchestrators should verify bundles with `wp-codebox artifacts verify` *)
(* before promotion" (docs/agent-runtime-contract.md:169): a bundle whose  *)
(* run went well verifies.                                                 *)
FinishedBundleVerifies ==
  Over /\ faults = 0 => FilesMatch /\ DigestMatches

(* "Bundle ids are content-addressed over the exact bytes of               *)
(* `files/changed-files.json` and `files/patch.diff`" (same line): an id   *)
(* that was given to one patch is not given to another.                    *)
IdNamesPatch == \A a, b \in named : a[1] = b[1] => a[2] = b[2]
=============================================================================
