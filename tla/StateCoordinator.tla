-------------------------- MODULE StateCoordinator --------------------------
(***************************************************************************)
(* Mutations of the WordPress site the Cloudflare Worker keeps in R2       *)
(* (runtime-cloudflare/src/worker.ts).  Every mutation is a Worker request *)
(* of its own: it asks the coordinator, a Durable Object, for a lease on   *)
(* the current revision, rebuilds the site from it, mutates it, persists   *)
(* the outcome as a new revision and asks the coordinator to promote it.   *)
(* The coordinator handles its requests one after another along `tail`,    *)
(* every handler being a chain of awaits on its storage and on R2.         *)
(*                                                                         *)
(* A revision is named after the mutation that made it.  A Worker may be   *)
(* killed, lose the answer of the coordinator or fail in any step; the     *)
(* coordinator may fail in any step or be restarted with everything it had *)
(* queued lost, its stored lease kept.  A write of the coordinator is done *)
(* or not when it restarts: it does not happen later.                      *)
(***************************************************************************)
EXTENDS Integers, Sequences

CONSTANTS Mutator,      \* the requests to mutate the site
          Seed,         \* the revision packaged with the Worker
          NoLease,      \* no lease is stored
          MaxAttempts,  \* acquireMutationLease: 300 in the code
          MaxLosses     \* bound: how much is killed, lost, restarted or fails

ASSUME CoordinatorAssumption ==
  Seed \notin Mutator /\ NoLease \notin [token : Mutator, base : Mutator \union {Seed}]
  /\ MaxAttempts \in Nat \ {0} /\ MaxLosses \in Nat

VARIABLES pc,         \* where each Worker request is
          attempts,   \* how often it found the lease taken
          base,       \* the revision its lease told it to start from
          content,    \* the mutations in the revision it makes
          objects,    \* the revisions whose objects are in R2
          manifests,  \* the revisions whose manifest is in R2
          pointer,    \* the revision that is published
          lease,      \* the stored lease
          lapsed,     \* it has expired
          tail,       \* the coordinator's requests, in order of arrival
          losses      \* what was killed, lost, restarted or failed so far

workers == <<pc, attempts, base, content, objects, manifests>>
coordinator == <<pointer, lease, lapsed, tail>>
vars == <<workers, coordinator, losses>>

Revision == Mutator \union {Seed}

(* The mutations a revision contains, and whether it can be read back. *)
Of(revision) == IF revision = Seed THEN {} ELSE content[revision]
Readable(revision) == revision = Seed \/ revision \in objects \intersect manifests

Init == /\ pc = [m \in Mutator |-> "ask"]
        /\ attempts = [m \in Mutator |-> 0]
        /\ base = [m \in Mutator |-> Seed]
        /\ content = [m \in Mutator |-> {}]
        /\ objects = {} /\ manifests = {}
        /\ pointer = Seed
        /\ lease = NoLease /\ lapsed = FALSE
        /\ tail = <<>>
        /\ losses = 0

-----------------------------------------------------------------------------
(* The Worker's request. *)

(* coordinator.fetch: the request joins the queue of the coordinator. *)
Waiting == [ask |-> "asking", commit |-> "committing", abort |-> "aborting"]

Send(m) ==
  /\ pc[m] \in DOMAIN Waiting
  /\ tail' = Append(tail, [from |-> m, do |-> pc[m], at |-> "lease",
                           saw |-> Seed, answer |-> "none"])
  /\ pc' = [pc EXCEPT ![m] = Waiting[@]]
  /\ UNCHANGED <<attempts, base, content, objects, manifests, pointer, lease, lapsed>>

(* readMarkdownRevision: every object the manifest names has to be there;  *)
(* then PHP mutates what was read.  A revision never changes once written. *)
Mutate(m) ==
  /\ pc[m] = "mutating"
  /\ IF Readable(base[m])
     THEN /\ content' = [content EXCEPT ![m] = Of(base[m]) \union {m}]
          /\ pc' = [pc EXCEPT ![m] = "persisting"]
     ELSE /\ pc' = [pc EXCEPT ![m] = "abort"]
          /\ UNCHANGED content
  /\ UNCHANGED <<attempts, base, objects, manifests, coordinator>>

(* A mistake: the commit does not wait for the manifest. *)
PutObjectsOnly(m) ==
  /\ pc[m] = "persisting"
  /\ objects' = objects \union {m}
  /\ pc' = [pc EXCEPT ![m] = "commit"]
  /\ UNCHANGED <<attempts, base, content, manifests, coordinator>>

(* persistMarkdownRevision: the objects, then the manifest that names them. *)
PutObjects(m) ==
  /\ pc[m] = "persisting"
  /\ objects' = objects \union {m}
  /\ pc' = [pc EXCEPT ![m] = "listing"]
  /\ UNCHANGED <<attempts, base, content, manifests, coordinator>>

PutManifest(m) ==
  /\ pc[m] = "listing"
  /\ manifests' = manifests \union {m}
  /\ pc' = [pc EXCEPT ![m] = "commit"]
  /\ UNCHANGED <<attempts, base, content, objects, coordinator>>

(* The catch: the lease is given back, whatever failed. *)
Throw(m) ==
  /\ pc[m] \in {"mutating", "persisting", "listing"}
  /\ pc' = [pc EXCEPT ![m] = "abort"]
  /\ UNCHANGED <<attempts, base, content, objects, manifests, coordinator>>

(* What becomes of a Worker that waited for an answer. *)
After(where, answer, attempt) ==
  CASE where = "asking" /\ answer = "ok" -> "mutating"
    [] where = "asking" /\ answer = "busy" /\ attempt < MaxAttempts -> "ask"
    [] where = "committing" /\ answer = "ok" -> "succeeded"
    [] where = "committing" /\ answer # "ok" -> "abort"
    [] OTHER -> "failed"

(* The answer is lost on its way; the coordinator does not know. *)
Disconnect(m) ==
  /\ \E do \in DOMAIN Waiting : pc[m] = Waiting[do]
  /\ pc' = [pc EXCEPT ![m] = After(pc[m], "error", attempts[m])]
  /\ UNCHANGED <<attempts, base, content, objects, manifests, coordinator>>

Kill(m) ==
  /\ pc[m] \notin {"succeeded", "failed", "killed"}
  /\ pc' = [pc EXCEPT ![m] = "killed"]
  /\ UNCHANGED <<attempts, base, content, objects, manifests, coordinator>>

-----------------------------------------------------------------------------
(* The coordinator. *)

(* A mistake: fetch() handles every request as it comes. *)
TurnOfAnyone == DOMAIN tail

(* fetch: a request is handled when the ones before it have been. *)
Turn == {1} \intersect DOMAIN tail

(* A handler goes on to its next await, or comes to its answer. *)
Await(i, next) == tail' = [tail EXCEPT ![i].at = next]
Respond(i, answer) == tail' = [tail EXCEPT ![i].at = "reply", ![i].answer = answer]

(* A mistake: a commit is accepted under whatever lease is stored. *)
AnyoneHolds(m) == m \in Mutator /\ lease # NoLease

Holds(m) == lease # NoLease /\ lease.token = m

(* The first await of every handler reads the stored lease.  `saw` is the  *)
(* base a commit is checked against, or a new lease is given.              *)
GetLease(i) ==
  /\ tail[i].at = "lease"
  /\ CASE tail[i].do = "ask" ->
            IF lease # NoLease /\ ~lapsed THEN Respond(i, "busy") ELSE Await(i, "pointer")
       [] tail[i].do = "commit" ->
            IF Holds(tail[i].from)
            THEN tail' = [tail EXCEPT ![i].at = "pointer", ![i].saw = lease.base]
            ELSE Respond(i, "refused")
       [] tail[i].do = "abort" ->
            IF Holds(tail[i].from) THEN Await(i, "drop") ELSE Respond(i, "ok")
  /\ UNCHANGED <<workers, pointer, lease, lapsed>>

(* readMarkdownPointer: the base of a new lease, or the check of one.      *)
ReadPointer(i) ==
  /\ tail[i].at = "pointer"
  /\ IF tail[i].do = "ask"
     THEN tail' = [tail EXCEPT ![i].at = "store", ![i].saw = pointer]
     ELSE IF pointer = tail[i].saw THEN Await(i, "promote") ELSE Respond(i, "refused")
  /\ UNCHANGED <<workers, pointer, lease, lapsed>>

StoreLease(i) ==
  /\ tail[i].at = "store"
  /\ lease' = [token |-> tail[i].from, base |-> tail[i].saw]
  /\ lapsed' = FALSE
  /\ Respond(i, "ok")
  /\ UNCHANGED <<workers, pointer>>

Promote(i) ==
  /\ tail[i].at = "promote"
  /\ pointer' = tail[i].from
  /\ Await(i, "drop")
  /\ UNCHANGED <<workers, lease, lapsed>>

DropLease(i) ==
  /\ tail[i].at = "drop"
  /\ lease' = NoLease /\ lapsed' = FALSE
  /\ Respond(i, "ok")
  /\ UNCHANGED <<workers, pointer>>

(* The answer reaches the Worker if it still waits for it. *)
Answered(r) ==
  LET m == r.from IN
  IF pc[m] = Waiting[r.do]
  THEN /\ attempts' = [attempts EXCEPT ![m] = IF r.answer = "busy" THEN @ + 1 ELSE @]
       /\ pc' = [pc EXCEPT ![m] = After(@, r.answer, attempts'[m])]
       /\ base' = [base EXCEPT ![m] = IF r.do = "ask" /\ r.answer = "ok" THEN r.saw ELSE @]
  ELSE UNCHANGED <<attempts, pc, base>>

Without(i) == [j \in 1..(Len(tail) - 1) |-> IF j < i THEN tail[j] ELSE tail[j + 1]]

Reply(i) ==
  /\ tail[i].at = "reply"
  /\ Answered(tail[i])
  /\ tail' = Without(i)
  /\ UNCHANGED <<content, objects, manifests, pointer, lease, lapsed>>

(* A mistake: the chain ends with the request that failed. *)
FailAndStay(i) ==
  /\ tail[i].at # "reply"
  /\ Answered([tail[i] EXCEPT !.answer = "error"])
  /\ tail' = [tail EXCEPT ![i].at = "error"]
  /\ UNCHANGED <<content, objects, manifests, pointer, lease, lapsed>>

(* An await of the handler rejects: a 500, and the next one's turn. *)
Fail(i) ==
  /\ tail[i].at # "reply"
  /\ Answered([tail[i] EXCEPT !.answer = "error"])
  /\ tail' = Without(i)
  /\ UNCHANGED <<content, objects, manifests, pointer, lease, lapsed>>

(* The object is restarted: whoever waits for it gets an error. *)
Restart ==
  /\ tail # <<>>
  /\ tail' = <<>>
  /\ pc' = [m \in Mutator |-> IF \E do \in DOMAIN Waiting : pc[m] = Waiting[do]
                              THEN After(pc[m], "error", attempts[m]) ELSE pc[m]]
  /\ UNCHANGED <<attempts, base, content, objects, manifests, pointer, lease, lapsed>>

Lapse == /\ lease # NoLease /\ ~lapsed
         /\ lapsed' = TRUE
         /\ UNCHANGED <<workers, pointer, lease, tail>>

Handle(i) == /\ \/ GetLease(i) \/ ReadPointer(i) \/ StoreLease(i)
                \/ Promote(i) \/ DropLease(i) \/ Reply(i)
             /\ UNCHANGED losses

-----------------------------------------------------------------------------
Works(m) == /\ Send(m) \/ Mutate(m) \/ PutObjects(m) \/ PutManifest(m)
            /\ UNCHANGED losses

Loss == /\ losses < MaxLosses
        /\ losses' = losses + 1
        /\ \/ \E m \in Mutator : Throw(m) \/ Disconnect(m) \/ Kill(m)
           \/ \E i \in Turn : Fail(i)
           \/ Restart

Next == \/ \E m \in Mutator : Works(m)
        \/ \E i \in Turn : Handle(i)
        \/ Lapse /\ UNCHANGED losses
        \/ Loss

Spec == Init /\ [][Next]_vars

(* R2, PHP and the object's storage answer or fail.  So do the fetches of  *)
(* the archives that Mutate may need to boot WordPress, which have no      *)
(* timeout in the code.                                                    *)
FairSpec == /\ Spec
            /\ \A m \in Mutator : WF_vars(Works(m))
            /\ WF_vars(\E i \in Turn : Handle(i))

-----------------------------------------------------------------------------
Request == [from : Mutator, do : DOMAIN Waiting,
            at : {"lease", "pointer", "store", "promote", "drop", "reply"},
            saw : Revision, answer : {"none", "ok", "busy", "refused"}]

TypeOK ==
  /\ pc \in [Mutator -> {"ask", "asking", "mutating", "persisting", "listing",
                         "commit", "committing", "abort", "aborting",
                         "succeeded", "failed", "killed"}]
  /\ attempts \in [Mutator -> 0..MaxAttempts]
  /\ base \in [Mutator -> Revision]
  /\ content \in [Mutator -> SUBSET Mutator]
  /\ objects \in SUBSET Mutator /\ manifests \in SUBSET Mutator
  /\ pointer \in Revision
  /\ lease \in [token : Mutator, base : Revision] \union {NoLease}
  /\ lapsed \in BOOLEAN
  /\ tail \in Seq(Request)
  /\ losses \in 0..MaxLosses

(* The published revision, and the one that a mutation starts from, can be *)
(* read back whatever was killed while it was persisted: their objects are *)
(* written before the manifest and the manifest before the pointer         *)
(* (persistMarkdownRevision, /commit).                                     *)
PublishedIsReadable ==
  /\ Readable(pointer)
  /\ \A m \in Mutator : pc[m] = "mutating" => Readable(base[m])

(* A mutation is built on all those published before it, under expired and *)
(* stolen leases, lost answers and restarts too, and a client told of a    *)
(* success finds its mutation published (runSerializedMarkdownMutation).   *)
Site == INSTANCE SiteContract WITH
  site <- Of(pointer),
  told <- [m \in Mutator |-> IF pc[m] = "succeeded" THEN "success"
                             ELSE IF pc[m] = "failed" THEN "failure" ELSE "nothing"]
ImplementsSite == Site!Spec

(* A Worker that is not killed answers its client: nothing keeps the queue *)
(* of the coordinator from moving on, and nobody asks for ever.            *)
MutationsEnd == \A m \in Mutator : <>(pc[m] \in {"succeeded", "failed", "killed"})
=============================================================================
