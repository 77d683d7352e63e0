----------------------- MODULE StateCoordinatorProofs -----------------------
(***************************************************************************)
(* For any number of mutations, lost answers, kills, failures and restarts *)
(* of the coordinator: what is published can be read, and every mutation   *)
(* is built on those published before it.  The argument follows a lease.   *)
(* It may expire and be given to another, so nobody knows that it is the   *)
(* only one to mutate; but a revision is promoted only under the lease it  *)
(* was made under, and while the pointer still says what that lease said.  *)
(***************************************************************************)
EXTENDS StateCoordinator, SequenceTheorems, TLAPS

Pos == DOMAIN tail
Sent(m) == \E i \in Pos : tail[i].from = m /\ tail[i].do = "commit"

(* The content of the revision m makes does not change any more. *)
Frozen(m) == pc[m] \notin {"ask", "asking", "mutating"}
Good(r) == r = Seed \/ (r \in objects \intersect manifests /\ Frozen(r))

(* Where m may be while its request is queued: it may have given up. *)
Behind == [ask    |-> {"asking", "failed", "killed"},
           commit |-> {"committing", "abort", "aborting", "succeeded", "failed", "killed"},
           abort  |-> {"aborting", "failed", "killed"}]

Queue ==
  /\ \A i \in Pos : i # 1 => tail[i].at = "lease"
  /\ \A i \in Pos : pc[tail[i].from] \in Behind[tail[i].do]
  /\ \A i, j \in Pos : tail[i].from = tail[j].from /\ tail[i].do = "ask" => i = j
  /\ \A i \in Pos : tail[i].answer = "busy" => tail[i].do = "ask"

(* What the handler in hand has read is still so. *)
HeadOK(r) ==
  /\ r.do = "ask" =>
       /\ r.at \in {"lease", "pointer", "store", "reply"}
       /\ r.at = "store" => r.saw = pointer
       /\ r.at = "reply" /\ r.answer = "ok" => Good(r.saw)
  /\ r.do = "commit" =>
       /\ r.at \in {"lease", "pointer", "promote", "drop", "reply"}
       /\ r.at = "pointer" => r.saw = base[r.from]
       /\ r.at = "promote" => pointer = base[r.from]
       /\ r.at = "drop" => r.from \in Of(pointer)
       /\ r.at = "reply" /\ r.answer = "ok" => r.from \in Of(pointer)
  /\ r.do = "abort" => r.at \in {"lease", "drop", "reply"}
Head1 == tail # <<>> => HeadOK(tail[1])

(* The revision of m is persisted in order, from a base that stays.        *)
At(m, steps) == pc[m] \in steps \/ Sent(m)
Built == \A m \in Mutator :
  /\ At(m, {"mutating", "persisting", "listing", "commit", "committing"}) =>
       Good(base[m]) /\ base[m] # m
  /\ At(m, {"persisting", "listing", "commit", "committing"}) =>
       content[m] = Of(base[m]) \union {m}
  /\ At(m, {"listing", "commit", "committing"}) => m \in objects
  /\ At(m, {"commit", "committing"}) => m \in manifests

(* The stored lease is the one its holder got, or is about to get.         *)
GivesLease(r) == /\ r.from = lease.token /\ r.do = "ask" /\ r.at = "reply"
                 /\ r.answer = "ok" /\ r.saw = lease.base
Leased == lease # NoLease =>
  /\ At(lease.token, {"mutating", "persisting", "listing", "commit", "committing"}) =>
       lease.base = base[lease.token]
  /\ pc[lease.token] # "ask"
  /\ pc[lease.token] = "asking" => tail # <<>> /\ GivesLease(tail[1])

Tries == \A m \in Mutator : pc[m] \in {"ask", "asking"} => attempts[m] < MaxAttempts

IInv == TypeOK /\ Tries /\ Queue /\ Head1 /\ Good(pointer) /\ Built /\ Leased

-----------------------------------------------------------------------------
(* The queue as a sequence. *)
Entry == [from : Mutator, do : DOMAIN Waiting,
          at : {"lease", "pointer", "store", "promote", "drop", "reply"},
          saw : Revision, answer : {"none", "ok", "busy", "refused", "error"}]

LEMMA WaitingIs ==
  /\ DOMAIN Waiting = {"ask", "commit", "abort"}
  /\ Waiting["ask"] = "asking" /\ Waiting["commit"] = "committing" /\ Waiting["abort"] = "aborting"
BY DEF Waiting

LEMMA PosIs ==
  ASSUME TypeOK
  PROVE  /\ Len(tail) \in Nat /\ Pos = 1..Len(tail) /\ Turn = {1} \intersect Pos
         /\ tail # <<>> <=> 1 \in Pos
         /\ \A i \in Pos : tail[i] \in Request
<1>1. tail \in Seq(Request)  BY DEF TypeOK
<1>2. /\ Len(tail) \in Nat /\ tail \in [1..Len(tail) -> Request] /\ Pos = 1..Len(tail)
  BY <1>1, LenProperties DEF Pos
<1>3. tail # <<>> <=> Len(tail) # 0  BY <1>1, EmptySeq
<1> QED BY <1>2, <1>3, SMT DEF Turn, Pos

LEMMA UpdateQueue ==
  ASSUME TypeOK, Queue, 1 \in Pos, NEW r \in Request,
         r.from = tail[1].from, r.do = tail[1].do, r.answer = "busy" => r.do = "ask",
         tail' = [tail EXCEPT ![1] = r], pc' = pc
  PROVE  /\ tail' \in Seq(Request) /\ Pos' = Pos /\ tail'[1] = r /\ tail' # <<>>
         /\ \A m : Sent(m)' <=> Sent(m)
         /\ Queue'
<1>1. tail \in Seq(Request) /\ 1 \in 1..Len(tail) /\ Pos = 1..Len(tail) /\ Len(tail) \in Nat
  BY PosIs DEF TypeOK
<1>2. /\ tail' \in Seq(Request) /\ Len(tail') = Len(tail)
      /\ \A j \in 1..Len(tail) : tail'[j] = IF j = 1 THEN r ELSE tail[j]
  BY <1>1, ExceptSeq
<1>3. Pos' = Pos  BY <1>1, <1>2, LenProperties DEF Pos
<1>4. \A j \in Pos : tail'[j].from = tail[j].from /\ tail'[j].do = tail[j].do
  BY <1>1, <1>2
<1>5. \A m : Sent(m)' <=> Sent(m)  BY <1>3, <1>4 DEF Sent
<1>6. tail' # <<>>  BY <1>1, <1>2, EmptySeq
<1>7. Queue'  BY <1>1, <1>2, <1>3, <1>4 DEF Queue, Behind
<1> QED BY <1>1, <1>2, <1>3, <1>5, <1>6, <1>7

LEMMA RemoveFirst ==
  ASSUME TypeOK, 1 \in Pos, tail' = Without(1)
  PROVE  /\ tail' \in Seq(Request) /\ Pos' = 1..(Len(tail) - 1)
         /\ tail' # <<>> <=> 1 \in Pos'
         /\ \A j \in Pos' : j + 1 \in Pos /\ tail'[j] = tail[j + 1]
<1> DEFINE n == Len(tail) - 1
<1>1. n \in Nat /\ Pos = 1..(n + 1) /\ \A j \in Pos : tail[j] \in Request
  BY PosIs
<1>2. tail' = [j \in 1..n |-> tail[j + 1]]
  BY <1>1 DEF Without
<1>3. tail' \in [1..n -> Request]  BY <1>1, <1>2
<1>4. tail' \in Seq(Request)  BY <1>1, <1>3, SeqDef
<1>5. Len(tail') = n /\ Pos' = 1..n
  <2>1. DOMAIN tail' = 1..n  BY <1>3
  <2>2. DOMAIN tail' = 1..Len(tail') /\ Len(tail') \in Nat  BY <1>4, LenProperties
  <2>3. /\ n = 0 \/ n \in 1..Len(tail')
        /\ Len(tail') = 0 \/ Len(tail') \in 1..n
    <3> HIDE DEF n
    <3>1. n = 0 \/ n \in 1..n  BY <1>1
    <3>2. Len(tail') = 0 \/ Len(tail') \in 1..Len(tail')  BY <2>2
    <3> QED BY <2>1, <2>2, <3>1, <3>2
  <2>4. Len(tail') = n  BY <1>1, <2>2, <2>3
  <2> QED BY <2>1, <2>4 DEF Pos
<1>6. tail' # <<>> <=> Len(tail') # 0  BY <1>4, EmptySeq
<1> QED BY <1>1, <1>2, <1>4, <1>5, <1>6

LEMMA AfterIs ==
  ASSUME NEW answer, NEW attempt
  PROVE  /\ After("asking", "ok", attempt) = "mutating"
         /\ answer # "ok" => After("asking", answer, attempt) \in {"ask", "failed"}
         /\ answer # "ok" /\ After("asking", answer, attempt) = "ask" =>
              answer = "busy" /\ attempt < MaxAttempts
         /\ After("committing", "ok", attempt) = "succeeded"
         /\ answer # "ok" => After("committing", answer, attempt) = "abort"
         /\ After("aborting", answer, attempt) = "failed"
<1>1. After("asking", "ok", attempt) = "mutating"  BY DEF After
<1>2. ASSUME answer # "ok" PROVE After("asking", answer, attempt) =
        IF answer = "busy" /\ attempt < MaxAttempts THEN "ask" ELSE "failed"
  BY <1>2 DEF After
<1>3. After("committing", "ok", attempt) = "succeeded"  BY DEF After
<1>4. answer # "ok" => After("committing", answer, attempt) = "abort"  BY DEF After
<1>5. After("aborting", answer, attempt) = "failed"  BY DEF After
<1> QED BY <1>1, <1>2, <1>3, <1>4, <1>5

(* What an answer, or its loss, does to the Worker. *)
LEMMA Answering ==
  ASSUME TypeOK, Tries, NEW r \in Entry, Answered(r),
         r.answer = "busy" => r.do = "ask"
  PROVE  /\ pc' \in [Mutator -> {"ask", "asking", "mutating", "persisting", "listing",
                         "commit", "committing", "abort", "aborting",
                         "succeeded", "failed", "killed"}]
         /\ attempts' \in [Mutator -> 0..MaxAttempts] /\ base' \in [Mutator -> Revision]
         /\ Tries'
         /\ \A x \in Mutator \ {r.from} : pc'[x] = pc[x] /\ base'[x] = base[x]
         /\ \/ /\ pc[r.from] # Waiting[r.do]
               /\ pc'[r.from] = pc[r.from] /\ base'[r.from] = base[r.from]
            \/ /\ pc[r.from] = "asking" /\ r.do = "ask" /\ r.answer = "ok"
               /\ pc'[r.from] = "mutating" /\ base'[r.from] = r.saw
            \/ /\ pc[r.from] = "asking" /\ r.do = "ask" /\ r.answer # "ok"
               /\ pc'[r.from] \in {"ask", "failed"} /\ base'[r.from] = base[r.from]
               /\ pc'[r.from] = "ask" => r.answer = "busy"
            \/ /\ pc[r.from] = "committing" /\ r.do = "commit"
               /\ pc'[r.from] \in {"succeeded", "abort"} /\ base'[r.from] = base[r.from]
               /\ pc'[r.from] = "succeeded" => r.answer = "ok"
            \/ /\ pc[r.from] = "aborting" /\ r.do = "abort"
               /\ pc'[r.from] = "failed" /\ base'[r.from] = base[r.from]
<1> DEFINE m == r.from
<1>1. m \in Mutator /\ r.do \in {"ask", "commit", "abort"} /\ r.saw \in Revision
  BY WaitingIs DEF Entry
<1>2. MaxAttempts \in Nat  BY CoordinatorAssumption
<1>3. CASE pc[m] # Waiting[r.do]
  BY <1>1, <1>3 DEF Answered, TypeOK, Tries
<1>4. CASE pc[m] = Waiting[r.do]
  <2>1. /\ attempts' = [attempts EXCEPT ![m] = IF r.answer = "busy" THEN attempts[m] + 1 ELSE attempts[m]]
        /\ pc' = [pc EXCEPT ![m] = After(pc[m], r.answer, attempts'[m])]
        /\ base' = [base EXCEPT ![m] = IF r.do = "ask" /\ r.answer = "ok" THEN r.saw ELSE base[m]]
    BY <1>4 DEF Answered
  <2>2. CASE r.do = "ask"
    <3>1. pc[m] = "asking"  BY <2>2, <1>4, WaitingIs
    <3>2. attempts[m] \in Nat /\ attempts[m] < MaxAttempts
      BY <1>1, <1>2, <3>1 DEF TypeOK, Tries
    <3>3. attempts' \in [Mutator -> 0..MaxAttempts] /\ base' \in [Mutator -> Revision]
      BY <1>1, <1>2, <2>1, <3>2 DEF TypeOK
    <3>4. /\ r.answer = "ok" => pc'[m] = "mutating"
          /\ r.answer # "ok" => pc'[m] \in {"ask", "failed"}
          /\ pc'[m] = "ask" => r.answer = "busy" /\ attempts'[m] < MaxAttempts
      <4>1. pc'[m] = After("asking", r.answer, attempts'[m])
        BY <1>1, <2>1, <3>1 DEF TypeOK
      <4> QED BY <4>1, AfterIs
    <3>5. /\ r.answer = "ok" => base'[m] = r.saw
          /\ r.answer # "ok" => base'[m] = base[m]
          /\ \A x \in Mutator \ {m} : pc'[x] = pc[x] /\ base'[x] = base[x] /\ attempts'[x] = attempts[x]
      BY <1>1, <2>1, <2>2 DEF TypeOK
    <3>6. pc' = [pc EXCEPT ![m] = pc'[m]]  BY <1>1, <2>1 DEF TypeOK
    <3>7. Tries'  BY <1>1, <3>4, <3>5, <3>6 DEF Tries, TypeOK
    <3>8. pc' \in [Mutator -> {"ask", "asking", "mutating", "persisting", "listing",
                         "commit", "committing", "abort", "aborting",
                         "succeeded", "failed", "killed"}]
      BY <1>1, <3>4, <3>6 DEF TypeOK
    <3> QED BY <2>2, <3>1, <3>3, <3>4, <3>5, <3>7, <3>8
  <2>3. CASE r.do # "ask"
    <3>1. \/ r.do = "commit" /\ pc[m] = "committing"
          \/ r.do = "abort" /\ pc[m] = "aborting"
      BY <1>1, <1>4, <2>3, WaitingIs
    <3>2. attempts' = attempts /\ base' = base
      BY <1>1, <2>1, <2>3 DEF TypeOK
    <3>3. \/ pc[m] = "committing" /\ r.answer = "ok" /\ pc'[m] = "succeeded"
          \/ pc[m] = "committing" /\ r.answer # "ok" /\ pc'[m] = "abort"
          \/ pc[m] = "aborting" /\ pc'[m] = "failed"
      <4>1. pc'[m] = After(pc[m], r.answer, attempts'[m])
        BY <1>1, <2>1 DEF TypeOK
      <4> QED BY <3>1, <4>1, AfterIs
    <3>4. pc' = [pc EXCEPT ![m] = pc'[m]]  BY <1>1, <2>1 DEF TypeOK
    <3>5. Tries'  BY <1>1, <3>2, <3>3, <3>4 DEF Tries, TypeOK
    <3>6. \A x \in Mutator \ {m} : pc'[x] = pc[x] /\ base'[x] = base[x]
      BY <1>1, <3>2, <3>4 DEF TypeOK
    <3>7. /\ pc' \in [Mutator -> {"ask", "asking", "mutating", "persisting", "listing",
                         "commit", "committing", "abort", "aborting",
                         "succeeded", "failed", "killed"}]
          /\ attempts' \in [Mutator -> 0..MaxAttempts] /\ base' \in [Mutator -> Revision]
      BY <1>1, <3>2, <3>3, <3>4 DEF TypeOK
    <3> QED BY <3>1, <3>2, <3>3, <3>5, <3>6, <3>7
  <2> QED BY <2>2, <2>3
<1> QED BY <1>3, <1>4

-----------------------------------------------------------------------------
(* What has been made stays as it is. *)
Keeps == /\ objects \subseteq objects' /\ manifests \subseteq manifests'
         /\ \A m \in Mutator : Frozen(m) => Frozen(m)' /\ content'[m] = content[m]

LEMMA GoodStays ==
  ASSUME TypeOK, Keeps, NEW r \in Revision, Good(r)
  PROVE  Good(r)' /\ Of(r)' = Of(r)
<1>1. r = Seed \/ r \in Mutator  BY DEF Revision
<1> QED BY <1>1 DEF Good, Keeps, Of

Rest == tail \in Seq(Request) /\ Tries /\ Queue /\ Head1 /\ Good(pointer) /\ Built /\ Leased

(* A Worker goes on without the coordinator. *)
LEMMA WorkerStep ==
  ASSUME IInv, NEW m \in Mutator,
         Mutate(m) \/ PutObjects(m) \/ PutManifest(m) \/ Throw(m) \/ Disconnect(m) \/ Kill(m)
  PROVE  Rest' /\ Keeps
<1> DEFINE steps == {"mutating", "persisting", "listing", "commit", "committing"}
<1>1. UNCHANGED <<attempts, base, pointer, lease, lapsed, tail>> /\ Pos' = Pos
  BY DEF Mutate, PutObjects, PutManifest, Throw, Disconnect, Kill, coordinator, Pos
<1>2. /\ \A x \in Mutator \ {m} : pc'[x] = pc[x] /\ content'[x] = content[x]
      /\ content'[m] # content[m] => pc[m] = "mutating" /\ pc'[m] = "persisting"
      /\ \/ pc[m] = "mutating" /\ pc'[m] \in {"persisting", "abort"}
         \/ pc[m] = "persisting" /\ pc'[m] \in {"listing", "abort"}
         \/ pc[m] = "listing" /\ pc'[m] \in {"commit", "abort"}
         \/ pc[m] = "asking" /\ pc'[m] = "failed"
         \/ pc[m] = "committing" /\ pc'[m] = "abort"
         \/ pc[m] = "aborting" /\ pc'[m] = "failed"
         \/ pc[m] \notin {"succeeded", "failed", "killed"} /\ pc'[m] = "killed"
  <2>1. CASE Mutate(m) \/ PutObjects(m) \/ PutManifest(m) \/ Throw(m) \/ Kill(m)
    BY <2>1 DEF Mutate, PutObjects, PutManifest, Throw, Kill, IInv, TypeOK
  <2>2. CASE Disconnect(m)
    <3>1. pc[m] \in {"asking", "committing", "aborting"}  BY <2>2, WaitingIs DEF Disconnect
    <3>2. pc'[m] = After(pc[m], "error", attempts[m]) /\ content' = content
          /\ \A x \in Mutator \ {m} : pc'[x] = pc[x]
      BY <2>2 DEF Disconnect, IInv, TypeOK
    <3> QED BY <3>1, <3>2, AfterIs
  <2> QED BY <2>1, <2>2
<1>3. /\ objects \subseteq objects' /\ manifests \subseteq manifests'
      /\ pc'[m] = "listing" => m \in objects'
      /\ pc'[m] = "commit" => m \in manifests'
  <2>1. CASE Mutate(m) \/ Throw(m) \/ Kill(m)
    BY <2>1, <1>2 DEF Mutate, Throw, Kill, IInv, TypeOK
  <2>2. CASE Disconnect(m)
    <3>1. pc[m] \in {"asking", "committing", "aborting"}  BY <2>2, WaitingIs DEF Disconnect
    <3> QED BY <1>2, <2>2, <3>1 DEF Disconnect
  <2>3. CASE PutObjects(m) \/ PutManifest(m)
    BY <2>3 DEF PutObjects, PutManifest, IInv, TypeOK
  <2> QED BY <2>1, <2>2, <2>3
<1>4. Keeps  BY <1>2, <1>3 DEF Keeps, Frozen
<1>5. \A x \in Mutator : Sent(x)' <=> Sent(x)  BY <1>1 DEF Sent
<1>6. \A r \in Revision : Good(r) => Good(r)' /\ Of(r)' = Of(r)
  BY <1>4, GoodStays DEF IInv
<1>7. Tries'  BY <1>1, <1>2 DEF IInv, Tries
<1>8. Queue'
  <2>1. \A i \in Pos : tail[i].from \in Mutator /\ tail[i].do \in {"ask", "commit", "abort"}
    BY PosIs, WaitingIs DEF IInv, Request
  <2>2. ASSUME NEW i \in Pos PROVE pc'[tail[i].from] \in Behind[tail[i].do]
    <3>1. pc[tail[i].from] \in Behind[tail[i].do]  BY DEF IInv, Queue
    <3>2. \/ pc'[tail[i].from] = pc[tail[i].from] \/ tail[i].from = m  BY <1>2, <2>1
    <3> QED BY <1>2, <2>1, <3>1, <3>2 DEF Behind
  <2> QED BY <1>1, <2>2 DEF IInv, Queue
<1>9. Good(pointer)' /\ Of(pointer)' = Of(pointer)
  BY <1>1, <1>6 DEF IInv, TypeOK
<1>10. Head1'
  <2> SUFFICES ASSUME tail # <<>> PROVE HeadOK(tail[1])'
    BY <1>1 DEF Head1
  <2>1. HeadOK(tail[1]) /\ tail[1].saw \in Revision
    BY PosIs DEF IInv, Head1, Request
  <2> QED BY <1>1, <1>6, <1>9, <2>1 DEF HeadOK
<1>11. Built'
  <2> SUFFICES ASSUME NEW x \in Mutator
        PROVE (/\ At(x, steps) => Good(base[x]) /\ base[x] # x
               /\ At(x, {"persisting", "listing", "commit", "committing"}) =>
                    content[x] = Of(base[x]) \union {x}
               /\ At(x, {"listing", "commit", "committing"}) => x \in objects
               /\ At(x, {"commit", "committing"}) => x \in manifests)'
    BY DEF Built
  <2>1. base[x] \in Revision /\ base'[x] = base[x]  BY <1>1 DEF IInv, TypeOK
  <2>2. At(x, steps)' => At(x, steps)  BY <1>2, <1>5 DEF At
  <2>3. At(x, steps)' => Good(base[x])' /\ base'[x] # x /\ Of(base[x])' = Of(base[x])
    BY <1>6, <2>1, <2>2 DEF IInv, Built
  <2>4. At(x, {"persisting", "listing", "commit", "committing"})' =>
          content'[x] = Of(base[x]) \union {x}
    <3>1. CASE At(x, {"persisting", "listing", "commit", "committing"}) /\ content'[x] = content[x]
      BY <3>1 DEF IInv, Built
    <3>2. CASE content'[x] # content[x]
      BY <1>2, <3>2 DEF Mutate, PutObjects, PutManifest, Throw, Disconnect, Kill, IInv, TypeOK
    <3>3. CASE pc[x] = "mutating" /\ pc'[x] = "persisting"
      <4>1. x = m  BY <1>2, <3>3
      <4>2. Mutate(m)
        BY <3>3, <4>1, WaitingIs DEF PutObjects, PutManifest, Throw, Disconnect, Kill, IInv, TypeOK
      <4> QED BY <3>3, <4>1, <4>2 DEF Mutate, IInv, TypeOK
    <3> QED BY <1>2, <1>5, <3>1, <3>2, <3>3 DEF At
  <2>5. At(x, {"listing", "commit", "committing"})' => x \in objects'
    BY <1>2, <1>3, <1>5 DEF At, IInv, Built
  <2>6. At(x, {"commit", "committing"})' => x \in manifests'
    BY <1>2, <1>3, <1>5 DEF At, IInv, Built
  <2>7. At(x, {"persisting", "listing", "commit", "committing"})' => At(x, steps)'
    BY DEF At
  <2> QED BY <2>3, <2>4, <2>5, <2>6, <2>7
<1>12. Leased'
  <2> SUFFICES ASSUME lease # NoLease PROVE Leased'  BY <1>1 DEF Leased
  <2>1. lease.token \in Mutator  BY DEF IInv, TypeOK
  <2>2. At(lease.token, steps)' => At(lease.token, steps)  BY <1>1, <1>2, <1>5, <2>1 DEF At
  <2>3. pc'[lease.token] # "ask" /\ (pc'[lease.token] = "asking" => pc[lease.token] = "asking")
    BY <1>2, <2>1 DEF IInv, Leased
  <2> QED BY <1>1, <2>1, <2>2, <2>3 DEF IInv, Leased, GivesLease
<1> QED BY <1>1, <1>4, <1>7, <1>8, <1>9, <1>10, <1>11, <1>12 DEF Rest, IInv, TypeOK

(* A Worker asks the coordinator. *)
LEMMA SendStep == ASSUME IInv, NEW m \in Mutator, Send(m) PROVE Rest' /\ Keeps
<1> DEFINE r == [from |-> m, do |-> pc[m], at |-> "lease", saw |-> Seed, answer |-> "none"]
           n == Len(tail) + 1
<1>1. /\ UNCHANGED <<attempts, base, content, objects, manifests, pointer, lease, lapsed>>
      /\ tail' = Append(tail, r) /\ pc' = [pc EXCEPT ![m] = Waiting[pc[m]]]
  BY DEF Send
<1>2. \/ pc[m] = "ask" /\ pc'[m] = "asking"
      \/ pc[m] = "commit" /\ pc'[m] = "committing"
      \/ pc[m] = "abort" /\ pc'[m] = "aborting"
  BY WaitingIs DEF Send, IInv, TypeOK
<1>3. /\ r \in Request /\ r.from = m /\ r.do = pc[m] /\ r.at = "lease" /\ r.answer = "none"
  BY <1>2, WaitingIs DEF Request, Revision
<1>4. \A x \in Mutator \ {m} : pc'[x] = pc[x]  BY <1>1 DEF IInv, TypeOK
<1> HIDE DEF r
<1>5. /\ n \in Nat \ {0} /\ Pos' = Pos \union {n} /\ n \notin Pos
      /\ tail'[n] = r /\ \A i \in Pos : tail'[i] = tail[i] /\ tail[i] \in Request
      /\ tail # <<>> => 1 \in Pos
      /\ tail = <<>> => n = 1
  <2>1. /\ tail \in Seq(Request) /\ Len(tail) \in Nat /\ Pos = 1..Len(tail)
        /\ \A i \in Pos : tail[i] \in Request
        /\ tail # <<>> <=> 1 \in Pos
    BY PosIs DEF IInv, TypeOK
  <2>2. /\ Append(tail, r) \in Seq(Request) /\ Len(Append(tail, r)) = Len(tail) + 1
        /\ \A i \in 1..Len(tail) : Append(tail, r)[i] = tail[i]
        /\ Append(tail, r)[Len(tail) + 1] = r
    BY <1>3, <2>1, AppendProperties
  <2>3. Pos' = 1..n  BY <1>1, <2>2, LenProperties DEF Pos
  <2> QED BY <1>1, <2>1, <2>2, <2>3
<1> HIDE DEF n
<1>6. Keeps  BY <1>1, <1>2, <1>4 DEF Keeps, Frozen
<1>7. \A q \in Revision : Good(q) => Good(q)' /\ Of(q)' = Of(q)
  BY <1>6, GoodStays DEF IInv
<1>8. \A x \in Mutator : Sent(x)' <=> Sent(x) \/ (x = m /\ pc[m] = "commit")
  BY <1>3, <1>5 DEF Sent
<1>9. Tries'  BY <1>1, <1>2, <1>4 DEF IInv, Tries
<1>10. Queue'
  <2>1. \A i \in Pos : tail[i].from \in Mutator /\ tail[i].do \in {"ask", "commit", "abort"}
    BY <1>5, WaitingIs DEF Request
  <2>2. ASSUME NEW i \in Pos', i # 1 PROVE tail'[i].at = "lease"
    BY <1>3, <1>5, <2>2 DEF IInv, Queue
  <2>3. \A i \in Pos : pc[tail[i].from] \in Behind[tail[i].do]  BY DEF IInv, Queue
  <2>4. ASSUME NEW i \in Pos' PROVE pc'[tail'[i].from] \in Behind[tail'[i].do]
    <3>1. CASE i = n  BY <1>2, <1>3, <1>5, <3>1 DEF Behind
    <3>2. CASE i \in Pos /\ tail[i].from # m  BY <1>4, <1>5, <2>1, <2>3, <3>2
    <3>3. CASE i \in Pos /\ tail[i].from = m
      BY <1>2, <1>5, <2>1, <2>3, <3>3 DEF Behind
    <3> QED BY <1>5, <3>1, <3>2, <3>3
  <2>5. ASSUME NEW i \in Pos PROVE tail[i].from = m => tail[i].do # "ask" /\ pc[m] # "ask"
    BY <1>2, <2>1, <2>3 DEF Behind
  <2>6. ASSUME NEW i \in Pos', NEW j \in Pos', tail'[i].from = tail'[j].from, tail'[i].do = "ask"
        PROVE  i = j
    <3>1. CASE i \in Pos /\ j \in Pos  BY <1>5, <2>6, <3>1 DEF IInv, Queue
    <3>2. CASE i = n /\ j \in Pos  BY <1>3, <1>5, <2>5, <2>6, <3>2
    <3>3. CASE i \in Pos /\ j = n  BY <1>3, <1>5, <2>5, <2>6, <3>3
    <3> QED BY <1>5, <3>1, <3>2, <3>3
  <2>7. ASSUME NEW i \in Pos' PROVE tail'[i].answer = "busy" => tail'[i].do = "ask"
    BY <1>3, <1>5 DEF IInv, Queue
  <2> QED BY <2>2, <2>4, <2>6, <2>7 DEF Queue
<1>11. Good(pointer)' /\ Of(pointer)' = Of(pointer)
  BY <1>1, <1>7 DEF IInv, TypeOK
<1>12. Head1'
  <2>1. CASE tail = <<>>
    <3>1. tail'[1] = r  BY <1>5, <2>1
    <3>2. tail'[1].do = pc[m] /\ tail'[1].at = "lease"  BY <1>3, <3>1
    <3> QED BY <3>2 DEF Head1, HeadOK
  <2>2. CASE tail # <<>>
    <3>1. tail'[1] = tail[1] /\ HeadOK(tail[1]) /\ tail[1].saw \in Revision
      BY <1>5, <2>2 DEF IInv, Head1, Request
    <3> QED BY <1>1, <1>7, <1>11, <3>1 DEF HeadOK, Head1
  <2> QED BY <2>1, <2>2
<1>13. Built'
  <2> SUFFICES ASSUME NEW x \in Mutator
        PROVE (/\ At(x, {"mutating", "persisting", "listing", "commit", "committing"}) =>
                    Good(base[x]) /\ base[x] # x
               /\ At(x, {"persisting", "listing", "commit", "committing"}) =>
                    content[x] = Of(base[x]) \union {x}
               /\ At(x, {"listing", "commit", "committing"}) => x \in objects
               /\ At(x, {"commit", "committing"}) => x \in manifests)'
    BY DEF Built
  <2>1. base[x] \in Revision  BY DEF IInv, TypeOK
  <2>2. /\ At(x, {"mutating", "persisting", "listing", "commit", "committing"})' =>
             At(x, {"mutating", "persisting", "listing", "commit", "committing"})
        /\ At(x, {"persisting", "listing", "commit", "committing"})' =>
             At(x, {"persisting", "listing", "commit", "committing"})
        /\ At(x, {"listing", "commit", "committing"})' => At(x, {"listing", "commit", "committing"})
        /\ At(x, {"commit", "committing"})' => At(x, {"commit", "committing"})
    BY <1>2, <1>4, <1>8 DEF At
  <2>3. /\ At(x, {"mutating", "persisting", "listing", "commit", "committing"})' =>
             Good(base[x])' /\ base'[x] # x /\ Of(base[x])' = Of(base[x])
        /\ At(x, {"persisting", "listing", "commit", "committing"})' =>
             At(x, {"mutating", "persisting", "listing", "commit", "committing"})'
    BY <1>1, <1>7, <2>1, <2>2 DEF IInv, Built, At
  <2> QED BY <1>1, <2>1, <2>2, <2>3 DEF IInv, Built
<1>14. Leased'
  <2> SUFFICES ASSUME lease # NoLease PROVE Leased'  BY <1>1 DEF Leased
  <2>1. lease.token \in Mutator  BY DEF IInv, TypeOK
  <2>2. At(lease.token, {"mutating", "persisting", "listing", "commit", "committing"})' =>
          At(lease.token, {"mutating", "persisting", "listing", "commit", "committing"})
    BY <1>1, <1>2, <1>4, <1>8, <2>1 DEF At
  <2>3. pc'[lease.token] # "ask" /\ (pc'[lease.token] = "asking" => pc[lease.token] = "asking")
    BY <1>2, <1>4, <2>1 DEF IInv, Leased
  <2>4. tail # <<>> => tail' # <<>> /\ tail'[1] = tail[1]
    <3>1. tail' # <<>>  BY <1>1, <1>3, AppendProperties DEF IInv, TypeOK
    <3> QED BY <1>5, <3>1
  <2> QED BY <1>1, <2>1, <2>2, <2>3, <2>4 DEF IInv, Leased, GivesLease
<1>15. tail' \in Seq(Request)  BY <1>1, <1>3, AppendProperties DEF IInv, TypeOK
<1> QED BY <1>6, <1>9, <1>10, <1>11, <1>12, <1>13, <1>14, <1>15 DEF Rest

(* A handler of the coordinator comes to its next await, or to its answer. *)
LEMMA HandlerStep ==
  ASSUME IInv, 1 \in Pos, NEW r \in Request,
         r.from = tail[1].from, r.do = tail[1].do, r.answer = "busy" => r.do = "ask",
         tail' = [tail EXCEPT ![1] = r], UNCHANGED workers,
         HeadOK(r)', Good(pointer)', Leased'
  PROVE  Rest' /\ Keeps
<1>1. UNCHANGED <<pc, attempts, base, content, objects, manifests>>  BY DEF workers
<1>2. Keeps  BY <1>1 DEF Keeps, Frozen
<1>3. \A q \in Revision : Good(q) => Good(q)' /\ Of(q)' = Of(q)
  BY <1>2, GoodStays DEF IInv
<1>4. /\ tail' \in Seq(Request) /\ tail'[1] = r /\ Queue'
      /\ \A m : Sent(m)' <=> Sent(m)
  BY <1>1, UpdateQueue DEF IInv
<1>5. Head1'  BY <1>4 DEF Head1, HeadOK
<1>6. Built'
  <2>1. \A x \in Mutator : base[x] \in Revision  BY DEF IInv, TypeOK
  <2>2. \A x \in Mutator : Sent(x)' <=> Sent(x)  BY <1>4
  <2>3. \A x \in Mutator : Good(base[x]) => Good(base[x])' /\ Of(base[x])' = Of(base[x])
    BY <1>1, <1>3, <2>1
  <2> SUFFICES ASSUME NEW x \in Mutator
        PROVE (/\ At(x, {"mutating", "persisting", "listing", "commit", "committing"}) =>
                    Good(base[x]) /\ base[x] # x
               /\ At(x, {"persisting", "listing", "commit", "committing"}) =>
                    content[x] = Of(base[x]) \union {x}
               /\ At(x, {"listing", "commit", "committing"}) => x \in objects
               /\ At(x, {"commit", "committing"}) => x \in manifests)'
    BY DEF Built
  <2>4. At(x, {"persisting", "listing", "commit", "committing"}) =>
          At(x, {"mutating", "persisting", "listing", "commit", "committing"})
    BY DEF At
  <2> QED BY <1>1, <2>2, <2>3, <2>4 DEF IInv, Built, At
<1> QED BY <1>1, <1>2, <1>4, <1>5, <1>6 DEF Rest, IInv, Tries

LEMMA LeaseKept ==
  ASSUME IInv, tail # <<>>, tail[1].at # "reply", UNCHANGED <<workers, lease>>,
         \A m : Sent(m)' <=> Sent(m)
  PROVE  Leased'
<1>1. UNCHANGED <<pc, base, lease>>  BY DEF workers
<1>2. lease # NoLease => pc[lease.token] # "asking"  BY DEF IInv, Leased, GivesLease
<1> QED BY <1>1, <1>2 DEF IInv, Leased, At

LEMMA GetLeaseStep == ASSUME IInv, 1 \in Pos, GetLease(1) PROVE Rest' /\ Keeps
<1> DEFINE h == tail[1]
<1>1. /\ h \in Request /\ h.from \in Mutator /\ h.do \in {"ask", "commit", "abort"} /\ HeadOK(h)
      /\ tail # <<>> /\ (h.answer = "busy" => h.do = "ask")
  BY PosIs, WaitingIs DEF IInv, Head1, Request, Queue
<1>2. UNCHANGED <<workers, pointer, lease, lapsed>> /\ h.at = "lease"  BY DEF GetLease
<1>3. UNCHANGED <<pc, base, content, objects, manifests>>  BY <1>2 DEF workers
<1>4. PICK r \in Request :
        /\ tail' = [tail EXCEPT ![1] = r] /\ r.from = h.from /\ r.do = h.do
        /\ \/ r.do = "ask" /\ r.at = "pointer" /\ r.answer = h.answer
           \/ r.do = "ask" /\ r.at = "reply" /\ r.answer = "busy"
           \/ /\ r.do = "commit" /\ r.at = "pointer" /\ r.answer = h.answer
              /\ Holds(h.from) /\ r.saw = lease.base
           \/ r.do = "commit" /\ r.at = "reply" /\ r.answer = "refused"
           \/ r.do = "abort" /\ r.at = "drop" /\ r.answer = h.answer
           \/ r.do = "abort" /\ r.at = "reply" /\ r.answer = "ok"
  <2>1. lease # NoLease => lease.base \in Revision  BY DEF IInv, TypeOK
  <2>2. CASE h.do = "ask"
    <3>1. \/ tail' = [tail EXCEPT ![1] = [h EXCEPT !.at = "reply", !.answer = "busy"]]
          \/ tail' = [tail EXCEPT ![1] = [h EXCEPT !.at = "pointer"]]
      BY <2>2 DEF GetLease, Respond, Await
    <3>2. /\ [h EXCEPT !.at = "reply", !.answer = "busy"] \in Request
          /\ [h EXCEPT !.at = "pointer"] \in Request
      BY <1>1 DEF Request
    <3> QED BY <1>1, <2>2, <3>1, <3>2 DEF Request
  <2>3. CASE h.do = "commit"
    <3>1. \/ /\ tail' = [tail EXCEPT ![1] = [h EXCEPT !.at = "pointer", !.saw = lease.base]]
             /\ Holds(h.from)
          \/ tail' = [tail EXCEPT ![1] = [h EXCEPT !.at = "reply", !.answer = "refused"]]
      BY <2>3 DEF GetLease, Respond
    <3>2. /\ [h EXCEPT !.at = "reply", !.answer = "refused"] \in Request
          /\ Holds(h.from) => [h EXCEPT !.at = "pointer", !.saw = lease.base] \in Request
      BY <1>1, <2>1 DEF Request, Holds
    <3> QED BY <1>1, <2>3, <3>1, <3>2 DEF Request
  <2>4. CASE h.do = "abort"
    <3>1. \/ tail' = [tail EXCEPT ![1] = [h EXCEPT !.at = "drop"]]
          \/ tail' = [tail EXCEPT ![1] = [h EXCEPT !.at = "reply", !.answer = "ok"]]
      BY <2>4 DEF GetLease, Respond, Await
    <3>2. /\ [h EXCEPT !.at = "reply", !.answer = "ok"] \in Request
          /\ [h EXCEPT !.at = "drop"] \in Request
      BY <1>1 DEF Request
    <3> QED BY <1>1, <2>4, <3>1, <3>2 DEF Request
  <2> QED BY <1>1, <2>2, <2>3, <2>4
<1>5. \A m : Sent(m)' <=> Sent(m)
  BY <1>1, <1>3, <1>4, UpdateQueue DEF IInv
<1>6. HeadOK(r)'
  <2>1. Sent(h.from) \/ h.do # "commit"  BY DEF Sent
  <2>2. Holds(h.from) /\ h.do = "commit" => lease.base = base[h.from]
    BY <2>1 DEF Holds, IInv, Leased, At
  <2> QED BY <1>1, <1>3, <1>4, <2>2 DEF HeadOK
<1>7. Good(pointer)'  BY <1>2, <1>3 DEF IInv, Good, Frozen
<1>8. Leased'  BY <1>1, <1>2, <1>5, LeaseKept
<1> QED BY <1>1, <1>2, <1>4, <1>6, <1>7, <1>8, HandlerStep

LEMMA ReadPointerStep == ASSUME IInv, 1 \in Pos, ReadPointer(1) PROVE Rest' /\ Keeps
<1> DEFINE h == tail[1]
<1>1. /\ h \in Request /\ h.from \in Mutator /\ h.do \in {"ask", "commit", "abort"} /\ HeadOK(h)
      /\ tail # <<>> /\ (h.answer = "busy" => h.do = "ask")
  BY PosIs, WaitingIs DEF IInv, Head1, Request, Queue
<1>2. UNCHANGED <<workers, pointer, lease, lapsed>> /\ h.at = "pointer"  BY DEF ReadPointer
<1>3. UNCHANGED <<pc, base, content, objects, manifests>>  BY <1>2 DEF workers
<1>4. pointer \in Revision  BY DEF IInv, TypeOK
<1>5. PICK r \in Request :
        /\ tail' = [tail EXCEPT ![1] = r] /\ r.from = h.from /\ r.do = h.do
        /\ \/ r.do = "ask" /\ r.at = "store" /\ r.saw = pointer /\ r.answer = h.answer
           \/ r.do = "commit" /\ r.at = "promote" /\ h.saw = pointer /\ r.answer = h.answer
           \/ r.do = "commit" /\ r.at = "reply" /\ r.answer = "refused"
  <2>1. CASE h.do = "ask"
    <3>1. tail' = [tail EXCEPT ![1] = [h EXCEPT !.at = "store", !.saw = pointer]]
      BY <2>1 DEF ReadPointer
    <3>2. [h EXCEPT !.at = "store", !.saw = pointer] \in Request  BY <1>1, <1>4 DEF Request
    <3> QED BY <1>1, <2>1, <3>1, <3>2 DEF Request
  <2>2. CASE h.do # "ask"
    <3>1. h.do = "commit"  BY <1>1, <1>2, <2>2 DEF HeadOK
    <3>2. \/ /\ tail' = [tail EXCEPT ![1] = [h EXCEPT !.at = "promote"]]
             /\ h.saw = pointer
          \/ tail' = [tail EXCEPT ![1] = [h EXCEPT !.at = "reply", !.answer = "refused"]]
      BY <2>2 DEF ReadPointer, Respond, Await
    <3>3. /\ [h EXCEPT !.at = "promote"] \in Request
          /\ [h EXCEPT !.at = "reply", !.answer = "refused"] \in Request
      BY <1>1 DEF Request
    <3> QED BY <1>1, <3>1, <3>2, <3>3 DEF Request
  <2> QED BY <2>1, <2>2
<1>6. \A m : Sent(m)' <=> Sent(m)
  BY <1>1, <1>3, <1>5, UpdateQueue DEF IInv
<1>7. HeadOK(r)'  BY <1>1, <1>2, <1>3, <1>5 DEF HeadOK
<1>8. Good(pointer)'  BY <1>2, <1>3 DEF IInv, Good, Frozen
<1>9. Leased'  BY <1>1, <1>2, <1>6, LeaseKept
<1> QED BY <1>1, <1>2, <1>5, <1>7, <1>8, <1>9, HandlerStep

LEMMA StoreLeaseStep == ASSUME IInv, 1 \in Pos, StoreLease(1) PROVE Rest' /\ Keeps
<1> DEFINE h == tail[1]
<1>1. /\ h \in Request /\ h.from \in Mutator /\ h.do \in {"ask", "commit", "abort"} /\ HeadOK(h)
      /\ h.saw \in Revision /\ tail # <<>>
  BY PosIs, WaitingIs DEF IInv, Head1, Request
<1>2. /\ UNCHANGED <<workers, pointer>> /\ h.at = "store"
      /\ lease' = [token |-> h.from, base |-> h.saw]
      /\ tail' = [tail EXCEPT ![1] = [h EXCEPT !.at = "reply", !.answer = "ok"]]
  BY DEF StoreLease, Respond
<1>3. UNCHANGED <<pc, base, content, objects, manifests>>  BY <1>2 DEF workers
<1>4. h.do = "ask" /\ h.saw = pointer  BY <1>1, <1>2 DEF HeadOK
<1>5. PICK r \in Request :
        /\ tail' = [tail EXCEPT ![1] = r] /\ r.from = h.from /\ r.do = "ask"
        /\ r.at = "reply" /\ r.answer = "ok" /\ r.saw = pointer
  <2>1. [h EXCEPT !.at = "reply", !.answer = "ok"] \in Request  BY <1>1 DEF Request
  <2> QED BY <1>1, <1>2, <1>4, <2>1 DEF Request
<1>6. /\ tail' # <<>> /\ tail'[1] = r /\ \A m : Sent(m)' <=> Sent(m)
  BY <1>1, <1>2, <1>3, <1>4, <1>5, UpdateQueue DEF IInv
<1>7. Good(pointer)'  BY <1>2, <1>3 DEF IInv, Good, Frozen
<1>8. HeadOK(r)'  BY <1>2, <1>5, <1>7 DEF HeadOK
<1>9. Leased'
  <2>1. lease'.token = h.from /\ lease'.base = pointer  BY <1>2, <1>4
  <2>2. pc[h.from] \in {"asking", "failed", "killed"}  BY <1>4 DEF IInv, Queue, Behind
  <2>3. ~Sent(h.from)
    <3>1. \A i \in Pos : tail[i].from = h.from => i = 1  BY <1>4 DEF IInv, Queue
    <3> QED BY <1>4, <3>1 DEF Sent
  <2> QED BY <1>3, <1>5, <1>6, <2>1, <2>2, <2>3 DEF Leased, At, GivesLease
<1> QED BY <1>2, <1>4, <1>5, <1>7, <1>8, <1>9, HandlerStep

LEMMA PromoteStep ==
  ASSUME IInv, 1 \in Pos, Promote(1)
  PROVE  /\ Rest' /\ Keeps
         /\ tail[1].from \in Mutator
         /\ Of(pointer)' = Of(pointer) \union {tail[1].from}
<1> DEFINE h == tail[1]
<1>1. /\ h \in Request /\ h.from \in Mutator /\ h.do \in {"ask", "commit", "abort"} /\ HeadOK(h)
      /\ tail # <<>> /\ (h.answer = "busy" => h.do = "ask")
  BY PosIs, WaitingIs DEF IInv, Head1, Request, Queue
<1>2. /\ UNCHANGED <<workers, lease>> /\ h.at = "promote" /\ pointer' = h.from
      /\ tail' = [tail EXCEPT ![1] = [h EXCEPT !.at = "drop"]]
  BY DEF Promote, Await
<1>3. UNCHANGED <<pc, base, content, objects, manifests>>  BY <1>2 DEF workers
<1>4. h.do = "commit" /\ pointer = base[h.from]  BY <1>1, <1>2 DEF HeadOK
<1>5. Sent(h.from)  BY <1>4 DEF Sent
<1>6. PICK r \in Request :
        /\ tail' = [tail EXCEPT ![1] = r] /\ r.from = h.from /\ r.do = "commit"
        /\ r.at = "drop" /\ r.answer = h.answer
  <2>1. [h EXCEPT !.at = "drop"] \in Request  BY <1>1 DEF Request
  <2> QED BY <1>1, <1>2, <1>4, <2>1 DEF Request
<1>7. \A m : Sent(m)' <=> Sent(m)
  BY <1>1, <1>2, <1>3, <1>4, <1>6, UpdateQueue DEF IInv
<1>8. /\ content[h.from] = Of(base[h.from]) \union {h.from}
      /\ h.from \in objects /\ h.from \in manifests
  BY <1>1, <1>5 DEF IInv, Built, At
<1>9. pc[h.from] \in Behind["commit"]  BY <1>4 DEF IInv, Queue
<1>10. Good(pointer)'  BY <1>2, <1>3, <1>8, <1>9 DEF Good, Frozen, Behind
<1>11. Of(pointer)' = Of(pointer) \union {h.from}
  BY <1>1, <1>2, <1>3, <1>4, <1>8, CoordinatorAssumption DEF Of
<1>12. HeadOK(r)'  BY <1>2, <1>6, <1>11 DEF HeadOK
<1>13. Leased'  BY <1>1, <1>2, <1>7, LeaseKept
<1> QED BY <1>1, <1>2, <1>4, <1>6, <1>10, <1>11, <1>12, <1>13, HandlerStep

LEMMA DropLeaseStep == ASSUME IInv, 1 \in Pos, DropLease(1) PROVE Rest' /\ Keeps
<1> DEFINE h == tail[1]
<1>1. /\ h \in Request /\ h.do \in {"ask", "commit", "abort"} /\ HeadOK(h)
  BY PosIs, WaitingIs DEF IInv, Head1, Request
<1>2. /\ UNCHANGED <<workers, pointer>> /\ h.at = "drop" /\ lease' = NoLease
      /\ tail' = [tail EXCEPT ![1] = [h EXCEPT !.at = "reply", !.answer = "ok"]]
  BY DEF DropLease, Respond
<1>3. UNCHANGED <<pc, base, content, objects, manifests>>  BY <1>2 DEF workers
<1>4. h.do # "ask"  BY <1>1, <1>2 DEF HeadOK
<1>5. PICK r \in Request :
        /\ tail' = [tail EXCEPT ![1] = r] /\ r.from = h.from /\ r.do = h.do
        /\ r.at = "reply" /\ r.answer = "ok"
  <2>1. [h EXCEPT !.at = "reply", !.answer = "ok"] \in Request  BY <1>1 DEF Request
  <2> QED BY <1>1, <1>2, <2>1 DEF Request
<1>6. Good(pointer)'  BY <1>2, <1>3 DEF IInv, Good, Frozen
<1>7. Of(pointer)' = Of(pointer)  BY <1>2, <1>3 DEF Of
<1>8. HeadOK(r)'  BY <1>1, <1>2, <1>4, <1>5, <1>7 DEF HeadOK
<1>9. Leased'  BY <1>2 DEF Leased
<1> QED BY <1>2, <1>5, <1>6, <1>8, <1>9, HandlerStep

LEMMA HandleStep == ASSUME IInv, 1 \in Pos, Handle(1), ~Reply(1) PROVE Rest' /\ Keeps
BY GetLeaseStep, ReadPointerStep, StoreLeaseStep, PromoteStep, DropLeaseStep DEF Handle

(* A request is answered, or has failed, and leaves the queue. *)
LEMMA AnswerStep ==
  ASSUME IInv, 1 \in Pos, NEW r \in Entry, r.from = tail[1].from, r.do = tail[1].do,
         \/ tail[1].at = "reply" /\ r = tail[1]
         \/ tail[1].at # "reply" /\ r.answer = "error",
         Answered(r), tail' = Without(1),
         UNCHANGED <<content, objects, manifests, pointer, lease>>
  PROVE  /\ Rest' /\ Keeps
         /\ pc'[r.from] = "succeeded" /\ pc[r.from] # "succeeded" => r.from \in Of(pointer)
<1> DEFINE m == r.from
<1>1. m \in Mutator /\ r.do \in {"ask", "commit", "abort"} /\ tail[1] \in Request /\ HeadOK(tail[1])
      /\ tail # <<>> /\ (r.answer = "busy" => r.do = "ask")
  BY PosIs, WaitingIs DEF IInv, Head1, Request, Queue
<1>2. /\ tail' # <<>> <=> 1 \in Pos'
      /\ \A j \in Pos' : j + 1 \in Pos /\ tail'[j] = tail[j + 1] /\ j \in Nat \ {0}
  <2>1. Pos' = 1..(Len(tail) - 1) /\ Len(tail) \in Nat  BY RemoveFirst, PosIs DEF IInv
  <2>2. \A j \in Pos' : j \in Nat \ {0}  BY <2>1
  <2>3. /\ tail' # <<>> <=> 1 \in Pos'
        /\ \A j \in Pos' : j + 1 \in Pos /\ tail'[j] = tail[j + 1]
    BY RemoveFirst DEF IInv
  <2> QED BY <2>2, <2>3
<1>3. /\ Tries'
      /\ \A x \in Mutator \ {m} : pc'[x] = pc[x] /\ base'[x] = base[x]
      /\ \/ /\ pc[m] # Waiting[r.do]
            /\ pc'[m] = pc[m] /\ base'[m] = base[m]
         \/ /\ pc[m] = "asking" /\ r.do = "ask" /\ r.answer = "ok"
            /\ pc'[m] = "mutating" /\ base'[m] = r.saw
         \/ /\ pc[m] = "asking" /\ r.do = "ask" /\ r.answer # "ok"
            /\ pc'[m] \in {"ask", "failed"} /\ base'[m] = base[m]
            /\ pc'[m] = "ask" => r.answer = "busy"
         \/ /\ pc[m] = "committing" /\ r.do = "commit"
            /\ pc'[m] \in {"succeeded", "abort"} /\ base'[m] = base[m]
            /\ pc'[m] = "succeeded" => r.answer = "ok"
         \/ /\ pc[m] = "aborting" /\ r.do = "abort"
            /\ pc'[m] = "failed" /\ base'[m] = base[m]
  BY <1>1, Answering DEF IInv
<1>4. Keeps  BY <1>3 DEF Keeps, Frozen
<1>5. \A q \in Revision : Good(q) => Good(q)' /\ Of(q)' = Of(q)
  BY <1>4, GoodStays DEF IInv
<1>6. \A j \in Pos' : tail'[j].from = m => r.do # "ask"
  <2>1. \A j \in Pos' : j + 1 # 1  BY <1>2
  <2> QED BY <1>2, <2>1 DEF IInv, Queue
<1>7. /\ \A x \in Mutator : Sent(x)' => Sent(x)
      /\ r.do = "ask" => ~Sent(m)'
  BY <1>2, <1>6 DEF Sent
<1>8. Queue'
  <2>1. \A j \in Pos' : tail'[j].at = "lease" /\ (tail'[j].answer = "busy" => tail'[j].do = "ask")
    <3>1. \A j \in Pos' : j + 1 # 1  BY <1>2
    <3> QED BY <1>2, <3>1 DEF IInv, Queue
  <2>2. ASSUME NEW j \in Pos' PROVE pc'[tail'[j].from] \in Behind[tail'[j].do]
    <3>1. /\ tail'[j].from \in Mutator /\ tail'[j].do \in {"ask", "commit", "abort"}
      BY <1>2, PosIs, WaitingIs DEF IInv, Request
    <3>2. pc[tail'[j].from] \in Behind[tail'[j].do]  BY <1>2 DEF IInv, Queue
    <3>3. CASE tail'[j].from # m  BY <1>3, <3>1, <3>2, <3>3
    <3>4. CASE tail'[j].from = m
      <4>1. r.do # "ask"  BY <1>6, <3>4
      <4> QED BY <1>3, <3>1, <3>2, <3>4, <4>1 DEF Behind
    <3> QED BY <3>3, <3>4
  <2>3. ASSUME NEW i \in Pos', NEW j \in Pos', tail'[i].from = tail'[j].from, tail'[i].do = "ask"
        PROVE  i = j
    <3>1. i + 1 = j + 1  BY <1>2, <2>3 DEF IInv, Queue
    <3> QED BY <1>2, <3>1
  <2> QED BY <2>1, <2>2, <2>3 DEF Queue
<1>9. Good(pointer)' /\ Of(pointer)' = Of(pointer)
  BY <1>5 DEF IInv, TypeOK
<1>10. Head1'
  <2> SUFFICES ASSUME tail' # <<>> PROVE HeadOK(tail[1])'  BY DEF Head1
  <2>1. tail'[1].at = "lease"
    <3>1. 1 \in Pos' /\ 1 + 1 # 1  BY <1>2
    <3> QED BY <1>2, <3>1 DEF IInv, Queue
  <2> QED BY <2>1 DEF HeadOK
<1>11. ASSUME pc[m] = "asking", r.do = "ask", r.answer = "ok"
       PROVE  Good(r.saw) /\ r.saw # m /\ r.saw \in Revision
  <2>1. Good(r.saw) /\ r.saw \in Revision  BY <1>1, <1>11 DEF HeadOK, Request
  <2> QED BY <1>1, <1>11, <2>1, CoordinatorAssumption DEF Good, Frozen
<1>12. Built'
  <2> SUFFICES ASSUME NEW x \in Mutator
        PROVE (/\ At(x, {"mutating", "persisting", "listing", "commit", "committing"}) =>
                    Good(base[x]) /\ base[x] # x
               /\ At(x, {"persisting", "listing", "commit", "committing"}) =>
                    content[x] = Of(base[x]) \union {x}
               /\ At(x, {"listing", "commit", "committing"}) => x \in objects
               /\ At(x, {"commit", "committing"}) => x \in manifests)'
    BY DEF Built
  <2>1. CASE pc'[x] = "mutating" /\ pc[x] = "asking"
    <3>1. x = m  BY <1>3, <2>1
    <3>2. /\ r.do = "ask" /\ r.answer = "ok" /\ base'[m] = r.saw /\ ~Sent(m)'
          /\ pc[m] = "asking"
      BY <1>3, <1>7, <2>1, <3>1
    <3> QED BY <1>5, <1>11, <2>1, <3>1, <3>2 DEF At
  <2>2. CASE ~(pc'[x] = "mutating" /\ pc[x] = "asking")
    <3>1. base'[x] = base[x] /\ base[x] \in Revision
      BY <1>3, <2>2 DEF IInv, TypeOK
    <3>2. \/ pc'[x] = pc[x]
          \/ pc'[x] \notin {"mutating", "persisting", "listing", "commit", "committing"}
      BY <1>3, <2>2
    <3>3. At(x, {"mutating", "persisting", "listing", "commit", "committing"})' =>
            Good(base[x])' /\ base'[x] # x /\ Of(base[x])' = Of(base[x])
      BY <1>5, <1>7, <3>1, <3>2 DEF IInv, Built, At
    <3>4. At(x, {"persisting", "listing", "commit", "committing"})' =>
            /\ At(x, {"mutating", "persisting", "listing", "commit", "committing"})'
            /\ content'[x] = Of(base[x]) \union {x}
      BY <1>7, <3>2 DEF IInv, Built, At
    <3> QED BY <1>7, <3>1, <3>2, <3>3, <3>4 DEF IInv, Built, At
  <2> QED BY <2>1, <2>2
<1>13. Leased'
  <2> SUFFICES ASSUME lease # NoLease PROVE Leased'  BY DEF Leased
  <2>1. lease.token \in Mutator  BY DEF IInv, TypeOK
  <2>2. CASE pc[lease.token] = "asking"
    <3>1. GivesLease(tail[1])  BY <2>2 DEF IInv, Leased
    <3>2. /\ lease.token = m /\ r = tail[1] /\ r.do = "ask" /\ r.answer = "ok"
          /\ r.saw = lease.base /\ Waiting[r.do] = "asking"
      BY <3>1, WaitingIs DEF GivesLease
    <3>3. pc'[m] = "mutating" /\ base'[m] = r.saw  BY <1>3, <2>2, <3>2
    <3> QED BY <3>2, <3>3 DEF Leased
  <2>3. CASE pc[lease.token] # "asking"
    <3>1. /\ pc'[lease.token] \notin {"ask", "asking"} /\ base'[lease.token] = base[lease.token]
          /\ \/ pc'[lease.token] = pc[lease.token]
             \/ pc'[lease.token] \notin {"mutating", "persisting", "listing", "commit", "committing"}
      BY <1>3, <2>1, <2>3 DEF IInv, Leased
    <3> QED BY <1>7, <2>1, <3>1 DEF IInv, Leased, At
  <2> QED BY <2>2, <2>3
<1>14. pc'[m] = "succeeded" /\ pc[m] # "succeeded" => m \in Of(pointer)
  BY <1>1, <1>3 DEF HeadOK
<1> QED BY <1>3, <1>4, <1>8, <1>9, <1>10, <1>12, <1>13, <1>14, RemoveFirst DEF Rest, IInv

(* What the coordinator had queued is lost, and its callers get an error.  *)
LEMMA RestartStep == ASSUME IInv, Restart PROVE Rest' /\ Keeps
<1>1. /\ UNCHANGED <<attempts, base, content, objects, manifests, pointer, lease, lapsed>>
      /\ tail' = <<>>
      /\ pc' = [m \in Mutator |-> IF \E do \in DOMAIN Waiting : pc[m] = Waiting[do]
                                  THEN After(pc[m], "error", attempts[m]) ELSE pc[m]]
  BY DEF Restart
<1>2. \A m \in Mutator :
        \/ pc[m] = "asking" /\ pc'[m] = "failed"
        \/ pc[m] = "committing" /\ pc'[m] = "abort"
        \/ pc[m] = "aborting" /\ pc'[m] = "failed"
        \/ pc[m] \notin {"asking", "committing", "aborting"} /\ pc'[m] = pc[m]
  <2> TAKE m \in Mutator
  <2>1. CASE pc[m] \in {"asking", "committing", "aborting"}
    <3>1. pc'[m] = After(pc[m], "error", attempts[m])  BY <1>1, <2>1, WaitingIs
    <3> QED BY <2>1, <3>1, AfterIs
  <2>2. CASE pc[m] \notin {"asking", "committing", "aborting"}
    BY <1>1, <2>2, WaitingIs
  <2> QED BY <2>1, <2>2
<1>3. Pos' = {} /\ \A m : ~Sent(m)'
  <2>1. Pos' = {}  BY <1>1 DEF Pos
  <2> QED BY <2>1 DEF Sent
<1>4. Keeps  BY <1>1, <1>2 DEF Keeps, Frozen
<1>5. \A q \in Revision : Good(q) => Good(q)' /\ Of(q)' = Of(q)
  BY <1>4, GoodStays DEF IInv
<1>6. Tries' /\ Queue' /\ Head1'  BY <1>1, <1>2, <1>3 DEF IInv, Tries, Queue, Head1
<1>7. Good(pointer)'  BY <1>1, <1>5 DEF IInv, TypeOK
<1>8. Built'
  <2> SUFFICES ASSUME NEW x \in Mutator
        PROVE (/\ At(x, {"mutating", "persisting", "listing", "commit", "committing"}) =>
                    Good(base[x]) /\ base[x] # x
               /\ At(x, {"persisting", "listing", "commit", "committing"}) =>
                    content[x] = Of(base[x]) \union {x}
               /\ At(x, {"listing", "commit", "committing"}) => x \in objects
               /\ At(x, {"commit", "committing"}) => x \in manifests)'
    BY DEF Built
  <2>1. base'[x] = base[x] /\ base[x] \in Revision  BY <1>1 DEF IInv, TypeOK
  <2>2. \/ pc'[x] = pc[x]
        \/ pc'[x] \notin {"mutating", "persisting", "listing", "commit", "committing"}
    BY <1>2
  <2>3. At(x, {"mutating", "persisting", "listing", "commit", "committing"})' =>
          Good(base[x])' /\ base'[x] # x /\ Of(base[x])' = Of(base[x])
    BY <1>3, <1>5, <2>1, <2>2 DEF IInv, Built, At
  <2>4. At(x, {"persisting", "listing", "commit", "committing"})' =>
          /\ At(x, {"mutating", "persisting", "listing", "commit", "committing"})'
          /\ content'[x] = Of(base[x]) \union {x}
    BY <1>1, <1>3, <2>2 DEF IInv, Built, At
  <2> QED BY <1>1, <1>3, <2>1, <2>2, <2>3, <2>4 DEF IInv, Built, At
<1>9. Leased'
  <2> SUFFICES ASSUME lease # NoLease PROVE Leased'  BY <1>1 DEF Leased
  <2>1. lease.token \in Mutator  BY DEF IInv, TypeOK
  <2>2. /\ pc'[lease.token] \notin {"ask", "asking"}
        /\ \/ pc'[lease.token] = pc[lease.token]
           \/ pc'[lease.token] \notin {"mutating", "persisting", "listing", "commit", "committing"}
    BY <1>2, <2>1 DEF IInv, Leased
  <2> QED BY <1>1, <1>3, <2>1, <2>2 DEF IInv, Leased, At
<1> QED BY <1>1, <1>4, <1>6, <1>7, <1>8, <1>9, EmptySeq DEF Rest

(* Nothing is said of the time. *)
LEMMA IdleStep ==
  ASSUME IInv, UNCHANGED <<workers, pointer, lease, tail>>
  PROVE  Rest' /\ Keeps
<1>1. UNCHANGED <<pc, attempts, base, content, objects, manifests>>  BY DEF workers
<1>2. Pos' = Pos /\ \A m : Sent(m)' <=> Sent(m)  BY DEF Pos, Sent
<1>3. Keeps  BY <1>1 DEF Keeps, Frozen
<1>4. \A q : (Good(q)' <=> Good(q)) /\ Of(q)' = Of(q)  BY <1>1 DEF Good, Frozen, Of
<1>5. Tries' /\ Queue'  BY <1>1, <1>2 DEF IInv, Tries, Queue
<1>6. Head1'  BY <1>1, <1>4 DEF IInv, Head1, HeadOK
<1>7. Built'  BY <1>1, <1>2, <1>4 DEF IInv, Built, At
<1>8. Leased'  BY <1>1, <1>2 DEF IInv, Leased, At, GivesLease
<1> QED BY <1>3, <1>4, <1>5, <1>6, <1>7, <1>8 DEF Rest, IInv, TypeOK

-----------------------------------------------------------------------------
(* Which lemma a step belongs to. *)
LEMMA FirstAnswers ==
  ASSUME IInv, 1 \in Pos, Reply(1) \/ Fail(1)
  PROVE  \E r \in Entry :
           /\ r.from = tail[1].from /\ r.do = tail[1].do /\ Answered(r)
           /\ \/ tail[1].at = "reply" /\ r = tail[1]
              \/ tail[1].at # "reply" /\ r.answer = "error"
<1>1. tail[1] \in Request  BY PosIs DEF IInv
<1>2. tail[1] \in Entry /\ [tail[1] EXCEPT !.answer = "error"] \in Entry
  BY <1>1 DEF Request, Entry
<1>3. CASE Reply(1)
  <2>1. PICK r \in Entry : r = tail[1]  BY <1>2
  <2>2. tail[1].at = "reply" /\ Answered(r)  BY <1>3, <2>1 DEF Reply
  <2> QED BY <2>1, <2>2
<1>4. CASE Fail(1)
  <2>1. PICK r \in Entry : r = [tail[1] EXCEPT !.answer = "error"]  BY <1>2
  <2>2. tail[1].at # "reply" /\ Answered(r)  BY <1>4, <2>1 DEF Fail
  <2>3. r.from = tail[1].from /\ r.do = tail[1].do /\ r.answer = "error"
    BY <1>1, <2>1 DEF Request
  <2> QED BY <2>2, <2>3
<1> QED BY <1>3, <1>4

LEMMA StepKeeps ==
  ASSUME IInv, [Next]_vars
  PROVE  Rest' /\ Keeps
<1>1. ASSUME NEW m \in Mutator, Works(m) PROVE Rest' /\ Keeps
  BY <1>1, WorkerStep, SendStep DEF Works
<1>2. ASSUME NEW i \in Turn, Handle(i) PROVE Rest' /\ Keeps
  <2>1. i = 1 /\ 1 \in Pos  BY <1>2 DEF Turn, Pos
  <2>2. CASE Reply(1)
    <3>1. tail' = Without(1) /\ UNCHANGED <<content, objects, manifests, pointer, lease>>
      BY <2>2 DEF Reply
    <3> QED BY <2>1, <2>2, <3>1, FirstAnswers, AnswerStep
  <2> QED BY <1>2, <2>1, <2>2, HandleStep
<1>3. CASE Lapse
  BY <1>3, IdleStep DEF Lapse
<1>4. CASE Loss
  <2>1. ASSUME NEW i \in Turn, Fail(i) PROVE Rest' /\ Keeps
    <3>1. i = 1 /\ 1 \in Pos  BY DEF Turn, Pos
    <3>2. tail' = Without(1) /\ UNCHANGED <<content, objects, manifests, pointer, lease>>
      BY <2>1, <3>1 DEF Fail
    <3> QED BY <2>1, <3>1, <3>2, FirstAnswers, AnswerStep
  <2> QED BY <1>4, <2>1, WorkerStep, RestartStep DEF Loss
<1>5. CASE UNCHANGED vars
  BY <1>5, IdleStep DEF vars, coordinator
<1> QED BY <1>1, <1>2, <1>3, <1>4, <1>5 DEF Next

(* The values of the Worker's variables, and of the rest. *)
WorkersOK ==
  /\ pc \in [Mutator -> {"ask", "asking", "mutating", "persisting", "listing",
                         "commit", "committing", "abort", "aborting",
                         "succeeded", "failed", "killed"}]
  /\ attempts \in [Mutator -> 0..MaxAttempts]
  /\ base \in [Mutator -> Revision]
  /\ content \in [Mutator -> SUBSET Mutator]
  /\ objects \in SUBSET Mutator /\ manifests \in SUBSET Mutator
LeaseOK ==
  /\ pointer \in Revision
  /\ lease \in [token : Mutator, base : Revision] \union {NoLease}
  /\ lapsed \in BOOLEAN

LEMMA OwnValues ==
  ASSUME IInv, NEW m \in Mutator,
         Send(m) \/ Mutate(m) \/ PutObjects(m) \/ PutManifest(m)
                 \/ Throw(m) \/ Disconnect(m) \/ Kill(m)
  PROVE  WorkersOK' /\ LeaseOK'
<1>1. WorkersOK /\ LeaseOK  BY DEF IInv, TypeOK, WorkersOK, LeaseOK
<1>2. CASE Send(m)
  BY <1>1, <1>2, WaitingIs DEF Send, WorkersOK, LeaseOK
<1>3. CASE Mutate(m)
  <2>1. Of(base[m]) \union {m} \in SUBSET Mutator
    BY <1>1 DEF Of, WorkersOK, Revision
  <2>2. content' \in [Mutator -> SUBSET Mutator]  BY <1>1, <1>3, <2>1 DEF Mutate, WorkersOK
  <2> QED BY <1>1, <1>3, <2>2 DEF Mutate, WorkersOK, LeaseOK, coordinator
<1>4. CASE PutObjects(m)
  BY <1>1, <1>4 DEF PutObjects, WorkersOK, LeaseOK, coordinator
<1>5. CASE PutManifest(m)
  BY <1>1, <1>5 DEF PutManifest, WorkersOK, LeaseOK, coordinator
<1>6. CASE Throw(m) \/ Kill(m)
  BY <1>1, <1>6 DEF Throw, Kill, WorkersOK, LeaseOK, coordinator
<1>7. CASE Disconnect(m)
  <2>1. pc[m] \in {"asking", "committing", "aborting"}  BY <1>7, WaitingIs DEF Disconnect
  <2>2. After(pc[m], "error", attempts[m]) \in {"ask", "abort", "failed"}  BY <2>1, AfterIs
  <2> QED BY <1>1, <1>7, <2>2 DEF Disconnect, WorkersOK, LeaseOK, coordinator
<1> QED BY <1>2, <1>3, <1>4, <1>5, <1>6, <1>7

LEMMA AnswerValues ==
  ASSUME IInv, 1 \in Pos, Reply(1) \/ Fail(1)
  PROVE  WorkersOK' /\ LeaseOK'
<1>1. PICK r \in Entry : Answered(r) /\ r.do = tail[1].do /\ (r = tail[1] \/ r.answer = "error")
  BY FirstAnswers
<1>2. r.answer = "busy" => r.do = "ask"  BY <1>1 DEF IInv, Queue
<1>3. UNCHANGED <<content, objects, manifests, pointer, lease, lapsed>>  BY DEF Reply, Fail
<1> QED BY <1>1, <1>2, <1>3, Answering DEF IInv, TypeOK, WorkersOK, LeaseOK

LEMMA Typed == ASSUME IInv, [Next]_vars PROVE TypeOK'
<1>1. WorkersOK /\ LeaseOK /\ losses \in 0..MaxLosses
  BY DEF IInv, TypeOK, WorkersOK, LeaseOK
<1>2. tail' \in Seq(Request)  BY StepKeeps DEF Rest
<1>3. losses' \in 0..MaxLosses
  <2>1. CASE Loss  BY <1>1, <2>1, CoordinatorAssumption DEF Loss
  <2>2. CASE UNCHANGED losses  BY <1>1, <2>2
  <2> QED BY <2>1, <2>2 DEF Next, Works, Handle, vars
<1>4. WorkersOK' /\ LeaseOK'
  <2>1. ASSUME NEW m \in Mutator, Works(m) PROVE WorkersOK' /\ LeaseOK'
    BY <2>1, OwnValues DEF Works
  <2>2. ASSUME NEW i \in Turn, Handle(i) PROVE WorkersOK' /\ LeaseOK'
    <3>1. i = 1 /\ 1 \in Pos  BY <2>2 DEF Turn, Pos
    <3>2. tail[1] \in Request  BY <3>1, PosIs DEF IInv
    <3>3. CASE Reply(1)  BY <3>1, <3>3, AnswerValues
    <3>4. CASE GetLease(1) \/ ReadPointer(1)
      BY <1>1, <3>4 DEF GetLease, ReadPointer, workers, WorkersOK, LeaseOK
    <3>5. CASE StoreLease(1)
      BY <1>1, <3>2, <3>5 DEF StoreLease, workers, WorkersOK, LeaseOK, Request
    <3>6. CASE Promote(1)
      BY <1>1, <3>2, <3>6 DEF Promote, workers, WorkersOK, LeaseOK, Request, Revision
    <3>7. CASE DropLease(1)
      BY <1>1, <3>7 DEF DropLease, workers, WorkersOK, LeaseOK
    <3> QED BY <2>2, <3>1, <3>3, <3>4, <3>5, <3>6, <3>7 DEF Handle
  <2>3. CASE Lapse  BY <1>1, <2>3 DEF Lapse, workers, WorkersOK, LeaseOK
  <2>4. CASE Loss
    <3>1. ASSUME NEW i \in Turn, Fail(i) PROVE WorkersOK' /\ LeaseOK'
      <4>1. i = 1 /\ 1 \in Pos  BY DEF Turn, Pos
      <4> QED BY <3>1, <4>1, AnswerValues
    <3>2. CASE Restart
      <4>1. ASSUME NEW m \in Mutator, \E do \in DOMAIN Waiting : pc[m] = Waiting[do]
            PROVE  After(pc[m], "error", attempts[m]) \in {"ask", "abort", "failed"}
        BY <4>1, WaitingIs, AfterIs
      <4> QED BY <1>1, <3>2, <4>1 DEF Restart, WorkersOK, LeaseOK
    <3> QED BY <2>4, <3>1, <3>2, OwnValues DEF Loss
  <2>5. CASE UNCHANGED vars
    BY <1>1, <2>5 DEF vars, workers, coordinator, WorkersOK, LeaseOK
  <2> QED BY <2>1, <2>2, <2>3, <2>4, <2>5 DEF Next
<1> QED BY <1>2, <1>3, <1>4 DEF TypeOK, WorkersOK, LeaseOK

LEMMA InitOK == Init => IInv
<1> SUFFICES ASSUME Init PROVE IInv  OBVIOUS
<1> USE DEF Init
<1>1. Seed \in Revision /\ MaxAttempts \in Nat \ {0} /\ MaxLosses \in Nat
  BY CoordinatorAssumption DEF Revision
<1>2. tail \in Seq(Request) /\ Pos = {}  BY EmptySeq DEF Pos
<1>3. TypeOK
  <2>1. attempts \in [Mutator -> 0..MaxAttempts] /\ losses \in 0..MaxLosses  BY <1>1
  <2>2. /\ content \in [Mutator -> SUBSET Mutator]
        /\ base \in [Mutator -> Revision]
    BY <1>1
  <2> QED BY <1>1, <1>2, <2>1, <2>2 DEF TypeOK
<1>4. Tries  BY <1>1 DEF Tries
<1>5. Queue /\ Head1 /\ Good(pointer) /\ Leased  BY <1>2 DEF Queue, Head1, Good, Leased
<1>6. Built  BY <1>2 DEF Built, At, Sent
<1> QED BY <1>3, <1>4, <1>5, <1>6 DEF IInv

LEMMA Invariant == Spec => []IInv
<1>1. IInv /\ [Next]_vars => IInv'  BY StepKeeps, Typed DEF IInv, Rest
<1> QED BY <1>1, InitOK, PTL DEF Spec

-----------------------------------------------------------------------------
(* The values of the variables are of their types. *)
THEOREM CoordinatorTyped == Spec => []TypeOK
BY Invariant, PTL DEF IInv

(* Whatever is killed between two writes, what is published and what a     *)
(* mutation starts from can be read (persistMarkdownRevision, /commit).    *)
THEOREM AlwaysReadable == Spec => []PublishedIsReadable
<1>1. IInv => PublishedIsReadable
  <2> SUFFICES ASSUME IInv PROVE PublishedIsReadable  OBVIOUS
  <2>1. Readable(pointer)  BY DEF IInv, Good, Readable
  <2>2. ASSUME NEW m \in Mutator, pc[m] = "mutating" PROVE Readable(base[m])
    BY <2>2 DEF IInv, Built, At, Good, Readable
  <2> QED BY <2>1, <2>2 DEF PublishedIsReadable
<1> QED BY <1>1, Invariant, PTL

(* Whatever expires, is lost, killed, or restarted: a mutation is built on *)
(* all those published before it, and who is told of a success finds its   *)
(* mutation published (runSerializedMarkdownMutation and the coordinator). *)
THEOREM MutationsImplementSite == Spec => ImplementsSite
<1> DEFINE Told(m) == IF pc[m] = "succeeded" THEN "success"
                      ELSE IF pc[m] = "failed" THEN "failure" ELSE "nothing"
<1>1. Init => Site!Init  BY CoordinatorAssumption DEF Init, Site!Init, Of
<1>2. ASSUME IInv, [Next]_vars PROVE [Site!Next]_Site!vars
  <2> USE DEF Site!Next, Site!vars
  <2>1. Keeps  BY <1>2, StepKeeps
  <2>2. pointer' = pointer => Of(pointer)' = Of(pointer)
    BY <1>2, <2>1, GoodStays DEF IInv, TypeOK
  <2>3. ASSUME UNCHANGED pointer, NEW m \in Mutator,
               \A x \in Mutator \ {m} : pc'[x] = pc[x],
               \/ Told(m)' = Told(m)
               \/ Told(m) = "nothing" /\ Told(m)' = "failure"
               \/ Told(m) = "nothing" /\ Told(m)' = "success" /\ m \in Of(pointer)
        PROVE  [Site!Next]_Site!vars
    BY <2>2, <2>3 DEF Site!Tell
  <2>4. ASSUME NEW m \in Mutator, Works(m) PROVE [Site!Next]_Site!vars
    <3>1. UNCHANGED pointer /\ \A x \in Mutator \ {m} : pc'[x] = pc[x]
      BY <1>2, <2>4 DEF Works, Send, Mutate, PutObjects, PutManifest, coordinator, IInv, TypeOK
    <3>2. pc[m] \notin {"succeeded", "failed"} /\ pc'[m] \notin {"succeeded", "failed"}
      BY <1>2, <2>4, WaitingIs DEF Works, Send, Mutate, PutObjects, PutManifest, IInv, TypeOK
    <3> QED BY <2>3, <3>1, <3>2
  <2>5. ASSUME 1 \in Pos, Reply(1) \/ Fail(1) PROVE [Site!Next]_Site!vars
    <3>1. PICK r \in Entry :
            /\ r.from = tail[1].from /\ r.do = tail[1].do /\ Answered(r)
            /\ \/ tail[1].at = "reply" /\ r = tail[1]
               \/ tail[1].at # "reply" /\ r.answer = "error"
      BY <1>2, <2>5, FirstAnswers
    <3>2. tail' = Without(1) /\ UNCHANGED <<content, objects, manifests, pointer, lease>>
      BY <2>5 DEF Reply, Fail
    <3>3. pc'[r.from] = "succeeded" /\ pc[r.from] # "succeeded" => r.from \in Of(pointer)
      BY <2>5, <3>1, <3>2, AnswerStep, <1>2
    <3>4. r.answer = "busy" => r.do = "ask"  BY <2>5, <3>1, <1>2 DEF IInv, Queue
    <3>5. /\ r.from \in Mutator
          /\ \A x \in Mutator \ {r.from} : pc'[x] = pc[x]
          /\ \/ pc'[r.from] = pc[r.from]
             \/ pc[r.from] \in {"asking", "committing", "aborting"}
      BY <1>2, <3>1, <3>4, Answering DEF IInv, Entry
    <3> QED BY <2>3, <3>2, <3>3, <3>5
  <2>6. ASSUME NEW i \in Turn, Handle(i) PROVE [Site!Next]_Site!vars
    <3>1. i = 1 /\ 1 \in Pos  BY <2>6 DEF Turn, Pos
    <3>2. CASE Reply(1)  BY <2>5, <3>1, <3>2
    <3>3. CASE Promote(1)
      <4>1. UNCHANGED pc  BY <3>3 DEF Promote, workers
      <4>2. tail[1].from \in Mutator /\ Of(pointer)' = Of(pointer) \union {tail[1].from}
        BY <1>2, <3>1, <3>3, PromoteStep
      <4> QED BY <4>1, <4>2 DEF Site!Apply
    <3>4. CASE GetLease(1) \/ ReadPointer(1) \/ StoreLease(1) \/ DropLease(1)
      <4>1. UNCHANGED <<pc, pointer>>
        BY <3>4 DEF GetLease, ReadPointer, StoreLease, DropLease, workers
      <4> QED BY <2>2, <4>1
    <3> QED BY <2>6, <3>1, <3>2, <3>3, <3>4 DEF Handle
  <2>7. CASE Lapse
    <3>1. UNCHANGED <<pc, pointer>>  BY <2>7 DEF Lapse, workers
    <3> QED BY <2>2, <3>1
  <2>8. CASE Loss
    <3>1. ASSUME NEW m \in Mutator, Throw(m) \/ Disconnect(m) \/ Kill(m)
          PROVE  [Site!Next]_Site!vars
      <4>1. UNCHANGED pointer /\ \A x \in Mutator \ {m} : pc'[x] = pc[x]
        BY <1>2, <3>1 DEF Throw, Disconnect, Kill, coordinator, IInv, TypeOK
      <4>2. pc[m] \notin {"succeeded", "failed"} /\ pc'[m] # "succeeded"
        <5>1. CASE Throw(m) \/ Kill(m)  BY <1>2, <5>1 DEF Throw, Kill, IInv, TypeOK
        <5>2. CASE Disconnect(m)
          <6>1. pc[m] \in {"asking", "committing", "aborting"}  BY <5>2, WaitingIs DEF Disconnect
          <6>2. pc'[m] = After(pc[m], "error", attempts[m])
            BY <1>2, <5>2 DEF Disconnect, IInv, TypeOK
          <6> QED BY <6>1, <6>2, AfterIs
        <5> QED BY <3>1, <5>1, <5>2
      <4> QED BY <2>3, <4>1, <4>2
    <3>2. ASSUME NEW i \in Turn, Fail(i) PROVE [Site!Next]_Site!vars
      <4>1. i = 1 /\ 1 \in Pos  BY DEF Turn, Pos
      <4> QED BY <2>5, <3>2, <4>1
    <3>3. CASE Restart
      <4>1. /\ UNCHANGED pointer
            /\ pc' = [m \in Mutator |-> IF \E do \in DOMAIN Waiting : pc[m] = Waiting[do]
                                        THEN After(pc[m], "error", attempts[m]) ELSE pc[m]]
        BY <3>3 DEF Restart
      <4>2. \A m \in Mutator : \/ pc'[m] = pc[m]
                               \/ /\ pc[m] \in {"asking", "committing", "aborting"}
                                  /\ pc'[m] # "succeeded"
        <5> TAKE m \in Mutator
        <5>1. CASE pc[m] \in {"asking", "committing", "aborting"}
          <6>1. pc'[m] = After(pc[m], "error", attempts[m])  BY <4>1, <5>1, WaitingIs
          <6> QED BY <5>1, <6>1, AfterIs
        <5>2. CASE pc[m] \notin {"asking", "committing", "aborting"}
          BY <4>1, <5>2, WaitingIs
        <5> QED BY <5>1, <5>2
      <4> DEFINE failed == {m \in Mutator : Told(m) = "nothing" /\ Told(m)' = "failure"}
      <4>3. \A m \in Mutator : Told(m)' = IF m \in failed THEN "failure" ELSE Told(m)
        BY <4>2
      <4>4. Site!Fail
        BY <2>2, <4>1, <4>3 DEF Site!Fail
      <4> QED BY <4>4
    <3> QED BY <2>8, <3>1, <3>2, <3>3 DEF Loss
  <2>9. CASE UNCHANGED vars
    <3>1. UNCHANGED <<pc, pointer>>  BY <2>9 DEF vars, workers, coordinator
    <3> QED BY <2>2, <3>1
  <2> QED BY <1>2, <2>4, <2>6, <2>7, <2>8, <2>9 DEF Next
<1> QED BY <1>1, <1>2, Invariant, PTL DEF Spec, ImplementsSite, Site!Spec
=============================================================================
