------------------------ MODULE ArtifactBundleProofs ------------------------
(***************************************************************************)
(* For every set of wishes and any number of faults and changes: the files *)
(* a manifest lists exist, and a bundle verifies when one step of its run  *)
(* has failed.  The first is about any two writers; the second is about a  *)
(* single one, because whatever leaves a second writer behind is `broken`. *)
(*                                                                         *)
(* The argument never says where in a call its writer is.  It looks        *)
(* forward: a fact holds now, unless a step that is still to come          *)
(* establishes it.  What has to come after a step is a property of every   *)
(* position of every program (Shape), which taking a step preserves and    *)
(* joining two programs preserves; and the manifest that counts is the one *)
(* in memory, if it is saved before another is read, and otherwise the one *)
(* on disk (Counted).                                                      *)
(***************************************************************************)
EXTENDS ArtifactBundle, SequenceTheorems, TLAPS

Ops == {"start", "write", "review", "clear", "read", "list", "name", "hash",
        "refer", "index", "rerefer", "reindex", "save"}
Steps == [do : Ops, on : SUBSET File]
CallName == {"collect", "typed", "append", "finalize", "agent", "bench", "failure", "episode"}
Updates == {"typed", "append", "finalize", "agent", "failure"}
Bench == {"summaries", "benchmarks"}
Recipes == [flow : {"recipe", "episode"}, wants : SUBSET (Wish \cup {"snapshots"})]

(* The files that a recipe's wishes call for, and what each call lists. *)
If(w, r, f) == IF w \in r.wants THEN {f} ELSE {}
Episodic(r) == Collected \cup {"trace"} \cup If("snapshots", r, "snapshots")
Evidential(r) == {"attestation"} \cup If("verify", r, "verification")
                   \cup If("evidence", r, "evidence") \cup If("agent", r, "agent")
ListedBy(c, r) ==
  CASE c = "collect" -> Collected
    [] c = "typed" -> {"typed"}
    [] c = "append" -> {"evidence"}
    [] c = "finalize" -> {"attestation"} \cup If("verify", r, "verification")
    [] c = "agent" -> {"agent"}
    [] c = "bench" -> Bench
    [] c = "failure" -> {"failure"} \cup If("evidence", r, "evidence")
    [] c = "episode" -> Episodic(r)

-----------------------------------------------------------------------------
(* What comes after the i-th step of a program. *)
Later(t, i, ops) == \E j \in i + 1..Len(t) : t[j].do \in ops
LaterListed(t, i, f) ==
  \E j \in i + 1..Len(t) : t[j].do \in {"start", "list"} /\ f \in t[j].on
SaveNext(t, i) ==
  \E j \in i + 1..Len(t) : t[j].do = "save" /\ \A k \in i + 1..j - 1 : t[k].do # "read"

(* A step and the ones next to it. *)
Adjoins(t, i) ==
  /\ i = Len(t) => t[i].do = "save"
  /\ i < Len(t) =>
       /\ t[i + 1].do # "start"
       /\ t[i + 1].do \in {"save", "rerefer", "reindex"} => t[i].do = "hash"
       /\ t[i + 1].do = "refer" => t[i].do \in {"hash", "read"}
       /\ t[i + 1].do = "index" => t[i].do \in {"refer", "read"}
  /\ i + 1 < Len(t) /\ t[i + 1].do = "read" /\ t[i + 2].do \in {"refer", "index"} =>
       t[i].do = "save"

(* What a step leaves undone is done later. *)
Drafting == {"start", "list", "name", "review", "refer", "index", "rerefer", "reindex"}
Repaired(t, i, c) ==
  /\ t[i].do \in Drafting => SaveNext(t, i)
  /\ t[i].do \in {"name", "start"} =>
       /\ Later(t, i, {"review"}) /\ Later(t, i, {"refer", "rerefer"})
       /\ Later(t, i, {"index", "reindex"})
  /\ t[i].do \in {"refer", "rerefer"} => Later(t, i, {"index", "reindex"})
  /\ t[i].do = "clear" => Later(t, i, {"refer"}) /\ Later(t, i, {"index"})
  /\ t[i].do = "list" /\ c \in Updates => Later(t, i, {"name"})

(* What a call does, writes and lists. *)
Suits(t, i, c, r) ==
  /\ t[i].do = "write" =>
       /\ t[i].on \subseteq (Collected \cup ListedBy(c, r)) \ {"references", "index"}
       /\ \A f \in t[i].on : f \in Collected \/ LaterListed(t, i, f)
  /\ t[i].do = "list" => t[i].on \subseteq ListedBy(c, r)
  /\ t[i].do = "start" => t[i].on = Collected
  /\ c \notin {"collect", "episode"} => t[i].do \notin {"start", "clear", "refer", "index"}
  /\ c = "collect" => t[i].do \notin {"read", "list", "name"}
  /\ c = "bench" => t[i].do \notin {"review", "rerefer", "reindex"}

Fits(t, i, c, r) == Adjoins(t, i) /\ Repaired(t, i, c) /\ Suits(t, i, c, r)
Fitting(t, c, r) == \A i \in 1..Len(t) : Fits(t, i, c, r)

(* The references refer to what is written only after it is written. *)
Refers(t, i, c) ==
  t[i].do = "write" /\ (c = "episode" \/ t[i].on \cap {"content", "pointers"} # {}) =>
    Later(t, i, {"refer"}) /\ Later(t, i, {"index"})
Referring(t, c) == \A i \in 1..Len(t) : Refers(t, i, c)

Shape(t, c, r) == Fitting(t, c, r) /\ Referring(t, c)

(* How a call begins, and what it comes to. *)
Opens(t) == /\ t # <<>> /\ t[1].do \in {"start", "write", "read"}
            /\ t[1].do = "read" => Len(t) > 1 /\ t[2].do \notin {"refer", "index"}
Comes(t, c, r) ==
  /\ c \in {"collect", "episode"} =>
       t[1].do = "start" /\ Later(t, 0, {"refer"}) /\ Later(t, 0, {"index"})
  /\ c \notin {"collect", "episode"} => ~SaveNext(t, 0)
  /\ \A f \in ListedBy(c, r) : LaterListed(t, 0, f)
  /\ c \in Updates =>
       /\ Later(t, 0, {"name"}) /\ Later(t, 0, {"review"})
       /\ Later(t, 0, {"rerefer"}) /\ Later(t, 0, {"reindex"})

-----------------------------------------------------------------------------
(* A program without its first step. *)
LEMMA TailIs ==
  ASSUME NEW t \in Seq(Steps), t # <<>>
  PROVE  /\ Tail(t) \in Seq(Steps) /\ Len(t) \in Nat \ {0} /\ Len(Tail(t)) = Len(t) - 1
         /\ \A i \in 1..Len(t) - 1 : Tail(t)[i] = t[i + 1]
         /\ Head(t) = t[1] /\ t[1] \in Steps
BY HeadTailProperties, EmptySeq, ElementOfSeq, LenProperties

LEMMA LaterTail ==
  ASSUME NEW t \in Seq(Steps), t # <<>>, NEW i \in Nat, NEW ops
  PROVE  Later(Tail(t), i, ops) <=> Later(t, i + 1, ops)
<1>1. ASSUME Later(Tail(t), i, ops) PROVE Later(t, i + 1, ops)
  <2>1. PICK j \in i + 1..Len(Tail(t)) : Tail(t)[j].do \in ops  BY <1>1 DEF Later
  <2>2. j + 1 \in (i + 1) + 1..Len(t) /\ t[j + 1].do \in ops  BY <2>1, TailIs
  <2> QED BY <2>2 DEF Later
<1>2. ASSUME Later(t, i + 1, ops) PROVE Later(Tail(t), i, ops)
  <2>1. PICK j \in (i + 1) + 1..Len(t) : t[j].do \in ops  BY <1>2 DEF Later
  <2>2. j - 1 \in i + 1..Len(Tail(t)) /\ Tail(t)[j - 1] = t[j]  BY TailIs
  <2> QED BY <2>1, <2>2 DEF Later
<1> QED BY <1>1, <1>2

LEMMA ListedTail ==
  ASSUME NEW t \in Seq(Steps), t # <<>>, NEW i \in Nat, NEW f
  PROVE  LaterListed(Tail(t), i, f) <=> LaterListed(t, i + 1, f)
<1>1. ASSUME LaterListed(Tail(t), i, f) PROVE LaterListed(t, i + 1, f)
  <2>1. PICK j \in i + 1..Len(Tail(t)) :
          Tail(t)[j].do \in {"start", "list"} /\ f \in Tail(t)[j].on
    BY <1>1 DEF LaterListed
  <2>2. j + 1 \in (i + 1) + 1..Len(t) /\ Tail(t)[j] = t[j + 1]  BY <2>1, TailIs
  <2> QED BY <2>1, <2>2 DEF LaterListed
<1>2. ASSUME LaterListed(t, i + 1, f) PROVE LaterListed(Tail(t), i, f)
  <2>1. PICK j \in (i + 1) + 1..Len(t) : t[j].do \in {"start", "list"} /\ f \in t[j].on
    BY <1>2 DEF LaterListed
  <2>2. j - 1 \in i + 1..Len(Tail(t)) /\ Tail(t)[j - 1] = t[j]  BY TailIs
  <2> QED BY <2>1, <2>2 DEF LaterListed
<1> QED BY <1>1, <1>2

LEMMA SaveTail ==
  ASSUME NEW t \in Seq(Steps), t # <<>>, NEW i \in Nat
  PROVE  SaveNext(Tail(t), i) <=> SaveNext(t, i + 1)
<1>1. ASSUME SaveNext(Tail(t), i) PROVE SaveNext(t, i + 1)
  <2>1. PICK j \in i + 1..Len(Tail(t)) :
          Tail(t)[j].do = "save" /\ \A k \in i + 1..j - 1 : Tail(t)[k].do # "read"
    BY <1>1 DEF SaveNext
  <2>2. j + 1 \in (i + 1) + 1..Len(t) /\ t[j + 1].do = "save"  BY <2>1, TailIs
  <2>3. ASSUME NEW k \in (i + 1) + 1..(j + 1) - 1 PROVE t[k].do # "read"
    <3>1. k - 1 \in i + 1..j - 1 /\ Tail(t)[k - 1] = t[k]  BY <2>1, TailIs
    <3> QED BY <2>1, <3>1
  <2> QED BY <2>2, <2>3 DEF SaveNext
<1>2. ASSUME SaveNext(t, i + 1) PROVE SaveNext(Tail(t), i)
  <2>1. PICK j \in (i + 1) + 1..Len(t) :
          t[j].do = "save" /\ \A k \in (i + 1) + 1..j - 1 : t[k].do # "read"
    BY <1>2 DEF SaveNext
  <2>2. j - 1 \in i + 1..Len(Tail(t)) /\ Tail(t)[j - 1].do = "save"  BY <2>1, TailIs
  <2>3. ASSUME NEW k \in i + 1..(j - 1) - 1 PROVE Tail(t)[k].do # "read"
    <3>1. k + 1 \in (i + 1) + 1..j - 1 /\ Tail(t)[k] = t[k + 1]  BY <2>1, TailIs
    <3> QED BY <2>1, <3>1
  <2> QED BY <2>2, <2>3 DEF SaveNext
<1> QED BY <1>1, <1>2

(* What is to come, after the first step and with it. *)
LEMMA FirstStep ==
  ASSUME NEW t \in Seq(Steps), t # <<>>
  PROVE  /\ \A ops : Later(t, 0, ops) <=> t[1].do \in ops \/ Later(Tail(t), 0, ops)
         /\ \A f : LaterListed(t, 0, f) <=>
                     (t[1].do \in {"start", "list"} /\ f \in t[1].on) \/ LaterListed(Tail(t), 0, f)
         /\ SaveNext(t, 0) <=>
              t[1].do = "save" \/ (t[1].do # "read" /\ SaveNext(Tail(t), 0))
<1>1. Len(t) \in Nat \ {0}  BY TailIs
<1>2. ASSUME NEW ops PROVE Later(t, 0, ops) <=> t[1].do \in ops \/ Later(t, 1, ops)
  <2>1. ASSUME NEW j \in 0 + 1..Len(t) PROVE j = 1 \/ j \in 1 + 1..Len(t)  BY <1>1
  <2> QED BY <1>1, <2>1 DEF Later
<1>3. ASSUME NEW f
      PROVE  LaterListed(t, 0, f) <=>
               (t[1].do \in {"start", "list"} /\ f \in t[1].on) \/ LaterListed(t, 1, f)
  <2>1. ASSUME NEW j \in 0 + 1..Len(t) PROVE j = 1 \/ j \in 1 + 1..Len(t)  BY <1>1
  <2> QED BY <1>1, <2>1 DEF LaterListed
<1>4. SaveNext(t, 0) <=> t[1].do = "save" \/ (t[1].do # "read" /\ SaveNext(t, 1))
  <2>1. ASSUME SaveNext(t, 0) PROVE t[1].do = "save" \/ (t[1].do # "read" /\ SaveNext(t, 1))
    <3>1. PICK j \in 0 + 1..Len(t) :
            t[j].do = "save" /\ \A k \in 0 + 1..j - 1 : t[k].do # "read"
      BY <2>1 DEF SaveNext
    <3>2. CASE j = 1  BY <3>1, <3>2
    <3>3. CASE j # 1
      <4>1. j \in 1 + 1..Len(t) /\ 1 \in 0 + 1..j - 1  BY <1>1, <3>3
      <4>2. \A k \in 1 + 1..j - 1 : t[k].do # "read"  BY <3>1
      <4> QED BY <3>1, <4>1, <4>2 DEF SaveNext
    <3> QED BY <3>2, <3>3
  <2>2. ASSUME t[1].do = "save" PROVE SaveNext(t, 0)
    <3>1. 1 \in 0 + 1..Len(t) /\ \A k \in 0 + 1..1 - 1 : t[k].do # "read"  BY <1>1
    <3> QED BY <2>2, <3>1 DEF SaveNext
  <2>3. ASSUME t[1].do # "read", SaveNext(t, 1) PROVE SaveNext(t, 0)
    <3>1. PICK j \in 1 + 1..Len(t) :
            t[j].do = "save" /\ \A k \in 1 + 1..j - 1 : t[k].do # "read"
      BY <2>3 DEF SaveNext
    <3>2. j \in 0 + 1..Len(t)  BY <1>1
    <3>3. ASSUME NEW k \in 0 + 1..j - 1 PROVE t[k].do # "read"
      <4>1. k = 1 \/ k \in 1 + 1..j - 1  BY <1>1
      <4> QED BY <2>3, <3>1, <4>1
    <3> QED BY <3>1, <3>2, <3>3 DEF SaveNext
  <2> QED BY <2>1, <2>2, <2>3
<1>5. /\ \A ops : Later(Tail(t), 0, ops) <=> Later(t, 0 + 1, ops)
      /\ \A f : LaterListed(Tail(t), 0, f) <=> LaterListed(t, 0 + 1, f)
      /\ SaveNext(Tail(t), 0) <=> SaveNext(t, 0 + 1)
  BY LaterTail, ListedTail, SaveTail
<1> QED BY <1>2, <1>3, <1>4, <1>5

LEMMA ShapeTail ==
  ASSUME NEW t \in Seq(Steps), t # <<>>, NEW c, NEW r, Shape(t, c, r)
  PROVE  Shape(Tail(t), c, r)
<1>1. /\ Len(t) \in Nat \ {0} /\ Len(Tail(t)) = Len(t) - 1
      /\ \A i \in 1..Len(t) - 1 : Tail(t)[i] = t[i + 1]
  BY TailIs
<1> SUFFICES ASSUME NEW i \in 1..Len(Tail(t))
             PROVE  Fits(Tail(t), i, c, r) /\ Refers(Tail(t), i, c)
  BY DEF Shape, Fitting, Referring
<1>2. /\ i \in Nat /\ i + 1 \in 1..Len(t) /\ Tail(t)[i] = t[i + 1]
      /\ Fits(t, i + 1, c, r) /\ Refers(t, i + 1, c)
  BY <1>1 DEF Shape, Fitting, Referring
<1>3. /\ \A ops : Later(Tail(t), i, ops) <=> Later(t, i + 1, ops)
      /\ \A f : LaterListed(Tail(t), i, f) <=> LaterListed(t, i + 1, f)
      /\ SaveNext(Tail(t), i) <=> SaveNext(t, i + 1)
  BY <1>2, LaterTail, ListedTail, SaveTail
<1>4. Adjoins(Tail(t), i)
  <2>1. i < Len(Tail(t)) => Tail(t)[i + 1] = t[(i + 1) + 1] /\ i + 1 < Len(t)  BY <1>1
  <2>2. i + 1 < Len(Tail(t)) => Tail(t)[i + 2] = t[(i + 1) + 2] /\ (i + 1) + 1 < Len(t)  BY <1>1
  <2>3. i = Len(Tail(t)) => i + 1 = Len(t)  BY <1>1
  <2>4. i + 1 < Len(Tail(t)) => i < Len(Tail(t))  BY <1>1
  <2> QED BY <1>2, <2>1, <2>2, <2>3, <2>4 DEF Fits, Adjoins
<1>5. Repaired(Tail(t), i, c)  BY <1>2, <1>3 DEF Fits, Repaired
<1>6. Suits(Tail(t), i, c, r)  BY <1>2, <1>3 DEF Fits, Suits
<1>7. Refers(Tail(t), i, c)  BY <1>2, <1>3 DEF Refers
<1> QED BY <1>4, <1>5, <1>6, <1>7 DEF Fits

(* What a concatenation is. *)
LEMMA ConcatIs ==
  ASSUME NEW s \in Seq(Steps), NEW u \in Seq(Steps)
  PROVE  /\ s \o u \in Seq(Steps) /\ Len(s) \in Nat /\ Len(u) \in Nat
         /\ Len(s \o u) = Len(s) + Len(u)
         /\ \A j \in 1..Len(s) : (s \o u)[j] = s[j]
         /\ \A j \in 1..Len(u) : (s \o u)[Len(s) + j] = u[j]
<1>1. /\ s \o u \in Seq(Steps) /\ Len(s) \in Nat /\ Len(u) \in Nat
      /\ Len(s \o u) = Len(s) + Len(u)
      /\ \A j \in 1..Len(s) + Len(u) :
           (s \o u)[j] = IF j <= Len(s) THEN s[j] ELSE u[j - Len(s)]
  BY ConcatProperties, LenProperties
<1>2. ASSUME NEW j \in 1..Len(s) PROVE (s \o u)[j] = s[j]  BY <1>1
<1>3. ASSUME NEW j \in 1..Len(u) PROVE (s \o u)[Len(s) + j] = u[j]
  <2>1. Len(s) + j \in 1..Len(s) + Len(u) /\ ~(Len(s) + j <= Len(s)) /\ (Len(s) + j) - Len(s) = j
    BY <1>1
  <2> QED BY <1>1, <2>1
<1> QED BY <1>1, <1>2, <1>3

(* One program after another. *)
LEMMA ConcatComes ==
  ASSUME NEW s \in Seq(Steps), NEW u \in Seq(Steps), NEW i \in Nat
  PROVE  /\ \A ops : Later(s, i, ops) => Later(s \o u, i, ops)
         /\ \A ops : Later(u, i, ops) => Later(s \o u, Len(s) + i, ops)
         /\ \A f : LaterListed(s, i, f) => LaterListed(s \o u, i, f)
         /\ \A f : LaterListed(u, i, f) => LaterListed(s \o u, Len(s) + i, f)
         /\ SaveNext(s, i) => SaveNext(s \o u, i)
         /\ SaveNext(u, i) => SaveNext(s \o u, Len(s) + i)
<1>1. /\ Len(s) \in Nat /\ Len(u) \in Nat /\ Len(s \o u) = Len(s) + Len(u)
      /\ \A j \in 1..Len(s) : (s \o u)[j] = s[j]
      /\ \A j \in 1..Len(u) : (s \o u)[Len(s) + j] = u[j]
  BY ConcatIs
<1>2. \A j \in i + 1..Len(s) : j \in i + 1..Len(s \o u) /\ j \in 1..Len(s)  BY <1>1
<1>3. \A j \in i + 1..Len(u) :
        Len(s) + j \in (Len(s) + i) + 1..Len(s \o u) /\ j \in 1..Len(u)
  BY <1>1
<1>4. ASSUME NEW ops, Later(s, i, ops) PROVE Later(s \o u, i, ops)
  BY <1>1, <1>2, <1>4 DEF Later
<1>5. ASSUME NEW ops, Later(u, i, ops) PROVE Later(s \o u, Len(s) + i, ops)
  <2>1. PICK j \in i + 1..Len(u) : u[j].do \in ops  BY <1>5 DEF Later
  <2>2. Len(s) + j \in (Len(s) + i) + 1..Len(s \o u) /\ (s \o u)[Len(s) + j] = u[j]  BY <1>1, <1>3
  <2> QED BY <2>1, <2>2 DEF Later
<1>6. ASSUME NEW f, LaterListed(s, i, f) PROVE LaterListed(s \o u, i, f)
  BY <1>1, <1>2, <1>6 DEF LaterListed
<1>7. ASSUME NEW f, LaterListed(u, i, f) PROVE LaterListed(s \o u, Len(s) + i, f)
  <2>1. PICK j \in i + 1..Len(u) : u[j].do \in {"start", "list"} /\ f \in u[j].on
    BY <1>7 DEF LaterListed
  <2>2. Len(s) + j \in (Len(s) + i) + 1..Len(s \o u) /\ (s \o u)[Len(s) + j] = u[j]  BY <1>1, <1>3
  <2> QED BY <2>1, <2>2 DEF LaterListed
<1>8. ASSUME SaveNext(s, i) PROVE SaveNext(s \o u, i)
  <2>1. PICK j \in i + 1..Len(s) :
          s[j].do = "save" /\ \A k \in i + 1..j - 1 : s[k].do # "read"
    BY <1>8 DEF SaveNext
  <2>2. \A k \in i + 1..j - 1 : (s \o u)[k] = s[k]  BY <1>1
  <2> QED BY <1>1, <1>2, <2>1, <2>2 DEF SaveNext
<1>9. ASSUME SaveNext(u, i) PROVE SaveNext(s \o u, Len(s) + i)
  <2>1. PICK j \in i + 1..Len(u) :
          u[j].do = "save" /\ \A k \in i + 1..j - 1 : u[k].do # "read"
    BY <1>9 DEF SaveNext
  <2>2. Len(s) + j \in (Len(s) + i) + 1..Len(s \o u) /\ (s \o u)[Len(s) + j] = u[j]  BY <1>1, <1>3
  <2>3. ASSUME NEW k \in (Len(s) + i) + 1..(Len(s) + j) - 1 PROVE (s \o u)[k].do # "read"
    <3>1. k - Len(s) \in i + 1..j - 1 /\ k - Len(s) \in 1..Len(u) /\ Len(s) + (k - Len(s)) = k
      BY <1>1
    <3>2. (s \o u)[Len(s) + (k - Len(s))] = u[k - Len(s)]  BY <1>1, <3>1
    <3> QED BY <2>1, <3>1, <3>2
  <2> QED BY <2>1, <2>2, <2>3 DEF SaveNext
<1> QED BY <1>4, <1>5, <1>6, <1>7, <1>8, <1>9

LEMMA FitsAfter ==
  ASSUME NEW s \in Seq(Steps), NEW u \in Seq(Steps), NEW c, NEW r,
         NEW k \in 1..Len(u), Fits(u, k, c, r)
  PROVE  Fits(s \o u, Len(s) + k, c, r)
<1>1. /\ Len(s) \in Nat /\ Len(u) \in Nat /\ Len(s \o u) = Len(s) + Len(u)
      /\ \A j \in 1..Len(u) : (s \o u)[Len(s) + j] = u[j]
  BY ConcatIs
<1>2. /\ \A ops : Later(u, k, ops) => Later(s \o u, Len(s) + k, ops)
      /\ \A f : LaterListed(u, k, f) => LaterListed(s \o u, Len(s) + k, f)
      /\ SaveNext(u, k) => SaveNext(s \o u, Len(s) + k)
  BY ConcatComes
<1>3. (s \o u)[Len(s) + k] = u[k]  BY <1>1
<1> DEFINE i == Len(s) + k
<1>4. Adjoins(s \o u, i)
  <2>1. k < Len(u) => (s \o u)[i + 1] = u[k + 1]
    <3>1. k < Len(u) => k + 1 \in 1..Len(u) /\ i + 1 = Len(s) + (k + 1)  BY <1>1
    <3> QED BY <1>1, <3>1
  <2>2. k + 1 < Len(u) => (s \o u)[i + 2] = u[k + 2]
    <3>1. k + 1 < Len(u) => k + 2 \in 1..Len(u) /\ i + 2 = Len(s) + (k + 2)  BY <1>1
    <3> QED BY <1>1, <3>1
  <2>3. /\ i = Len(s \o u) <=> k = Len(u)
        /\ i < Len(s \o u) <=> k < Len(u)
        /\ i + 1 < Len(s \o u) <=> k + 1 < Len(u)
    <3>1. ASSUME NEW a \in Nat, NEW b \in Nat, NEW n \in Nat
          PROVE  /\ (a + b = a + n) <=> (b = n)
                 /\ (a + b < a + n) <=> (b < n)
                 /\ ((a + b) + 1 < a + n) <=> (b + 1 < n)
      OBVIOUS
    <3>2. k \in Nat  BY <1>1
    <3> QED BY <1>1, <3>1, <3>2
  <2>4. k + 1 < Len(u) => k < Len(u)  BY <1>1
  <2> QED BY <1>3, <2>1, <2>2, <2>3, <2>4 DEF Fits, Adjoins
<1>5. Repaired(s \o u, i, c)  BY <1>2, <1>3 DEF Fits, Repaired
<1>6. Suits(s \o u, i, c, r)  BY <1>2, <1>3 DEF Fits, Suits
<1> QED BY <1>4, <1>5, <1>6 DEF Fits

LEMMA FitsConcat ==
  ASSUME NEW s \in Seq(Steps), NEW u \in Seq(Steps), NEW c, NEW r,
         Fitting(s, c, r), Fitting(u, c, r), Opens(u), u[1].do # "start"
  PROVE  s \o u \in Seq(Steps) /\ Fitting(s \o u, c, r)
<1>1. /\ s \o u \in Seq(Steps) /\ Len(s) \in Nat /\ Len(u) \in Nat \ {0}
      /\ Len(s \o u) = Len(s) + Len(u)
      /\ \A j \in 1..Len(s) : (s \o u)[j] = s[j]
      /\ \A j \in 1..Len(u) : (s \o u)[Len(s) + j] = u[j]
  BY ConcatIs, EmptySeq DEF Opens
<1> SUFFICES ASSUME NEW i \in 1..Len(s \o u) PROVE Fits(s \o u, i, c, r)
  BY <1>1 DEF Fitting
<1>2. CASE i <= Len(s)
  <2>1. i \in Nat /\ i \in 1..Len(s) /\ (s \o u)[i] = s[i] /\ Fits(s, i, c, r)
    BY <1>1, <1>2 DEF Fitting
  <2>2. /\ \A ops : Later(s, i, ops) => Later(s \o u, i, ops)
        /\ \A f : LaterListed(s, i, f) => LaterListed(s \o u, i, f)
        /\ SaveNext(s, i) => SaveNext(s \o u, i)
    BY <2>1, ConcatComes
  <2>3. Adjoins(s \o u, i)
    <3>1. CASE i + 1 < Len(s)
      <4>1. (s \o u)[i + 1] = s[i + 1] /\ (s \o u)[i + 2] = s[i + 2] /\ i # Len(s \o u) /\ i < Len(s)
        BY <1>1, <2>1, <3>1
      <4> QED BY <2>1, <3>1, <4>1 DEF Fits, Adjoins
    <3>2. CASE i + 1 = Len(s)
      <4>1. (s \o u)[i + 1] = s[i + 1] /\ i # Len(s \o u) /\ i < Len(s) /\ i + 1 \in 1..Len(s)
        BY <1>1, <2>1, <3>2
      <4>2. s[i + 1].do = "save"  BY <3>2, <4>1 DEF Fitting, Fits, Adjoins
      <4> QED BY <2>1, <4>1, <4>2 DEF Fits, Adjoins
    <3>3. CASE i = Len(s)
      <4>1. (s \o u)[i + 1] = u[1] /\ i # Len(s \o u) /\ s[i].do = "save"
        BY <1>1, <2>1, <3>3 DEF Fits, Adjoins
      <4> QED BY <2>1, <4>1 DEF Opens, Adjoins
    <3> QED BY <1>1, <2>1, <3>1, <3>2, <3>3
  <2>4. Repaired(s \o u, i, c)  BY <2>1, <2>2 DEF Fits, Repaired
  <2>5. Suits(s \o u, i, c, r)  BY <2>1, <2>2 DEF Fits, Suits
  <2> QED BY <2>3, <2>4, <2>5 DEF Fits
<1>3. CASE ~(i <= Len(s))
  <2>1. i - Len(s) \in 1..Len(u) /\ Len(s) + (i - Len(s)) = i  BY <1>1, <1>3
  <2>2. Fits(u, i - Len(s), c, r)  BY <2>1 DEF Fitting
  <2> QED BY <2>1, <2>2, FitsAfter
<1> QED BY <1>2, <1>3

LEMMA RefersConcat ==
  ASSUME NEW s \in Seq(Steps), NEW u \in Seq(Steps), NEW c, Referring(u, c),
         Referring(s, c) \/ (Later(u, 0, {"refer"}) /\ Later(u, 0, {"index"}))
  PROVE  Referring(s \o u, c)
<1>1. /\ Len(s) \in Nat /\ Len(u) \in Nat /\ Len(s \o u) = Len(s) + Len(u)
      /\ \A j \in 1..Len(s) : (s \o u)[j] = s[j]
      /\ \A j \in 1..Len(u) : (s \o u)[Len(s) + j] = u[j]
  BY ConcatIs
<1> SUFFICES ASSUME NEW i \in 1..Len(s \o u) PROVE Refers(s \o u, i, c)
  BY DEF Referring
<1>2. CASE i <= Len(s)
  <2>1. i \in Nat /\ i \in 1..Len(s) /\ (s \o u)[i] = s[i]  BY <1>1, <1>2
  <2>2. CASE Referring(s, c)
    <3>1. Refers(s, i, c)  BY <2>1, <2>2 DEF Referring
    <3>2. \A ops : Later(s, i, ops) => Later(s \o u, i, ops)  BY <2>1, ConcatComes
    <3> QED BY <2>1, <3>1, <3>2 DEF Refers
  <2>3. CASE Later(u, 0, {"refer"}) /\ Later(u, 0, {"index"})
    <3>1. ASSUME NEW ops, Later(u, 0, ops) PROVE Later(s \o u, i, ops)
      <4>1. PICK j \in 0 + 1..Len(u) : u[j].do \in ops  BY <3>1 DEF Later
      <4>2. Len(s) + j \in i + 1..Len(s \o u) /\ (s \o u)[Len(s) + j] = u[j]
        BY <1>1, <2>1
      <4> QED BY <4>1, <4>2 DEF Later
    <3> QED BY <2>3, <3>1 DEF Refers
  <2> QED BY <2>2, <2>3
<1>3. CASE ~(i <= Len(s))
  <2>1. PICK k \in 1..Len(u) : i = Len(s) + k
    <3>1. i - Len(s) \in 1..Len(u) /\ i = Len(s) + (i - Len(s))  BY <1>1, <1>3
    <3> QED BY <3>1
  <2>2. (s \o u)[i] = u[k] /\ Refers(u, k, c)  BY <1>1, <2>1 DEF Referring
  <2>3. \A ops : Later(u, k, ops) => Later(s \o u, i, ops)  BY <2>1, ConcatComes
  <2> QED BY <2>2, <2>3 DEF Refers
<1> QED BY <1>2, <1>3

LEMMA ShapeConcat ==
  ASSUME NEW s \in Seq(Steps), NEW u \in Seq(Steps), NEW c, NEW r,
         Shape(s, c, r), Shape(u, c, r), Opens(u), u[1].do # "start"
  PROVE  s \o u \in Seq(Steps) /\ Shape(s \o u, c, r)
BY FitsConcat, RefersConcat DEF Shape

-----------------------------------------------------------------------------
(* The programs. *)
LEMMA UpdateFits ==
  ASSUME NEW f \in File, NEW fs \in SUBSET File, NEW c \in Updates, NEW r,
         f \in fs, fs \subseteq ListedBy(c, r), f \notin Collected
  PROVE  /\ Update(f, fs) \in Seq(Steps) /\ Shape(Update(f, fs), c, r)
         /\ Opens(Update(f, fs)) /\ Update(f, fs)[1].do = "write"
         /\ ~SaveNext(Update(f, fs), 0)
         /\ \A g \in fs : LaterListed(Update(f, fs), 0, g)
         /\ \A op \in {"name", "review", "rerefer", "reindex"} : Later(Update(f, fs), 0, {op})
<1> DEFINE u == Update(f, fs)
<1>1. u \in Seq(Steps) /\ Len(u) = 12 /\ u # <<>>
  <2>1. u \in Seq(Steps) /\ Len(u) = 12
    BY DEF Update, Do, Write, Steps, Ops, File, Collected
  <2>2. u # <<>>  BY DEF Update
  <2> QED BY <2>1, <2>2
<1>2. /\ u[1].do = "write" /\ u[2].do = "read" /\ u[3].do = "list" /\ u[4].do = "name"
      /\ u[5].do = "write" /\ u[6].do = "review" /\ u[7].do = "hash" /\ u[8].do = "rerefer"
      /\ u[9].do = "hash" /\ u[10].do = "reindex" /\ u[11].do = "hash" /\ u[12].do = "save"
  BY DEF Update, Do, Write
<1>3. u[1].on = {f} /\ u[3].on = fs /\ u[5].on = {"metadata"}
  BY DEF Update, Do, Write
<1> HIDE DEF u
<1>4. ASSUME NEW i \in 1..12 PROVE Adjoins(u, i)
  <2>1. CASE i \in 1..6  BY <1>1, <1>2, <2>1 DEF Adjoins
  <2>2. CASE i \in 7..12  BY <1>1, <1>2, <2>2 DEF Adjoins
  <2> QED BY <2>1, <2>2
<1>5. ASSUME NEW i \in 2..11 PROVE SaveNext(u, i)
  <2>1. 12 \in i + 1..Len(u) /\ \A k \in i + 1..12 - 1 : u[k].do # "read"  BY <1>1, <1>2
  <2> QED BY <1>2, <2>1 DEF SaveNext
<1>6. ~SaveNext(u, 0)
  <2>1. ASSUME NEW j \in 0 + 1..Len(u), u[j].do = "save" PROVE 2 \in 0 + 1..j - 1
    BY <1>1, <1>2, <2>1
  <2> QED BY <1>2, <2>1 DEF SaveNext
<1>7. ASSUME NEW i \in 0..5 PROVE Later(u, i, {"review"})
  <2>1. 6 \in i + 1..Len(u)  BY <1>1
  <2> QED BY <1>2, <2>1 DEF Later
<1>8. ASSUME NEW i \in 0..7 PROVE Later(u, i, {"refer", "rerefer"}) /\ Later(u, i, {"rerefer"})
  <2>1. 8 \in i + 1..Len(u)  BY <1>1
  <2> QED BY <1>2, <2>1 DEF Later
<1>9. ASSUME NEW i \in 0..9 PROVE Later(u, i, {"index", "reindex"}) /\ Later(u, i, {"reindex"})
  <2>1. 10 \in i + 1..Len(u)  BY <1>1
  <2> QED BY <1>2, <2>1 DEF Later
<1>10. ASSUME NEW i \in 0..3 PROVE Later(u, i, {"name"})
  <2>1. 4 \in i + 1..Len(u)  BY <1>1
  <2> QED BY <1>2, <2>1 DEF Later
<1>11. ASSUME NEW i \in 0..2, NEW g \in fs PROVE LaterListed(u, i, g)
  <2>1. 3 \in i + 1..Len(u)  BY <1>1
  <2> QED BY <1>2, <1>3, <2>1 DEF LaterListed
<1>12. ASSUME NEW i \in 1..12 PROVE Repaired(u, i, c)
  <2>1. u[i].do \in Drafting => i \in 2..11  BY <1>2 DEF Drafting
  <2>2. u[i].do \in {"name", "start"} => i = 4  BY <1>2
  <2>3. u[i].do \in {"refer", "rerefer"} => i = 8  BY <1>2
  <2>4. u[i].do # "clear" /\ (u[i].do = "list" => i = 3)  BY <1>2
  <2> QED BY <1>5, <1>7, <1>8, <1>9, <1>10, <2>1, <2>2, <2>3, <2>4 DEF Repaired
<1>13. ASSUME NEW i \in 1..12 PROVE Suits(u, i, c, r)
  <2>1. c # "episode" /\ c # "collect" /\ c # "bench"  BY DEF Updates
  <2>2. u[i].do = "write" => i = 1 \/ i = 5  BY <1>2
  <2>3. u[i].do \notin {"start", "clear", "refer", "index"}  BY <1>2
  <2>4. u[i].do = "list" => i = 3  BY <1>2
  <2>5. CASE i = 1
    <3>1. LaterListed(u, 1, f)  BY <1>11
    <3>2. f \in ListedBy(c, r) /\ f \notin {"references", "index", "content", "pointers"}
      BY DEF Collected
    <3> QED BY <1>2, <1>3, <2>1, <2>5, <3>1, <3>2 DEF Suits
  <2>6. CASE i = 5
    <3>1. "metadata" \in Collected /\ "metadata" \notin {"references", "index", "content", "pointers"}
      BY DEF Collected
    <3> QED BY <1>2, <1>3, <2>1, <2>6, <3>1 DEF Suits
  <2>7. CASE i # 1 /\ i # 5  BY <1>3, <2>1, <2>2, <2>3, <2>4, <2>7 DEF Suits
  <2> QED BY <2>5, <2>6, <2>7
<1>14. Shape(u, c, r)
  <2>1. Fitting(u, c, r)  BY <1>1, <1>4, <1>12, <1>13 DEF Fitting, Fits
  <2>2. ASSUME NEW i \in 1..12 PROVE Refers(u, i, c)
    <3>1. u[i].do = "write" => u[i].on \in {{f}, {"metadata"}}  BY <1>2, <1>3
    <3>2. f \notin {"content", "pointers"}  BY DEF Collected
    <3> QED BY <3>1, <3>2 DEF Refers, Updates
  <2> QED BY <1>1, <2>1, <2>2 DEF Shape, Referring
<1>15. Opens(u)  BY <1>1, <1>2 DEF Opens
<1>16. u[1].do = "write" /\ \A g \in fs : LaterListed(u, 0, g)  BY <1>2, <1>11
<1>17. \A op \in {"name", "review", "rerefer", "reindex"} : Later(u, 0, {op})
  BY <1>7, <1>8, <1>9, <1>10
<1> QED BY <1>1, <1>6, <1>14, <1>15, <1>16, <1>17 DEF u

LEMMA AddFits ==
  ASSUME NEW f \in File, NEW c, NEW r, f \in ListedBy(c, r), f \notin Collected,
         c \in {"bench", "episode"}
  PROVE  /\ Add(f) \in Seq(Steps) /\ Fitting(Add(f), c, r)
         /\ c = "bench" => Shape(Add(f), c, r)
         /\ Opens(Add(f)) /\ Add(f)[1].do = "write" /\ ~SaveNext(Add(f), 0)
         /\ LaterListed(Add(f), 0, f)
<1> DEFINE u == Add(f)
<1>1. u \in Seq(Steps) /\ Len(u) = 5 /\ u # <<>>
  BY DEF Add, Do, Write, Steps, Ops
<1>2. /\ u[1].do = "write" /\ u[2].do = "read" /\ u[3].do = "list" /\ u[4].do = "hash"
      /\ u[5].do = "save"
  BY DEF Add, Do, Write
<1>3. u[1].on = {f} /\ u[3].on = {f}
  BY DEF Add, Do, Write
<1> HIDE DEF u
<1>4. ASSUME NEW i \in 1..5 PROVE Adjoins(u, i)  BY <1>1, <1>2 DEF Adjoins
<1>5. SaveNext(u, 3)
  <2>1. 5 \in 3 + 1..Len(u) /\ \A k \in 3 + 1..5 - 1 : u[k].do # "read"  BY <1>1, <1>2
  <2> QED BY <1>2, <2>1 DEF SaveNext
<1>6. ~SaveNext(u, 0)
  <2>1. ASSUME NEW j \in 0 + 1..Len(u), u[j].do = "save" PROVE 2 \in 0 + 1..j - 1
    BY <1>1, <1>2, <2>1
  <2> QED BY <1>2, <2>1 DEF SaveNext
<1>7. LaterListed(u, 0, f) /\ LaterListed(u, 1, f)
  BY <1>1, <1>2, <1>3 DEF LaterListed
<1>8. ASSUME NEW i \in 1..5 PROVE Repaired(u, i, c)
  <2>1. u[i].do \in Drafting => i = 3  BY <1>2 DEF Drafting
  <2>2. c \notin Updates  BY DEF Updates
  <2>3. u[i].do \notin {"name", "start", "refer", "rerefer", "clear"}  BY <1>2
  <2> QED BY <1>5, <2>1, <2>2, <2>3 DEF Repaired
<1>9. ASSUME NEW i \in 1..5 PROVE Suits(u, i, c, r)
  <2>1. /\ u[i].do = "write" => i = 1
        /\ u[i].do = "list" => i = 3
        /\ u[i].do \notin {"start", "clear", "refer", "index", "review", "rerefer", "reindex"}
    BY <1>2
  <2>2. f \notin {"references", "index", "content", "pointers"}  BY DEF Collected
  <2> QED BY <1>3, <1>7, <2>1, <2>2 DEF Suits
<1>10. Fitting(u, c, r)  BY <1>1, <1>4, <1>8, <1>9 DEF Fitting, Fits
<1>12. c = "bench" => Shape(u, c, r)
  <2>1. ASSUME NEW i \in 1..5, c = "bench" PROVE Refers(u, i, c)
    <3>1. u[i].do = "write" => u[i].on = {f}  BY <1>2, <1>3
    <3>2. f \notin {"content", "pointers"}  BY DEF Collected
    <3> QED BY <2>1, <3>1, <3>2 DEF Refers
  <2> QED BY <1>1, <1>10, <2>1 DEF Shape, Referring
<1>11. Opens(u)  BY <1>1, <1>2 DEF Opens
<1> QED BY <1>1, <1>2, <1>6, <1>7, <1>10, <1>11, <1>12 DEF u

LEMMA CollectFits ==
  ASSUME NEW c \in {"collect", "episode"}, NEW r
  PROVE  /\ CollectProgram \in Seq(Steps) /\ Shape(CollectProgram, c, r)
         /\ CollectProgram # <<>> /\ CollectProgram[1].do = "start"
         /\ Later(CollectProgram, 0, {"refer"}) /\ Later(CollectProgram, 0, {"index"})
         /\ \A f \in Collected : LaterListed(CollectProgram, 0, f)
         /\ Len(CollectProgram) = 12 /\ CollectProgram[1].on = Collected
<1> DEFINE u == CollectProgram
<1>1. u \in Seq(Steps) /\ Len(u) = 12 /\ u # <<>>
  BY DEF CollectProgram, Do, Write, Steps, Ops, File, Collected
<1>2. /\ u[1].do = "start" /\ u[2].do = "write" /\ u[3].do = "review" /\ u[4].do = "clear"
      /\ u[5].do = "write" /\ u[6].do = "hash" /\ u[7].do = "write" /\ u[8].do = "hash"
      /\ u[9].do = "refer" /\ u[10].do = "index" /\ u[11].do = "hash" /\ u[12].do = "save"
  BY DEF CollectProgram, Do, Write
<1>3. /\ u[1].on = Collected /\ u[2].on = {"content"} /\ u[5].on = {"metadata"}
      /\ u[7].on = {"pointers"}
  BY DEF CollectProgram, Do, Write
<1> HIDE DEF u
<1>4. ASSUME NEW i \in 1..12 PROVE Adjoins(u, i)
  <2>1. CASE i \in 1..6  BY <1>1, <1>2, <2>1 DEF Adjoins
  <2>2. CASE i \in 7..12  BY <1>1, <1>2, <2>2 DEF Adjoins
  <2> QED BY <2>1, <2>2
<1>5. ASSUME NEW i \in 1..11 PROVE SaveNext(u, i)
  <2>1. 12 \in i + 1..Len(u) /\ \A k \in i + 1..12 - 1 : u[k].do # "read"  BY <1>1, <1>2
  <2> QED BY <1>2, <2>1 DEF SaveNext
<1>6. ASSUME NEW i \in 0..2 PROVE Later(u, i, {"review"})
  <2>1. 3 \in i + 1..Len(u)  BY <1>1
  <2> QED BY <1>2, <2>1 DEF Later
<1>7. ASSUME NEW i \in 0..8 PROVE Later(u, i, {"refer"}) /\ Later(u, i, {"refer", "rerefer"})
  <2>1. 9 \in i + 1..Len(u)  BY <1>1
  <2> QED BY <1>2, <2>1 DEF Later
<1>8. ASSUME NEW i \in 0..9 PROVE Later(u, i, {"index"}) /\ Later(u, i, {"index", "reindex"})
  <2>1. 10 \in i + 1..Len(u)  BY <1>1
  <2> QED BY <1>2, <2>1 DEF Later
<1>9. ASSUME NEW i \in 1..12 PROVE Repaired(u, i, c)
  <2>1. u[i].do \in Drafting => i \in 1..11  BY <1>2 DEF Drafting
  <2>2. u[i].do \in {"name", "start"} => i = 1  BY <1>2
  <2>3. u[i].do \in {"refer", "rerefer"} => i = 9  BY <1>2
  <2>4. u[i].do # "list" /\ (u[i].do = "clear" => i = 4)  BY <1>2
  <2> QED BY <1>5, <1>6, <1>7, <1>8, <2>1, <2>2, <2>3, <2>4 DEF Repaired
<1>10. ASSUME NEW i \in 1..12 PROVE Suits(u, i, c, r)
  <2>1. u[i].do = "write" => u[i].on \in {{"content"}, {"metadata"}, {"pointers"}}
    BY <1>2, <1>3
  <2>2. u[i].do \notin {"read", "list", "name"} /\ (u[i].do = "start" => i = 1)  BY <1>2
  <2>3. {"content", "metadata", "pointers"} \subseteq Collected \ {"references", "index"}
    BY DEF Collected
  <2> QED BY <1>3, <2>1, <2>2, <2>3 DEF Suits
<1>11. ASSUME NEW i \in 1..12 PROVE Refers(u, i, c)
  <2>1. u[i].do = "write" => i \in 0..8  BY <1>2
  <2> QED BY <1>7, <1>8, <2>1 DEF Refers
<1>12. Shape(u, c, r)  BY <1>1, <1>4, <1>9, <1>10, <1>11 DEF Shape, Fitting, Referring, Fits
<1>13. ASSUME NEW f \in Collected PROVE LaterListed(u, 0, f)
  <2>1. 1 \in 0 + 1..Len(u)  BY <1>1
  <2> QED BY <1>2, <1>3, <2>1 DEF LaterListed
<1> QED BY <1>1, <1>2, <1>3, <1>7, <1>8, <1>12, <1>13 DEF u

LEMMA TraceFits ==
  ASSUME NEW r
  PROVE  /\ TraceProgram \in Seq(Steps) /\ Shape(TraceProgram, "episode", r)
         /\ Opens(TraceProgram) /\ TraceProgram[1].do = "write"
         /\ LaterListed(TraceProgram, 0, "trace")
         /\ Later(TraceProgram, 0, {"refer"}) /\ Later(TraceProgram, 0, {"index"})
<1> DEFINE u == TraceProgram
<1>1. u \in Seq(Steps) /\ Len(u) = 15 /\ u # <<>>
  BY DEF TraceProgram, Do, Write, Steps, Ops, File, Collected, Added
<1>2. /\ u[1].do = "write" /\ u[2].do = "write" /\ u[3].do = "write" /\ u[4].do = "read"
      /\ u[5].do = "list" /\ u[6].do = "hash" /\ u[7].do = "save" /\ u[8].do = "read"
      /\ u[9].do = "refer" /\ u[10].do = "hash" /\ u[11].do = "save" /\ u[12].do = "read"
      /\ u[13].do = "index" /\ u[14].do = "hash" /\ u[15].do = "save"
  BY DEF TraceProgram, Do, Write
<1>3. /\ u[1].on = {"trace"} /\ u[2].on = {"metadata"} /\ u[3].on = {"review"}
      /\ u[5].on = {"trace"}
  BY DEF TraceProgram, Do, Write
<1> HIDE DEF u
<1>4. ASSUME NEW i \in 1..15 PROVE Adjoins(u, i)
  <2>1. CASE i \in 1..5  BY <1>1, <1>2, <2>1 DEF Adjoins
  <2>2. CASE i \in 6..10  BY <1>1, <1>2, <2>2 DEF Adjoins
  <2>3. CASE i \in 11..15  BY <1>1, <1>2, <2>3 DEF Adjoins
  <2> QED BY <2>1, <2>2, <2>3
<1>5. SaveNext(u, 5) /\ SaveNext(u, 9) /\ SaveNext(u, 13)
  <2>1. 7 \in 5 + 1..Len(u) /\ \A k \in 5 + 1..7 - 1 : u[k].do # "read"  BY <1>1, <1>2
  <2>2. 11 \in 9 + 1..Len(u) /\ \A k \in 9 + 1..11 - 1 : u[k].do # "read"  BY <1>1, <1>2
  <2>3. 15 \in 13 + 1..Len(u) /\ \A k \in 13 + 1..15 - 1 : u[k].do # "read"  BY <1>1, <1>2
  <2> QED BY <1>2, <2>1, <2>2, <2>3 DEF SaveNext
<1>7. ASSUME NEW i \in 0..8 PROVE Later(u, i, {"refer"})
  <2>1. 9 \in i + 1..Len(u)  BY <1>1
  <2> QED BY <1>2, <2>1 DEF Later
<1>8. ASSUME NEW i \in 0..12 PROVE Later(u, i, {"index"}) /\ Later(u, i, {"index", "reindex"})
  <2>1. 13 \in i + 1..Len(u)  BY <1>1
  <2> QED BY <1>2, <2>1 DEF Later
<1>9. ASSUME NEW i \in 1..15 PROVE Repaired(u, i, "episode")
  <2>1. u[i].do \in Drafting => i \in {5, 9, 13}  BY <1>2 DEF Drafting
  <2>2. u[i].do \notin {"name", "start", "rerefer", "clear"}  BY <1>2
  <2>3. u[i].do = "refer" => i = 9  BY <1>2
  <2>4. "episode" \notin Updates  BY DEF Updates
  <2> QED BY <1>5, <1>8, <2>1, <2>2, <2>3, <2>4 DEF Repaired
<1>10. LaterListed(u, 0, "trace") /\ LaterListed(u, 1, "trace")
  <2>1. 5 \in 0 + 1..Len(u) /\ 5 \in 1 + 1..Len(u)  BY <1>1
  <2> QED BY <1>2, <1>3, <2>1 DEF LaterListed
<1>11. ASSUME NEW i \in 1..15 PROVE Suits(u, i, "episode", r)
  <2>1. u[i].do = "write" => i \in {1, 2, 3}  BY <1>2
  <2>2. u[i].do = "list" => i = 5  BY <1>2
  <2>3. u[i].do # "start"  BY <1>2
  <2>4. {"metadata", "review"} \subseteq Collected \ {"references", "index"}
    BY DEF Collected
  <2>5. "trace" \in ListedBy("episode", r)  BY DEF ListedBy, Episodic
  <2> QED BY <1>3, <1>10, <2>1, <2>2, <2>3, <2>4, <2>5 DEF Suits
<1>12. ASSUME NEW i \in 1..15 PROVE Refers(u, i, "episode")
  <2>1. u[i].do = "write" => i \in 0..8  BY <1>2
  <2> QED BY <1>7, <1>8, <2>1 DEF Refers
<1>13. Shape(u, "episode", r)
  BY <1>1, <1>4, <1>9, <1>11, <1>12 DEF Shape, Fitting, Referring, Fits
<1>14. Opens(u)  BY <1>1, <1>2 DEF Opens
<1> QED BY <1>1, <1>2, <1>7, <1>8, <1>10, <1>13, <1>14 DEF u

-----------------------------------------------------------------------------
(* Every program is one of these, or made of them. *)
LEMMA Sooner ==
  ASSUME NEW t \in Seq(Steps), NEW i \in Nat
  PROVE  /\ \A ops : Later(t, i, ops) => Later(t, 0, ops)
         /\ \A f : LaterListed(t, i, f) => LaterListed(t, 0, f)
<1>1. Len(t) \in Nat  BY LenProperties
<1>2. \A j \in i + 1..Len(t) : j \in 0 + 1..Len(t)  BY <1>1
<1> QED BY <1>2 DEF Later, LaterListed

LEMMA ComesWith ==
  ASSUME NEW s \in Seq(Steps), NEW u \in Seq(Steps)
  PROVE  /\ \A ops : Later(s, 0, ops) \/ Later(u, 0, ops) => Later(s \o u, 0, ops)
         /\ \A f : LaterListed(s, 0, f) \/ LaterListed(u, 0, f) => LaterListed(s \o u, 0, f)
<1>1. s \o u \in Seq(Steps) /\ Len(s) \in Nat  BY ConcatIs
<1>2. /\ \A ops : Later(s, 0, ops) => Later(s \o u, 0, ops)
      /\ \A f : LaterListed(s, 0, f) => LaterListed(s \o u, 0, f)
  BY ConcatComes
<1>3. PICK n \in Nat : n = Len(s) + 0  BY <1>1
<1>4. /\ \A ops : Later(u, 0, ops) => Later(s \o u, n, ops)
      /\ \A f : LaterListed(u, 0, f) => LaterListed(s \o u, n, f)
  BY <1>3, ConcatComes
<1> QED BY <1>1, <1>2, <1>4, Sooner

(* A step before a program. *)
LEMMA ConsIs ==
  ASSUME NEW x \in Steps, NEW u \in Seq(Steps), NEW t, t = <<x>> \o u
  PROVE  /\ t \in Seq(Steps) /\ t # <<>>
         /\ Len(u) \in Nat /\ Len(t) = 1 + Len(u) /\ t[1] = x
         /\ \A j \in 1..Len(u) : t[1 + j] = u[j]
         /\ \A ops : Later(u, 0, ops) => Later(t, 0, ops)
         /\ \A f : LaterListed(u, 0, f) => LaterListed(t, 1, f) /\ LaterListed(t, 0, f)
         /\ \A c, r : \A k \in 1..Len(u) : Fits(u, k, c, r) => Fits(t, 1 + k, c, r)
<1> DEFINE s == <<x>>
<1>1. s \in Seq(Steps) /\ Len(s) = 1 /\ s[1] = x  OBVIOUS
<1>2. t = s \o u  OBVIOUS
<1> HIDE DEF s
<1>3. /\ t \in Seq(Steps) /\ Len(u) \in Nat /\ Len(t) = Len(s) + Len(u)
      /\ \A j \in 1..Len(s) : t[j] = s[j]
      /\ \A j \in 1..Len(u) : t[Len(s) + j] = u[j]
  BY <1>1, <1>2, ConcatIs
<1>4. \A f : LaterListed(u, 0, f) => LaterListed(t, Len(s) + 0, f)
  BY <1>1, <1>2, ConcatComes
<1>5. \A c, r : \A k \in 1..Len(u) : Fits(u, k, c, r) => Fits(t, Len(s) + k, c, r)
  BY <1>1, <1>2, FitsAfter
<1>6. /\ t \in Seq(Steps) /\ Len(u) \in Nat /\ Len(t) = 1 + Len(u)
      /\ \A j \in 1..Len(u) : t[1 + j] = u[j]
      /\ \A c, r : \A k \in 1..Len(u) : Fits(u, k, c, r) => Fits(t, 1 + k, c, r)
  BY <1>1, <1>3, <1>5
<1>7. t[1] = x  BY <1>1, <1>3
<1>8. \A f : LaterListed(u, 0, f) => LaterListed(t, 1, f)
  <2>1. Len(s) + 0 = 1  BY <1>1
  <2> QED BY <1>4, <2>1
<1>9. \A ops : Later(u, 0, ops) => Later(t, 0, ops)  BY <1>1, <1>2, ComesWith
<1>10. t # <<>>  BY <1>6, EmptySeq
<1> QED BY <1>6, <1>7, <1>8, <1>9, <1>10, Sooner

LEMMA ReadsFirst ==
  ASSUME NEW t \in Seq(Steps), NEW n \in 1..Len(t), t[n].do = "read",
         \A k \in 1..n - 1 : t[k].do # "save"
  PROVE  ~SaveNext(t, 0)
<1>1. Len(t) \in Nat  BY LenProperties
<1>2. ASSUME NEW j \in 0 + 1..Len(t), t[j].do = "save" PROVE n \in 0 + 1..j - 1
  <2>1. j # n /\ j \notin 1..n - 1  BY <1>2
  <2> QED BY <1>1, <2>1
<1> QED BY <1>2 DEF SaveNext

Good(t, c, r) == t \in Seq(Steps) /\ Shape(t, c, r) /\ Opens(t) /\ Comes(t, c, r)

LEMMA UpdateGood ==
  ASSUME NEW f \in File, NEW fs \in SUBSET File, NEW c \in Updates, NEW r,
         f \in fs, fs = ListedBy(c, r), f \notin Collected
  PROVE  Good(Update(f, fs), c, r)
<1>1. c \notin {"collect", "episode"}  BY DEF Updates
<1> QED BY <1>1, UpdateFits DEF Good, Comes

(* A program that ends in an update, and comes to what that update does. *)
LEMMA ThenUpdate ==
  ASSUME NEW s \in Seq(Steps), NEW f \in File, NEW fs \in SUBSET File,
         NEW c \in Updates, NEW r,
         f \in fs, fs = ListedBy(c, r), f \notin Collected,
         Shape(s, c, r), Opens(s), s[1].do = "write", Len(s) > 1, s[2].do = "read"
  PROVE  Good(s \o Update(f, fs), c, r)
<1> DEFINE u == Update(f, fs)
           t == s \o u
<1>1. /\ u \in Seq(Steps) /\ Shape(u, c, r) /\ Opens(u) /\ u[1].do = "write"
      /\ \A g \in fs : LaterListed(u, 0, g)
      /\ \A op \in {"name", "review", "rerefer", "reindex"} : Later(u, 0, {op})
  BY UpdateFits
<1> HIDE DEF u
<1>2. t \in Seq(Steps) /\ Shape(t, c, r)  BY <1>1, ShapeConcat
<1>3. /\ Len(s) \in Nat /\ Len(u) \in Nat /\ Len(t) = Len(s) + Len(u)
      /\ t[1] = s[1] /\ t[2] = s[2]
  BY <1>1, ConcatIs
<1>4. /\ \A ops : Later(u, 0, ops) => Later(t, 0, ops)
      /\ \A g : LaterListed(u, 0, g) => LaterListed(t, 0, g)
  BY <1>1, ComesWith
<1>5. 2 \in 1..Len(t) /\ t[2].do = "read" /\ \A k \in 1..2 - 1 : t[k].do # "save"
  BY <1>3
<1>6. ~SaveNext(t, 0)  BY <1>2, <1>5, ReadsFirst
<1>7. t # <<>>  BY <1>2, <1>5, EmptySeq
<1>8. Opens(t)  BY <1>3, <1>7 DEF Opens
<1>9. c \notin {"collect", "episode"}  BY DEF Updates
<1>10. Comes(t, c, r)  BY <1>1, <1>4, <1>6, <1>9 DEF Comes
<1> QED BY <1>2, <1>8, <1>10 DEF Good, u, t

LEMMA UpdateStarts ==
  ASSUME NEW f, NEW fs
  PROVE  Len(Update(f, fs)) = 12 /\ Update(f, fs)[2].do = "read"
BY DEF Update, Do, Write

LEMMA FinalizeGood == Good(FinalizeProgram, "finalize", recipe)
<1> DEFINE a == {"attestation"} \cup Verified
           v == Update("verification", Verified)
<1>1. /\ "attestation" \in File /\ "verification" \in File
      /\ "attestation" \notin Collected /\ "verification" \notin Collected
  BY DEF File, Added, Collected
<1>2. a \in SUBSET File /\ a = ListedBy("finalize", recipe) /\ "finalize" \in Updates
  BY <1>1 DEF Verified, Wants, ListedBy, If, Updates
<1>3. CASE ~Wants("verify")
  <2>1. Update("attestation", a) \in Seq(Steps)  BY <1>1, <1>2, UpdateFits
  <2>2. FinalizeProgram = <<>> \o Update("attestation", a)  BY <1>3 DEF FinalizeProgram
  <2>3. FinalizeProgram = Update("attestation", a)  BY <2>1, <2>2, ConcatEmptySeq
  <2>4. Good(Update("attestation", a), "finalize", recipe)  BY <1>1, <1>2, UpdateGood
  <2> QED BY <2>3, <2>4
<1>4. CASE Wants("verify")
  <2>1. Verified \in SUBSET File /\ Verified \subseteq a /\ "verification" \in Verified
    BY <1>1, <1>4 DEF Verified
  <2>2. /\ v \in Seq(Steps) /\ Shape(v, "finalize", recipe) /\ Opens(v) /\ v[1].do = "write"
    BY <1>1, <1>2, <2>1, UpdateFits
  <2>3. Len(v) = 12 /\ v[2].do = "read"  BY UpdateStarts
  <2> HIDE DEF v
  <2>4. v \o v \in Seq(Steps) /\ Shape(v \o v, "finalize", recipe)  BY <2>2, ShapeConcat
  <2>5. Len(v \o v) > 1 /\ (v \o v)[1] = v[1] /\ (v \o v)[2] = v[2]
    <3>1. Len(v \o v) = Len(v) + Len(v) /\ \A j \in 1..Len(v) : (v \o v)[j] = v[j]
      BY <2>2, ConcatIs
    <3> QED BY <2>3, <3>1
  <2>6. v \o v # <<>>  BY <2>4, <2>5, EmptySeq
  <2>7. Opens(v \o v)  BY <2>2, <2>5, <2>6 DEF Opens
  <2>8. Good((v \o v) \o Update("attestation", a), "finalize", recipe)
    <3>1. "attestation" \in a  OBVIOUS
    <3> DEFINE s == v \o v
    <3> HIDE DEF a, s
    <3>2. /\ s \in Seq(Steps) /\ Shape(s, "finalize", recipe) /\ Opens(s)
          /\ s[1].do = "write" /\ Len(s) > 1 /\ s[2].do = "read"
      BY <2>2, <2>3, <2>4, <2>5, <2>7 DEF s
    <3>3. Good(s \o Update("attestation", a), "finalize", recipe)
      BY <1>1, <1>2, <3>1, <3>2, ThenUpdate
    <3> QED BY <3>3 DEF s
  <2> QED BY <1>4, <2>8 DEF FinalizeProgram, v
<1> QED BY <1>3, <1>4

LEMMA FitsFirst ==
  ASSUME NEW x \in Steps, NEW u \in Seq(Steps), NEW c, NEW r, NEW t, t = <<x>> \o u,
         Fitting(u, c, r), Fits(t, 1, c, r)
  PROVE  Fitting(t, c, r)
<1>1. Len(u) \in Nat /\ Len(t) = 1 + Len(u) /\ \A k \in 1..Len(u) : Fits(t, 1 + k, c, r)
  BY ConsIs DEF Fitting
<1>2. ASSUME NEW i \in 1..1 + Len(u), i # 1 PROVE Fits(t, i, c, r)
  <2>1. i - 1 \in 1..Len(u) /\ 1 + (i - 1) = i  BY <1>1, <1>2
  <2> QED BY <1>1, <2>1
<1> QED BY <1>1, <1>2 DEF Fitting

LEMMA FailureGood == Good(FailureProgram, "failure", recipe)
<1>1. /\ "failure" \in File /\ "evidence" \in File
      /\ "failure" \notin Collected /\ "evidence" \notin Collected
  BY DEF File, Added, Collected
<1>2. CASE ~Wants("evidence")
  <2>1. {"failure"} = ListedBy("failure", recipe) /\ "failure" \in Updates
    BY <1>2 DEF Wants, ListedBy, If, Updates
  <2>2. Good(Update("failure", {"failure"}), "failure", recipe)  BY <1>1, <2>1, UpdateGood
  <2> QED BY <1>2, <2>2 DEF FailureProgram
<1>3. CASE Wants("evidence")
  <2> DEFINE fs == {"failure", "evidence"}
             u == Update("failure", fs)
             x == Write("evidence")
             t == <<x>> \o u
  <2>1. fs \in SUBSET File /\ fs = ListedBy("failure", recipe) /\ "failure" \in Updates
    BY <1>1, <1>3 DEF Wants, ListedBy, If, Updates
  <2>2. /\ u \in Seq(Steps) /\ Shape(u, "failure", recipe) /\ Opens(u) /\ u[1].do = "write"
        /\ \A g \in fs : LaterListed(u, 0, g)
        /\ \A op \in {"name", "review", "rerefer", "reindex"} : Later(u, 0, {op})
    BY <1>1, <2>1, UpdateFits
  <2>3. Len(u) = 12 /\ u[2].do = "read"  BY UpdateStarts
  <2>4. x \in Steps /\ x.do = "write" /\ x.on = {"evidence"}  BY <1>1 DEF Write, Do, Steps, Ops
  <2> HIDE DEF u, x
  <2>5. <<x>> \in Seq(Steps) /\ Len(<<x>>) = 1 /\ <<x>>[1] = x  BY <2>4
  <2>17. t = <<x>> \o u  OBVIOUS
  <2> HIDE DEF t
  <2>6. /\ t \in Seq(Steps) /\ t # <<>> /\ Len(t) = 1 + 12 /\ t[1] = x
        /\ \A j \in 1..12 : t[1 + j] = u[j]
    <3>1. /\ t \in Seq(Steps) /\ t # <<>> /\ Len(t) = 1 + Len(u) /\ t[1] = x
          /\ \A j \in 1..Len(u) : t[1 + j] = u[j]
      BY <2>2, <2>4, <2>17, ConsIs
    <3> QED BY <2>3, <3>1
  <2>16. t[2] = u[1] /\ t[3] = u[2]  BY <2>6
  <2>7. /\ \A ops : Later(u, 0, ops) => Later(t, 0, ops)
        /\ \A g : LaterListed(u, 0, g) => LaterListed(t, 1, g) /\ LaterListed(t, 0, g)
    BY <2>2, <2>4, <2>17, ConsIs
  <2>8. Fits(t, 1, "failure", recipe)
    <3>1. Adjoins(t, 1)  BY <2>2, <2>3, <2>4, <2>6, <2>16 DEF Adjoins
    <3>2. Repaired(t, 1, "failure")  BY <2>4, <2>6 DEF Repaired, Drafting
    <3>3. LaterListed(t, 1, "evidence")  BY <2>2, <2>7
    <3>4. "evidence" \in ListedBy("failure", recipe) /\ "evidence" \notin {"references", "index"}
      BY <2>1
    <3>5. Suits(t, 1, "failure", recipe)  BY <2>4, <2>6, <3>3, <3>4 DEF Suits
    <3> QED BY <3>1, <3>2, <3>5 DEF Fits
  <2>9. Fitting(t, "failure", recipe)  BY <2>2, <2>4, <2>8, <2>17, FitsFirst DEF Shape
  <2>10. Referring(t, "failure")
    <3>1. Referring(<<x>>, "failure")  BY <2>4, <2>5 DEF Referring, Refers
    <3> QED BY <2>2, <2>5, <2>17, <3>1, RefersConcat DEF Shape
  <2>11. ~SaveNext(t, 0)
    <3>1. 3 \in 1..Len(t) /\ t[3].do = "read" /\ \A k \in 1..3 - 1 : t[k].do # "save"
      BY <2>2, <2>3, <2>4, <2>6, <2>16
    <3> QED BY <2>6, <3>1, ReadsFirst
  <2>13. Opens(t)  BY <2>4, <2>6 DEF Opens
  <2>14. Comes(t, "failure", recipe)  BY <2>1, <2>2, <2>7, <2>11 DEF Comes
  <2>15. FailureProgram = t  BY <1>3 DEF FailureProgram, t, u, x
  <2> QED BY <2>6, <2>9, <2>10, <2>13, <2>14, <2>15 DEF Good, Shape
<1> QED BY <1>2, <1>3

LEMMA BenchGood == Good(BenchProgram, "bench", recipe)
<1> DEFINE s == Add("summaries")
           u == Add("benchmarks")
           t == s \o u
<1>1. /\ "summaries" \in File /\ "benchmarks" \in File
      /\ "summaries" \notin Collected /\ "benchmarks" \notin Collected
      /\ ListedBy("bench", recipe) = {"summaries", "benchmarks"}
  BY DEF File, Added, Collected, ListedBy, Bench
<1>2. /\ s \in Seq(Steps) /\ Shape(s, "bench", recipe) /\ s[1].do = "write"
      /\ LaterListed(s, 0, "summaries")
  BY <1>1, AddFits
<1>3. /\ u \in Seq(Steps) /\ Shape(u, "bench", recipe) /\ u[1].do = "write" /\ Opens(u)
      /\ LaterListed(u, 0, "benchmarks")
  BY <1>1, AddFits
<1>4. Len(s) = 5 /\ Len(u) = 5 /\ s[2].do = "read"  BY DEF Add, Do, Write
<1> HIDE DEF s, u
<1>5. t \in Seq(Steps) /\ Shape(t, "bench", recipe)  BY <1>2, <1>3, ShapeConcat
<1>6. Len(t) = 10 /\ t[1] = s[1] /\ t[2] = s[2]
  <2>1. Len(t) = Len(s) + Len(u) /\ \A j \in 1..Len(s) : t[j] = s[j]
    BY <1>2, <1>3, ConcatIs
  <2> HIDE DEF t
  <2> QED BY <1>4, <2>1
<1>7. LaterListed(t, 0, "summaries") /\ LaterListed(t, 0, "benchmarks")
  BY <1>2, <1>3, ComesWith
<1> HIDE DEF t
<1>8. ~SaveNext(t, 0)
  <2>1. 2 \in 1..Len(t) /\ t[2].do = "read" /\ \A k \in 1..2 - 1 : t[k].do # "save"
    BY <1>2, <1>4, <1>6
  <2> QED BY <1>5, <2>1, ReadsFirst
<1>9. t # <<>>  BY <1>5, <1>6, EmptySeq
<1>10. Opens(t)  BY <1>2, <1>6, <1>9 DEF Opens
<1>11. Comes(t, "bench", recipe)  BY <1>1, <1>7, <1>8 DEF Comes, Updates
<1> QED BY <1>5, <1>10, <1>11 DEF Good, BenchProgram, t, s, u

LEMMA SnapshotFits ==
  /\ SnapshotProgram \in Seq(Steps) /\ Fitting(SnapshotProgram, "episode", recipe)
  /\ SnapshotProgram # <<>> => /\ Opens(SnapshotProgram) /\ SnapshotProgram[1].do # "start"
  /\ \A f \in If("snapshots", recipe, "snapshots") : LaterListed(SnapshotProgram, 0, f)
<1>1. CASE ~Wants("snapshots")
  <2>1. SnapshotProgram = <<>> /\ Len(<<>>) = 0 /\ <<>> \in Seq(Steps)
    BY <1>1, EmptySeq DEF SnapshotProgram
  <2>2. If("snapshots", recipe, "snapshots") = {}  BY <1>1 DEF If, Wants
  <2> QED BY <2>1, <2>2 DEF Fitting
<1>2. CASE Wants("snapshots")
  <2> DEFINE t == SnapshotProgram
  <2>1. /\ "snapshots" \in File /\ "snapshots" \notin Collected
        /\ "snapshots" \in ListedBy("episode", recipe)
    BY <1>2 DEF File, Added, Collected, ListedBy, Episodic, If, Wants
  <2>2. t \in Seq(Steps) /\ Len(t) = 5 /\ t # <<>>
    BY <1>2, <2>1 DEF SnapshotProgram, Do, Write, Steps, Ops
  <2>3. /\ t[1].do = "read" /\ t[2].do = "write" /\ t[3].do = "list" /\ t[4].do = "hash"
        /\ t[5].do = "save" /\ t[2].on = {"snapshots"} /\ t[3].on = {"snapshots"}
    BY <1>2 DEF SnapshotProgram, Do, Write
  <2> HIDE DEF t
  <2>4. ASSUME NEW i \in 1..5 PROVE Adjoins(t, i)  BY <2>2, <2>3 DEF Adjoins
  <2>5. SaveNext(t, 3)
    <3>1. 5 \in 3 + 1..Len(t) /\ \A k \in 3 + 1..5 - 1 : t[k].do # "read"  BY <2>2, <2>3
    <3> QED BY <2>3, <3>1 DEF SaveNext
  <2>6. LaterListed(t, 0, "snapshots") /\ LaterListed(t, 2, "snapshots")
    BY <2>2, <2>3 DEF LaterListed
  <2>7. ASSUME NEW i \in 1..5 PROVE Repaired(t, i, "episode")
    <3>1. t[i].do \in Drafting => i = 3  BY <2>3 DEF Drafting
    <3>2. t[i].do \notin {"name", "start", "refer", "rerefer", "clear"}  BY <2>3
    <3> QED BY <2>5, <3>1, <3>2 DEF Repaired, Updates
  <2>8. ASSUME NEW i \in 1..5 PROVE Suits(t, i, "episode", recipe)
    <3>1. /\ t[i].do = "write" => i = 2
          /\ t[i].do = "list" => i = 3
          /\ t[i].do # "start"
      BY <2>3
    <3>2. "snapshots" \notin {"references", "index"}  BY <2>1 DEF Collected
    <3> QED BY <2>1, <2>3, <2>6, <3>1, <3>2 DEF Suits
  <2>9. Fitting(t, "episode", recipe)  BY <2>2, <2>4, <2>7, <2>8 DEF Fitting, Fits
  <2>10. Opens(t) /\ t[1].do # "start"  BY <2>2, <2>3 DEF Opens
  <2>11. \A f \in If("snapshots", recipe, "snapshots") : f = "snapshots"  BY DEF If
  <2> QED BY <2>2, <2>6, <2>9, <2>10, <2>11 DEF t
<1> QED BY <1>1, <1>2

LEMMA EpisodeGood == Good(CollectProgram \o SnapshotProgram \o TraceProgram, "episode", recipe)
<1> DEFINE s == CollectProgram
           v == s \o SnapshotProgram
           u == TraceProgram
           t == v \o u
<1>1. /\ s \in Seq(Steps) /\ Shape(s, "episode", recipe) /\ s # <<>> /\ s[1].do = "start"
      /\ \A f \in Collected : LaterListed(s, 0, f)
      /\ Len(s) = 12
  BY CollectFits
<1>2. /\ u \in Seq(Steps) /\ Shape(u, "episode", recipe) /\ Opens(u) /\ u[1].do = "write"
      /\ LaterListed(u, 0, "trace") /\ Later(u, 0, {"refer"}) /\ Later(u, 0, {"index"})
  BY TraceFits
<1> HIDE DEF s, u
<1>3. v \in Seq(Steps) /\ Fitting(v, "episode", recipe)
  <2>1. CASE SnapshotProgram = <<>>
    <3>1. v = s  BY <1>1, <2>1, ConcatEmptySeq
    <3> QED BY <1>1, <3>1 DEF Shape
  <2>2. CASE SnapshotProgram # <<>>  BY <1>1, <2>2, SnapshotFits, FitsConcat DEF Shape
  <2> QED BY <2>1, <2>2
<1>4. /\ Len(v) \in Nat /\ Len(v) >= 12 /\ v[1] = s[1]
  <2>1. SnapshotProgram \in Seq(Steps)  BY SnapshotFits
  <2>2. /\ Len(SnapshotProgram) \in Nat /\ Len(v) = Len(s) + Len(SnapshotProgram)
        /\ \A j \in 1..Len(s) : v[j] = s[j]
    BY <1>1, <2>1, ConcatIs
  <2> HIDE DEF v
  <2> QED BY <1>1, <2>2
<1>5. ASSUME NEW f \in Collected \cup If("snapshots", recipe, "snapshots")
      PROVE  LaterListed(v, 0, f)
  BY <1>1, SnapshotFits, ComesWith
<1> HIDE DEF v
<1>6. t \in Seq(Steps) /\ Shape(t, "episode", recipe)
  <2>1. t \in Seq(Steps) /\ Fitting(t, "episode", recipe)  BY <1>2, <1>3, FitsConcat DEF Shape
  <2>2. Referring(t, "episode")  BY <1>2, <1>3, RefersConcat DEF Shape
  <2> QED BY <2>1, <2>2 DEF Shape
<1>7. Len(t) > 0 /\ t[1] = v[1]  BY <1>2, <1>3, <1>4, ConcatIs
<1>8. \A f \in ListedBy("episode", recipe) : LaterListed(t, 0, f)
  BY <1>2, <1>3, <1>5, ComesWith DEF ListedBy, Episodic
<1>12. Later(t, 0, {"refer"}) /\ Later(t, 0, {"index"})  BY <1>2, <1>3, ComesWith
<1> HIDE DEF t
<1>9. t # <<>>  BY <1>6, <1>7, EmptySeq
<1>10. Opens(t)  BY <1>1, <1>4, <1>7, <1>9 DEF Opens
<1>11. Comes(t, "episode", recipe)  BY <1>1, <1>4, <1>7, <1>8, <1>12 DEF Comes, Updates
<1> QED BY <1>6, <1>10, <1>11 DEF Good, t, v, u, s

LEMMA ProgramGood ==
  ASSUME NEW c \in CallName
  PROVE  Good(Program(c), c, recipe)
<1>1. CASE c = "collect"
  <2>1. /\ CollectProgram \in Seq(Steps) /\ Shape(CollectProgram, c, recipe)
        /\ CollectProgram # <<>> /\ CollectProgram[1].do = "start"
        /\ Later(CollectProgram, 0, {"refer"}) /\ Later(CollectProgram, 0, {"index"})
        /\ \A f \in Collected : LaterListed(CollectProgram, 0, f)
    BY <1>1, CollectFits
  <2>2. Opens(CollectProgram) /\ Comes(CollectProgram, c, recipe)
    BY <1>1, <2>1 DEF Opens, Comes, ListedBy, Updates
  <2>3. Program(c) = CollectProgram  BY <1>1 DEF Program
  <2> QED BY <2>1, <2>2, <2>3 DEF Good
<1>2. CASE c = "append"
  <2>1. /\ "evidence" \in File /\ "evidence" \notin Collected /\ "append" \in Updates
        /\ {"evidence"} = ListedBy("append", recipe)
    BY DEF File, Added, Collected, Updates, ListedBy
  <2>2. Good(Update("evidence", {"evidence"}), "append", recipe)  BY <2>1, UpdateGood
  <2> QED BY <1>2, <2>2 DEF Program, AppendProgram
<1>3. CASE c = "finalize"  BY <1>3, FinalizeGood DEF Program
<1>4. CASE c = "agent"
  <2>1. /\ "agent" \in File /\ "agent" \notin Collected /\ "agent" \in Updates
        /\ {"agent"} = ListedBy("agent", recipe)
    BY DEF File, Added, Collected, Updates, ListedBy
  <2>2. Good(Update("agent", {"agent"}), "agent", recipe)  BY <2>1, UpdateGood
  <2> QED BY <1>4, <2>2 DEF Program, AgentProgram
<1>5. CASE c = "bench"  BY <1>5, BenchGood DEF Program
<1>6. CASE c = "failure"  BY <1>6, FailureGood DEF Program
<1>7. CASE c = "episode"  BY <1>7, EpisodeGood DEF Program
<1>8. CASE c = "typed"
  <2>1. /\ "typed" \in File /\ "typed" \notin Collected /\ "typed" \in Updates
        /\ {"typed"} = ListedBy("typed", recipe)
    BY DEF File, Added, Collected, Updates, ListedBy
  <2>2. Good(Update("typed", {"typed"}), "typed", recipe)  BY <2>1, UpdateGood
  <2> QED BY <1>8, <2>2 DEF Program, TypedProgram
<1> QED BY <1>1, <1>2, <1>3, <1>4, <1>5, <1>6, <1>7, <1>8 DEF CallName

-----------------------------------------------------------------------------
(* Types. *)
Writer == {"run", "abandoned"}
Digest == UNION {[fs -> Nat] : fs \in SUBSET File}
Manifest == [listed : SUBSET File, id : SUBSET File, sha : Digest]
Reference == [whole : BOOLEAN, id : SUBSET File, of : Digest]

BundleTypeOK ==
  /\ recipe \in Recipes /\ plan \in Seq(CallName) /\ call \in CallName \cup {"none"}
  /\ todo \in [Writer -> Seq(Steps)] /\ draft \in [Writer -> Manifest]
  /\ disk \in [File -> Nat] /\ manifest \in Manifest
  /\ references \in Reference /\ index \in Reference /\ reviewed \in SUBSET File
  /\ mode \in {"running", "recovering", "over"} /\ faults \in Nat
  /\ bundled \in BOOLEAN /\ broken \in BOOLEAN
  /\ declared \in {"open", "absent", "taken", "lost"}

LEMMA InDigest ==
  ASSUME NEW fs \in SUBSET File, NEW d \in [fs -> Nat]
  PROVE  d \in Digest
BY DEF Digest

LEMMA DigestIs ==
  ASSUME NEW d \in Digest
  PROVE  DOMAIN d \subseteq File /\ d \in [DOMAIN d -> Nat] /\ \A f \in DOMAIN d : d[f] \in Nat
BY DEF Digest

LEMMA EvidenceTyped ==
  ASSUME NEW r
  PROVE  Evidence(r) \in Seq(CallName) /\ Evidence(r) # <<>>
<1>1. \A s, t \in Seq(CallName) : s \o t \in Seq(CallName)  BY ConcatProperties
<1>2. /\ <<"append">> \in Seq(CallName) /\ <<"finalize">> \in Seq(CallName)
      /\ <<"agent">> \in Seq(CallName) /\ <<>> \in Seq(CallName)
      /\ <<"typed">> \in Seq(CallName)
  BY DEF CallName
<1> DEFINE t == IF "typed" \in r.wants THEN <<"typed">> ELSE <<>>
           e == IF "evidence" \in r.wants THEN <<"append">> ELSE <<>>
           a == t \o e
           b == IF "agent" \in r.wants THEN <<"agent">> ELSE <<>>
           m == <<"finalize">>
<1>3. t \in Seq(CallName) /\ e \in Seq(CallName)  BY <1>2
<1>4. b \in Seq(CallName) /\ m \in Seq(CallName) /\ m # <<>>  BY <1>2
<1>6. Evidence(r) = (a \o m) \o b  BY DEF Evidence
<1> HIDE DEF t, e, b, m
<1>5. a \in Seq(CallName) /\ b \in Seq(CallName) /\ m \in Seq(CallName) /\ m # <<>>
  BY <1>1, <1>3, <1>4
<1> HIDE DEF a
<1>7. a \o m \in Seq(CallName) /\ a \o m # <<>>
  BY <1>5, ConcatEqualIffEmpty, ConcatProperties
<1>8. (a \o m) \o b \in Seq(CallName) /\ (a \o m) \o b # <<>>
  BY <1>5, <1>7, ConcatEqualIffEmpty, ConcatProperties
<1> QED BY <1>6, <1>8

LEMMA CallsTyped ==
  ASSUME NEW r
  PROVE  Calls(r) \in Seq(CallName)
<1>1. \A s, t \in Seq(CallName) : s \o t \in Seq(CallName)  BY ConcatProperties
<1>2. /\ <<"episode", "episode">> \in Seq(CallName) /\ <<"collect">> \in Seq(CallName)
      /\ <<"bench">> \in Seq(CallName) /\ <<>> \in Seq(CallName)
  BY DEF CallName
<1> DEFINE c == <<"collect">>
           e == Evidence(r)
           b == IF "bench" \in r.wants THEN <<"bench">> ELSE <<>>
<1>3. c \in Seq(CallName) /\ e \in Seq(CallName) /\ b \in Seq(CallName)
  BY <1>2, EvidenceTyped
<1>4. Calls(r) = IF r.flow = "episode" THEN <<"episode", "episode">>
                 ELSE ((c \o e) \o (IF "preview" \in r.wants THEN c \o e ELSE <<>>)) \o b
  BY DEF Calls
<1> HIDE DEF c, e, b
<1>5. c \o e \in Seq(CallName)  BY <1>1, <1>3
<1>6. (IF "preview" \in r.wants THEN c \o e ELSE <<>>) \in Seq(CallName)  BY <1>2, <1>5
<1> DEFINE p == IF "preview" \in r.wants THEN c \o e ELSE <<>>
<1>7. p \in Seq(CallName)  BY <1>6
<1> HIDE DEF p
<1>8. ((c \o e) \o p) \o b \in Seq(CallName)
  <2>1. (c \o e) \o p \in Seq(CallName)  BY <1>1, <1>5, <1>7
  <2> QED BY <1>1, <1>3, <2>1
<1> QED BY <1>2, <1>4, <1>8 DEF p

LEMMA AppendingTyped == Appending \in Seq(CallName) /\ Appending # <<>>
<1> DEFINE t == IF Wants("typed") THEN <<"typed">> ELSE <<>>
           z == <<"failure">>
<1>1. t \in Seq(CallName) /\ z \in Seq(CallName) /\ z # <<>>
  <2>1. <<"typed">> \in Seq(CallName) /\ <<>> \in Seq(CallName) /\ z \in Seq(CallName)
    BY DEF CallName
  <2> QED BY <2>1
<1>2. Appending = t \o z  BY DEF Appending
<1> HIDE DEF t, z
<1> QED BY <1>1, <1>2, ConcatEqualIffEmpty, ConcatProperties

LEMMA RecoveryTyped ==
  ASSUME NEW collected
  PROVE  Recovery(collected) \in Seq(CallName)
<1>1. \A s, t \in Seq(CallName) : s \o t \in Seq(CallName)  BY ConcatProperties
<1> DEFINE a == IF collected THEN <<>> ELSE <<"collect">>
           m == <<"finalize">>
           b == IF Wants("agent") THEN <<"agent">> ELSE <<>>
           z == Appending
<1>2. a \in Seq(CallName) /\ m \in Seq(CallName) /\ b \in Seq(CallName) /\ z \in Seq(CallName)
  <2>1. /\ <<"collect">> \in Seq(CallName) /\ <<"finalize">> \in Seq(CallName)
        /\ <<"agent">> \in Seq(CallName) /\ <<>> \in Seq(CallName)
    BY DEF CallName
  <2> QED BY <2>1, AppendingTyped
<1>3. Recovery(collected) = ((a \o m) \o b) \o z  BY DEF Recovery
<1> HIDE DEF a, m, b, z
<1>4. a \o m \in Seq(CallName)  BY <1>1, <1>2
<1>5. (a \o m) \o b \in Seq(CallName)  BY <1>1, <1>2, <1>4
<1> QED BY <1>1, <1>2, <1>3, <1>5

LEMMA InitTyped == BundleInit => BundleTypeOK
<1> SUFFICES ASSUME BundleInit PROVE BundleTypeOK
  OBVIOUS
<1> USE DEF BundleInit
<1>1. recipe \in Recipes  BY BundleAssumption DEF Recipes
<1>2. plan \in Seq(CallName)  BY CallsTyped
<1>3. [f \in {} |-> 0] \in Digest
  <2>1. [f \in {} |-> 0] \in [{} -> Nat] /\ {} \in SUBSET File  OBVIOUS
  <2> QED BY <2>1, InDigest
<1>4. Empty \in Manifest /\ Nothing \in Reference
  BY <1>3 DEF Empty, Nothing, Manifest, Reference
<1>5. todo \in [Writer -> Seq(Steps)] /\ draft \in [Writer -> Manifest]
  BY <1>4 DEF Writer
<1> QED BY <1>1, <1>2, <1>4, <1>5 DEF BundleTypeOK

(* What a step of a writer does. *)
LEMMA StepIs ==
  ASSUME BundleTypeOK, NEW w \in Writer, Step(w)
  PROVE  /\ todo[w] \in Seq(Steps) /\ todo[w] # <<>> /\ todo[w][1] \in Steps
         /\ Head(todo[w]) = todo[w][1] /\ Files(w) = todo[w][1].on
         /\ todo' \in [Writer -> Seq(Steps)] /\ todo'[w] = Tail(todo[w])
         /\ \A v \in Writer : v # w => todo'[v] = todo[v]
         /\ \A op : Op(w, op) <=> todo[w][1].do = op
         /\ UNCHANGED <<recipe, plan, call, mode, faults, bundled, declared, broken>>
<1>1. todo[w] \in Seq(Steps)  BY DEF BundleTypeOK
<1>2. todo[w] # <<>>
  BY DEF Step, Act, Op, StartManifest, WriteFile, WriteReview,
      ClearReferences, ReadManifest, ListFiles, NameBundle, HashFiles, WriteReferences,
      WriteIndex, RefreshReferences, RefreshIndex, SaveManifest
<1>3. Head(todo[w]) = todo[w][1] /\ todo[w][1] \in Steps /\ Tail(todo[w]) \in Seq(Steps)
  BY <1>1, <1>2, TailIs
<1>4. todo' = [todo EXCEPT ![w] = Tail(@)]  BY DEF Step
<1>5. todo' \in [Writer -> Seq(Steps)] /\ todo'[w] = Tail(todo[w])
      /\ \A v \in Writer : v # w => todo'[v] = todo[v]
  BY <1>3, <1>4 DEF BundleTypeOK
<1>6. UNCHANGED <<recipe, plan, call, mode, faults, bundled, declared, broken>>  BY DEF Step, run
<1> QED BY <1>1, <1>2, <1>3, <1>5, <1>6 DEF Files, Op

LEMMA DraftedIs ==
  ASSUME BundleTypeOK, NEW w \in Writer, NEW m \in Manifest, Drafted(w, m)
  PROVE  /\ draft' \in [Writer -> Manifest] /\ draft'[w] = m
         /\ \A v \in Writer : v # w => draft'[v] = draft[v]
BY DEF Drafted, BundleTypeOK

LEMMA WrittenIs ==
  ASSUME BundleTypeOK, NEW fs, Written(fs)
  PROVE  /\ disk' \in [File -> Nat]
         /\ \A f \in File : disk'[f] = IF f \in fs THEN disk[f] + 1 ELSE disk[f]
BY DEF Written, BundleTypeOK

LEMMA RefreshedTyped ==
  ASSUME NEW file \in Reference, NEW m \in Manifest
  PROVE  Refreshed(file, m) \in Reference /\ DOMAIN Refreshed(file, m).of = DOMAIN file.of
<1> DEFINE of == [f \in DOMAIN file.of |-> IF f \in DOMAIN m.sha THEN m.sha[f] ELSE file.of[f]]
<1>1. file.of \in Digest /\ m.sha \in Digest  BY DEF Reference, Manifest
<1>2. DOMAIN file.of \in SUBSET File /\ of \in [DOMAIN file.of -> Nat]  BY <1>1, DigestIs
<1>3. of \in Digest  BY <1>2, InDigest
<1> HIDE DEF of
<1>4. Refreshed(file, m) = [whole |-> TRUE, id |-> m.id, of |-> of]  BY DEF Refreshed, of
<1> QED BY <1>2, <1>3, <1>4 DEF Reference, Manifest

LEMMA StepTyped ==
  ASSUME BundleTypeOK, NEW w \in Writer, Step(w)
  PROVE  BundleTypeOK'
<1> DEFINE t == todo[w]
<1>1. /\ t[1] \in Steps /\ Files(w) = t[1].on /\ todo' \in [Writer -> Seq(Steps)]
      /\ UNCHANGED <<recipe, plan, call, mode, faults, bundled, declared, broken>>
  BY StepIs
<1>2. draft[w] \in Manifest /\ Files(w) \in SUBSET File
  BY <1>1 DEF BundleTypeOK, Steps
<1>3. /\ draft' \in [Writer -> Manifest] /\ disk' \in [File -> Nat] /\ manifest' \in Manifest
      /\ references' \in Reference /\ index' \in Reference /\ reviewed' \in SUBSET File
  <2>1. CASE StartManifest(w)
    <3>1. [f \in {} |-> 0] \in Digest
      <4>1. [f \in {} |-> 0] \in [{} -> Nat] /\ {} \in SUBSET File  OBVIOUS
      <4> QED BY <4>1, InDigest
    <3>2. [listed |-> Files(w), id |-> Files(w), sha |-> [f \in {} |-> 0]] \in Manifest
      BY <1>2, <3>1 DEF Manifest
    <3> QED BY <2>1, <3>2, DraftedIs DEF StartManifest, BundleTypeOK
  <2>2. CASE WriteFile(w)  BY <2>2, WrittenIs DEF WriteFile, BundleTypeOK
  <2>3. CASE WriteReview(w)
    <3>1. draft[w].id \in SUBSET File  BY <1>2 DEF Manifest
    <3> QED BY <2>3, <3>1, WrittenIs DEF WriteReview, BundleTypeOK
  <2>4. CASE ClearReferences(w)
    <3>1. [f \in {} |-> 0] \in Digest
      <4>1. [f \in {} |-> 0] \in [{} -> Nat] /\ {} \in SUBSET File  OBVIOUS
      <4> QED BY <4>1, InDigest
    <3>2. Nothing \in Reference  BY <3>1 DEF Nothing, Reference
    <3> QED BY <2>4, <3>2, WrittenIs DEF ClearReferences, BundleTypeOK
  <2>5. CASE ReadManifest(w)
    <3>1. manifest \in Manifest  BY DEF BundleTypeOK
    <3> QED BY <2>5, <3>1, DraftedIs DEF ReadManifest, BundleTypeOK
  <2>6. CASE ListFiles(w)
    <3>1. [draft[w] EXCEPT !.listed = @ \cup Files(w)] \in Manifest  BY <1>2 DEF Manifest
    <3> QED BY <2>6, <3>1, DraftedIs DEF ListFiles, BundleTypeOK
  <2>7. CASE NameBundle(w)
    <3>1. [draft[w] EXCEPT !.id = draft[w].listed] \in Manifest  BY <1>2 DEF Manifest
    <3> QED BY <2>7, <3>1, DraftedIs DEF NameBundle, BundleTypeOK
  <2>8. CASE HashFiles(w)
    <3>1. draft[w].listed \in SUBSET File  BY <1>2 DEF Manifest
    <3>2. Digests(draft[w].listed) \in [draft[w].listed -> Nat]
      BY <3>1 DEF Digests, BundleTypeOK
    <3>3. Digests(draft[w].listed) \in Digest  BY <3>1, <3>2, InDigest
    <3>4. [draft[w] EXCEPT !.sha = Digests(draft[w].listed)] \in Manifest
      BY <1>2, <3>3 DEF Manifest
    <3> QED BY <2>8, <3>4, DraftedIs DEF HashFiles, BundleTypeOK
  <2>9. CASE WriteReferences(w)
    <3>1. draft[w].sha \in Digest /\ draft[w].id \in SUBSET File  BY <1>2 DEF Manifest
    <3>2. DOMAIN draft[w].sha \cap Referred \in SUBSET File
          /\ Only(draft[w].sha, Referred) \in [DOMAIN draft[w].sha \cap Referred -> Nat]
      BY <3>1, DigestIs DEF Only
    <3>3. Only(draft[w].sha, Referred) \in Digest  BY <3>2, InDigest
    <3>4. references' \in Reference  BY <2>9, <3>1, <3>3 DEF WriteReferences, Reference
    <3> QED BY <2>9, <3>4, WrittenIs DEF WriteReferences, BundleTypeOK
  <2>10. CASE WriteIndex(w)
    <3> DEFINE fs == {"references"} \cup (DOMAIN draft[w].sha \cap Indexed)
               of == [f \in fs |-> IF f = "references" THEN disk[f] ELSE draft[w].sha[f]]
    <3>1. draft[w].sha \in Digest /\ draft[w].id \in SUBSET File  BY <1>2 DEF Manifest
    <3>2. fs \in SUBSET File /\ of \in [fs -> Nat]
      <4>1. "references" \in File  BY DEF File, Collected
      <4> QED BY <3>1, <4>1, DigestIs DEF BundleTypeOK
    <3>3. of \in Digest  BY <3>2, InDigest
    <3>4. index' \in Reference  BY <2>10, <3>1, <3>3 DEF WriteIndex, Reference
    <3> QED BY <2>10, <3>4, WrittenIs DEF WriteIndex, BundleTypeOK
  <2>11. CASE RefreshReferences(w)
    <3>1. Refreshed(references, draft[w]) \in Reference  BY <1>2, RefreshedTyped DEF BundleTypeOK
    <3>2. CASE references.whole
      BY <2>11, <3>1, <3>2, WrittenIs DEF RefreshReferences, BundleTypeOK
    <3>3. CASE ~references.whole  BY <2>11, <3>3 DEF RefreshReferences, BundleTypeOK
    <3> QED BY <3>2, <3>3
  <2>12. CASE RefreshIndex(w)
    <3>1. Refreshed(index, draft[w]) \in Reference  BY <1>2, RefreshedTyped DEF BundleTypeOK
    <3>2. CASE index.whole
      BY <2>12, <3>1, <3>2, WrittenIs DEF RefreshIndex, BundleTypeOK
    <3>3. CASE ~index.whole  BY <2>12, <3>3 DEF RefreshIndex, BundleTypeOK
    <3> QED BY <3>2, <3>3
  <2>13. CASE SaveManifest(w)  BY <1>2, <2>13 DEF SaveManifest, BundleTypeOK
  <2> QED BY <2>1, <2>2, <2>3, <2>4, <2>5, <2>6, <2>7, <2>8, <2>9, <2>10, <2>11, <2>12,
             <2>13 DEF Step, Act
<1> QED BY <1>1, <1>3 DEF BundleTypeOK

LEMMA CaughtPlan ==
  ASSUME BundleTypeOK, Caught
  PROVE  plan' \in Seq(CallName)
<1>1. Recovery(bundled) \in Seq(CallName)  BY RecoveryTyped
<1>2. Appending \in Seq(CallName) /\ <<>> \in Seq(CallName)  BY AppendingTyped, EmptySeq
<1>3. plan' \in {plan, Recovery(bundled), Appending, <<>>}  BY DEF Caught
<1> QED BY <1>1, <1>2, <1>3 DEF BundleTypeOK

LEMMA NextTyped == BundleTypeOK /\ [BundleNext]_bundleVars => BundleTypeOK'
<1> SUFFICES ASSUME BundleTypeOK, [BundleNext]_bundleVars PROVE BundleTypeOK'
  OBVIOUS
<1>1. ASSUME NEW w \in Writer, Step(w) PROVE BundleTypeOK'  BY <1>1, StepTyped
<1>2. CASE Begin
  <2>1. plan \in Seq(CallName) /\ plan # <<>>  BY <1>2 DEF Begin, BundleTypeOK
  <2>2. Head(plan) \in CallName /\ Tail(plan) \in Seq(CallName)  BY <2>1, HeadTailProperties
  <2>3. Program(Head(plan)) \in Seq(Steps)  BY <2>2, ProgramGood DEF Good
  <2>4. todo' \in [Writer -> Seq(Steps)]  BY <1>2, <2>3 DEF Begin, BundleTypeOK, Writer
  <2>5. bundled' \in BOOLEAN  BY <1>2 DEF Begin, BundleTypeOK
  <2>6. declared' \in {"open", "absent", "taken", "lost"}  BY <1>2 DEF Begin, BundleTypeOK
  <2> QED BY <1>2, <2>2, <2>4, <2>5, <2>6 DEF Begin, BundleTypeOK, files
<1>3. CASE End
  <2>1. bundled' \in BOOLEAN  BY <1>3 DEF End, BundleTypeOK
  <2>2. mode' \in {"running", "recovering", "over"}  BY <1>3 DEF End, BundleTypeOK
  <2> QED BY <1>3, <2>1, <2>2 DEF End, BundleTypeOK, files
<1>4. CASE StepFails
  <2>1. <<>> \in Seq(Steps)  BY EmptySeq
  <2>2. todo' \in [Writer -> Seq(Steps)]  BY <1>4, <2>1 DEF StepFails, BundleTypeOK, Writer
  <2>3. plan' \in Seq(CallName)  BY <1>4, CaughtPlan DEF StepFails
  <2>4. /\ call' = "none" /\ faults' = faults + 1
        /\ mode' \in {"over", "recovering", mode}
        /\ broken' = (broken \/ (call = "collect" /\ bundled))
        /\ declared' \in {"lost", declared}
        /\ UNCHANGED <<recipe, site, bundled, files>>
    BY <1>4 DEF StepFails, Caught
  <2> QED BY <2>2, <2>3, <2>4 DEF BundleTypeOK, files
<1>5. CASE Abandon
  <2>1. Recovery(bundled) \in Seq(CallName) /\ <<>> \in Seq(CallName) /\ <<>> \in Seq(Steps)
    BY RecoveryTyped, EmptySeq
  <2>2. plan' \in Seq(CallName)  BY <1>5, <2>1 DEF Abandon
  <2>3. todo["run"] \in Seq(Steps) /\ draft["run"] \in Manifest  BY DEF BundleTypeOK, Writer
  <2>4. todo' \in [Writer -> Seq(Steps)]
    <3>1. todo' = [w \in Writer |-> IF w = "run" THEN <<>> ELSE todo["run"]]
      BY <1>5 DEF Abandon, Writer
    <3> QED BY <2>1, <2>3, <3>1
  <2>5. draft' \in [Writer -> Manifest]  BY <1>5, <2>3 DEF Abandon, BundleTypeOK, Writer
  <2>6. call' = "none" /\ faults' = faults + 1 /\ broken' = TRUE /\ mode' \in {"over", "recovering"}
        /\ UNCHANGED <<recipe, site, bundled, declared, disk, patch, manifest, references,
                       index, reviewed>>
    BY <1>5 DEF Abandon
  <2> QED BY <2>2, <2>4, <2>5, <2>6 DEF BundleTypeOK
<1>6. CASE SiteChanges  BY <1>6 DEF SiteChanges, BundleTypeOK, run, files
<1>7. CASE UNCHANGED bundleVars  BY <1>7 DEF bundleVars, run, BundleTypeOK
<1>8. CASE NothingTyped
  <2>1. plan \in Seq(CallName) /\ plan # <<>>
    BY <1>8 DEF NothingTyped, Upcoming, BundleTypeOK
  <2>2. plan' \in Seq(CallName)  BY <1>8, <2>1, HeadTailProperties DEF NothingTyped
  <2>3. declared' \in {"open", "absent", "taken", "lost"}
    BY <1>8 DEF NothingTyped, BundleTypeOK
  <2> QED BY <1>8, <2>2, <2>3 DEF NothingTyped, BundleTypeOK, files
<1> QED BY <1>1, <1>2, <1>3, <1>4, <1>5, <1>6, <1>7, <1>8 DEF BundleNext, Writer

(* Every variable has its type, and every step to come is a step. *)
THEOREM BundleTyped == BundleSpec => []BundleTypeOK
BY InitTyped, NextTyped, PTL DEF BundleSpec

-----------------------------------------------------------------------------
(* A manifest is hashed right before it is saved, and nothing takes a file *)
(* away: when a writer is about to save, the files its manifest lists are  *)
(* there.  A writer that was left behind goes on with what it had.         *)
Hashed(t) == \A i \in 1..Len(t) : i < Len(t) /\ t[i + 1].do = "save" => t[i].do = "hash"
Ready(w) ==
  todo[w] # <<>> /\ todo[w][1].do = "save" => \A f \in draft[w].listed : disk[f] > 0
FilesInvariant ==
  BundleTypeOK /\ ListedFilesExist /\ \A w \in Writer : Hashed(todo[w]) /\ Ready(w)

LEMMA ShapeHashes ==
  ASSUME NEW t, NEW c, NEW r, Shape(t, c, r)
  PROVE  Hashed(t)
BY DEF Shape, Fitting, Fits, Adjoins, Hashed

LEMMA DiskGrows ==
  ASSUME BundleTypeOK, [BundleNext]_bundleVars
  PROVE  \A f \in File : disk'[f] >= disk[f]
<1>0. disk \in [File -> Nat]  BY DEF BundleTypeOK
<1>1. ASSUME NEW w \in Writer, Step(w) PROVE \A f \in File : disk'[f] >= disk[f]
  <2>1. ASSUME NEW fs, Written(fs) PROVE \A f \in File : disk'[f] >= disk[f]
    BY <1>0, <2>1 DEF Written
  <2>2. disk' = disk \/ \E fs : Written(fs)
    BY <1>1 DEF Step, Act, StartManifest, WriteFile, WriteReview,
       ClearReferences, ReadManifest, ListFiles, NameBundle, HashFiles, WriteReferences,
       WriteIndex, RefreshReferences, RefreshIndex, SaveManifest
  <2> QED BY <1>0, <2>1, <2>2
<1>2. CASE ~(\E w \in Writer : Step(w))
  <2>1. disk' = disk
    BY <1>2 DEF BundleNext, Writer, Begin, NothingTyped, End, StepFails, Caught, Abandon,
       SiteChanges, bundleVars, files
  <2> QED BY <1>0, <2>1
<1> QED BY <1>1, <1>2

LEMMA FilesInvariantHolds == FilesInvariant /\ [BundleNext]_bundleVars => FilesInvariant'
<1> SUFFICES ASSUME FilesInvariant, [BundleNext]_bundleVars PROVE FilesInvariant'
  OBVIOUS
<1>1. BundleTypeOK /\ BundleTypeOK'  BY NextTyped DEF FilesInvariant
<1>2. disk \in [File -> Nat] /\ disk' \in [File -> Nat] /\ \A f \in File : disk'[f] >= disk[f]
  BY <1>1, DiskGrows DEF BundleTypeOK
<1>3. /\ \A w \in Writer : draft[w].listed \subseteq File
      /\ manifest.listed \subseteq File
  BY <1>1 DEF BundleTypeOK, Manifest
<1>4. ASSUME NEW w \in Writer, todo'[w] = todo[w], draft'[w] = draft[w]
      PROVE  Hashed(todo[w])' /\ Ready(w)'
  BY <1>2, <1>3, <1>4 DEF FilesInvariant, Ready, Hashed
<1>5. ASSUME manifest' = manifest PROVE ListedFilesExist'
  BY <1>2, <1>3, <1>5 DEF FilesInvariant, ListedFilesExist
<1>6. ASSUME NEW w \in Writer, Step(w) PROVE FilesInvariant'
  <2>1. /\ todo[w] \in Seq(Steps) /\ todo[w] # <<>> /\ todo'[w] = Tail(todo[w])
        /\ \A v \in Writer : v # w => todo'[v] = todo[v]
        /\ \A op : Op(w, op) <=> todo[w][1].do = op
        /\ Hashed(todo[w])
    BY <1>1, <1>6, StepIs DEF FilesInvariant
  <2>2. \A v \in Writer : v # w => draft'[v] = draft[v]
    BY <1>6 DEF Step, Act, StartManifest, WriteFile, WriteReview, Drafted,
       ClearReferences, ReadManifest, ListFiles, NameBundle, HashFiles, WriteReferences,
       WriteIndex, RefreshReferences, RefreshIndex, SaveManifest, FilesInvariant, BundleTypeOK
  <2>3. ListedFilesExist'
    <3>1. CASE SaveManifest(w)
      <4>1. manifest' = draft[w] /\ disk' = disk  BY <3>1 DEF SaveManifest
      <4>2. \A f \in draft[w].listed : disk[f] > 0
        BY <2>1, <3>1 DEF SaveManifest, FilesInvariant, Ready
      <4> QED BY <4>1, <4>2 DEF ListedFilesExist
    <3>2. CASE ~SaveManifest(w)
      <4>1. manifest' = manifest
        BY <1>6, <3>2 DEF Step, Act, StartManifest, WriteFile, WriteReview,
           ClearReferences, ReadManifest, ListFiles, NameBundle, HashFiles, WriteReferences,
           WriteIndex, RefreshReferences, RefreshIndex
      <4> QED BY <1>5, <4>1
    <3> QED BY <3>1, <3>2
  <2>4. /\ Len(todo[w]) \in Nat \ {0} /\ Len(Tail(todo[w])) = Len(todo[w]) - 1
        /\ \A i \in 1..Len(todo[w]) - 1 : Tail(todo[w])[i] = todo[w][i + 1]
    BY <2>1, TailIs
  <2>5. Hashed(Tail(todo[w]))
    <3> SUFFICES ASSUME NEW i \in 1..Len(todo[w]) - 1, i < Len(todo[w]) - 1,
                        Tail(todo[w])[i + 1].do = "save"
                 PROVE  Tail(todo[w])[i].do = "hash"
      BY <2>4 DEF Hashed
    <3>1. /\ i + 1 \in 1..Len(todo[w]) /\ i + 1 < Len(todo[w])
          /\ Tail(todo[w])[i] = todo[w][i + 1] /\ Tail(todo[w])[i + 1] = todo[w][(i + 1) + 1]
      BY <2>4
    <3> QED BY <2>1, <3>1 DEF Hashed
  <2>6. Ready(w)'
    <3> SUFFICES ASSUME todo'[w] # <<>>, todo'[w][1].do = "save"
                 PROVE  \A f \in draft'[w].listed : disk'[f] > 0
      BY DEF Ready
    <3>1. Len(todo[w]) > 1 /\ todo'[w][1] = todo[w][1 + 1]
      <4>1. Tail(todo[w]) \in Seq(Steps)  BY <2>1, TailIs
      <4>2. Len(Tail(todo[w])) \in Nat \ {0}  BY <2>1, <4>1, EmptySeq
      <4> QED BY <2>1, <2>4, <4>2
    <3>2. todo[w][1].do = "hash"  BY <2>1, <2>4, <3>1 DEF Hashed
    <3>3. HashFiles(w)
      BY <1>6, <2>1, <3>2 DEF Step, Act, StartManifest, WriteFile, WriteReview,
         ClearReferences, ReadManifest, ListFiles, NameBundle, WriteReferences,
         WriteIndex, RefreshReferences, RefreshIndex, SaveManifest
    <3>4. draft[w] \in Manifest /\ draft \in [Writer -> Manifest]  BY <1>1 DEF BundleTypeOK
    <3>5. draft'[w].listed = draft[w].listed /\ disk' = disk
      BY <3>3, <3>4 DEF HashFiles, Drafted, Manifest
    <3> QED BY <3>3, <3>5 DEF HashFiles
  <2> QED BY <1>1, <1>4, <2>1, <2>2, <2>3, <2>5, <2>6 DEF FilesInvariant
<1>7. CASE Begin
  <2>1. plan \in Seq(CallName) /\ plan # <<>>  BY <1>1, <1>7 DEF Begin, BundleTypeOK
  <2>2. Head(plan) \in CallName  BY <2>1, HeadTailProperties
  <2>3. Good(Program(Head(plan)), Head(plan), recipe)  BY <2>2, ProgramGood
  <2>4. Hashed(Program(Head(plan))) /\ Program(Head(plan))[1].do # "save"
    BY <2>3, ShapeHashes DEF Good, Opens
  <2>5. /\ todo'["run"] = Program(Head(plan)) /\ todo'["abandoned"] = todo["abandoned"]
        /\ UNCHANGED <<draft, disk, manifest>>
    BY <1>1, <1>7 DEF Begin, files, BundleTypeOK, Writer
  <2>6. Hashed(todo["run"])' /\ Ready("run")'  BY <2>4, <2>5 DEF Ready, Hashed
  <2> QED BY <1>1, <1>4, <1>5, <2>5, <2>6 DEF FilesInvariant, Writer
<1>8. CASE StepFails
  <2>1. /\ todo'["run"] = <<>> /\ todo'["abandoned"] = todo["abandoned"]
        /\ UNCHANGED <<draft, disk, manifest>>
    BY <1>1, <1>8 DEF StepFails, Caught, files, BundleTypeOK, Writer
  <2>2. Hashed(todo["run"])' /\ Ready("run")'
    <3>1. Len(<<>>) = 0  BY EmptySeq
    <3> QED BY <2>1, <3>1 DEF Ready, Hashed
  <2> QED BY <1>1, <1>4, <1>5, <2>1, <2>2 DEF FilesInvariant, Writer
<1>9. CASE Abandon
  <2>1. /\ todo'["run"] = <<>> /\ todo'["abandoned"] = todo["run"]
        /\ draft'["abandoned"] = draft["run"]
        /\ UNCHANGED <<disk, manifest>>
    BY <1>1, <1>9 DEF Abandon, BundleTypeOK, Writer
  <2>2. Hashed(todo["run"])' /\ Ready("run")'
    <3>1. Len(<<>>) = 0  BY EmptySeq
    <3> QED BY <2>1, <3>1 DEF Ready, Hashed
  <2>3. Hashed(todo["abandoned"])' /\ Ready("abandoned")'
    <3>1. Hashed(todo["run"]) /\ Ready("run")  BY DEF FilesInvariant, Writer
    <3> QED BY <2>1, <3>1 DEF Ready, Hashed
  <2> QED BY <1>1, <1>5, <2>1, <2>2, <2>3 DEF FilesInvariant, Writer
<1>10. CASE NothingTyped \/ End \/ SiteChanges \/ UNCHANGED bundleVars
  <2>1. UNCHANGED <<todo, draft, manifest>>
    BY <1>10 DEF NothingTyped, End, SiteChanges, bundleVars, files
  <2> QED BY <1>1, <1>4, <1>5, <2>1 DEF FilesInvariant
<1> QED BY <1>6, <1>7, <1>8, <1>9, <1>10 DEF BundleNext, Writer

(* Every file a manifest lists is there, for any two writers and any       *)
(* number of steps that fail.                                              *)
THEOREM ListedExist == BundleSpec => []ListedFilesExist
<1>1. BundleInit => FilesInvariant
  <2> SUFFICES ASSUME BundleInit PROVE FilesInvariant
    OBVIOUS
  <2>1. BundleTypeOK  BY InitTyped
  <2>2. \A w \in Writer : todo[w] = <<>> /\ Len(<<>>) = 0  BY EmptySeq DEF BundleInit, Writer
  <2>3. \A w \in Writer : Hashed(todo[w]) /\ Ready(w)  BY <2>2 DEF Hashed, Ready
  <2>4. ListedFilesExist  BY DEF BundleInit, ListedFilesExist, Empty
  <2> QED BY <2>1, <2>3, <2>4 DEF FilesInvariant
<1>2. FilesInvariant => ListedFilesExist  BY DEF FilesInvariant
<1> QED BY <1>1, <1>2, FilesInvariantHolds, PTL DEF BundleSpec

-----------------------------------------------------------------------------
(* The steps to come of the run's own writer, its manifest in memory, and  *)
(* the manifest that counts.                                               *)
Steady == todo["run"]
Held == draft["run"]
Counted == IF SaveNext(Steady, 0) THEN Held ELSE manifest
Awaits(ops) == Later(Steady, 0, ops)

(* A manifest, and a file of references, that agree with a disk. *)
AsOn(of, dk) == \A f \in DOMAIN of : of[f] = dk[f]
ButOn(of, dk) == \A f \in DOMAIN of \ {"references"} : of[f] = dk[f]
Exist(fs, dk) == \A f \in fs : dk[f] > 0
Fresh(m, dk) == DOMAIN m.sha = m.listed /\ Exist(m.listed, dk) /\ AsOn(m.sha, dk)
Usable(m, dk) == /\ DOMAIN m.sha = m.listed /\ Exist(m.listed, dk)
                 /\ \A f \in DOMAIN m.sha \cap Referred : m.sha[f] = dk[f]

(* Within a call: what the next step relies on, *)
NextOk ==
  /\ Steady # <<>> /\ Steady[1].do \in {"save", "rerefer", "reindex"} => Fresh(Held, disk)
  /\ Steady # <<>> /\ Steady[1].do \in {"refer", "index"} => Usable(Held, disk)
  /\ Len(Steady) > 1 /\ Steady[1].do = "read" /\ Steady[2].do \in {"refer", "index"} =>
       Fresh(manifest, disk)
  /\ Steady = <<>> => Fresh(manifest, disk)

(* the id that the files speak of, *)
IdsOk ==
  /\ ~Awaits({"review", "name", "start"}) => reviewed = Counted.id
  /\ ~Awaits({"refer", "rerefer", "name", "start"}) => references.id = Counted.id
  /\ ~Awaits({"index", "reindex", "name", "start"}) => index.id = Counted.id

(* the files listed, and the id they give, *)
ListOk ==
  /\ call \in Updates \cup {"collect"} /\ ~Awaits({"name", "start", "list"}) =>
       Counted.id = Counted.listed
  /\ ~Awaits({"start"}) => Collected \subseteq Counted.listed
  /\ call = "collect" /\ ~Awaits({"start"}) => Held.listed = Collected
  /\ \A f \in ListedBy(call, recipe) :
       LaterListed(Steady, 0, f) \/ (~Awaits({"start"}) /\ f \in Counted.listed)

(* and the digests in the references.                                      *)
RefsOk ==
  /\ ~Awaits({"refer"}) => references.whole /\ AsOn(references.of, disk)
  /\ ~Awaits({"index"}) => index.whole /\ ButOn(index.of, disk)
  /\ ~Awaits({"refer", "rerefer", "clear", "index", "reindex"}) => AsOn(index.of, disk)

InCall == call # "none" =>
  Shape(Steady, call, recipe) /\ NextOk /\ IdsOk /\ ListOk /\ RefsOk

(* Between calls, a bundle on which no call has failed matches. *)
Clean == recipe.flow = "episode" \/ faults = 0 \/ (mode = "over" /\ faults <= 1)
Matching ==
  /\ Fresh(manifest, disk) /\ reviewed = manifest.id
  /\ references.whole /\ references.id = manifest.id /\ AsOn(references.of, disk)
  /\ index.whole /\ index.id = manifest.id /\ AsOn(index.of, disk)
Between == call = "none" /\ bundled =>
  /\ recipe.flow = "recipe" => /\ references.whole /\ AsOn(references.of, disk)
                               /\ index.whole /\ ButOn(index.of, disk)
  /\ Clean => Matching
  /\ /\ Clean /\ recipe.flow = "recipe"
     /\ disk["summaries"] = 0 /\ disk["benchmarks"] = 0
     => DigestMatches
  /\ recipe.flow = "episode" => Episodic(recipe) \subseteq manifest.listed

(* The files there are, and those that the references name. *)
FilesOk ==
  /\ bundled => Collected \subseteq manifest.listed
  /\ Exist(DOMAIN references.of, disk) /\ Exist(DOMAIN index.of, disk)
  /\ DOMAIN references.of \subseteq Referred
  /\ DOMAIN index.of \subseteq {"references"} \cup Indexed
  /\ recipe.flow = "recipe" =>
       /\ DOMAIN references.of \subseteq {"content", "pointers"}
       /\ DOMAIN index.of \subseteq {"references", "content"}
  /\ recipe.flow = "episode" => \A f \in File : disk[f] > 0 => f \in Episodic(recipe)
  /\ recipe.flow = "recipe" =>
       \A f \in File : disk[f] > 0 =>
         \/ f \in Collected
         \/ bundled /\ f \in Evidential(recipe)
         \/ bundled /\ f = "failure" /\ faults > 0
         \/ bundled /\ f \in Bench /\ (plan = <<>> \/ faults > 0)
         \/ f = "typed"

(* The calls to come, and the files they list. *)
Expected(p, i, f, r) == \E k \in i + 1..Len(p) : f \in ListedBy(p[k], r)
Allowed(c, r, n) ==
  /\ c = "append" => "evidence" \in r.wants
  /\ c = "agent" => "agent" \in r.wants
  /\ c = "failure" => n > 0
  /\ c = "bench" => n = 0
  /\ c = "episode" <=> r.flow = "episode"
Repeats(p, r) ==
  \A i \in 1..Len(p) : p[i] = "collect" => \A f \in Evidential(r) : Expected(p, i, f, r)
LastBench(p) == \A i \in 1..Len(p) : p[i] = "bench" => i = Len(p)
PlanOk ==
  /\ call = "none" => Steady = <<>>
  /\ mode = "over" => call = "none" /\ plan = <<>>
  /\ call # "none" => Allowed(call, recipe, faults)
  /\ call = "episode" => ~bundled
  /\ call \notin {"none", "collect", "episode"} => bundled
  /\ \A i \in 1..Len(plan) : Allowed(plan[i], recipe, faults)
  /\ recipe.flow = "recipe" =>
       /\ mode = "running" => faults = 0
       /\ mode = "recovering" => faults > 0
       /\ call = "bench" => plan = <<>>
       /\ LastBench(plan)
       /\ faults = 0 => Repeats(plan, recipe)
       /\ faults > 0 => \A i \in 1..Len(plan) :
                          plan[i] = "collect" => i = 1 /\ call = "none" /\ ~bundled
       /\ plan # <<>> /\ plan[1] # "collect" => bundled \/ call = "collect"
       /\ faults <= 1 /\ ~bundled /\ call # "collect" => plan # <<>>

(* Every file is listed already or will be; of the typed artifacts no plan *)
(* can tell, because a call that is to write them may find none.           *)
Pending(f) == IF f = "typed" THEN declared # "taken" ELSE Expected(plan, 0, f, recipe)
Covered ==
  recipe.flow = "recipe" /\ faults <= 1 =>
    \A f \in File :
      disk[f] > 0 /\ ~(faults = 1 /\ f \in Bench) /\ ~Pending(f) =>
        LaterListed(Steady, 0, f) \/ (~Awaits({"start"}) /\ f \in Counted.listed)

(* The typed artifacts: there are none unless they were taken, and those   *)
(* that were are in the manifest on disk when their call has returned.     *)
TypedOk ==
  /\ call = "typed" => declared = "taken"
  /\ disk["typed"] > 0 => declared \in {"taken", "lost"}
  /\ recipe.flow = "recipe" /\ faults <= 1 /\ call # "typed"
     /\ declared = "taken" /\ disk["typed"] > 0 => "typed" \in manifest.listed

Sound == ~broken => /\ todo["abandoned"] = <<>>
                    /\ PlanOk /\ FilesOk /\ InCall /\ Between /\ Covered /\ TypedOk

-----------------------------------------------------------------------------
(* What a sound state is when it is over. *)
LEMMA SoundMends ==
  BundleTypeOK /\ Sound => OneFaultIsMended
<1> SUFFICES ASSUME BundleTypeOK, Sound, mode = "over", ~broken
             PROVE  /\ /\ recipe.flow = "recipe" /\ faults =< 1
                       /\ disk["benchmarks"] = 0 /\ disk["summaries"] = 0
                       => FilesMatchBut(Unlisted) /\ DigestMatches
                    /\ recipe.flow = "episode" /\ bundled => FilesMatch
                    /\ recipe.flow = "recipe" /\ faults = 0 => FilesMatchBut(Unlisted)
  BY DEF OneFaultIsMended, Over
<1>1. PlanOk /\ FilesOk /\ Between /\ Covered /\ TypedOk  BY DEF Sound
<1>2. call = "none" /\ plan = <<>> /\ Steady = <<>>  BY <1>1 DEF PlanOk
<1>3. /\ faults \in Nat /\ disk \in [File -> Nat] /\ manifest \in Manifest
      /\ references.of \in Digest /\ index.of \in Digest
  BY DEF BundleTypeOK, Reference
<1>4. Counted = manifest /\ \A f : ~LaterListed(Steady, 0, f) /\ ~Expected(plan, 0, f, recipe)
  <2>1. Len(<<>>) = 0 /\ 0 + 1..0 = {}  BY EmptySeq
  <2> QED BY <1>2, <2>1 DEF Counted, SaveNext, LaterListed, Expected
<1>5. DOMAIN references.of \subseteq File /\ DOMAIN index.of \subseteq File
  BY <1>3, DigestIs
<1>6. ASSUME Matching, NEW left, left \cap manifest.listed = {}, "content" \notin left,
             left \subseteq {"typed"}, recipe.flow = "episode" => left = {},
             \A f \in File : disk[f] > 0 => f \in manifest.listed \/ f \in left
      PROVE  FilesMatchBut(left)
  <2>1. manifest.listed = {f \in File : disk[f] > 0} \ left
    BY <1>3, <1>6 DEF Matching, Fresh, Exist, Manifest
  <2>2. DOMAIN references.of \subseteq manifest.listed /\ DOMAIN index.of \subseteq manifest.listed
    <3>1. recipe.flow = "recipe" =>
            "typed" \notin DOMAIN references.of /\ "typed" \notin DOMAIN index.of
      BY <1>1 DEF FilesOk
    <3>2. recipe.flow \in {"recipe", "episode"}  BY DEF BundleTypeOK, Recipes
    <3> QED BY <1>1, <1>5, <1>6, <3>1, <3>2 DEF FilesOk, Exist
  <2> QED BY <1>6, <2>1, <2>2 DEF FilesMatchBut, Matching, Fresh, RefersWell, Current, AsOn
<1>11. ASSUME recipe.flow = "recipe", faults <= 1, Matching,
              \A f \in File : disk[f] > 0 => f \notin Bench \/ faults = 0
       PROVE  FilesMatchBut(Unlisted)
  <2>1. ASSUME NEW f \in File, disk[f] > 0 PROVE f \in manifest.listed \/ f \in Unlisted
    <3>1. CASE f = "typed" /\ declared = "lost"  BY <3>1 DEF Unlisted
    <3>2. CASE f = "typed" /\ declared # "lost"
      <4>1. declared = "taken"  BY <1>1, <2>1, <3>2 DEF TypedOk
      <4> QED BY <1>1, <1>2, <1>11, <2>1, <3>2, <4>1 DEF TypedOk
    <3>3. CASE f # "typed"
      <4>1. ~Pending(f) /\ ~(faults = 1 /\ f \in Bench)  BY <1>4, <1>11, <2>1, <3>3 DEF Pending
      <4> QED BY <1>1, <1>4, <1>11, <2>1, <4>1 DEF Covered
    <3> QED BY <3>1, <3>2, <3>3
  <2>2. Unlisted \cap manifest.listed = {} /\ Unlisted \subseteq {"typed"}
    BY DEF Unlisted
  <2> QED BY <1>6, <1>11, <2>1, <2>2
<1>7. ASSUME recipe.flow = "recipe", faults <= 1 PROVE bundled /\ Clean
  BY <1>1, <1>2, <1>7 DEF PlanOk, Clean
<1>8. ASSUME recipe.flow = "recipe", faults =< 1, disk["benchmarks"] = 0, disk["summaries"] = 0
      PROVE  FilesMatchBut(Unlisted) /\ DigestMatches
  <2>1. bundled /\ Clean /\ Matching /\ DigestMatches
    BY <1>1, <1>2, <1>7, <1>8 DEF Between
  <2>2. \A f \in File : disk[f] > 0 => f \notin Bench  BY <1>8 DEF Bench
  <2> QED BY <1>8, <1>11, <2>1, <2>2
<1>9. ASSUME recipe.flow = "episode", bundled PROVE FilesMatch
  <2>1. Matching /\ Episodic(recipe) \subseteq manifest.listed
    BY <1>1, <1>2, <1>9 DEF Between, Clean
  <2>2. \A f \in File : disk[f] > 0 => f \in manifest.listed
    BY <1>1, <1>9, <2>1 DEF FilesOk
  <2> QED BY <1>6, <2>1, <2>2 DEF FilesMatch
<1>10. ASSUME recipe.flow = "recipe", faults = 0 PROVE FilesMatchBut(Unlisted)
  <2>1. Matching  BY <1>1, <1>2, <1>7, <1>10 DEF Between
  <2> QED BY <1>10, <1>11, <2>1
<1> QED BY <1>8, <1>9, <1>10

-----------------------------------------------------------------------------
(* A step of the run's writer. *)
LEMMA Acts ==
  ASSUME BundleTypeOK, Step("run")
  PROVE  /\ Steady[1].do = "start" => StartManifest("run")
         /\ Steady[1].do = "write" => WriteFile("run")
         /\ Steady[1].do = "review" => WriteReview("run")
         /\ Steady[1].do = "clear" => ClearReferences("run")
         /\ Steady[1].do = "read" => ReadManifest("run")
         /\ Steady[1].do = "list" => ListFiles("run")
         /\ Steady[1].do = "name" => NameBundle("run")
         /\ Steady[1].do = "hash" => HashFiles("run")
         /\ Steady[1].do = "refer" => WriteReferences("run")
         /\ Steady[1].do = "index" => WriteIndex("run")
         /\ Steady[1].do = "rerefer" => RefreshReferences("run")
         /\ Steady[1].do = "reindex" => RefreshIndex("run")
         /\ Steady[1].do = "save" => SaveManifest("run")
         /\ Steady[1].do \in Ops /\ Steady[1].on \subseteq File
<1>1. \A op : Op("run", op) <=> Steady[1].do = op  BY StepIs DEF Writer, Steady
<1>2. Steady[1] \in Steps  BY StepIs DEF Writer, Steady
<1>3. Act("run")  BY DEF Step
<1>4. /\ StartManifest("run") => Op("run", "start")
      /\ WriteFile("run") => Op("run", "write")
      /\ WriteReview("run") => Op("run", "review")
      /\ ClearReferences("run") => Op("run", "clear")
      /\ ReadManifest("run") => Op("run", "read")
      /\ ListFiles("run") => Op("run", "list")
      /\ NameBundle("run") => Op("run", "name")
      /\ HashFiles("run") => Op("run", "hash")
      /\ WriteReferences("run") => Op("run", "refer")
      /\ WriteIndex("run") => Op("run", "index")
      /\ RefreshReferences("run") => Op("run", "rerefer")
      /\ RefreshIndex("run") => Op("run", "reindex")
      /\ SaveManifest("run") => Op("run", "save")
  BY DEF StartManifest, WriteFile, WriteReview, ClearReferences, ReadManifest, ListFiles,
     NameBundle, HashFiles, WriteReferences, WriteIndex, RefreshReferences, RefreshIndex,
     SaveManifest
<1> QED BY <1>1, <1>2, <1>3, <1>4 DEF Act, Steps

(* What it does to each variable. *)
LEMMA HeldBy ==
  ASSUME BundleTypeOK, Step("run")
  PROVE  /\ Steady[1].do = "start" =>
              Held'.listed = Steady[1].on /\ Held'.id = Steady[1].on
         /\ Steady[1].do = "read" => Held' = manifest
         /\ Steady[1].do = "list" =>
              Held'.listed = Held.listed \cup Steady[1].on /\ Held'.id = Held.id
         /\ Steady[1].do = "name" => Held'.listed = Held.listed /\ Held'.id = Held.listed
         /\ Steady[1].do = "hash" =>
              /\ Held'.listed = Held.listed /\ Held'.id = Held.id
              /\ Fresh(Held', disk) /\ disk' = disk
         /\ Steady[1].do \notin {"start", "read", "list", "name", "hash"} => Held' = Held
         /\ Held \in Manifest /\ Held.listed \subseteq File
<1>1. draft \in [Writer -> Manifest] /\ Held \in Manifest /\ "run" \in Writer
  BY DEF BundleTypeOK, Held, Writer
<1>2. Held.listed \subseteq File  BY <1>1 DEF Manifest
<1>3. \A m : Drafted("run", m) => Held' = m  BY <1>1 DEF Drafted, Held
<1>4. Files("run") = Steady[1].on  BY StepIs DEF Steady, Writer
<1>5. ASSUME Steady[1].do = "start"
      PROVE  Held'.listed = Steady[1].on /\ Held'.id = Steady[1].on
  BY <1>3, <1>4, <1>5, Acts DEF StartManifest
<1>6. ASSUME Steady[1].do = "read" PROVE Held' = manifest
  BY <1>3, <1>6, Acts DEF ReadManifest
<1>7. ASSUME Steady[1].do = "list"
      PROVE  Held'.listed = Held.listed \cup Steady[1].on /\ Held'.id = Held.id
  <2>1. Held' = [Held EXCEPT !.listed = @ \cup Steady[1].on]
    BY <1>3, <1>4, <1>7, Acts DEF ListFiles, Held
  <2> QED BY <1>1, <2>1 DEF Manifest
<1>8. ASSUME Steady[1].do = "name"
      PROVE  Held'.listed = Held.listed /\ Held'.id = Held.listed
  <2>1. Held' = [Held EXCEPT !.id = Held.listed]
    BY <1>3, <1>8, Acts DEF NameBundle, Held
  <2> QED BY <1>1, <2>1 DEF Manifest
<1>9. ASSUME Steady[1].do = "hash"
      PROVE  /\ Held'.listed = Held.listed /\ Held'.id = Held.id
             /\ Fresh(Held', disk) /\ disk' = disk
  <2>1. /\ Held' = [Held EXCEPT !.sha = Digests(Held.listed)] /\ disk' = disk
        /\ \A f \in Held.listed : disk[f] > 0
    BY <1>3, <1>9, Acts DEF HashFiles, Held
  <2>2. Held'.listed = Held.listed /\ Held'.id = Held.id /\ Held'.sha = Digests(Held.listed)
    BY <1>1, <2>1 DEF Manifest
  <2> QED BY <2>1, <2>2 DEF Fresh, Exist, AsOn, Digests
<1>10. ASSUME Steady[1].do \notin {"start", "read", "list", "name", "hash"}
       PROVE  Held' = Held
  <2>1. draft' = draft
    BY <1>10, Acts DEF Ops, WriteFile, WriteReview, ClearReferences, WriteReferences, WriteIndex,
       RefreshReferences, RefreshIndex, SaveManifest
  <2> QED BY <2>1 DEF Held
<1> QED BY <1>1, <1>2, <1>5, <1>6, <1>7, <1>8, <1>9, <1>10

LEMMA ManifestBy ==
  ASSUME BundleTypeOK, Step("run")
  PROVE  /\ manifest' = IF Steady[1].do = "save" THEN Held ELSE manifest
         /\ reviewed' = IF Steady[1].do = "review" THEN Held.id ELSE reviewed
<1>1. Steady[1].do \in Ops  BY Acts
<1>2. Steady[1].do = "save" => manifest' = Held
  BY Acts DEF SaveManifest, Held
<1>3. Steady[1].do # "save" => manifest' = manifest
  BY <1>1, Acts DEF Ops, StartManifest, WriteFile, WriteReview, ClearReferences, ReadManifest,
     ListFiles, NameBundle, HashFiles, WriteReferences, WriteIndex, RefreshReferences,
     RefreshIndex
<1>4. Steady[1].do = "review" => reviewed' = Held.id
  BY Acts DEF WriteReview, Held
<1>5. Steady[1].do # "review" => reviewed' = reviewed
  BY <1>1, Acts DEF Ops, StartManifest, WriteFile, ClearReferences, ReadManifest,
     ListFiles, NameBundle, HashFiles, WriteReferences, WriteIndex, RefreshReferences,
     RefreshIndex, SaveManifest
<1> QED BY <1>2, <1>3, <1>4, <1>5

Touches(x, f) ==
  \/ x.do = "write" /\ f \in x.on
  \/ x.do = "review" /\ f = "review"
  \/ x.do = "clear" /\ f \in {"references", "index", "pointers"}
  \/ x.do \in {"refer", "rerefer"} /\ f = "references"
  \/ x.do \in {"index", "reindex"} /\ f = "index"

LEMMA DiskBy ==
  ASSUME BundleTypeOK, Step("run")
  PROVE  /\ disk \in [File -> Nat] /\ disk' \in [File -> Nat]
         /\ \A f \in File : disk'[f] # disk[f] => Touches(Steady[1], f)
         /\ \A f \in File : disk[f] > 0 => disk'[f] > 0
<1>1. /\ disk \in [File -> Nat] /\ disk' \in [File -> Nat]
      /\ \A f \in File : disk'[f] >= disk[f]
  BY DiskGrows, StepTyped DEF BundleTypeOK, BundleNext, Writer
<1>2. \A fs : Written(fs) => \A f \in File : disk'[f] # disk[f] => f \in fs
  BY DEF Written
<1>3. Files("run") = Steady[1].on /\ Steady[1].do \in Ops  BY Acts, StepIs DEF Steady, Writer
<1> SUFFICES ASSUME NEW f \in File, disk'[f] # disk[f] PROVE Touches(Steady[1], f)
  BY <1>1
<1>4. Steady[1].do \in {"write", "review", "clear", "refer", "rerefer", "index", "reindex"}
  BY <1>3, Acts DEF Ops, StartManifest, ReadManifest, ListFiles, NameBundle, HashFiles,
     SaveManifest
<1>5. CASE Steady[1].do = "write"  BY <1>2, <1>3, <1>5, Acts DEF WriteFile, Touches
<1>6. CASE Steady[1].do = "review"  BY <1>2, <1>6, Acts DEF WriteReview, Touches
<1>7. CASE Steady[1].do = "clear"  BY <1>2, <1>7, Acts DEF ClearReferences, Touches
<1>8. CASE Steady[1].do = "refer"  BY <1>2, <1>8, Acts DEF WriteReferences, Touches
<1>9. CASE Steady[1].do = "rerefer"  BY <1>2, <1>9, Acts DEF RefreshReferences, Touches
<1>10. CASE Steady[1].do = "index"  BY <1>2, <1>10, Acts DEF WriteIndex, Touches
<1>11. CASE Steady[1].do = "reindex"  BY <1>2, <1>11, Acts DEF RefreshIndex, Touches
<1> QED BY <1>4, <1>5, <1>6, <1>7, <1>8, <1>9, <1>10, <1>11

LEMMA ReferencesBy ==
  ASSUME BundleTypeOK, Step("run")
  PROVE  /\ Steady[1].do = "refer" =>
              /\ references'.whole /\ references'.id = Held.id
              /\ references'.of = Only(Held.sha, Referred)
         /\ Steady[1].do = "clear" => DOMAIN references'.of = {}
         /\ Steady[1].do = "rerefer" =>
              IF references.whole THEN references' = Refreshed(references, Held)
              ELSE references' = references
         /\ Steady[1].do \notin {"refer", "clear", "rerefer"} => references' = references
<1>1. Steady[1].do \in Ops  BY Acts
<1>2. Steady[1].do = "refer" =>
        /\ references'.whole /\ references'.id = Held.id
        /\ references'.of = Only(Held.sha, Referred)
  BY Acts DEF WriteReferences, Held
<1>3. Steady[1].do = "clear" => DOMAIN references'.of = {}
  BY Acts DEF ClearReferences, Nothing
<1>4. Steady[1].do = "rerefer" =>
        IF references.whole THEN references' = Refreshed(references, Held)
        ELSE references' = references
  BY Acts DEF RefreshReferences, Held
<1>5. Steady[1].do \notin {"refer", "clear", "rerefer"} => references' = references
  BY <1>1, Acts DEF Ops, StartManifest, WriteFile, WriteReview, ReadManifest,
     ListFiles, NameBundle, HashFiles, WriteIndex, RefreshIndex, SaveManifest
<1> QED BY <1>2, <1>3, <1>4, <1>5

IndexOf(sha, dk) ==
  [f \in {"references"} \cup (DOMAIN sha \cap Indexed) |->
     IF f = "references" THEN dk[f] ELSE sha[f]]

LEMMA IndexBy ==
  ASSUME BundleTypeOK, Step("run")
  PROVE  /\ Steady[1].do = "index" =>
              /\ index'.whole /\ index'.id = Held.id /\ index'.of = IndexOf(Held.sha, disk)
         /\ Steady[1].do = "clear" => DOMAIN index'.of = {}
         /\ Steady[1].do = "reindex" =>
              IF index.whole THEN index' = Refreshed(index, Held) ELSE index' = index
         /\ Steady[1].do \notin {"index", "clear", "reindex"} => index' = index
<1>1. Steady[1].do \in Ops  BY Acts
<1>2. Steady[1].do = "index" =>
        /\ index'.whole /\ index'.id = Held.id /\ index'.of = IndexOf(Held.sha, disk)
  BY Acts DEF WriteIndex, Held, IndexOf
<1>3. Steady[1].do = "clear" => DOMAIN index'.of = {}
  BY Acts DEF ClearReferences, Nothing
<1>4. Steady[1].do = "reindex" =>
        IF index.whole THEN index' = Refreshed(index, Held) ELSE index' = index
  BY Acts DEF RefreshIndex, Held
<1>5. Steady[1].do \notin {"index", "clear", "reindex"} => index' = index
  BY <1>1, Acts DEF Ops, StartManifest, WriteFile, WriteReview, ReadManifest,
     ListFiles, NameBundle, HashFiles, WriteReferences, RefreshReferences, SaveManifest
<1> QED BY <1>2, <1>3, <1>4, <1>5

(* What it leaves to come. *)
LEMMA Moves ==
  ASSUME BundleTypeOK, Step("run"), Shape(Steady, call, recipe)
  PROVE  /\ Steady \in Seq(Steps) /\ Steady # <<>> /\ Steady' = Tail(Steady)
         /\ Steady' \in Seq(Steps) /\ Shape(Steady', call, recipe)
         /\ Fits(Steady, 1, call, recipe) /\ Refers(Steady, 1, call)
         /\ \A ops : Awaits(ops) <=> Steady[1].do \in ops \/ Awaits(ops)'
         /\ \A ops : Later(Steady, 1, ops) <=> Awaits(ops)'
         /\ \A f : LaterListed(Steady, 0, f) <=>
              (Steady[1].do \in {"start", "list"} /\ f \in Steady[1].on)
                \/ LaterListed(Steady', 0, f)
         /\ \A f : LaterListed(Steady, 1, f) <=> LaterListed(Steady', 0, f)
         /\ SaveNext(Steady, 0) <=>
              Steady[1].do = "save" \/ (Steady[1].do # "read" /\ SaveNext(Steady', 0))
         /\ SaveNext(Steady, 1) <=> SaveNext(Steady', 0)
<1> DEFINE t == Steady
<1>1. t \in Seq(Steps) /\ t # <<>> /\ Steady' = Tail(t)
  BY StepIs DEF Steady, Writer
<1>2. Len(t) \in Nat \ {0} /\ Tail(t) \in Seq(Steps)  BY <1>1, TailIs
<1>3. Fits(t, 1, call, recipe) /\ Refers(t, 1, call)
  BY <1>2 DEF Shape, Fitting, Referring
<1>4. Shape(Tail(t), call, recipe) /\ UNCHANGED <<call, recipe>>
  BY <1>1, ShapeTail, StepIs DEF Writer
<1>5. /\ \A ops : Later(t, 0, ops) <=> t[1].do \in ops \/ Later(Tail(t), 0, ops)
      /\ \A f : LaterListed(t, 0, f) <=>
                  (t[1].do \in {"start", "list"} /\ f \in t[1].on) \/ LaterListed(Tail(t), 0, f)
      /\ SaveNext(t, 0) <=>
           t[1].do = "save" \/ (t[1].do # "read" /\ SaveNext(Tail(t), 0))
  BY <1>1, FirstStep
<1>6. PICK n \in Nat : n = 0  OBVIOUS
<1>7. /\ \A ops : Later(Tail(t), n, ops) <=> Later(t, n + 1, ops)
      /\ \A f : LaterListed(Tail(t), n, f) <=> LaterListed(t, n + 1, f)
      /\ SaveNext(Tail(t), n) <=> SaveNext(t, n + 1)
  BY <1>1, LaterTail, ListedTail, SaveTail
<1>8. n + 1 = 1  BY <1>6
<1> HIDE DEF t
<1>9. /\ \A ops : Later(t, 1, ops) <=> Later(Tail(t), 0, ops)
      /\ \A f : LaterListed(t, 1, f) <=> LaterListed(Tail(t), 0, f)
      /\ SaveNext(t, 1) <=> SaveNext(Tail(t), 0)
  BY <1>6, <1>7, <1>8
<1> QED BY <1>1, <1>2, <1>3, <1>4, <1>5, <1>9 DEF Awaits, t

LEMMA NextStep ==
  ASSUME BundleTypeOK, Step("run"), Shape(Steady, call, recipe)
  PROVE  /\ Steady' # <<>> =>
              /\ Steady[2] = Steady'[1] /\ 1 < Len(Steady)
              /\ Len(Steady') > 1 => Steady[3] = Steady'[2] /\ 2 < Len(Steady)
         /\ Steady' = <<>> => Steady[1].do = "save"
         /\ Steady[1].do # "start" => ~Awaits({"start"})
         /\ ~Awaits({"start"})'
<1> DEFINE t == Steady
<1>1. t \in Seq(Steps) /\ t # <<>> /\ Steady' = Tail(t) /\ Tail(t) \in Seq(Steps)
  BY Moves
<1>2. /\ Len(t) \in Nat \ {0} /\ Len(Tail(t)) = Len(t) - 1
      /\ \A i \in 1..Len(t) - 1 : Tail(t)[i] = t[i + 1]
  BY <1>1, TailIs
<1>3. Tail(t) # <<>> => Len(Tail(t)) \in Nat \ {0}  BY <1>1, EmptySeq
<1>4. \A i \in 1..Len(t) : Adjoins(t, i)  BY DEF Shape, Fitting, Fits
<1>5. Tail(t) # <<>> => t[2] = Tail(t)[1] /\ 1 < Len(t)
  BY <1>2, <1>3
<1>6. Len(Tail(t)) > 1 => t[3] = Tail(t)[2] /\ 2 < Len(t)
  BY <1>2
<1>7. Tail(t) = <<>> => t[1].do = "save"
  <2>1. ASSUME Tail(t) = <<>> PROVE 1 \in 1..Len(t) /\ 1 = Len(t)
    <3>1. Len(Tail(t)) = 0  BY <2>1, EmptySeq
    <3>2. Len(t) - 1 = 0 /\ Len(t) \in Nat  BY <1>2, <3>1
    <3> HIDE DEF t
    <3> QED BY <3>2
  <2>2. \A i \in 1..Len(t) : i = Len(t) => t[i].do = "save"  BY <1>4 DEF Adjoins
  <2> HIDE DEF t
  <2> QED BY <2>1, <2>2
<1>8. ~Later(t, 1, {"start"})
  <2> SUFFICES ASSUME NEW j \in 1 + 1..Len(t), t[j].do = "start" PROVE FALSE
    BY DEF Later
  <2>1. j - 1 \in 1..Len(t) /\ j - 1 < Len(t) /\ (j - 1) + 1 = j  BY <1>2
  <2> QED BY <1>4, <2>1 DEF Adjoins
<1>9. ~Awaits({"start"})' /\ (Steady[1].do # "start" => ~Awaits({"start"}))  BY <1>8, Moves
<1> QED BY <1>1, <1>5, <1>6, <1>7, <1>9

(* The manifest that counts is changed by what is listed and named alone.  *)
LEMMA Counting ==
  ASSUME BundleTypeOK, Step("run"), Shape(Steady, call, recipe)
  PROVE  /\ Steady[1].do = "start" =>
              Counted'.listed = Steady[1].on /\ Counted'.id = Steady[1].on
         /\ Steady[1].do = "list" =>
              Counted'.listed = Counted.listed \cup Steady[1].on /\ Counted'.id = Counted.id
         /\ Steady[1].do = "name" =>
              Counted'.listed = Counted.listed /\ Counted'.id = Counted.listed
         /\ Steady[1].do \notin {"start", "list", "name"} =>
              Counted'.listed = Counted.listed /\ Counted'.id = Counted.id
         /\ Steady[1].do \in Drafting => Counted = Held /\ Counted' = Held'
         /\ Steady[1].do = "save" => Counted = Held
<1>1. Steady[1].do \in Ops  BY Acts
<1>2. ASSUME Steady[1].do \in Drafting PROVE Counted = Held /\ Counted' = Held'
  <2>1. SaveNext(Steady, 1) /\ Steady[1].do # "read"
    BY <1>2, Moves DEF Fits, Repaired, Drafting
  <2> QED BY <2>1, Moves DEF Counted
<1>3. CASE Steady[1].do \in {"start", "list", "name"}
  <2>1. Counted = Held /\ Counted' = Held'  BY <1>2, <1>3 DEF Drafting
  <2> QED BY <1>2, <1>3, <2>1, HeldBy
<1>4. CASE Steady[1].do = "save"
  <2>1. SaveNext(Steady, 0)  BY <1>4, Moves
  <2>2. Counted = Held /\ Held' = Held /\ manifest' = Held
    BY <1>4, <2>1, HeldBy, ManifestBy DEF Counted
  <2>3. Counted' = Held  BY <2>2 DEF Counted
  <2> QED BY <1>4, <2>2, <2>3 DEF Drafting
<1>5. CASE Steady[1].do = "read"
  <2>1. ~SaveNext(Steady, 0) /\ Held' = manifest /\ manifest' = manifest
    BY <1>5, Moves, HeldBy, ManifestBy
  <2>2. Counted = manifest /\ Counted' = manifest  BY <2>1 DEF Counted
  <2> QED BY <1>5, <2>2 DEF Drafting
<1>6. CASE Steady[1].do \notin {"start", "list", "name", "save", "read"}
  <2>1. (SaveNext(Steady, 0) <=> SaveNext(Steady', 0)) /\ manifest' = manifest
    BY <1>6, Moves, ManifestBy
  <2>2. Held'.listed = Held.listed /\ Held'.id = Held.id  BY <1>6, HeldBy
  <2>3. Counted'.listed = Counted.listed /\ Counted'.id = Counted.id
    BY <2>1, <2>2 DEF Counted
  <2> QED BY <1>2, <1>6, <2>3
<1> QED BY <1>3, <1>4, <1>5, <1>6

-----------------------------------------------------------------------------
(* A step within a call keeps each part of the invariant. *)
LEMMA FreshUsable ==
  ASSUME NEW m, NEW dk, Fresh(m, dk)
  PROVE  Usable(m, dk)
BY DEF Fresh, Usable, AsOn

LEMMA NextOkStep ==
  ASSUME BundleTypeOK, Step("run"), Shape(Steady, call, recipe), NextOk
  PROVE  NextOk'
<1>1. /\ Steady # <<>> /\ Adjoins(Steady, 1)
      /\ Steady' # <<>> => Steady[2] = Steady'[1] /\ 1 < Len(Steady)
      /\ Steady' # <<>> /\ Len(Steady') > 1 => Steady[3] = Steady'[2] /\ 2 < Len(Steady)
      /\ Steady' = <<>> => Steady[1].do = "save"
  BY Moves, NextStep DEF Fits
<1>2. Len(Steady') > 1 => Steady' # <<>>  BY EmptySeq
<1>3. Len(Steady) \in Nat  BY Moves, LenProperties
<1>4. /\ Steady' # <<>> /\ Steady'[1].do \in {"save", "rerefer", "reindex"} =>
           Steady[1].do = "hash"
      /\ Steady' # <<>> /\ Steady'[1].do = "refer" => Steady[1].do \in {"hash", "read"}
      /\ Steady' # <<>> /\ Steady'[1].do = "index" => Steady[1].do \in {"refer", "read"}
  <2>1. /\ 1 < Len(Steady) /\ Steady[2].do \in {"save", "rerefer", "reindex"} =>
             Steady[1].do = "hash"
        /\ 1 < Len(Steady) /\ Steady[2].do = "refer" => Steady[1].do \in {"hash", "read"}
        /\ 1 < Len(Steady) /\ Steady[2].do = "index" => Steady[1].do \in {"refer", "read"}
    <3>1. 1 + 1 = 2  OBVIOUS
    <3> QED BY <1>1, <3>1 DEF Adjoins
  <2> QED BY <1>1, <2>1
<1>5. Len(Steady') > 1 /\ Steady'[1].do = "read" /\ Steady'[2].do \in {"refer", "index"} =>
        Steady[1].do = "save"
  <2>1. 2 < Len(Steady) /\ Steady[2].do = "read" /\ Steady[3].do \in {"refer", "index"} =>
          Steady[1].do = "save"
    <3>1. 1 + 1 = 2 /\ 1 + 2 = 3  OBVIOUS
    <3> QED BY <1>1, <3>1 DEF Adjoins
  <2> QED BY <1>1, <1>2, <2>1
<1>6. Steady[1].do = "hash" => Fresh(Held, disk)'  BY HeldBy
<1>7. Steady[1].do = "save" => Fresh(manifest, disk)'
  <2>1. ASSUME Steady[1].do = "save" PROVE manifest' = Held /\ disk' = disk
    BY <2>1, ManifestBy, Acts DEF SaveManifest
  <2> QED BY <1>1, <2>1 DEF NextOk
<1>8. Steady[1].do = "read" /\ Steady' # <<>> /\ Steady'[1].do \in {"refer", "index"} =>
        Usable(Held, disk)'
  <2> SUFFICES ASSUME Steady[1].do = "read", Steady' # <<>>, Steady'[1].do \in {"refer", "index"}
               PROVE  Usable(Held, disk)'
    OBVIOUS
  <2>1. Fresh(manifest, disk)  BY <1>1, <1>3 DEF NextOk
  <2>2. Held' = manifest /\ disk' = disk  BY HeldBy, Acts DEF ReadManifest
  <2> QED BY <2>1, <2>2, FreshUsable
<1>9. Steady[1].do = "refer" => Usable(Held, disk)'
  <2> SUFFICES ASSUME Steady[1].do = "refer" PROVE Usable(Held, disk)'
    OBVIOUS
  <2>1. Usable(Held, disk) /\ Held' = Held /\ Held.listed \subseteq File
    BY <1>1, HeldBy DEF NextOk
  <2>2. \A f \in File : f # "references" => disk'[f] = disk[f]
    BY DiskBy DEF Touches
  <2>3. "references" \notin Referred /\ Referred \subseteq File  BY DEF Referred
  <2>4. \A f \in File : disk[f] > 0 => disk'[f] > 0  BY DiskBy
  <2> QED BY <2>1, <2>2, <2>3, <2>4 DEF Usable, Exist
<1>10. Steady[1].do = "hash" => Usable(Held, disk)'  BY <1>6, FreshUsable
<1> QED BY <1>1, <1>4, <1>5, <1>6, <1>7, <1>8, <1>9, <1>10 DEF NextOk

LEMMA Repairs ==
  ASSUME BundleTypeOK, Step("run"), Shape(Steady, call, recipe)
  PROVE  /\ Steady[1].do \in {"name", "start"} =>
              /\ Awaits({"review"})' /\ Awaits({"refer", "rerefer"})'
              /\ Awaits({"index", "reindex"})'
         /\ Steady[1].do \in {"refer", "rerefer"} => Awaits({"index", "reindex"})'
         /\ Steady[1].do = "clear" => Awaits({"refer"})' /\ Awaits({"index"})'
         /\ Steady[1].do = "list" /\ call \in Updates => Awaits({"name"})'
BY Moves DEF Fits, Repaired

LEMMA AwaitsMore ==
  ASSUME NEW a, NEW b, a \subseteq b
  PROVE  /\ Awaits(a) => Awaits(b)
         /\ Awaits(a)' => Awaits(b)'
BY DEF Awaits, Later

LEMMA IdsOkStep ==
  ASSUME BundleTypeOK, Step("run"), Shape(Steady, call, recipe), IdsOk, RefsOk
  PROVE  IdsOk'
<1>0. /\ \A ops : Awaits(ops) <=> Steady[1].do \in ops \/ Awaits(ops)'
      /\ Steady[1].do \notin {"start", "list", "name"} => Counted'.id = Counted.id
      /\ Steady[1].do = "list" => Counted'.id = Counted.id
      /\ Steady[1].do \in Drafting => Counted = Held
  BY Moves, Counting
<1>1. ASSUME ~Awaits({"review", "name", "start"})' PROVE reviewed' = Counted'.id
  <2>1. ~Awaits({"review"})'  BY <1>1, AwaitsMore
  <2>2. Steady[1].do \notin {"name", "start"}  BY <2>1, Repairs
  <2>3. CASE Steady[1].do = "review"
    <3>1. reviewed' = Held.id  BY <2>3, ManifestBy
    <3> QED BY <1>0, <2>3, <3>1 DEF Drafting
  <2>4. CASE Steady[1].do # "review"
    <3>1. reviewed = Counted.id  BY <1>0, <1>1, <2>2, <2>4 DEF IdsOk
    <3> QED BY <1>0, <2>2, <2>4, <3>1, ManifestBy
  <2> QED BY <2>3, <2>4
<1>2. ASSUME ~Awaits({"refer", "rerefer", "name", "start"})' PROVE references'.id = Counted'.id
  <2>1. ~Awaits({"refer", "rerefer"})' /\ ~Awaits({"refer"})'  BY <1>2, AwaitsMore
  <2>2. Steady[1].do \notin {"name", "start", "clear"}  BY <2>1, Repairs
  <2>3. CASE Steady[1].do = "refer"  BY <1>0, <2>3, ReferencesBy DEF Drafting
  <2>4. CASE Steady[1].do = "rerefer"
    <3>1. references.whole  BY <1>0, <2>1, <2>4 DEF RefsOk
    <3>2. references'.id = Held.id  BY <2>4, <3>1, ReferencesBy DEF Refreshed
    <3> QED BY <1>0, <2>4, <3>2 DEF Drafting
  <2>5. CASE Steady[1].do \notin {"refer", "rerefer"}
    <3>1. references.id = Counted.id  BY <1>0, <1>2, <2>2, <2>5 DEF IdsOk
    <3> QED BY <1>0, <2>2, <2>5, <3>1, ReferencesBy
  <2> QED BY <2>3, <2>4, <2>5
<1>3. ASSUME ~Awaits({"index", "reindex", "name", "start"})' PROVE index'.id = Counted'.id
  <2>1. ~Awaits({"index", "reindex"})' /\ ~Awaits({"index"})'  BY <1>3, AwaitsMore
  <2>2. Steady[1].do \notin {"name", "start", "clear"}  BY <2>1, Repairs
  <2>3. CASE Steady[1].do = "index"  BY <1>0, <2>3, IndexBy DEF Drafting
  <2>4. CASE Steady[1].do = "reindex"
    <3>1. index.whole  BY <1>0, <2>1, <2>4 DEF RefsOk
    <3>2. index'.id = Held.id  BY <2>4, <3>1, IndexBy DEF Refreshed
    <3> QED BY <1>0, <2>4, <3>2 DEF Drafting
  <2>5. CASE Steady[1].do \notin {"index", "reindex"}
    <3>1. index.id = Counted.id  BY <1>0, <1>3, <2>2, <2>5 DEF IdsOk
    <3> QED BY <1>0, <2>2, <2>5, <3>1, IndexBy
  <2> QED BY <2>3, <2>4, <2>5
<1> QED BY <1>1, <1>2, <1>3 DEF IdsOk

LEMMA ListOkStep ==
  ASSUME BundleTypeOK, Step("run"), Shape(Steady, call, recipe), ListOk
  PROVE  ListOk'
<1>0. /\ \A ops : Awaits(ops) <=> Steady[1].do \in ops \/ Awaits(ops)'
      /\ Steady[1].do # "start" => ~Awaits({"start"})
      /\ ~Awaits({"start"})'
      /\ Steady[1].do # "start" => Counted.listed \subseteq Counted'.listed
      /\ Steady[1].do = "start" => Steady[1].on = Collected
      /\ UNCHANGED <<call, recipe>>
  BY Moves, NextStep, Counting, StepIs DEF Fits, Suits, Writer
<1>1. ASSUME call \in Updates \cup {"collect"}, ~Awaits({"name", "start", "list"})'
      PROVE  Counted'.id = Counted'.listed
  <2>1. ~Awaits({"name"})'  BY <1>1, AwaitsMore
  <2>2. Steady[1].do # "list"
    <3>1. call = "collect" => Steady[1].do # "list"  BY Moves DEF Fits, Suits
    <3> QED BY <1>1, <2>1, <3>1, Repairs
  <2>3. CASE Steady[1].do \in {"name", "start"}  BY <2>3, Counting
  <2>4. CASE Steady[1].do \notin {"name", "start"}
    <3>1. Counted.id = Counted.listed  BY <1>0, <1>1, <2>2, <2>4 DEF ListOk
    <3> QED BY <2>2, <2>4, <3>1, Counting
  <2> QED BY <2>3, <2>4
<1>2. Collected \subseteq Counted'.listed
  <2>1. CASE Steady[1].do = "start"  BY <1>0, <2>1, Counting
  <2>2. CASE Steady[1].do # "start"  BY <1>0, <2>2 DEF ListOk
  <2> QED BY <2>1, <2>2
<1>3. ASSUME call = "collect" PROVE Held'.listed = Collected
  <2>1. Steady[1].do \notin {"read", "list", "name"}  BY <1>3, Moves DEF Fits, Suits
  <2>2. CASE Steady[1].do = "start"  BY <1>0, <2>2, HeldBy
  <2>3. CASE Steady[1].do # "start"
    <3>1. Held.listed = Collected  BY <1>0, <1>3, <2>3 DEF ListOk
    <3> QED BY <2>1, <2>3, <3>1, HeldBy
  <2> QED BY <2>2, <2>3
<1>4. ASSUME NEW f \in ListedBy(call, recipe)
      PROVE  LaterListed(Steady', 0, f) \/ f \in Counted'.listed
  <2>1. CASE LaterListed(Steady, 0, f)
    <3>1. ASSUME Steady[1].do \in {"start", "list"}, f \in Steady[1].on
          PROVE  f \in Counted'.listed
      BY <3>1, Counting
    <3> QED BY <2>1, <3>1, Moves
  <2>2. CASE ~Awaits({"start"}) /\ f \in Counted.listed
    <3>1. Steady[1].do # "start"  BY <1>0, <2>2
    <3> QED BY <1>0, <2>2, <3>1
  <2> QED BY <2>1, <2>2 DEF ListOk
<1> QED BY <1>0, <1>1, <1>2, <1>3, <1>4 DEF ListOk

LEMMA RefreshedIs ==
  ASSUME NEW file \in Reference, NEW m \in Manifest, NEW dk, Fresh(m, dk)
  PROVE  /\ Refreshed(file, m).whole /\ DOMAIN Refreshed(file, m).of = DOMAIN file.of
         /\ \A f \in DOMAIN file.of :
              \/ f \in m.listed /\ Refreshed(file, m).of[f] = dk[f]
              \/ f \notin m.listed /\ Refreshed(file, m).of[f] = file.of[f]
BY DEF Refreshed, Fresh, AsOn

LEMMA RefsOkStep ==
  ASSUME BundleTypeOK, Step("run"), Shape(Steady, call, recipe),
         NextOk, ListOk, RefsOk, FilesOk, call = "episode" <=> recipe.flow = "episode"
  PROVE  RefsOk'
<1>0. /\ \A ops : Awaits(ops) <=> Steady[1].do \in ops \/ Awaits(ops)'
      /\ \A f \in File : disk'[f] # disk[f] => Touches(Steady[1], f)
      /\ Steady # <<>> /\ Steady[1].do \in Ops
  BY Moves, DiskBy, Acts
<1>1. /\ Held \in Manifest /\ references \in Reference /\ index \in Reference
      /\ DOMAIN references.of \subseteq File /\ DOMAIN index.of \subseteq File
      /\ DOMAIN Held.sha \subseteq File
  BY HeldBy, DigestIs DEF BundleTypeOK, Reference, Manifest
<1>2. /\ DOMAIN references.of \subseteq Referred
      /\ DOMAIN index.of \subseteq {"references"} \cup Indexed
      /\ recipe.flow # "episode" => /\ DOMAIN references.of \subseteq {"content", "pointers"}
                                    /\ DOMAIN index.of \subseteq {"references", "content"}
  BY DEF FilesOk, BundleTypeOK, Recipes
<1>3. Referred \cap {"review", "metadata", "references", "index"} = {} /\ Indexed \subseteq Referred
  BY DEF Referred, Indexed, File, Collected, Added
<1>4. Steady[1].do \in {"rerefer", "reindex"} => Fresh(Held, disk)  BY <1>0 DEF NextOk
<1>5. Steady[1].do \in {"refer", "index"} => Usable(Held, disk)  BY <1>0 DEF NextOk
(* What is written next to the references is in none of them. *)
<1>6. ASSUME Steady[1].do = "write", ~Awaits({"refer"})' \/ ~Awaits({"index"})'
      PROVE  /\ \A f \in DOMAIN references.of : disk'[f] = disk[f]
             /\ \A f \in DOMAIN index.of : disk'[f] = disk[f]
  <2>1. call # "episode" /\ Steady[1].on \cap {"content", "pointers"} = {}
    BY <1>6, Moves DEF Refers
  <2>2. "references" \notin Steady[1].on  BY <1>6, Moves DEF Fits, Suits
  <2>3. \A f \in {"content", "pointers", "references"} : f \notin Steady[1].on
    BY <2>1, <2>2
  <2>4. \A f \in DOMAIN references.of \cup DOMAIN index.of : f \notin Steady[1].on
    BY <1>2, <2>1, <2>3
  <2> QED BY <1>0, <1>1, <1>6, <2>4 DEF Touches
<1>7. ASSUME ~Awaits({"refer"})' PROVE references'.whole /\ AsOn(references'.of, disk')
  <2>1. Steady[1].do # "clear"  BY <1>7, Repairs
  <2>2. CASE Steady[1].do = "refer"
    <3>1. references'.whole /\ references'.of = Only(Held.sha, Referred)  BY <2>2, ReferencesBy
    <3>2. \A f \in Referred \cap File : disk'[f] = disk[f]  BY <1>0, <1>3, <2>2 DEF Touches
    <3> QED BY <1>1, <1>5, <2>2, <3>1, <3>2 DEF Usable, AsOn, Only
  <2>3. CASE Steady[1].do # "refer"
    <3>1. references.whole /\ AsOn(references.of, disk)  BY <1>0, <1>7, <2>3 DEF RefsOk
    <3>2. \A f \in DOMAIN references.of : disk'[f] = disk[f]
      <4>1. CASE Steady[1].do = "write"  BY <1>6, <1>7, <4>1
      <4>2. CASE Steady[1].do # "write"
        <5>1. \A f \in Referred : ~Touches(Steady[1], f)
          BY <1>3, <2>1, <4>2 DEF Touches
        <5> QED BY <1>0, <1>1, <1>2, <5>1
      <4> QED BY <4>1, <4>2
    <3>3. CASE Steady[1].do = "rerefer"
      <4>1. references' = Refreshed(references, Held)  BY <3>1, <3>3, ReferencesBy
      <4>2. /\ references'.whole /\ DOMAIN references'.of = DOMAIN references.of
            /\ \A f \in DOMAIN references.of :
                 \/ f \in Held.listed /\ references'.of[f] = disk[f]
                 \/ f \notin Held.listed /\ references'.of[f] = references.of[f]
        BY <1>1, <1>4, <3>3, <4>1, RefreshedIs
      <4> QED BY <3>1, <3>2, <4>2 DEF AsOn
    <3>4. CASE Steady[1].do # "rerefer"
      <4>1. references' = references  BY <2>1, <2>3, <3>4, ReferencesBy
      <4> QED BY <3>1, <3>2, <4>1 DEF AsOn
    <3> QED BY <3>3, <3>4
  <2> QED BY <2>2, <2>3
<1>8. ASSUME ~Awaits({"index"})' PROVE index'.whole /\ ButOn(index'.of, disk')
  <2>1. Steady[1].do # "clear"  BY <1>8, Repairs
  <2>2. \A f \in Indexed : f \in File /\ f # "references" /\ f # "index" /\ f # "review"
                           /\ f # "pointers"
    BY DEF Indexed, File, Collected, Added
  <2>3. CASE Steady[1].do = "index"
    <3>1. index'.whole /\ index'.of = IndexOf(Held.sha, disk)  BY <2>3, IndexBy
    <3>2. \A f \in Indexed : disk'[f] = disk[f]  BY <1>0, <2>2, <2>3 DEF Touches
    <3>3. /\ DOMAIN index'.of = {"references"} \cup (DOMAIN Held.sha \cap Indexed)
          /\ \A f \in DOMAIN Held.sha \cap Indexed : index'.of[f] = Held.sha[f]
      BY <2>2, <3>1 DEF IndexOf
    <3> QED BY <1>3, <1>5, <2>3, <3>1, <3>2, <3>3 DEF Usable, ButOn
  <2>4. CASE Steady[1].do # "index"
    <3>1. index.whole /\ ButOn(index.of, disk)  BY <1>0, <1>8, <2>4 DEF RefsOk
    <3>2. \A f \in DOMAIN index.of \ {"references"} : disk'[f] = disk[f]
      <4>1. CASE Steady[1].do = "write"  BY <1>6, <1>8, <4>1
      <4>2. CASE Steady[1].do # "write"
        <5>1. \A f \in Indexed : ~Touches(Steady[1], f)
          BY <2>1, <2>2, <4>2 DEF Touches
        <5> QED BY <1>0, <1>1, <1>2, <5>1
      <4> QED BY <4>1, <4>2
    <3>3. CASE Steady[1].do = "reindex"
      <4>1. index' = Refreshed(index, Held)  BY <3>1, <3>3, IndexBy
      <4>2. /\ index'.whole /\ DOMAIN index'.of = DOMAIN index.of
            /\ \A f \in DOMAIN index.of :
                 \/ f \in Held.listed /\ index'.of[f] = disk[f]
                 \/ f \notin Held.listed /\ index'.of[f] = index.of[f]
        BY <1>1, <1>4, <3>3, <4>1, RefreshedIs
      <4> QED BY <3>1, <3>2, <4>2 DEF ButOn
    <3>4. CASE Steady[1].do # "reindex"
      <4>1. index' = index  BY <2>1, <2>4, <3>4, IndexBy
      <4> QED BY <3>1, <3>2, <4>1 DEF ButOn
    <3> QED BY <3>3, <3>4
  <2> QED BY <2>3, <2>4
<1>9. ASSUME ~Awaits({"refer", "rerefer", "clear", "index", "reindex"})'
      PROVE  AsOn(index'.of, disk')
  <2>1. ~Awaits({"index"})' /\ ~Awaits({"index", "reindex"})' /\ ~Awaits({"refer"})'
    BY <1>9, AwaitsMore
  <2>2. Steady[1].do \notin {"refer", "rerefer", "clear"}  BY <2>1, Repairs
  <2>3. ButOn(index'.of, disk')  BY <1>8, <2>1
  <2> SUFFICES ASSUME "references" \in DOMAIN index'.of
               PROVE  index'.of["references"] = disk'["references"]
    BY <2>3 DEF AsOn, ButOn
  <2>4. disk'["references"] = disk["references"]
    <3>1. "references" \in File  BY DEF File, Collected
    <3>2. Steady[1].do = "write" => "references" \notin Steady[1].on
      BY Moves DEF Fits, Suits
    <3> QED BY <1>0, <2>2, <3>1, <3>2 DEF Touches
  <2>5. CASE Steady[1].do = "index"
    <3>1. index'.of["references"] = disk["references"]  BY <2>5, IndexBy DEF IndexOf
    <3> QED BY <2>4, <3>1
  <2>6. CASE Steady[1].do = "reindex"
    <3>1. index.whole  BY <1>0, <2>1, <2>6 DEF RefsOk
    <3>2. index' = Refreshed(index, Held)  BY <2>6, <3>1, IndexBy
    <3>3. "references" \in Held.listed
      <4>1. ~Awaits({"start"}) /\ Counted = Held  BY <2>6, NextStep, Counting DEF Drafting
      <4> QED BY <4>1 DEF ListOk, Collected
    <3>4. "references" \in DOMAIN index.of /\ index'.of["references"] = disk["references"]
      BY <1>1, <1>4, <2>6, <3>2, <3>3, RefreshedIs
    <3> QED BY <2>4, <3>4
  <2>7. CASE Steady[1].do \notin {"index", "reindex"}
    <3>1. AsOn(index.of, disk)  BY <1>0, <1>9, <2>2, <2>7 DEF RefsOk
    <3>2. index' = index  BY <2>2, <2>7, IndexBy
    <3> QED BY <2>4, <3>1, <3>2 DEF AsOn
  <2> QED BY <2>5, <2>6, <2>7
<1> QED BY <1>7, <1>8, <1>9 DEF RefsOk

LEMMA FilesOkStep ==
  ASSUME BundleTypeOK, Step("run"), Shape(Steady, call, recipe), call \in CallName,
         NextOk, ListOk, FilesOk, PlanOk
  PROVE  FilesOk'
<1>0. /\ \A f \in File : disk'[f] # disk[f] => Touches(Steady[1], f)
      /\ Steady # <<>> /\ Steady[1].do \in Ops /\ Steady[1].on \subseteq File
      /\ \A f \in File : disk[f] > 0 => disk'[f] > 0
      /\ disk \in [File -> Nat] /\ disk' \in [File -> Nat]
      /\ UNCHANGED <<recipe, plan, call, mode, faults, bundled>>
      /\ recipe \in Recipes /\ faults \in Nat
  BY Moves, DiskBy, Acts, StepIs DEF BundleTypeOK, Writer
<1>1. /\ Held \in Manifest /\ references \in Reference /\ index \in Reference
      /\ DOMAIN references.of \subseteq File /\ DOMAIN index.of \subseteq File
      /\ DOMAIN Held.sha \subseteq File
  BY HeldBy, DigestIs DEF BundleTypeOK, Reference, Manifest
<1>2. Allowed(call, recipe, faults)  BY DEF PlanOk, CallName
<1>3. ASSUME bundled PROVE Collected \subseteq manifest'.listed
  <2>1. CASE Steady[1].do = "save"
    <3>1. Collected \subseteq Counted.listed /\ Counted = Held
      BY <2>1, NextStep, Counting DEF ListOk
    <3> QED BY <2>1, <3>1, ManifestBy
  <2>2. CASE Steady[1].do # "save"  BY <1>3, <2>2, ManifestBy DEF FilesOk
  <2> QED BY <2>1, <2>2
<1>4. Steady[1].do \in {"refer", "index"} =>
        /\ DOMAIN Held.sha = Held.listed /\ Exist(Held.listed, disk)
        /\ Collected \subseteq Held.listed
        /\ recipe.flow = "recipe" => Held.listed = Collected
  <2> SUFFICES ASSUME Steady[1].do \in {"refer", "index"}
               PROVE  /\ DOMAIN Held.sha = Held.listed /\ Exist(Held.listed, disk)
                      /\ Collected \subseteq Held.listed
                      /\ recipe.flow = "recipe" => Held.listed = Collected
    OBVIOUS
  <2>1. Usable(Held, disk)  BY <1>0 DEF NextOk
  <2>2. ~Awaits({"start"}) /\ Counted = Held  BY NextStep, Counting DEF Drafting
  <2>3. Collected \subseteq Held.listed  BY <2>2 DEF ListOk
  <2>4. call \in {"collect", "episode"}  BY Moves DEF Fits, Suits
  <2>5. recipe.flow = "recipe" => call = "collect"  BY <1>2, <2>4 DEF Allowed
  <2>6. recipe.flow = "recipe" => Held.listed = Collected  BY <2>2, <2>5 DEF ListOk
  <2> QED BY <2>1, <2>3, <2>6 DEF Usable
<1>5. /\ Exist(DOMAIN references'.of, disk') /\ DOMAIN references'.of \subseteq Referred
      /\ recipe.flow = "recipe" => DOMAIN references'.of \subseteq {"content", "pointers"}
  <2>1. CASE Steady[1].do = "refer"
    <3>1. DOMAIN references'.of = DOMAIN Held.sha \cap Referred
      BY <2>1, ReferencesBy DEF Only
    <3>2. Collected \cap Referred = {"content", "pointers"}
      BY DEF Referred, Collected, File, Added
    <3> QED BY <1>0, <1>1, <1>4, <2>1, <3>1, <3>2 DEF Exist
  <2>2. CASE Steady[1].do = "clear"  BY <2>2, ReferencesBy DEF Exist
  <2>3. CASE Steady[1].do \notin {"refer", "clear"}
    <3>1. DOMAIN references'.of = DOMAIN references.of
      BY <1>1, <2>3, ReferencesBy, RefreshedTyped
    <3> QED BY <1>0, <1>1, <3>1 DEF FilesOk, Exist
  <2> QED BY <2>1, <2>2, <2>3
<1>6. /\ Exist(DOMAIN index'.of, disk')
      /\ DOMAIN index'.of \subseteq {"references"} \cup Indexed
      /\ recipe.flow = "recipe" => DOMAIN index'.of \subseteq {"references", "content"}
  <2>1. CASE Steady[1].do = "index"
    <3>1. DOMAIN index'.of = {"references"} \cup (DOMAIN Held.sha \cap Indexed)
      BY <2>1, IndexBy DEF IndexOf
    <3>2. Collected \cap Indexed = {"content"} /\ "references" \in Collected
      BY DEF Indexed, Collected
    <3>3. DOMAIN index'.of \subseteq Held.listed /\ Held.listed \subseteq File
      BY <1>1, <1>4, <2>1, <3>1, <3>2
    <3>4. Exist(DOMAIN index'.of, disk')  BY <1>0, <1>4, <2>1, <3>3 DEF Exist
    <3> QED BY <1>4, <2>1, <3>1, <3>2, <3>4
  <2>2. CASE Steady[1].do = "clear"  BY <2>2, IndexBy DEF Exist
  <2>3. CASE Steady[1].do \notin {"index", "clear"}
    <3>1. DOMAIN index'.of = DOMAIN index.of
      BY <1>1, <2>3, IndexBy, RefreshedTyped
    <3> QED BY <1>0, <1>1, <3>1 DEF FilesOk, Exist
  <2> QED BY <2>1, <2>2, <2>3
<1>7. ASSUME NEW f \in File, disk'[f] > 0
      PROVE  disk[f] > 0 \/ f \in Collected \/ f \in ListedBy(call, recipe)
  <2>1. CASE disk'[f] = disk[f]  BY <1>7, <2>1
  <2>2. CASE disk'[f] # disk[f]
    <3>1. Steady[1].do = "write" =>
            Steady[1].on \subseteq Collected \cup ListedBy(call, recipe)
      BY Moves DEF Fits, Suits
    <3> QED BY <1>0, <2>2, <3>1 DEF Touches, Collected
  <2> QED BY <2>1, <2>2
<1>8. ASSUME recipe.flow = "episode", NEW f \in File, disk'[f] > 0
      PROVE  f \in Episodic(recipe)
  <2>1. call = "episode"  BY <1>2, <1>8 DEF Allowed
  <2>2. ListedBy(call, recipe) = Episodic(recipe) /\ Collected \subseteq Episodic(recipe)
    BY <2>1 DEF ListedBy, Episodic
  <2> QED BY <1>7, <1>8, <2>2 DEF FilesOk
<1>9. ASSUME recipe.flow = "recipe", NEW f \in File, disk'[f] > 0
      PROVE  \/ f \in Collected
             \/ bundled /\ f \in Evidential(recipe)
             \/ bundled /\ f = "failure" /\ faults > 0
             \/ bundled /\ f \in Bench /\ (plan = <<>> \/ faults > 0)
             \/ f = "typed"
  <2>1. CASE disk[f] > 0  BY <1>9, <2>1 DEF FilesOk
  <2>2. CASE f \in ListedBy(call, recipe)
    <3>1. call # "episode"  BY <1>2, <1>9 DEF Allowed
    <3>2. CASE call = "collect"  BY <2>2, <3>2 DEF ListedBy
    <3>3. CASE call = "bench"
      <4>1. plan = <<>> /\ bundled /\ f \in Bench  BY <1>9, <2>2, <3>3 DEF PlanOk, ListedBy
      <4> QED BY <4>1
    <3>4. CASE call \in Updates
      <4>1. bundled  BY <3>4 DEF PlanOk, Updates
      <4>2. f \in Evidential(recipe) \/ (f = "failure" /\ call = "failure") \/ f = "typed"
        BY <1>2, <2>2, <3>4 DEF Allowed, Updates, ListedBy, Evidential, If
      <4>3. call = "failure" => faults > 0  BY <1>2 DEF Allowed
      <4> QED BY <4>1, <4>2, <4>3
    <3> QED BY <3>1, <3>2, <3>3, <3>4 DEF CallName, Updates
  <2> QED BY <1>7, <1>9, <2>1, <2>2
<1> QED BY <1>0, <1>3, <1>5, <1>6, <1>8, <1>9 DEF FilesOk

LEMMA CoveredStep ==
  ASSUME BundleTypeOK, Step("run"), Shape(Steady, call, recipe), ListOk', Covered
  PROVE  Covered'
<1>0. /\ UNCHANGED <<recipe, plan, call, mode, faults, bundled, declared>>
      /\ \A f \in File : disk'[f] # disk[f] => Touches(Steady[1], f)
      /\ ~Awaits({"start"})' /\ Collected \subseteq Counted'.listed
      /\ Steady[1].do # "start" => Counted.listed \subseteq Counted'.listed
      /\ \A ops : Awaits(ops) <=> Steady[1].do \in ops \/ Awaits(ops)'
      /\ disk \in [File -> Nat] /\ disk' \in [File -> Nat]
  BY Moves, NextStep, DiskBy, Counting, StepIs DEF Writer, ListOk
<1> SUFFICES ASSUME recipe.flow = "recipe", faults <= 1,
                    NEW f \in File, disk'[f] > 0, ~(faults = 1 /\ f \in Bench),
                    ~Pending(f)
             PROVE  LaterListed(Steady', 0, f) \/ f \in Counted'.listed
  BY <1>0 DEF Covered, Pending
<1>1. CASE disk[f] > 0
  <2>1. CASE LaterListed(Steady, 0, f)
    <3>1. ASSUME Steady[1].do \in {"start", "list"}, f \in Steady[1].on
          PROVE  f \in Counted'.listed
      BY <3>1, Counting
    <3> QED BY <2>1, <3>1, Moves
  <2>2. CASE ~Awaits({"start"}) /\ f \in Counted.listed
    <3>1. Steady[1].do # "start"  BY <1>0, <2>2
    <3> QED BY <1>0, <2>2, <3>1
  <2> QED BY <1>1, <2>1, <2>2 DEF Covered
<1>2. CASE ~(disk[f] > 0)
  <2>1. Touches(Steady[1], f)  BY <1>0, <1>2
  <2>2. CASE f \in Collected  BY <1>0, <2>2
  <2>3. CASE f \notin Collected
    <3>1. Steady[1].do = "write" /\ f \in Steady[1].on  BY <2>1, <2>3 DEF Touches, Collected
    <3>2. LaterListed(Steady, 1, f)  BY <2>3, <3>1, Moves DEF Fits, Suits
    <3> QED BY <3>2, Moves
  <2> QED BY <2>2, <2>3
<1> QED BY <1>1, <1>2

(* Only their own call writes the typed artifacts, and every other one     *)
(* saves a manifest that it has read, with them in it.                     *)
LEMMA TypedStep ==
  ASSUME BundleTypeOK, Step("run"), Shape(Steady, call, recipe), call \in CallName,
         Covered', TypedOk, PlanOk
  PROVE  TypedOk'
<1>1. /\ UNCHANGED <<recipe, plan, call, mode, faults, bundled, declared>>
      /\ \A f \in File : disk'[f] # disk[f] => Touches(Steady[1], f)
      /\ Shape(Steady', call, recipe) /\ Steady # <<>> /\ Steady[1].do \in Ops
      /\ disk \in [File -> Nat] /\ disk' \in [File -> Nat] /\ "typed" \in File
      /\ "typed" \notin Collected /\ "typed" \notin Bench
  BY Moves, DiskBy, Acts, StepIs DEF Writer, BundleTypeOK, File, Added, Collected, Bench
<1>2. Allowed(call, recipe, faults)  BY DEF PlanOk, CallName
<1>3. ASSUME call # "typed", recipe.flow = "recipe" PROVE disk'["typed"] = disk["typed"]
  <2>1. call # "episode"  BY <1>2, <1>3 DEF Allowed
  <2>2. "typed" \notin ListedBy(call, recipe)
    BY <1>1, <1>3, <2>1 DEF CallName, ListedBy, If
  <2>3. Steady[1].do = "write" => "typed" \notin Steady[1].on
    BY <1>1, <2>2, Moves DEF Fits, Suits
  <2> QED BY <1>1, <2>3 DEF Touches, Collected
<1>4. ASSUME recipe.flow = "recipe", faults <= 1, call # "typed", declared = "taken",
             disk'["typed"] > 0
      PROVE  "typed" \in manifest'.listed
  <2>1. "typed" \in manifest.listed  BY <1>3, <1>4 DEF TypedOk
  <2>2. CASE Steady[1].do # "save"  BY <2>1, <2>2, ManifestBy
  <2>3. CASE Steady[1].do = "save"
    <3>1. manifest' = Held /\ Held' = Held
      BY <2>3, Acts, ManifestBy DEF SaveManifest, Held
    <3>2. Counted'.listed = Held.listed  BY <3>1 DEF Counted
    <3>3. ~LaterListed(Steady', 0, "typed")
      <4>1. call # "episode"  BY <1>2, <1>4 DEF Allowed
      <4>2. "typed" \notin ListedBy(call, recipe)
        BY <1>1, <1>4, <4>1 DEF CallName, ListedBy, If
      <4>3. \A j \in 1..Len(Steady') : Suits(Steady', j, call, recipe)
        BY <1>1 DEF Shape, Fitting, Fits
      <4>4. \A j \in 0 + 1..Len(Steady') :
              Steady'[j].do \in {"start", "list"} => "typed" \notin Steady'[j].on
        BY <1>1, <4>2, <4>3 DEF Suits
      <4> QED BY <4>4 DEF LaterListed
    <3>4. ~Pending("typed")' /\ ~(faults' = 1 /\ "typed" \in Bench)
      BY <1>1, <1>4 DEF Pending
    <3>5. "typed" \in Counted'.listed  BY <1>1, <1>4, <3>3, <3>4 DEF Covered
    <3> QED BY <3>1, <3>2, <3>5
  <2> QED BY <2>2, <2>3
<1>5. ASSUME disk'["typed"] > 0 PROVE declared \in {"taken", "lost"}
  <2>1. CASE disk["typed"] > 0  BY <2>1 DEF TypedOk
  <2>2. CASE ~(disk["typed"] > 0)
    <3>1. disk'["typed"] # disk["typed"]  BY <1>5, <2>2
    <3>2. Steady[1].do = "write" /\ "typed" \in Steady[1].on
      BY <1>1, <3>1 DEF Touches, Collected
    <3>3. "typed" \in ListedBy(call, recipe)  BY <1>1, <3>2, Moves DEF Fits, Suits
    <3>4. call = "typed"
      BY <1>1, <3>3 DEF CallName, ListedBy, If, Episodic, Bench
    <3> QED BY <3>4 DEF TypedOk
  <2> QED BY <2>1, <2>2
<1> QED BY <1>1, <1>4, <1>5 DEF TypedOk

-----------------------------------------------------------------------------
(* Plans. *)
LEMMA ConcatExpects ==
  ASSUME NEW p \in Seq(CallName), NEW q \in Seq(CallName), NEW r, NEW i \in Nat, NEW f
  PROVE  /\ Expected(p, i, f, r) => Expected(p \o q, i, f, r)
         /\ Expected(q, i, f, r) => Expected(p \o q, Len(p) + i, f, r)
         /\ Expected(q, 0, f, r) /\ i <= Len(p) => Expected(p \o q, i, f, r)
<1>1. /\ p \o q \in Seq(CallName) /\ Len(p) \in Nat /\ Len(q) \in Nat
      /\ Len(p \o q) = Len(p) + Len(q)
      /\ \A j \in 1..Len(p) + Len(q) :
           (p \o q)[j] = IF j <= Len(p) THEN p[j] ELSE q[j - Len(p)]
  BY ConcatProperties, LenProperties
<1>2. ASSUME Expected(p, i, f, r) PROVE Expected(p \o q, i, f, r)
  <2>1. PICK k \in i + 1..Len(p) : f \in ListedBy(p[k], r)  BY <1>2 DEF Expected
  <2>2. k \in i + 1..Len(p \o q) /\ (p \o q)[k] = p[k]  BY <1>1
  <2> QED BY <2>1, <2>2 DEF Expected
<1>3. ASSUME NEW n \in Nat, NEW k \in n + 1..Len(q), NEW m \in Nat, m <= Len(p) + n,
             f \in ListedBy(q[k], r)
      PROVE  Expected(p \o q, m, f, r)
  <2>1. /\ Len(p) + k \in m + 1..Len(p \o q)
        /\ ~(Len(p) + k <= Len(p)) /\ (Len(p) + k) - Len(p) = k
        /\ Len(p) + k \in 1..Len(p) + Len(q)
    BY <1>1, <1>3
  <2>2. (p \o q)[Len(p) + k] = q[k]  BY <1>1, <2>1
  <2> QED BY <1>3, <2>1, <2>2 DEF Expected
<1>4. ASSUME Expected(q, i, f, r) PROVE Expected(p \o q, Len(p) + i, f, r)
  <2>1. PICK k \in i + 1..Len(q) : f \in ListedBy(q[k], r)  BY <1>4 DEF Expected
  <2>2. Len(p) + i \in Nat /\ Len(p) + i <= Len(p) + i  BY <1>1
  <2> QED BY <1>3, <2>1, <2>2
<1>5. ASSUME Expected(q, 0, f, r), i <= Len(p) PROVE Expected(p \o q, i, f, r)
  <2>1. PICK k \in 0 + 1..Len(q) : f \in ListedBy(q[k], r)  BY <1>5 DEF Expected
  <2>2. i <= Len(p) + 0 /\ 0 \in Nat  BY <1>1, <1>5
  <2> QED BY <1>3, <2>1, <2>2
<1> QED BY <1>2, <1>4, <1>5

(* The calls of a plan are allowed, benchmarks come last if at all, and    *)
(* after a collection all the evidence is written again.                   *)
Calm(p, r, n) ==
  /\ p \in Seq(CallName)
  /\ \A i \in 1..Len(p) : Allowed(p[i], r, n) /\ p[i] # "bench"
  /\ Repeats(p, r)

LEMMA ConcatCalm ==
  ASSUME NEW p, NEW q, NEW r, NEW n, Calm(p, r, n), Calm(q, r, n)
  PROVE  Calm(p \o q, r, n)
<1>0. p \in Seq(CallName) /\ q \in Seq(CallName)  BY DEF Calm
<1>1. /\ p \o q \in Seq(CallName) /\ Len(p) \in Nat /\ Len(q) \in Nat
      /\ Len(p \o q) = Len(p) + Len(q)
      /\ \A j \in 1..Len(p) + Len(q) :
           (p \o q)[j] = IF j <= Len(p) THEN p[j] ELSE q[j - Len(p)]
  BY <1>0, ConcatProperties, LenProperties
<1> SUFFICES ASSUME NEW i \in 1..Len(p \o q)
             PROVE  /\ Allowed((p \o q)[i], r, n) /\ (p \o q)[i] # "bench"
                    /\ (p \o q)[i] = "collect" =>
                         \A f \in Evidential(r) : Expected(p \o q, i, f, r)
  BY <1>1 DEF Calm, Repeats
<1>2. CASE i <= Len(p)
  <2>1. i \in 1..Len(p) /\ i \in Nat /\ (p \o q)[i] = p[i]  BY <1>1, <1>2
  <2>2. \A f : Expected(p, i, f, r) => Expected(p \o q, i, f, r)
    BY <1>0, <2>1, ConcatExpects
  <2> QED BY <2>1, <2>2 DEF Calm, Repeats
<1>3. CASE ~(i <= Len(p))
  <2>1. PICK k \in 1..Len(q) : k \in Nat /\ i = Len(p) + k
    <3>1. i - Len(p) \in 1..Len(q) /\ i = Len(p) + (i - Len(p))  BY <1>1, <1>3
    <3> QED BY <1>1, <3>1
  <2>2. (p \o q)[i] = q[k]
    <3>1. i - Len(p) = k /\ i \in 1..Len(p) + Len(q)  BY <1>1, <2>1
    <3> QED BY <1>1, <1>3, <3>1
  <2>3. \A f : Expected(q, k, f, r) => Expected(p \o q, i, f, r)
    BY <1>0, <2>1, ConcatExpects
  <2> QED BY <2>2, <2>3 DEF Calm, Repeats
<1> QED BY <1>2, <1>3

LEMMA CalmOne ==
  ASSUME NEW c \in CallName, NEW r, NEW n, Allowed(c, r, n), c \notin {"bench", "collect"}
  PROVE  /\ Calm(<<c>>, r, n)
         /\ \A f \in ListedBy(c, r) : Expected(<<c>>, 0, f, r)
<1> DEFINE p == <<c>>
<1>1. p \in Seq(CallName) /\ Len(p) = 1 /\ p[1] = c  OBVIOUS
<1> HIDE DEF p
<1>2. Calm(p, r, n)  BY <1>1 DEF Calm, Repeats
<1>3. ASSUME NEW f \in ListedBy(c, r) PROVE Expected(p, 0, f, r)
  <2>1. 1 \in 0 + 1..Len(p)  BY <1>1
  <2> QED BY <1>1, <2>1 DEF Expected
<1> QED BY <1>2, <1>3 DEF p

LEMMA CalmNone ==
  ASSUME NEW r, NEW n
  PROVE  Calm(<<>>, r, n)
BY EmptySeq DEF Calm, Repeats

LEMMA EvidenceCalm ==
  ASSUME NEW r, NEW n, r.flow # "episode"
  PROVE  /\ Calm(Evidence(r), r, n)
         /\ \A f \in Evidential(r) : Expected(Evidence(r), 0, f, r)
<1> DEFINE t == IF "typed" \in r.wants THEN <<"typed">> ELSE <<>>
           a == IF "evidence" \in r.wants THEN <<"append">> ELSE <<>>
           b == IF "agent" \in r.wants THEN <<"agent">> ELSE <<>>
           m == <<"finalize">>
<1>0. Calm(t, r, n)
  <2>1. Calm(<<"typed">>, r, n)  BY CalmOne DEF Allowed, CallName
  <2> QED BY <2>1, CalmNone
<1>1. /\ Calm(a, r, n) /\ Calm(b, r, n) /\ Calm(m, r, n)
      /\ \A f \in ListedBy("finalize", r) : Expected(m, 0, f, r)
      /\ "evidence" \in r.wants => \A f \in ListedBy("append", r) : Expected(a, 0, f, r)
      /\ "agent" \in r.wants => \A f \in ListedBy("agent", r) : Expected(b, 0, f, r)
  <2>1. Calm(m, r, n) /\ \A f \in ListedBy("finalize", r) : Expected(m, 0, f, r)
    BY CalmOne DEF Allowed, CallName
  <2>2. CASE "evidence" \in r.wants
    <3>1. a = <<"append">>  BY <2>2
    <3>2. Calm(<<"append">>, r, n) /\ \A f \in ListedBy("append", r) : Expected(<<"append">>, 0, f, r)
      BY <2>2, CalmOne DEF Allowed, CallName
    <3>3. CASE "agent" \in r.wants
      <4>1. b = <<"agent">>  BY <3>3
      <4>2. Calm(<<"agent">>, r, n) /\ \A f \in ListedBy("agent", r) : Expected(<<"agent">>, 0, f, r)
        BY <3>3, CalmOne DEF Allowed, CallName
      <4> QED BY <2>1, <3>1, <3>2, <4>1, <4>2
    <3>4. CASE "agent" \notin r.wants
      <4>1. b = <<>>  BY <3>4
      <4> QED BY <2>1, <3>1, <3>2, <3>4, <4>1, CalmNone
    <3> QED BY <3>3, <3>4
  <2>3. CASE "evidence" \notin r.wants
    <3>1. a = <<>>  BY <2>3
    <3>3. CASE "agent" \in r.wants
      <4>1. b = <<"agent">>  BY <3>3
      <4>2. Calm(<<"agent">>, r, n) /\ \A f \in ListedBy("agent", r) : Expected(<<"agent">>, 0, f, r)
        BY <3>3, CalmOne DEF Allowed, CallName
      <4> QED BY <2>1, <2>3, <3>1, <4>1, <4>2, CalmNone
    <3>4. CASE "agent" \notin r.wants
      <4>1. b = <<>>  BY <3>4
      <4> QED BY <2>1, <2>3, <3>1, <3>4, <4>1, CalmNone
    <3> QED BY <3>3, <3>4
  <2> QED BY <2>2, <2>3
<1> DEFINE g == t \o a
           h == g \o m
<1>2. Evidence(r) = (g \o m) \o b  BY DEF Evidence
<1> HIDE DEF t, a, b, m
<1>7. Calm(g, r, n)  BY <1>0, <1>1, ConcatCalm
<1>3. /\ t \in Seq(CallName) /\ a \in Seq(CallName) /\ b \in Seq(CallName)
      /\ m \in Seq(CallName) /\ g \in Seq(CallName)
  BY <1>0, <1>1, <1>7 DEF Calm
<1>8. ASSUME NEW f, Expected(a, 0, f, r) PROVE Expected(g, 0, f, r)
  BY <1>3, <1>8, ConcatExpects, LenProperties
<1> HIDE DEF g
<1>4. Calm(g \o m, r, n) /\ Calm((g \o m) \o b, r, n)  BY <1>1, <1>7, ConcatCalm
<1>5. g \o m \in Seq(CallName) /\ Len(g) \in Nat /\ Len(g \o m) \in Nat
  BY <1>3, <1>4, LenProperties DEF Calm
<1>6. ASSUME NEW f \in Evidential(r) PROVE Expected(h \o b, 0, f, r)
  <2>1. Expected(a, 0, f, r) \/ Expected(m, 0, f, r) \/ Expected(b, 0, f, r)
    <3>1. \/ f \in ListedBy("finalize", r)
          \/ "evidence" \in r.wants /\ f \in ListedBy("append", r)
          \/ "agent" \in r.wants /\ f \in ListedBy("agent", r)
      BY DEF Evidential, ListedBy, If
    <3> QED BY <1>1, <3>1
  <2>2. Expected(a, 0, f, r) \/ Expected(m, 0, f, r) => Expected(h, 0, f, r)
    BY <1>3, <1>5, <1>8, ConcatExpects
  <2>3. h \in Seq(CallName) /\ 0 <= Len(h)  BY <1>5
  <2> HIDE DEF h
  <2>4. Expected(h, 0, f, r) => Expected(h \o b, 0, f, r)  BY <1>3, <2>3, ConcatExpects
  <2>5. Expected(b, 0, f, r) => Expected(h \o b, 0, f, r)  BY <1>3, <2>3, ConcatExpects
  <2> QED BY <2>1, <2>2, <2>4, <2>5
<1> QED BY <1>2, <1>4, <1>6

(* The plan of a recipe. *)
LEMMA RecipePlan ==
  ASSUME NEW r, r.flow = "recipe"
  PROVE  /\ Calls(r) \in Seq(CallName) /\ Calls(r) # <<>> /\ Calls(r)[1] = "collect"
         /\ \A i \in 1..Len(Calls(r)) : Allowed(Calls(r)[i], r, 0)
         /\ LastBench(Calls(r)) /\ Repeats(Calls(r), r)
<1> DEFINE c == <<"collect">>
           e == Evidence(r)
           b == IF "bench" \in r.wants THEN <<"bench">> ELSE <<>>
           k == c \o e
           p == IF "preview" \in r.wants THEN k ELSE <<>>
<1>1. /\ c \in Seq(CallName) /\ Len(c) = 1 /\ c[1] = "collect"
  BY DEF CallName
<1>2. Calm(e, r, 0) /\ \A f \in Evidential(r) : Expected(e, 0, f, r)  BY EvidenceCalm
<1>3. e \in Seq(CallName)  BY <1>2 DEF Calm
<1>4. b \in Seq(CallName) /\ Len(b) <= 1 /\ Len(b) \in Nat /\ \A i \in 1..Len(b) : b[i] = "bench"
  <2>1. CASE "bench" \in r.wants
    <3>1. b = <<"bench">>  BY <2>1
    <3>2. <<"bench">> \in Seq(CallName) /\ Len(<<"bench">>) = 1 /\ <<"bench">>[1] = "bench"
      BY DEF CallName
    <3> QED BY <3>1, <3>2
  <2>2. CASE "bench" \notin r.wants
    <3>1. b = <<>> /\ <<>> \in Seq(CallName) /\ Len(<<>>) = 0  BY <2>2, EmptySeq
    <3> QED BY <3>1
  <2> QED BY <2>1, <2>2
<1>5. Calls(r) = (k \o p) \o b  BY DEF Calls
<1> HIDE DEF c, e, b
<1>6. /\ k \in Seq(CallName) /\ Len(k) = Len(c) + Len(e) /\ Len(e) \in Nat
      /\ \A j \in 1..Len(c) + Len(e) : k[j] = IF j <= Len(c) THEN c[j] ELSE e[j - Len(c)]
  BY <1>1, <1>3, ConcatProperties, LenProperties
<1>7. \A f \in Evidential(r), i \in Nat : i <= Len(c) => Expected(k, i, f, r)
  BY <1>1, <1>2, <1>3, ConcatExpects
<1>8. \A f : \A i \in Nat : Expected(e, i, f, r) => Expected(k, Len(c) + i, f, r)
  BY <1>1, <1>3, ConcatExpects
<1> HIDE DEF k
<1>9. Calm(k, r, 0) /\ k[1] = "collect" /\ Len(k) >= 1
  <2>1. ASSUME NEW i \in 1..Len(k)
        PROVE  /\ Allowed(k[i], r, 0) /\ k[i] # "bench"
               /\ k[i] = "collect" => \A f \in Evidential(r) : Expected(k, i, f, r)
    <3>1. CASE i = 1
      <4>1. k[1] = "collect" /\ \A f \in Evidential(r) : Expected(k, 1, f, r)
        BY <1>1, <1>6, <1>7
      <4> QED BY <3>1, <4>1 DEF Allowed
    <3>2. CASE i # 1
      <4>1. PICK j \in 1..Len(e) : j \in Nat /\ i = Len(c) + j
        <5>1. i - 1 \in 1..Len(e) /\ i = Len(c) + (i - 1)  BY <1>1, <1>6, <3>2
        <5> QED BY <1>6, <5>1
      <4>2. k[i] = e[j]
        <5>1. ~(i <= Len(c)) /\ i - Len(c) = j /\ i \in 1..Len(c) + Len(e)  BY <1>1, <1>6, <4>1
        <5> QED BY <1>6, <5>1
      <4> QED BY <1>2, <1>8, <4>1, <4>2 DEF Calm, Repeats
    <3> QED BY <3>1, <3>2
  <2> QED BY <1>1, <1>6, <2>1 DEF Calm, Repeats
<1>10. Calm(p, r, 0)  BY <1>9, CalmNone
<1> HIDE DEF p
<1> DEFINE q == k \o p
<1>11. Calm(q, r, 0)  BY <1>9, <1>10, ConcatCalm
<1>12. /\ q \in Seq(CallName) /\ q[1] = "collect" /\ Len(q) \in Nat /\ Len(q) >= 1
  <2>1. /\ k \in Seq(CallName) /\ p \in Seq(CallName) /\ Len(k) \in Nat /\ Len(p) \in Nat
    BY <1>9, <1>10, LenProperties DEF Calm
  <2>2. /\ q \in Seq(CallName) /\ Len(q) = Len(k) + Len(p)
        /\ \A j \in 1..Len(k) + Len(p) : q[j] = IF j <= Len(k) THEN k[j] ELSE p[j - Len(k)]
    BY <2>1, ConcatProperties
  <2> HIDE DEF q
  <2> QED BY <1>9, <2>1, <2>2
<1>13. Calls(r) = q \o b  BY <1>5
<1> HIDE DEF q
<1> DEFINE a == q \o b
<1>14. /\ a \in Seq(CallName) /\ Len(a) = Len(q) + Len(b)
       /\ \A j \in 1..Len(q) + Len(b) : a[j] = IF j <= Len(q) THEN q[j] ELSE b[j - Len(q)]
  BY <1>4, <1>12, ConcatProperties
<1>15. \A f : \A i \in Nat : Expected(q, i, f, r) => Expected(a, i, f, r)
  BY <1>4, <1>12, ConcatExpects
<1>16. Calls(r) = a  BY <1>13
<1> HIDE DEF a
<1>17. a[1] = "collect" /\ a # <<>>
  <2>1. Len(a) >= 1  BY <1>4, <1>12, <1>14
  <2>2. a # <<>>  BY <1>14, <2>1, EmptySeq
  <2> QED BY <1>4, <1>12, <1>14, <2>2
<1>18. ASSUME NEW i \in 1..Len(a)
       PROVE  /\ Allowed(a[i], r, 0) /\ (a[i] = "bench" => i = Len(a))
              /\ a[i] = "collect" => \A f \in Evidential(r) : Expected(a, i, f, r)
  <2>1. CASE i <= Len(q)
    <3>1. i \in Nat /\ i \in 1..Len(q) /\ a[i] = q[i]  BY <1>4, <1>12, <1>14, <2>1
    <3> QED BY <1>11, <1>15, <3>1 DEF Calm, Repeats
  <2>2. CASE ~(i <= Len(q))
    <3>1. i - Len(q) \in 1..Len(b) /\ a[i] = b[i - Len(q)] /\ i = Len(a)
      BY <1>4, <1>12, <1>14, <2>2
    <3>2. a[i] = "bench"  BY <1>4, <3>1
    <3> QED BY <3>1, <3>2 DEF Allowed
  <2> QED BY <2>1, <2>2
<1> QED BY <1>14, <1>16, <1>17, <1>18 DEF LastBench, Repeats

(* The plan of a recovery: it collects first, if nothing is collected, and *)
(* all the evidence is written again, and the failure.                     *)
Repairing(p, collected, n) ==
  /\ p \in Seq(CallName) /\ Len(p) >= 1
  /\ p[1] # "collect" => collected
  /\ \A i \in 1..Len(p) :
       /\ Allowed(p[i], recipe, n) /\ p[i] # "bench"
       /\ p[i] = "collect" => i = 1 /\ ~collected

LEMMA ConcatRepairs ==
  ASSUME NEW p, NEW q \in Seq(CallName), NEW collected, NEW n, Repairing(p, collected, n),
         \A i \in 1..Len(q) : Allowed(q[i], recipe, n) /\ q[i] \notin {"bench", "collect"}
  PROVE  Repairing(p \o q, collected, n)
<1>0. p \in Seq(CallName)  BY DEF Repairing
<1>1. /\ p \o q \in Seq(CallName) /\ Len(p) \in Nat \ {0} /\ Len(q) \in Nat
      /\ Len(p \o q) = Len(p) + Len(q)
      /\ \A j \in 1..Len(p) + Len(q) :
           (p \o q)[j] = IF j <= Len(p) THEN p[j] ELSE q[j - Len(p)]
  BY <1>0, ConcatProperties, LenProperties DEF Repairing
<1>2. Len(p \o q) >= 1 /\ (p \o q)[1] = p[1]  BY <1>1
<1>3. ASSUME NEW i \in 1..Len(p \o q)
      PROVE  /\ Allowed((p \o q)[i], recipe, n) /\ (p \o q)[i] # "bench"
             /\ (p \o q)[i] = "collect" => i = 1 /\ ~collected
  <2>1. CASE i <= Len(p)
    <3>1. i \in 1..Len(p) /\ (p \o q)[i] = p[i]  BY <1>1, <2>1
    <3> QED BY <3>1 DEF Repairing
  <2>2. CASE ~(i <= Len(p))
    <3>1. i - Len(p) \in 1..Len(q) /\ (p \o q)[i] = q[i - Len(p)]  BY <1>1, <2>2
    <3> QED BY <3>1
  <2> QED BY <2>1, <2>2
<1> QED BY <1>1, <1>2, <1>3 DEF Repairing

(* What a recovery appends in the end, the typed artifacts if it does. *)
LEMMA AppendingIs ==
  ASSUME recipe.flow # "episode", NEW n \in Nat, n > 0
  PROVE  /\ Appending \in Seq(CallName) /\ Appending # <<>>
         /\ \A i \in 1..Len(Appending) :
              Allowed(Appending[i], recipe, n) /\ Appending[i] \notin {"bench", "collect"}
         /\ \A f \in ListedBy("failure", recipe) : Expected(Appending, 0, f, recipe)
<1> DEFINE t == IF Wants("typed") THEN <<"typed">> ELSE <<>>
           z == <<"failure">>
<1>1. Calm(t, recipe, n)
  <2>1. Calm(<<"typed">>, recipe, n)  BY CalmOne DEF Allowed, CallName
  <2> QED BY <2>1, CalmNone
<1>2. Calm(z, recipe, n) /\ \A f \in ListedBy("failure", recipe) : Expected(z, 0, f, recipe)
  BY CalmOne DEF Allowed, CallName
<1>3. \A i \in 1..Len(t) : t[i] # "collect"
  <2>1. CASE Wants("typed")
    <3>1. t = <<"typed">>  BY <2>1
    <3>2. \A i \in 1..Len(<<"typed">>) : <<"typed">>[i] = "typed"  OBVIOUS
    <3> QED BY <3>1, <3>2
  <2>2. CASE ~Wants("typed")
    <3>1. t = <<>>  BY <2>2
    <3> QED BY <3>1, EmptySeq
  <2> QED BY <2>1, <2>2
<1>4. \A i \in 1..Len(z) : z[i] # "collect"  OBVIOUS
<1>5. Appending = t \o z  BY DEF Appending
<1> HIDE DEF t, z
<1>6. t \in Seq(CallName) /\ z \in Seq(CallName)  BY <1>1, <1>2 DEF Calm
<1>7. Calm(t \o z, recipe, n)  BY <1>1, <1>2, ConcatCalm
<1>8. /\ Len(t) \in Nat /\ Len(z) \in Nat /\ Len(t \o z) = Len(t) + Len(z)
      /\ \A j \in 1..Len(t) + Len(z) :
           (t \o z)[j] = IF j <= Len(t) THEN t[j] ELSE z[j - Len(t)]
  BY <1>6, ConcatProperties, LenProperties
<1>9. ASSUME NEW i \in 1..Len(t \o z) PROVE (t \o z)[i] # "collect"
  <2>1. CASE i <= Len(t)  BY <1>3, <1>8, <2>1
  <2>2. CASE ~(i <= Len(t))
    <3>1. i - Len(t) \in 1..Len(z) /\ (t \o z)[i] = z[i - Len(t)]  BY <1>8, <2>2
    <3> QED BY <1>4, <3>1
  <2> QED BY <2>1, <2>2
<1>10. ASSUME NEW f \in ListedBy("failure", recipe) PROVE Expected(t \o z, 0, f, recipe)
  <2>1. Expected(z, 0, f, recipe) /\ 0 <= Len(t)  BY <1>2, <1>8
  <2> QED BY <1>6, <2>1, ConcatExpects
<1> QED BY <1>5, <1>7, <1>9, <1>10, AppendingTyped DEF Calm

LEMMA RecoveryPlan ==
  ASSUME recipe.flow = "recipe", NEW collected \in BOOLEAN, NEW n \in Nat, n > 0
  PROVE  /\ Repairing(Recovery(collected), collected, n)
         /\ \A f : \/ f \in Evidential(recipe)
                   \/ f = "failure"
                   \/ ~collected /\ f \in Collected
                   => Expected(Recovery(collected), 0, f, recipe)
<1> DEFINE a == IF collected THEN <<>> ELSE <<"collect">>
           m == <<"finalize">>
           b == IF Wants("agent") THEN <<"agent">> ELSE <<>>
           z == Appending
           k == a \o m
           g == k \o b
<1>1. /\ m \in Seq(CallName) /\ Len(m) = 1 /\ m[1] = "finalize"
  BY DEF CallName
<1>23. /\ z \in Seq(CallName)
       /\ \A i \in 1..Len(z) : Allowed(z[i], recipe, n) /\ z[i] \notin {"bench", "collect"}
       /\ \A f \in ListedBy("failure", recipe) : Expected(z, 0, f, recipe)
  BY AppendingIs
<1>2. /\ <<"collect">> \in Seq(CallName) /\ Len(<<"collect">>) = 1 /\ <<"collect">>[1] = "collect"
      /\ <<"agent">> \in Seq(CallName) /\ Len(<<"agent">>) = 1 /\ <<"agent">>[1] = "agent"
      /\ <<>> \in Seq(CallName) /\ Len(<<>>) = 0
  BY DEF CallName
<1>3. b \in Seq(CallName) /\ \A i \in 1..Len(b) : b[i] = "agent" /\ Wants("agent")
  <2>1. CASE Wants("agent")  BY <1>2, <2>1
  <2>2. CASE ~Wants("agent")
    <3>1. b = <<>>  BY <2>2
    <3> QED BY <1>2, <3>1
  <2> QED BY <2>1, <2>2
<1>4. a \in Seq(CallName)  BY <1>2
<1>5. ~collected => a = <<"collect">>  OBVIOUS
<1>6. collected => a = <<>>  OBVIOUS
<1>7. Wants("agent") => b = <<"agent">>  OBVIOUS
<1>8. Recovery(collected) = g \o z  BY DEF Recovery
<1> HIDE DEF a, m, b, z
<1>9. Repairing(k, collected, n)
  <2>1. CASE collected
    <3>1. k = m  BY <1>1, <1>6, <2>1, ConcatEmptySeq
    <3>2. \A i \in 1..Len(m) : i = 1  BY <1>1
    <3> QED BY <1>1, <2>1, <3>1, <3>2 DEF Repairing, Allowed
  <2>2. CASE ~collected
    <3>1. Len(a) = 1 /\ a[1] = "collect"  BY <1>2, <1>5, <2>2
    <3>2. \A i \in 1..Len(a) : i = 1  BY <3>1
    <3>3. Repairing(a, collected, n)  BY <1>4, <2>2, <3>1, <3>2 DEF Repairing, Allowed
    <3>4. \A i \in 1..Len(m) : i = 1  BY <1>1
    <3> QED BY <1>1, <3>3, <3>4, ConcatRepairs DEF Allowed
  <2> QED BY <2>1, <2>2
<1>10. k \in Seq(CallName)  BY <1>9 DEF Repairing
<1>11. \A f : Expected(a, 0, f, recipe) \/ Expected(m, 0, f, recipe) => Expected(k, 0, f, recipe)
  <2>1. 0 <= Len(a)  BY <1>4, LenProperties
  <2> QED BY <1>1, <1>4, <2>1, ConcatExpects
<1> HIDE DEF k
<1>12. Repairing(g, collected, n)  BY <1>3, <1>9, ConcatRepairs DEF Allowed, Wants
<1>13. g \in Seq(CallName)  BY <1>12 DEF Repairing
<1>14. \A f : Expected(k, 0, f, recipe) \/ Expected(b, 0, f, recipe) => Expected(g, 0, f, recipe)
  <2>1. 0 <= Len(k)  BY <1>10, LenProperties
  <2> QED BY <1>3, <1>10, <2>1, ConcatExpects
<1> HIDE DEF g
<1>15. Repairing(g \o z, collected, n)
  BY <1>12, <1>23, ConcatRepairs
<1>16. \A f : Expected(g, 0, f, recipe) \/ Expected(z, 0, f, recipe) =>
                Expected(g \o z, 0, f, recipe)
  <2>1. 0 <= Len(g)  BY <1>13, LenProperties
  <2> QED BY <1>13, <1>23, <2>1, ConcatExpects
<1>17. ASSUME NEW p \in Seq(CallName), NEW f, Len(p) = 1, f \in ListedBy(p[1], recipe)
       PROVE  Expected(p, 0, f, recipe)
  <2>1. 1 \in 0 + 1..Len(p)  BY <1>17
  <2> QED BY <1>17, <2>1 DEF Expected
<1>18. \A f \in ListedBy("finalize", recipe) : Expected(m, 0, f, recipe)  BY <1>1, <1>17
<1>20. Wants("agent") => \A f \in ListedBy("agent", recipe) : Expected(b, 0, f, recipe)
  BY <1>2, <1>3, <1>7, <1>17
<1>21. ~collected => \A f \in ListedBy("collect", recipe) : Expected(a, 0, f, recipe)
  BY <1>2, <1>4, <1>5, <1>17
<1>22. ASSUME NEW f, f \in Evidential(recipe) \/ f = "failure" \/ (~collected /\ f \in Collected)
       PROVE  \/ f \in ListedBy("finalize", recipe) \/ f \in ListedBy("failure", recipe)
              \/ Wants("agent") /\ f \in ListedBy("agent", recipe)
              \/ ~collected /\ f \in ListedBy("collect", recipe)
  BY <1>22 DEF Evidential, ListedBy, If, Wants
<1> QED BY <1>8, <1>11, <1>14, <1>15, <1>16, <1>18, <1>20, <1>21, <1>22, <1>23

(* A plan without its first call. *)
LEMMA PlanTail ==
  ASSUME NEW p \in Seq(CallName), p # <<>>
  PROVE  /\ Tail(p) \in Seq(CallName) /\ Head(p) = p[1] /\ p[1] \in CallName
         /\ Len(p) \in Nat \ {0} /\ Len(Tail(p)) = Len(p) - 1
         /\ \A i \in 1..Len(Tail(p)) :
              i + 1 \in 2..Len(p) /\ i + 1 \in 1..Len(p) /\ Tail(p)[i] = p[i + 1]
         /\ \A r, f : \A i \in Nat : Expected(p, i + 1, f, r) => Expected(Tail(p), i, f, r)
         /\ \A r, f : Expected(p, 0, f, r) => f \in ListedBy(p[1], r) \/ Expected(Tail(p), 0, f, r)
         /\ \A r, f : Expected(p, 1, f, r) => Expected(Tail(p), 0, f, r)
<1>1. /\ Tail(p) \in Seq(CallName) /\ Len(p) \in Nat \ {0} /\ Len(Tail(p)) = Len(p) - 1
      /\ \A i \in 1..Len(p) - 1 : Tail(p)[i] = p[i + 1]
      /\ Head(p) = p[1] /\ p[1] \in CallName
  BY HeadTailProperties, EmptySeq, ElementOfSeq, LenProperties
<1>2. \A i \in 1..Len(Tail(p)) : i + 1 \in 2..Len(p) /\ i + 1 \in 1..Len(p) /\ Tail(p)[i] = p[i + 1]
  BY <1>1
<1>3. ASSUME NEW i \in Nat, NEW r, NEW f, Expected(p, i + 1, f, r) PROVE Expected(Tail(p), i, f, r)
  <2>1. PICK k \in (i + 1) + 1..Len(p) : f \in ListedBy(p[k], r)  BY <1>3 DEF Expected
  <2>2. k - 1 \in i + 1..Len(Tail(p)) /\ Tail(p)[k - 1] = p[k]  BY <1>1
  <2> QED BY <2>1, <2>2 DEF Expected
<1>4. ASSUME NEW r, NEW f, Expected(p, 1, f, r) PROVE Expected(Tail(p), 0, f, r)
  <2>1. PICK k \in 1 + 1..Len(p) : f \in ListedBy(p[k], r)  BY <1>4 DEF Expected
  <2>2. k - 1 \in 0 + 1..Len(Tail(p)) /\ Tail(p)[k - 1] = p[k]  BY <1>1
  <2> QED BY <2>1, <2>2 DEF Expected
<1>5. ASSUME NEW r, NEW f, Expected(p, 0, f, r)
      PROVE  f \in ListedBy(p[1], r) \/ Expected(p, 1, f, r)
  <2>1. PICK k \in 0 + 1..Len(p) : f \in ListedBy(p[k], r)  BY <1>5 DEF Expected
  <2>2. k = 1 \/ k \in 1 + 1..Len(p)  BY <1>1
  <2> QED BY <2>1, <2>2 DEF Expected
<1> QED BY <1>1, <1>2, <1>3, <1>4, <1>5

-----------------------------------------------------------------------------
(* What else can happen.  Nothing is to come of no program. *)
LEMMA NothingComes ==
  /\ \A ops : ~Later(<<>>, 0, ops)
  /\ \A f : ~LaterListed(<<>>, 0, f)
  /\ ~SaveNext(<<>>, 0)
<1>1. Len(<<>>) = 0 /\ 0 + 1..0 = {}  BY EmptySeq
<1> QED BY <1>1 DEF Later, LaterListed, SaveNext

LEMMA OnlyCollecting ==
  ASSUME NEW t \in Seq(Steps), NEW c, NEW r, Shape(t, c, r), c \notin {"collect", "episode"}
  PROVE  ~Later(t, 0, {"start"}) /\ ~Later(t, 0, {"refer"}) /\ ~Later(t, 0, {"index"})
<1>1. \A i \in 0 + 1..Len(t) : t[i].do \notin {"start", "refer", "index"}
  <2>1. \A i \in 1..Len(t) : t[i].do \notin {"start", "refer", "index"}
    BY DEF Shape, Fitting, Fits, Suits
  <2> QED BY <2>1
<1> QED BY <1>1 DEF Later

LEMMA SoundInit == BundleInit => Sound
<1> SUFFICES ASSUME BundleInit PROVE Sound
  OBVIOUS
<1>1. /\ call = "none" /\ Steady = <<>> /\ todo["abandoned"] = <<>> /\ mode = "running"
      /\ faults = 0 /\ bundled = FALSE /\ plan = Calls(recipe)
      /\ recipe.flow \in {"recipe", "episode"} /\ \A f \in File : disk[f] = 0
      /\ DOMAIN references.of = {} /\ DOMAIN index.of = {}
      /\ disk["typed"] = 0
  BY DEF BundleInit, Steady, Nothing, File, Added
<1>2. FilesOk  BY <1>1 DEF FilesOk, Exist
<1>3. InCall /\ Between  BY <1>1 DEF InCall, Between
<1>4. Covered  BY <1>1 DEF Covered
<1>5. PlanOk
  <2>1. CASE recipe.flow = "recipe"
    <3>1. /\ plan # <<>> /\ plan[1] = "collect" /\ LastBench(plan) /\ Repeats(plan, recipe)
          /\ \A i \in 1..Len(plan) : Allowed(plan[i], recipe, faults)
      BY <1>1, <2>1, RecipePlan
    <3> QED BY <1>1, <2>1, <3>1 DEF PlanOk
  <2>2. CASE recipe.flow = "episode"
    <3>1. plan = <<"episode", "episode">>  BY <1>1, <2>2 DEF Calls
    <3>2. \A i \in 1..Len(plan) : plan[i] = "episode"  BY <3>1
    <3>3. \A i \in 1..Len(plan) : Allowed(plan[i], recipe, faults)  BY <2>2, <3>2 DEF Allowed
    <3> QED BY <1>1, <2>2, <3>3 DEF PlanOk
  <2> QED BY <1>1, <2>1, <2>2
<1>6. TypedOk  BY <1>1 DEF TypedOk
<1> QED BY <1>1, <1>2, <1>3, <1>4, <1>5, <1>6 DEF Sound

(* A call returns: its files match, and now it counts as collected. *)
LEMMA SoundEnd ==
  ASSUME BundleTypeOK, Sound, End, ~broken'
  PROVE  Sound'
<1>1. /\ call # "none" /\ Steady = <<>> /\ call' = "none" /\ Steady' = <<>>
      /\ todo' = todo
      /\ bundled' = (bundled \/ call \in {"collect", "episode"})
      /\ mode' = IF plan = <<>> THEN "over" ELSE mode
      /\ UNCHANGED <<recipe, plan, faults, declared, draft, disk, manifest, references, index, reviewed>>
      /\ ~broken
  BY DEF End, files, Steady
<1>2. todo["abandoned"] = <<>> /\ PlanOk /\ FilesOk /\ InCall /\ Covered /\ TypedOk
  BY <1>1 DEF Sound
<1>3. NextOk /\ IdsOk /\ ListOk /\ RefsOk  BY <1>1, <1>2 DEF InCall
<1>4. /\ Counted = manifest /\ Counted' = manifest
      /\ \A ops : ~Awaits(ops) /\ ~Awaits(ops)'
      /\ \A f : ~LaterListed(Steady, 0, f)
  BY <1>1, NothingComes DEF Counted, Awaits
<1>5. Matching
  BY <1>1, <1>3, <1>4 DEF Matching, NextOk, IdsOk, RefsOk
<1>6. Collected \subseteq manifest.listed /\ \A f \in ListedBy(call, recipe) : f \in manifest.listed
  BY <1>3, <1>4 DEF ListOk
<1>7. Allowed(call, recipe, faults) /\ call \in CallName /\ recipe \in Recipes
  BY <1>1, <1>2 DEF PlanOk, BundleTypeOK
<1>8. PlanOk'
  <2>1. mode # "over"  BY <1>1, <1>2 DEF PlanOk
  <2>2. mode' = "over" => plan = <<>>  BY <1>1, <2>1
  <2>3. recipe.flow = "recipe" => bundled'  BY <1>1, <1>2, <1>7 DEF PlanOk
  <2>4. recipe.flow = "recipe" /\ faults > 0 => \A i \in 1..Len(plan) : plan[i] # "collect"
    BY <1>1, <1>2 DEF PlanOk
  <2> QED BY <1>1, <1>2, <2>1, <2>2, <2>3, <2>4 DEF PlanOk
<1>9. FilesOk'  BY <1>1, <1>2, <1>6 DEF FilesOk
<1>10. Between'
  <2>1. Matching' /\ references.whole /\ AsOn(references.of, disk)
        /\ index.whole /\ ButOn(index.of, disk)
    BY <1>1, <1>5 DEF Matching, AsOn, ButOn
  <2>2. ASSUME recipe.flow = "recipe", disk["summaries"] = 0, disk["benchmarks"] = 0
        PROVE  DigestMatches'
    <3>1. call # "bench"
      <4>1. call = "bench" => "benchmarks" \in manifest.listed  BY <1>6 DEF ListedBy, Bench
      <4>2. "benchmarks" \in manifest.listed => disk["benchmarks"] > 0
        BY <1>5 DEF Matching, Fresh, Exist
      <4> QED BY <2>2, <4>1, <4>2
    <3>2. call \in Updates \cup {"collect"}
      BY <1>7, <2>2, <3>1 DEF Allowed, CallName, Updates
    <3>3. manifest.id = manifest.listed  BY <1>3, <1>4, <3>2 DEF ListOk
    <3> QED BY <1>1, <3>3 DEF DigestMatches
  <2>3. recipe.flow = "episode" => Episodic(recipe) \subseteq manifest.listed
    BY <1>6, <1>7 DEF Allowed, ListedBy
  <2> QED BY <1>1, <2>1, <2>2, <2>3 DEF Between
<1>11. Covered'  BY <1>1, <1>2, <1>4 DEF Covered, Pending
<1>12. InCall'  BY <1>1 DEF InCall
<1>13. TypedOk'
  <2>1. call = "typed" => "typed" \in manifest.listed  BY <1>6 DEF ListedBy
  <2> QED BY <1>1, <1>2, <2>1 DEF TypedOk
<1> QED BY <1>1, <1>2, <1>8, <1>9, <1>10, <1>11, <1>12, <1>13 DEF Sound

(* A step fails: what the plan is after it. *)
LEMMA FailedPlan ==
  ASSUME BundleTypeOK, PlanOk, StepFails
  PROVE  /\ call = "none" => recipe.flow = "recipe" /\ bundled
         /\ mode # "over" /\ todo' = [todo EXCEPT !["run"] = <<>>]
         /\ call' = "none" /\ faults' = faults + 1 /\ faults \in Nat
         /\ UNCHANGED <<recipe, bundled, draft, disk, manifest, references, index, reviewed>>
         /\ recipe.flow = "episode" => plan' = plan
         /\ recipe.flow = "recipe" => mode' # "running"
         /\ recipe.flow = "recipe" /\ mode = "running" =>
              faults = 0 /\ plan' = Recovery(bundled) /\ bundled \in BOOLEAN
         /\ recipe.flow = "recipe" /\ mode # "running" =>
              faults > 0 /\ plan' \in {Appending, <<>>} /\ (plan' # <<>> => bundled)
         /\ declared' = (IF call = "typed" THEN "lost" ELSE declared)
         /\ mode' = "over" <=> plan' = <<>>
         /\ recipe.flow \in {"recipe", "episode"} /\ mode' \in {"running", "recovering", "over"}
<1>0. ASSUME call = "none" PROVE recipe.flow = "recipe" /\ bundled /\ plan # <<>>
  <2>1. plan # <<>> /\ plan \in Seq(CallName) /\ Head(plan) = "typed"
    BY <1>0 DEF StepFails, Upcoming, BundleTypeOK
  <2>2. plan[1] = "typed" /\ 1 \in 1..Len(plan)  BY <2>1, PlanTail
  <2>3. Allowed(plan[1], recipe, faults)  BY <2>2 DEF PlanOk
  <2>4. recipe.flow = "recipe"  BY <2>2, <2>3 DEF Allowed, BundleTypeOK, Recipes
  <2>5. bundled  BY <1>0, <2>1, <2>2, <2>4 DEF PlanOk
  <2> QED BY <2>1, <2>4, <2>5
<1>1. /\ todo' = [todo EXCEPT !["run"] = <<>>] /\ Caught
      /\ recipe.flow \in {"recipe", "episode"} /\ faults \in Nat /\ bundled \in BOOLEAN
      /\ mode \in {"running", "recovering", "over"}
  BY DEF StepFails, BundleTypeOK, Recipes
<1>2. /\ call' = "none" /\ faults' = faults + 1
      /\ UNCHANGED <<recipe, bundled, draft, disk, manifest, references, index, reviewed>>
      /\ declared' = (IF call = "typed" THEN "lost" ELSE declared)
      /\ mode' = IF plan' = <<>> THEN "over"
                 ELSE IF recipe.flow = "recipe" THEN "recovering" ELSE mode
      /\ recipe.flow = "episode" => plan' = plan
      /\ recipe.flow = "recipe" =>
           plan' = CASE mode = "running" -> Recovery(bundled)
                     [] mode = "recovering" /\ call \in {"finalize", "agent"} -> Appending
                     [] OTHER -> <<>>
  BY <1>1 DEF Caught, files
<1>3. mode # "over"  BY <1>0 DEF PlanOk, StepFails
<1>4. ASSUME recipe.flow = "recipe", mode = "running"
      PROVE  faults = 0 /\ plan' = Recovery(bundled)
  BY <1>2, <1>4 DEF PlanOk
<1>5. ASSUME recipe.flow = "recipe", mode # "running"
      PROVE  faults > 0 /\ plan' \in {Appending, <<>>} /\ (plan' # <<>> => bundled)
  <2>1. mode = "recovering"  BY <1>1, <1>3, <1>5
  <2>2. CASE call \in {"finalize", "agent"}
    <3>1. plan' = Appending  BY <1>2, <1>5, <2>1, <2>2
    <3> QED BY <1>5, <2>1, <2>2, <3>1 DEF PlanOk
  <2>3. CASE call \notin {"finalize", "agent"}
    <3>1. plan' = <<>>  BY <1>2, <1>5, <2>1, <2>3
    <3> QED BY <1>5, <2>1, <3>1 DEF PlanOk
  <2> QED BY <2>2, <2>3
<1>6. mode' = "over" <=> plan' = <<>>  BY <1>2, <1>3
<1>7. recipe.flow = "recipe" => mode' # "running"  BY <1>2
<1>8. mode' \in {"running", "recovering", "over"}  BY <1>1, <1>2
<1> QED BY <1>0, <1>1, <1>2, <1>3, <1>4, <1>5, <1>6, <1>7, <1>8

(* What it leaves is repaired by the calls to come, or a step has failed   *)
(* before.                                                                 *)
LEMMA SoundFails ==
  ASSUME BundleTypeOK, Sound, StepFails, ~broken'
  PROVE  Sound'
<1>1. /\ ~broken /\ ~(call = "collect" /\ bundled) /\ broken \in BOOLEAN
  <2>1. broken' = (broken \/ (call = "collect" /\ bundled))  BY DEF StepFails, Caught
  <2> QED BY <2>1 DEF BundleTypeOK
<1>2. /\ todo["abandoned"] = <<>> /\ PlanOk /\ FilesOk /\ InCall /\ Between /\ Covered /\ TypedOk
  BY <1>1 DEF Sound
<1>3. /\ call = "none" => recipe.flow = "recipe" /\ bundled
      /\ mode # "over" /\ todo' = [todo EXCEPT !["run"] = <<>>]
      /\ call' = "none" /\ faults' = faults + 1 /\ faults \in Nat
      /\ UNCHANGED <<recipe, bundled, draft, disk, manifest, references, index, reviewed>>
      /\ recipe.flow = "episode" => plan' = plan
      /\ recipe.flow = "recipe" => mode' # "running"
      /\ recipe.flow = "recipe" /\ mode = "running" =>
           faults = 0 /\ plan' = Recovery(bundled) /\ bundled \in BOOLEAN
      /\ recipe.flow = "recipe" /\ mode # "running" =>
           faults > 0 /\ plan' \in {Appending, <<>>} /\ (plan' # <<>> => bundled)
      /\ declared' = (IF call = "typed" THEN "lost" ELSE declared)
      /\ mode' = "over" <=> plan' = <<>>
      /\ recipe.flow \in {"recipe", "episode"}
  BY <1>2, FailedPlan
<1>4. /\ Steady' = <<>> /\ todo'["abandoned"] = <<>>
      /\ faults' > 0 /\ (mode # "running" /\ recipe.flow = "recipe" => faults' > 1)
  BY <1>2, <1>3 DEF Steady, BundleTypeOK, Writer
<1>5. /\ Counted' = manifest /\ \A ops : ~Awaits(ops)'
  BY <1>3, <1>4, NothingComes DEF Counted, Awaits
<1>6. /\ call # "none" =>
           Shape(Steady, call, recipe) /\ RefsOk /\ Allowed(call, recipe, faults)
      /\ Steady \in Seq(Steps)
  BY <1>2, <1>3 DEF InCall, PlanOk, Steady, BundleTypeOK, Writer
<1>7. recipe.flow = "episode" => ~bundled
  BY <1>2, <1>3, <1>6 DEF Allowed, PlanOk
<1>8. ASSUME recipe.flow = "recipe"
      PROVE  /\ mode = "running" =>
                  /\ Repairing(plan', bundled, faults') /\ plan' # <<>>
                  /\ \A f : \/ f \in Evidential(recipe)
                            \/ f = "failure"
                            \/ ~bundled /\ f \in Collected
                            => Expected(plan', 0, f, recipe)
             /\ mode # "running" => \A i \in 1..Len(plan') :
                  Allowed(plan'[i], recipe, faults') /\ plan'[i] \notin {"bench", "collect"}
  <2>1. CASE mode = "running"
    <3>1. faults' \in Nat /\ faults' > 0  BY <1>3, <1>4
    <3>2. /\ Repairing(Recovery(bundled), bundled, faults')
          /\ \A f : \/ f \in Evidential(recipe)
                    \/ f = "failure"
                    \/ ~bundled /\ f \in Collected
                    => Expected(Recovery(bundled), 0, f, recipe)
      BY <1>3, <1>8, <2>1, <3>1, RecoveryPlan
    <3>3. Recovery(bundled) # <<>>  BY <3>2, EmptySeq DEF Repairing
    <3> QED BY <1>3, <1>8, <2>1, <3>2, <3>3
  <2>2. CASE mode # "running"
    <3>1. CASE plan' = Appending
      <4>1. faults' \in Nat /\ faults' > 0 /\ recipe.flow # "episode"  BY <1>3, <1>4, <1>8
      <4>2. \A i \in 1..Len(Appending) :
              Allowed(Appending[i], recipe, faults') /\ Appending[i] \notin {"bench", "collect"}
        BY <4>1, AppendingIs
      <4> QED BY <2>2, <3>1, <4>2
    <3>2. CASE plan' = <<>>
      <4>1. \A i \in 1..Len(<<>>) : FALSE  BY EmptySeq
      <4> QED BY <2>2, <3>2, <4>1
    <3> QED BY <1>3, <1>8, <2>2, <3>1, <3>2
  <2> QED BY <2>1, <2>2
<1>9. PlanOk'
  <2>1. \A i \in 1..Len(plan') : Allowed(plan'[i], recipe, faults')
    <3>1. CASE recipe.flow = "recipe" /\ mode = "running"  BY <1>8, <3>1 DEF Repairing
    <3>2. CASE recipe.flow = "recipe" /\ mode # "running"  BY <1>3, <1>8, <3>2
    <3>3. CASE recipe.flow = "episode"
      <4>1. \A i \in 1..Len(plan) : Allowed(plan[i], recipe, faults)  BY <1>2 DEF PlanOk
      <4> QED BY <1>3, <3>3, <4>1 DEF Allowed
    <3> QED BY <1>3, <3>1, <3>2, <3>3
  <2>2. ASSUME recipe.flow = "recipe"
        PROVE  /\ LastBench(plan')
               /\ \A i \in 1..Len(plan') : plan'[i] = "collect" => i = 1 /\ ~bundled
               /\ plan' # <<>> /\ plan'[1] # "collect" => bundled
               /\ faults' <= 1 => plan' # <<>>
    <3>1. CASE mode = "running"  BY <1>8, <2>2, <3>1 DEF Repairing, LastBench
    <3>2. CASE mode # "running"
      <4>1. ~(faults' <= 1)  BY <1>3, <1>4, <2>2, <3>2
      <4>2. LastBench(plan') /\ \A i \in 1..Len(plan') : plan'[i] # "collect"
        BY <1>8, <2>2, <3>2 DEF LastBench
      <4> QED BY <1>3, <2>2, <3>2, <4>1, <4>2
    <3> QED BY <3>1, <3>2
  <2>3. faults' # 0  BY <1>3
  <2> QED BY <1>3, <1>4, <2>1, <2>2, <2>3 DEF PlanOk
<1>10. FilesOk'  BY <1>2, <1>3, <1>4 DEF FilesOk
<1>11. Between'
  <2> SUFFICES ASSUME bundled, recipe.flow = "recipe"
               PROVE  /\ references.whole /\ AsOn(references.of, disk)
                      /\ index.whole /\ ButOn(index.of, disk) /\ ~Clean'
    BY <1>3, <1>7 DEF Between
  <2>1. ASSUME call # "none"
        PROVE  /\ references.whole /\ AsOn(references.of, disk)
               /\ index.whole /\ ButOn(index.of, disk)
    <3>1. call \notin {"collect", "episode"}  BY <1>1, <1>6, <2>1 DEF Allowed
    <3>2. ~Awaits({"refer"}) /\ ~Awaits({"index"})
      BY <1>6, <2>1, <3>1, OnlyCollecting DEF Awaits
    <3> QED BY <1>6, <2>1, <3>2 DEF RefsOk
  <2>2. ASSUME call = "none"
        PROVE  /\ references.whole /\ AsOn(references.of, disk)
               /\ index.whole /\ ButOn(index.of, disk)
    BY <1>2, <2>2 DEF Between
  <2>3. ~Clean'
    <3>1. CASE mode = "running"
      <4>1. plan' # <<>>  BY <1>8, <3>1
      <4>2. mode' # "over" /\ faults' # 0 /\ recipe'.flow # "episode"  BY <1>3, <1>4, <4>1
      <4> QED BY <4>2 DEF Clean
    <3>2. CASE mode # "running"  BY <1>3, <1>4, <3>2 DEF Clean
    <3> QED BY <3>1, <3>2
  <2> QED BY <2>1, <2>2, <2>3
<1>12. Covered'
  <2> SUFFICES ASSUME recipe.flow = "recipe", faults' <= 1,
                      NEW f \in File, disk[f] > 0, ~(faults' = 1 /\ f \in Bench),
                      ~Pending(f)'
               PROVE  f \in manifest.listed
    BY <1>3, <1>5 DEF Covered
  <2>1. mode = "running" /\ faults' = 1 /\ faults = 0  BY <1>3, <1>4
  <2>5. CASE f = "typed"
    <3>1. declared' = "taken"  BY <2>5 DEF Pending
    <3>2. call # "typed" /\ declared = "taken"  BY <1>3, <3>1
    <3> QED BY <1>2, <2>1, <2>5, <3>2 DEF TypedOk
  <2>6. ASSUME f # "typed" PROVE ~Expected(plan', 0, f, recipe)
    BY <1>3, <2>6 DEF Pending
  <2> SUFFICES ASSUME f # "typed" PROVE f \in manifest.listed
    BY <2>5
  <2>2. f \notin Evidential(recipe) /\ f # "failure" /\ f \notin Bench
    BY <1>8, <2>1, <2>6
  <2>3. f \in Collected  BY <1>2, <2>2 DEF FilesOk
  <2>4. bundled  BY <1>8, <2>1, <2>3, <2>6
  <2> QED BY <1>2, <2>3, <2>4 DEF FilesOk
<1>13. InCall'  BY <1>3 DEF InCall
<1>14. TypedOk'  BY <1>2, <1>3 DEF TypedOk
<1> QED BY <1>4, <1>9, <1>10, <1>11, <1>12, <1>13, <1>14 DEF Sound

(* What is left of a recipe's plan when its first call is taken from it. *)
LEMMA PlanOfTail ==
  ASSUME PlanOk, plan \in Seq(CallName), plan # <<>>, recipe.flow = "recipe", call = "none"
  PROVE  /\ plan[1] = "bench" => Tail(plan) = <<>>
         /\ LastBench(Tail(plan))
         /\ faults = 0 => Repeats(Tail(plan), recipe)
         /\ faults > 0 => \A i \in 1..Len(Tail(plan)) : Tail(plan)[i] # "collect"
<1>1. /\ Len(plan) \in Nat \ {0} /\ Len(Tail(plan)) = Len(plan) - 1
      /\ Tail(plan) \in Seq(CallName)
      /\ \A i \in 1..Len(Tail(plan)) :
           i + 1 \in 2..Len(plan) /\ i + 1 \in 1..Len(plan) /\ Tail(plan)[i] = plan[i + 1]
      /\ \A r, f : \A i \in Nat : Expected(plan, i + 1, f, r) => Expected(Tail(plan), i, f, r)
  BY PlanTail
<1>2. /\ \A i \in 1..Len(plan) : plan[i] = "bench" => i = Len(plan)
      /\ faults = 0 => \A i \in 1..Len(plan) :
           plan[i] = "collect" => \A f \in Evidential(recipe) : Expected(plan, i, f, recipe)
      /\ faults > 0 => \A i \in 1..Len(plan) : plan[i] = "collect" => i = 1
  BY DEF PlanOk, LastBench, Repeats
<1>3. ASSUME plan[1] = "bench" PROVE Tail(plan) = <<>>
  <2>1. 1 \in 1..Len(plan)  BY <1>1
  <2>2. Len(plan) = 1  BY <1>2, <1>3, <2>1
  <2>3. Len(Tail(plan)) = 0  BY <1>1, <2>2
  <2> QED BY <1>1, <2>3, EmptySeq
<1>4. LastBench(Tail(plan))
  <2> SUFFICES ASSUME NEW i \in 1..Len(Tail(plan)), Tail(plan)[i] = "bench"
               PROVE  i = Len(Tail(plan))
    BY DEF LastBench
  <2>1. i + 1 \in 1..Len(plan) /\ plan[i + 1] = "bench" /\ i \in Nat  BY <1>1
  <2>2. i + 1 = Len(plan)  BY <1>2, <2>1
  <2>3. i = Len(plan) - 1  BY <2>1, <2>2
  <2> QED BY <1>1, <2>3
<1>5. ASSUME faults = 0 PROVE Repeats(Tail(plan), recipe)
  <2> SUFFICES ASSUME NEW i \in 1..Len(Tail(plan)), Tail(plan)[i] = "collect",
                      NEW f \in Evidential(recipe)
               PROVE  Expected(Tail(plan), i, f, recipe)
    BY DEF Repeats
  <2>1. i \in Nat /\ i + 1 \in 1..Len(plan) /\ plan[i + 1] = "collect"  BY <1>1
  <2>2. Expected(plan, i + 1, f, recipe)  BY <1>2, <1>5, <2>1
  <2> QED BY <1>1, <2>1, <2>2
<1>6. ASSUME faults > 0, NEW i \in 1..Len(Tail(plan)) PROVE Tail(plan)[i] # "collect"
  <2>1. i + 1 \in 1..Len(plan) /\ i + 1 # 1 /\ Tail(plan)[i] = plan[i + 1]  BY <1>1
  <2> QED BY <1>2, <1>6, <2>1
<1> QED BY <1>3, <1>4, <1>5, <1>6

(* A call begins: what it has to find is what the ones before it left. *)
LEMMA SoundBegin ==
  ASSUME BundleTypeOK, Sound, Begin, ~broken'
  PROVE  Sound'
<1> DEFINE c == plan[1]
           t == Program(plan[1])
<1>1. /\ plan \in Seq(CallName) /\ plan # <<>> /\ Steady = <<>> /\ call = "none"
      /\ call' = Head(plan) /\ plan' = Tail(plan)
      /\ todo' = [todo EXCEPT !["run"] = Program(Head(plan))]
      /\ bundled' = (bundled /\ recipe.flow = "recipe")
      /\ declared' = CASE Head(plan) = "typed" -> "taken"
                         [] Head(plan) = "collect" /\ declared = "taken" -> "lost"
                         [] OTHER -> declared
      /\ UNCHANGED <<recipe, mode, faults, draft, disk, manifest, references, index, reviewed>>
      /\ ~broken /\ recipe.flow \in {"recipe", "episode"} /\ bundled \in BOOLEAN
      /\ faults \in Nat /\ disk \in [File -> Nat]
  BY DEF Begin, Idle, files, Steady, BundleTypeOK, Recipes
<1>2. todo["abandoned"] = <<>> /\ PlanOk /\ FilesOk /\ Between /\ Covered /\ TypedOk
  BY <1>1 DEF Sound
<1>3. /\ Tail(plan) \in Seq(CallName) /\ Head(plan) = c /\ c \in CallName
      /\ Len(plan) \in Nat \ {0} /\ Len(Tail(plan)) = Len(plan) - 1
      /\ \A i \in 1..Len(Tail(plan)) :
           i + 1 \in 2..Len(plan) /\ i + 1 \in 1..Len(plan) /\ Tail(plan)[i] = plan[i + 1]
      /\ \A r, f : \A i \in Nat : Expected(plan, i + 1, f, r) => Expected(Tail(plan), i, f, r)
      /\ \A r, f : Expected(plan, 0, f, r) =>
                     f \in ListedBy(c, r) \/ Expected(Tail(plan), 0, f, r)
      /\ \A r, f : Expected(plan, 1, f, r) => Expected(Tail(plan), 0, f, r)
  BY <1>1, PlanTail
<1>4. Good(t, c, recipe)  BY <1>3, ProgramGood
<1>5. /\ call' = c /\ Steady' = t /\ todo'["abandoned"] = <<>>
  BY <1>1, <1>2, <1>3 DEF Steady, BundleTypeOK, Writer
<1>6. t \in Seq(Steps) /\ Shape(t, c, recipe) /\ Opens(t) /\ Comes(t, c, recipe)
  BY <1>4 DEF Good
<1> HIDE DEF t
<1>7. 1 \in 1..Len(plan) /\ Allowed(c, recipe, faults) /\ mode # "over"
  <2>1. 1 \in 1..Len(plan)  BY <1>3
  <2> QED BY <1>1, <1>2, <2>1 DEF PlanOk
<1> HIDE DEF c
<1>8. c \notin {"collect", "episode"} =>
        /\ bundled /\ bundled' /\ recipe.flow = "recipe"
        /\ ~Later(t, 0, {"start"}) /\ ~Later(t, 0, {"refer"}) /\ ~Later(t, 0, {"index"})
        /\ Counted' = manifest
  <2> SUFFICES ASSUME c \notin {"collect", "episode"}
               PROVE  /\ bundled /\ bundled' /\ recipe.flow = "recipe"
                      /\ ~Later(t, 0, {"start"}) /\ ~Later(t, 0, {"refer"})
                      /\ ~Later(t, 0, {"index"}) /\ Counted' = manifest
    OBVIOUS
  <2>1. recipe.flow = "recipe"  BY <1>1, <1>7 DEF Allowed
  <2>2. bundled  BY <1>1, <1>2, <2>1 DEF PlanOk, c
  <2>3. ~Later(t, 0, {"start"}) /\ ~Later(t, 0, {"refer"}) /\ ~Later(t, 0, {"index"})
    BY <1>6, OnlyCollecting
  <2>4. Counted' = manifest  BY <1>1, <1>5, <1>6 DEF Comes, Counted
  <2> QED BY <1>1, <2>1, <2>2, <2>3, <2>4
<1>9. c \in {"collect", "episode"} => \A ops : "start" \in ops => Later(t, 0, ops)
  <2>1. Len(t) \in Nat \ {0}  BY <1>6, TailIs DEF Opens
  <2>2. 1 \in 0 + 1..Len(t)  BY <2>1
  <2> QED BY <1>6, <2>2 DEF Comes, Later
<1>10. NextOk'  BY <1>5, <1>6 DEF NextOk, Opens
<1>11. ASSUME c = "bench" PROVE Matching
  BY <1>1, <1>2, <1>7, <1>8, <1>11 DEF Allowed, Between, Clean
<1>12. IdsOk'
  <2>1. CASE c \in {"collect", "episode"}  BY <1>5, <1>9, <2>1 DEF IdsOk, Awaits
  <2>2. CASE c \in Updates
    <3>1. \A a, b : a \in b /\ Later(t, 0, {a}) => Later(t, 0, b)  BY DEF Later
    <3>2. Later(t, 0, {"name"})  BY <1>6, <2>2 DEF Comes
    <3>3. /\ Later(t, 0, {"review", "name", "start"})
          /\ Later(t, 0, {"refer", "rerefer", "name", "start"})
          /\ Later(t, 0, {"index", "reindex", "name", "start"})
      BY <3>1, <3>2
    <3> QED BY <1>5, <3>3 DEF IdsOk, Awaits
  <2>3. CASE c = "bench"
    <3>1. Matching /\ Counted' = manifest  BY <1>8, <1>11, <2>3
    <3> QED BY <1>1, <3>1 DEF Matching, IdsOk
  <2> QED BY <1>3, <2>1, <2>2, <2>3 DEF CallName, Updates
<1>13. ListOk'
  <2>1. \A f \in ListedBy(c, recipe) : LaterListed(t, 0, f)  BY <1>6 DEF Comes
  <2>2. CASE c \in {"collect", "episode"}
    BY <1>1, <1>5, <1>9, <2>1, <2>2 DEF ListOk, Awaits
  <2>3. CASE c \notin {"collect", "episode"}
    <3>1. Collected \subseteq Counted'.listed  BY <1>2, <1>8, <2>3 DEF FilesOk
    <3>2. ASSUME c \in Updates PROVE Later(t, 0, {"name", "start", "list"})
      <4>1. Later(t, 0, {"name"})  BY <1>6, <3>2 DEF Comes
      <4> QED BY <4>1 DEF Later
    <3> QED BY <1>1, <1>5, <2>1, <2>3, <3>1, <3>2 DEF ListOk, Awaits
  <2> QED BY <2>2, <2>3
<1>14. RefsOk'
  <2>1. CASE c \in {"collect", "episode"}
    <3>1. Later(t, 0, {"refer"}) /\ Later(t, 0, {"index"})  BY <1>6, <2>1 DEF Comes
    <3>2. Later(t, 0, {"refer", "rerefer", "clear", "index", "reindex"})
      BY <3>1 DEF Later
    <3> QED BY <1>5, <3>1, <3>2 DEF RefsOk, Awaits
  <2>2. CASE c \notin {"collect", "episode"}
    <3>1. references.whole /\ AsOn(references.of, disk) /\ index.whole /\ ButOn(index.of, disk)
      BY <1>1, <1>2, <1>8, <2>2 DEF Between
    <3>2. CASE c \in Updates
      <4>1. Later(t, 0, {"rerefer"})  BY <1>6, <3>2 DEF Comes
      <4>2. Later(t, 0, {"refer", "rerefer", "clear", "index", "reindex"})
        BY <4>1 DEF Later
      <4> QED BY <1>1, <1>5, <3>1, <4>2 DEF RefsOk, Awaits, AsOn, ButOn
    <3>3. CASE c = "bench"
      <4>1. AsOn(index.of, disk)  BY <1>11, <3>3 DEF Matching
      <4> QED BY <1>1, <3>1, <4>1 DEF RefsOk, AsOn, ButOn
    <3> QED BY <1>3, <2>2, <3>2, <3>3 DEF CallName, Updates
  <2> QED BY <2>1, <2>2
<1>15. InCall'  BY <1>1, <1>5, <1>6, <1>10, <1>12, <1>13, <1>14 DEF InCall
<1>16. FilesOk'  BY <1>1, <1>2 DEF FilesOk
<1>17. Between'
  <2>1. c # "none"  BY <1>3 DEF CallName
  <2> QED BY <1>5, <2>1 DEF Between
<1>18. PlanOk'
  <2>1. \A i \in 1..Len(Tail(plan)) : Allowed(Tail(plan)[i], recipe, faults)
    BY <1>2, <1>3 DEF PlanOk
  <2>2. c # "none" /\ (c = "episode" => ~bundled')  BY <1>1, <1>3, <1>7 DEF CallName, Allowed
  <2>3. recipe.flow = "recipe" =>
          /\ c = "bench" => Tail(plan) = <<>>
          /\ LastBench(Tail(plan))
          /\ faults = 0 => Repeats(Tail(plan), recipe)
          /\ faults > 0 => \A i \in 1..Len(Tail(plan)) : Tail(plan)[i] # "collect"
    BY <1>1, <1>2, PlanOfTail DEF c
  <2>4. /\ recipe.flow = "recipe" /\ mode = "running" => faults = 0
        /\ recipe.flow = "recipe" /\ mode = "recovering" => faults > 0
    BY <1>2 DEF PlanOk
  <2>5. recipe.flow = "recipe" => c # "episode"  BY <1>7 DEF Allowed
  <2> QED BY <1>1, <1>5, <1>7, <1>8, <2>1, <2>2, <2>3, <2>4, <2>5, <1>3 DEF PlanOk
<1>19. Covered'
  <2> SUFFICES ASSUME recipe.flow = "recipe", faults <= 1,
                      NEW f \in File, disk[f] > 0, ~(faults = 1 /\ f \in Bench),
                      ~Pending(f)'
               PROVE  \/ LaterListed(t, 0, f)
                      \/ ~Later(t, 0, {"start"}) /\ f \in Counted'.listed
    BY <1>1, <1>5 DEF Covered, Awaits
  <2>1. CASE f \in ListedBy(c, recipe)  BY <1>6, <2>1 DEF Comes
  <2>3. CASE f \notin ListedBy(c, recipe) /\ f = "typed"
    <3>1. c # "typed" /\ c # "episode"  BY <1>7, <2>3 DEF ListedBy, Allowed
    <3>2. declared' = "taken"  BY <2>3 DEF Pending
    <3>3. c # "collect" /\ declared = "taken"  BY <1>1, <1>3, <3>1, <3>2
    <3>4. "typed" \in manifest.listed  BY <1>1, <1>2, <2>3, <3>3 DEF TypedOk
    <3> QED BY <1>8, <2>3, <3>1, <3>3, <3>4
  <2>2. CASE f \notin ListedBy(c, recipe) /\ f # "typed"
    <3>0. ~Expected(Tail(plan), 0, f, recipe)  BY <1>1, <2>2 DEF Pending
    <3>1. ~Expected(plan, 0, f, recipe) /\ ~Expected(plan, 1, f, recipe)
      BY <1>3, <2>2, <3>0
    <3>2. f \in manifest.listed
      <4>1. Counted = manifest /\ ~LaterListed(Steady, 0, f)
        BY <1>1, NothingComes DEF Counted
      <4> QED BY <1>2, <2>2, <3>1, <4>1 DEF Covered, Pending
    <3>3. c # "episode"  BY <1>7 DEF Allowed
    <3>4. CASE c = "collect"
      <4>1. f \notin Collected  BY <2>2, <3>4 DEF ListedBy
      <4>2. faults > 0 => ~bundled  BY <1>2, <1>7, <3>4 DEF PlanOk, c
      <4>3. faults = 0 => f \notin Evidential(recipe)
        BY <1>2, <1>7, <3>1, <3>4 DEF PlanOk, Repeats, c
      <4> QED BY <1>1, <1>2, <2>2, <4>1, <4>2, <4>3 DEF FilesOk
    <3>5. CASE c # "collect"  BY <1>8, <3>2, <3>3, <3>5
    <3> QED BY <3>4, <3>5
  <2> QED BY <2>1, <2>2, <2>3
<1>20. TypedOk'
  <2>1. disk' = disk /\ manifest' = manifest /\ recipe' = recipe /\ faults' = faults  BY <1>1
  <2>2. c = "typed" => declared' = "taken"  BY <1>1, <1>3
  <2>3. declared \in {"taken", "lost"} => declared' \in {"taken", "lost"}  BY <1>1
  <2>4. c # "typed" /\ declared' = "taken" => declared = "taken"  BY <1>1, <1>3
  <2> QED BY <1>1, <1>2, <1>5, <2>1, <2>2, <2>3, <2>4 DEF TypedOk
<1> QED BY <1>5, <1>15, <1>16, <1>17, <1>18, <1>19, <1>20 DEF Sound

(* A step of the call under way. *)
LEMMA SoundStep ==
  ASSUME BundleTypeOK, Sound, Step("run"), ~broken'
  PROVE  Sound'
<1>1. /\ UNCHANGED <<recipe, plan, call, mode, faults, bundled, declared, broken>> /\ ~broken
      /\ Steady # <<>> /\ todo'["abandoned"] = todo["abandoned"]
  BY StepIs DEF Writer, Steady
<1>2. todo["abandoned"] = <<>> /\ PlanOk /\ FilesOk /\ InCall /\ Covered /\ TypedOk
  BY <1>1 DEF Sound
<1>3. call # "none" /\ call \in CallName  BY <1>1, <1>2 DEF PlanOk, BundleTypeOK
<1>4. Shape(Steady, call, recipe) /\ NextOk /\ IdsOk /\ ListOk /\ RefsOk
  BY <1>2, <1>3 DEF InCall
<1>5. call = "episode" <=> recipe.flow = "episode"  BY <1>2, <1>3 DEF PlanOk, Allowed
<1>6. NextOk' /\ IdsOk' /\ ListOk' /\ RefsOk'
  BY <1>2, <1>3, <1>4, <1>5, NextOkStep, IdsOkStep, ListOkStep, RefsOkStep
<1>7. Shape(Steady', call, recipe)  BY <1>4, Moves
<1>8. InCall'  BY <1>1, <1>6, <1>7 DEF InCall
<1>9. FilesOk' /\ Covered'  BY <1>2, <1>3, <1>4, <1>6, FilesOkStep, CoveredStep
<1>10. Between'  BY <1>1, <1>3 DEF Between
<1>11. PlanOk'  BY <1>1, <1>2, <1>3 DEF PlanOk
<1>12. TypedOk'  BY <1>2, <1>3, <1>4, <1>9, TypedStep
<1> QED BY <1>1, <1>2, <1>8, <1>9, <1>10, <1>11, <1>12 DEF Sound

(* No typed artifacts are found: only the plan changes. *)
LEMMA SoundNothing ==
  ASSUME BundleTypeOK, Sound, NothingTyped, ~broken'
  PROVE  Sound'
<1>1. /\ plan \in Seq(CallName) /\ plan # <<>> /\ call = "none" /\ Head(plan) = "typed"
      /\ plan' = Tail(plan) /\ declared' = (IF declared = "open" THEN "absent" ELSE declared)
      /\ UNCHANGED <<recipe, call, mode, faults, bundled, broken, todo, draft, disk,
                     manifest, references, index, reviewed>>
      /\ recipe.flow \in {"recipe", "episode"}
  BY DEF NothingTyped, Upcoming, Idle, BundleTypeOK, Recipes, files
<1>2. ~broken /\ todo["abandoned"] = <<>> /\ PlanOk /\ FilesOk /\ Between /\ Covered /\ TypedOk
  BY <1>1 DEF Sound
<1>3. /\ Head(plan) = plan[1] /\ 1 \in 1..Len(plan)
      /\ \A i \in 1..Len(Tail(plan)) : i + 1 \in 1..Len(plan) /\ Tail(plan)[i] = plan[i + 1]
      /\ \A r, f : Expected(plan, 0, f, r) =>
                     f \in ListedBy(plan[1], r) \/ Expected(Tail(plan), 0, f, r)
  BY <1>1, PlanTail
<1>4. /\ Steady' = Steady /\ Counted' = Counted
      /\ \A ops : Awaits(ops)' <=> Awaits(ops)
  BY <1>1 DEF Steady, Held, Counted, Awaits
<1>5. recipe.flow = "recipe" /\ bundled /\ mode # "over"
  <2>1. Allowed(plan[1], recipe, faults)  BY <1>2, <1>3 DEF PlanOk
  <2>2. recipe.flow = "recipe"  BY <1>1, <1>3, <2>1 DEF Allowed
  <2> QED BY <1>1, <1>2, <1>3, <2>2 DEF PlanOk
<1>6. PlanOk'
  <2>1. \A i \in 1..Len(Tail(plan)) : Allowed(Tail(plan)[i], recipe, faults)
    BY <1>2, <1>3 DEF PlanOk
  <2>2. /\ LastBench(Tail(plan))
        /\ faults = 0 => Repeats(Tail(plan), recipe)
        /\ faults > 0 => \A i \in 1..Len(Tail(plan)) : Tail(plan)[i] # "collect"
    BY <1>1, <1>2, <1>5, PlanOfTail
  <2> QED BY <1>1, <1>2, <1>4, <1>5, <2>1, <2>2 DEF PlanOk
<1>7. FilesOk'  BY <1>1, <1>2 DEF FilesOk
<1>8. Between'  BY <1>1, <1>2 DEF Between, Matching, Clean, DigestMatches
<1>9. InCall'  BY <1>1 DEF InCall
<1>10. Covered'
  <2>1. ASSUME NEW f \in File, Pending(f) PROVE Pending(f)'
    <3>1. CASE f = "typed"  BY <1>1, <2>1, <3>1 DEF Pending
    <3>2. CASE f # "typed"
      <4>1. f \notin ListedBy(plan[1], recipe)  BY <1>1, <1>3, <3>2 DEF ListedBy
      <4> QED BY <1>1, <1>3, <2>1, <3>2, <4>1 DEF Pending
    <3> QED BY <3>1, <3>2
  <2> QED BY <1>1, <1>2, <1>4, <2>1 DEF Covered
<1>11. TypedOk'  BY <1>1, <1>2 DEF TypedOk
<1> QED BY <1>1, <1>2, <1>6, <1>7, <1>8, <1>9, <1>10, <1>11 DEF Sound

LEMMA SoundNext == BundleTypeOK /\ Sound /\ [BundleNext]_bundleVars => Sound'
<1> SUFFICES ASSUME BundleTypeOK, Sound, [BundleNext]_bundleVars, ~broken' PROVE Sound'
  BY DEF Sound
<1>1. CASE Step("run")  BY <1>1, SoundStep
<1>2. CASE Step("abandoned")
  <2>1. ~broken /\ todo["abandoned"] # <<>>  BY <1>2, StepIs DEF Writer
  <2> QED BY <2>1 DEF Sound
<1>3. CASE Begin  BY <1>3, SoundBegin
<1>4. CASE End  BY <1>4, SoundEnd
<1>8. CASE NothingTyped  BY <1>8, SoundNothing
<1>5. CASE StepFails  BY <1>5, SoundFails
<1>6. CASE Abandon  BY <1>6 DEF Abandon
<1>7. CASE SiteChanges \/ UNCHANGED bundleVars
  <2>1. /\ UNCHANGED <<recipe, plan, call, mode, faults, bundled, declared, broken, todo, draft,
                       disk, manifest, references, index, reviewed>>
    BY <1>7 DEF SiteChanges, bundleVars, run, files
  <2>2. /\ Steady' = Steady /\ Counted' = Counted
        /\ \A ops : Awaits(ops)' <=> Awaits(ops)
    BY <2>1 DEF Steady, Held, Counted, Awaits
  <2>3. ~broken /\ PlanOk /\ FilesOk /\ InCall /\ Between /\ Covered /\ TypedOk /\ todo["abandoned"] = <<>>
    BY <2>1 DEF Sound
  <2>4. PlanOk'  BY <2>1, <2>2, <2>3 DEF PlanOk
  <2>5. FilesOk'  BY <2>1, <2>3 DEF FilesOk
  <2>6. Covered'  BY <2>1, <2>2, <2>3 DEF Covered, Pending
  <2>9. TypedOk'  BY <2>1, <2>3 DEF TypedOk
  <2>7. Between'  BY <2>1, <2>3 DEF Between, Matching, Clean, DigestMatches
  <2>8. InCall'
    <3>1. Held' = Held  BY <2>1 DEF Held
    <3>2. NextOk => NextOk'  BY <2>1, <2>2, <3>1 DEF NextOk
    <3>3. IdsOk => IdsOk'  BY <2>1, <2>2 DEF IdsOk
    <3>4. ListOk => ListOk'  BY <2>1, <2>2, <3>1 DEF ListOk
    <3>5. RefsOk => RefsOk'  BY <2>1, <2>2 DEF RefsOk
    <3> QED BY <2>1, <2>2, <2>3, <3>2, <3>3, <3>4, <3>5 DEF InCall
  <2> QED BY <2>1, <2>3, <2>4, <2>5, <2>6, <2>7, <2>8, <2>9 DEF Sound
<1> QED BY <1>1, <1>2, <1>3, <1>4, <1>5, <1>6, <1>7, <1>8 DEF BundleNext

(* When a run has ended, its bundle verifies, wherever one step of it has  *)
(* failed: whatever a recipe wishes for, and however long the calls are.   *)
THEOREM FaultMended == BundleSpec => []OneFaultIsMended
<1>1. BundleInit => BundleTypeOK /\ Sound  BY InitTyped, SoundInit
<1>2. BundleTypeOK /\ Sound /\ [BundleNext]_bundleVars => (BundleTypeOK /\ Sound)'
  BY NextTyped, SoundNext
<1>3. BundleTypeOK /\ Sound => OneFaultIsMended  BY SoundMends
<1> QED BY <1>1, <1>2, <1>3, PTL DEF BundleSpec
=============================================================================
