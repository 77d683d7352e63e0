----------------------------- MODULE HostProofs -----------------------------
(***************************************************************************)
(* The components of a host process, for every value of their constants.   *)
(*                                                                         *)
(* Leases, for any set of status and release commands: a lease that says   *)
(* available is of a published preview and names its run, and a lease that *)
(* has left "starting" when the starting command answers never returns to  *)
(* it.  The argument is about the copies the processes hold: what a stale  *)
(* copy says of a preview was true, and only the starting command merges a *)
(* copy without choosing the status, before it waits.                      *)
(*                                                                         *)
(* A host command, for any cap and any number of bytes: what it has        *)
(* captured begins what the child wrote, and is all of it unless the cap   *)
(* cut it.                                                                 *)
(*                                                                         *)
(* Services, for any number of them and of releases: the evidence never    *)
(* claims a teardown that did not happen, a settled call leaves only       *)
(* containers it knows of, the report is final, and RecipeRun's view of    *)
(* them is implemented.                                                    *)
(***************************************************************************)
EXTENDS PreviewLease, HostCommand, RuntimeServices, SequenceTheorems,
        WellFoundedInduction, TLAPS

(* A copy that says available, like the file, is of a published preview. *)
True(l) == l.status = "available" => published /\ l.run

Copies == /\ True(lease)
          /\ \A p \in Process : True(seen[p])
          /\ answer = "available" => published

(* What a process is about to write; only the child writes "available". *)
MarksOK == /\ parent \in {"updating", "writing"} => mark["parent"] \in {"expired", "failed"}
           /\ pc["child"] = "writing" => mark["child"] \in {"available", "released", "failed"}
           /\ pc["child"] # "reading"
           /\ \A c \in Command : pc[c] \in {"reading", "writing"} =>
                                   mark[c] \in {"expired", "release_requested"}

LeaseIInv == LeaseTypeOK /\ Copies /\ MarksOK /\ AnsweredIsSettled

(* The commands are processes of their own. *)
CommandsApart == "parent" \notin Command /\ "child" \notin Command

LEMMA LeaseInitOK == LeaseInit => LeaseIInv
<1> SUFFICES ASSUME LeaseInit PROVE LeaseIInv  OBVIOUS
<1>1. Fresh \in Lease /\ Fresh.status = "starting"  BY DEF Fresh, Lease, Status
<1>2. LeaseTypeOK  BY <1>1 DEF LeaseInit, LeaseTypeOK, Status
<1>3. Copies  BY <1>1 DEF LeaseInit, Copies, True
<1>4. MarksOK /\ AnsweredIsSettled  BY DEF LeaseInit, MarksOK, AnsweredIsSettled
<1> QED BY <1>2, <1>3, <1>4 DEF LeaseIInv

LEMMA LeaseReadOK ==
  ASSUME LeaseIInv, NEW p \in Process, Read(p), UNCHANGED <<lease, published>>
  PROVE  /\ seen' \in [Process -> Lease]
         /\ \A q \in Process : True(seen[q])'
BY DEF LeaseIInv, LeaseTypeOK, Copies, True, Read

LEMMA LeaseForgetOK ==
  ASSUME LeaseIInv, NEW p \in Process, Forget(p), published => published'
  PROVE  /\ seen' \in [Process -> Lease]
         /\ \A q \in Process : True(seen[q])'
BY DEF LeaseIInv, LeaseTypeOK, Copies, True, Forget, Fresh, Lease, Status

LEMMA LeaseStepOK == ASSUME CommandsApart, LeaseIInv, [LeaseNext]_leaseVars PROVE LeaseIInv'
<1>1. CASE Spawn
  <2>1. "parent" \in Process  BY DEF Process
  <2> QED BY <1>1, <2>1, LeaseReadOK DEF Spawn, LeaseIInv, LeaseTypeOK, Copies, True, MarksOK, AnsweredIsSettled
<1>2. CASE WritePid
  <2>1. "parent" \in Process  BY DEF Process
  <2>2. True(lease)' /\ lease' \in Lease
    BY <1>2, <2>1 DEF WritePid, LeaseIInv, LeaseTypeOK, Copies, True, Lease
  <2> QED BY <1>2, <2>1, <2>2, LeaseForgetOK DEF WritePid, LeaseIInv, LeaseTypeOK, Copies, True, MarksOK, AnsweredIsSettled
<1>3. CASE Poll
  <2>1. "parent" \in Process /\ {"expired", "failed"} \subseteq Status  BY DEF Process, Status
  <2>2. LeaseTypeOK'
    BY <1>3, <2>1 DEF Poll, ParentUpdates, Answers, LeaseIInv, LeaseTypeOK, Lease
  <2>3. Copies' /\ AnsweredIsSettled'
    BY <1>3 DEF Poll, ParentUpdates, Answers, LeaseIInv, LeaseTypeOK, Copies, True, AnsweredIsSettled
  <2>4. MarksOK'
    <3>1. \/ UNCHANGED mark /\ parent' \in {"waiting", "done"}
          \/ \E status \in {"expired", "failed"} : mark' = [mark EXCEPT !["parent"] = status]
      BY <1>3 DEF Poll, ParentUpdates, Answers
    <3>2. /\ mark'["child"] = mark["child"] /\ \A c \in Command : mark'[c] = mark[c]
          /\ parent' = "updating" => mark'["parent"] \in {"expired", "failed"}
          /\ parent' # "writing" /\ pc' = pc
      <4>1. parent' # "writing" /\ pc' = pc
        BY <1>3 DEF Poll, ParentUpdates, Answers
      <4> QED BY <2>1, <3>1, <4>1 DEF LeaseIInv, LeaseTypeOK, CommandsApart, Process
    <3> QED BY <3>2 DEF LeaseIInv, MarksOK
  <2> QED BY <2>2, <2>3, <2>4 DEF LeaseIInv
<1>4. CASE ParentReads
  <2>1. "parent" \in Process  BY DEF Process
  <2> QED BY <1>4, <2>1, LeaseReadOK DEF ParentReads, LeaseIInv, LeaseTypeOK, Copies, True, MarksOK, AnsweredIsSettled
<1>5. CASE ParentWrites
  <2>1. "parent" \in Process /\ mark["parent"] \in {"expired", "failed"}
    BY <1>5 DEF Process, ParentWrites, LeaseIInv, MarksOK
  <2>2. /\ lease' \in Lease /\ lease'.status = mark["parent"]
    BY <1>5, <2>1 DEF ParentWrites, WithStatus, LeaseIInv, LeaseTypeOK, Lease, Status
  <2> QED BY <1>5, <2>1, <2>2, LeaseForgetOK
          DEF ParentWrites, Answers, LeaseIInv, LeaseTypeOK, Copies, True, MarksOK, AnsweredIsSettled, Status
<1>6. CASE ChildReads
  <2>1. "child" \in Process /\ Marks \subseteq {"available", "released", "failed"}
    BY DEF Process, Marks
  <2> QED BY <1>6, <2>1, LeaseReadOK
          DEF ChildReads, LeaseIInv, LeaseTypeOK, Copies, True, MarksOK, AnsweredIsSettled, Status, CommandsApart
<1>7. CASE ChildWrites
  <2>1. "child" \in Process /\ mark["child"] \in {"available", "released", "failed"}
    BY <1>7 DEF Process, ChildWrites, LeaseIInv, MarksOK
  <2>2. /\ lease' \in Lease /\ lease'.status = mark["child"]
        /\ mark["child"] = "available" => lease'.run /\ published'
        /\ published => published'
    BY <1>7, <2>1 DEF ChildWrites, LeaseIInv, LeaseTypeOK, Lease, Status
  <2> QED BY <1>7, <2>1, <2>2, LeaseForgetOK
          DEF ChildWrites, ChildAlive, LeaseIInv, LeaseTypeOK, Copies, True, MarksOK, AnsweredIsSettled, CommandsApart
<1>8. CASE ChildEnds \/ ReadyTimeout \/ PreviewExpires
  <2>1. /\ UNCHANGED <<lease, parent, pc, seen, mark, asked, answer, published>>
        /\ child' \in {child, "dead"} /\ late' \in {late, TRUE} /\ expired' \in {expired, TRUE}
    BY <1>8 DEF ChildEnds, ReadyTimeout, PreviewExpires
  <2>2. LeaseTypeOK'  BY <2>1 DEF LeaseIInv, LeaseTypeOK
  <2>3. Copies' /\ MarksOK' /\ AnsweredIsSettled'
    BY <2>1 DEF LeaseIInv, Copies, True, MarksOK, AnsweredIsSettled
  <2> QED BY <2>2, <2>3 DEF LeaseIInv
<1>9. ASSUME NEW c \in Command, StartRelease(c) \/ StartStatus(c) PROVE LeaseIInv'
  <2>1. PICK m \in {"expired", "release_requested"} :
          /\ mark' = [mark EXCEPT ![c] = m] /\ pc' = [pc EXCEPT ![c] = "reading"]
          /\ asked' \in {asked, asked \/ lease.run}
          /\ UNCHANGED <<lease, child, parent, seen, late, expired, answer, published>>
    BY <1>9 DEF StartRelease, StartStatus
  <2>2. c \in Process /\ m \in Status  BY DEF Process, Status
  <2>3. LeaseTypeOK'
    <3>1. asked' \in BOOLEAN  BY <2>1 DEF LeaseIInv, LeaseTypeOK, Lease
    <3> QED BY <2>1, <2>2, <3>1 DEF LeaseIInv, LeaseTypeOK
  <2>4. Copies' /\ AnsweredIsSettled'
    BY <2>1 DEF LeaseIInv, Copies, True, AnsweredIsSettled
  <2>5. MarksOK'
    BY <2>1, <2>2 DEF LeaseIInv, LeaseTypeOK, MarksOK, CommandsApart, Process
  <2> QED BY <2>3, <2>4, <2>5 DEF LeaseIInv
<1>10. ASSUME NEW c \in Command, CommandReads(c) PROVE LeaseIInv'
  <2>1. c \in Process  BY DEF Process
  <2> QED BY <1>10, <2>1, LeaseReadOK
          DEF CommandReads, LeaseIInv, LeaseTypeOK, Copies, True, MarksOK, AnsweredIsSettled, CommandsApart
<1>11. ASSUME NEW c \in Command, CommandWrites(c) PROVE LeaseIInv'
  <2>1. c \in Process /\ mark[c] \in {"expired", "release_requested"}
    BY <1>11 DEF Process, CommandWrites, LeaseIInv, MarksOK
  <2>2. /\ lease' \in Lease /\ lease'.status = mark[c]
    BY <1>11, <2>1 DEF CommandWrites, WithStatus, LeaseIInv, LeaseTypeOK, Lease, Status
  <2> QED BY <1>11, <2>1, <2>2, LeaseForgetOK
          DEF CommandWrites, LeaseIInv, LeaseTypeOK, Copies, True, MarksOK, AnsweredIsSettled, CommandsApart
<1>12. CASE UNCHANGED leaseVars
  BY <1>12 DEF leaseVars, LeaseIInv, LeaseTypeOK, Copies, True, MarksOK, AnsweredIsSettled
<1> QED
  BY <1>1, <1>2, <1>3, <1>4, <1>5, <1>6, <1>7, <1>8, <1>9, <1>10, <1>11, <1>12 DEF LeaseNext, ParentSteps

THEOREM LeaseInvariant == ASSUME CommandsApart PROVE LeaseSpec => []LeaseIInv
<1>1. LeaseInit => LeaseIInv  BY LeaseInitOK
<1>2. LeaseIInv /\ [LeaseNext]_leaseVars => LeaseIInv'  BY LeaseStepOK
<1> QED BY <1>1, <1>2, PTL DEF LeaseSpec

(* The variables keep their types. *)
THEOREM LeaseTyped == ASSUME CommandsApart PROVE LeaseSpec => []LeaseTypeOK
<1>1. LeaseIInv => LeaseTypeOK  BY DEF LeaseIInv
<1> QED BY <1>1, LeaseInvariant, PTL

(* Exit code 0 and a file that says available are about a published        *)
(* preview of a named run, whatever stale reads were merged, and a lease   *)
(* the starting command has answered for has left "starting".              *)
THEOREM LeaseTrue == ASSUME CommandsApart PROVE LeaseSpec => []LeaseIsTrue
<1>1. LeaseIInv => AvailableIsPublished  BY DEF LeaseIInv, Copies, True, AvailableIsPublished
<1>2. LeaseIInv => AnsweredIsSettled  BY DEF LeaseIInv
<1> QED BY <1>1, <1>2, LeaseInvariant, PTL DEF LeaseIsTrue

-----------------------------------------------------------------------------
(* A non-empty set of numbers has a least one. *)
LEMMA Least ==
  ASSUME NEW T, T \subseteq Nat, T # {}
  PROVE  \E m \in T : \A x \in T : m <= x
<1>1. PICK m \in T : \A y \in T : <<y, m>> \notin OpToRel(<, Nat)
  BY NatLessThanWellFounded, WFMin
<1>2. \A y \in T : ~(y < m)
  BY <1>1 DEF OpToRel
<1> QED BY <1>2

(* The sums of the beginnings of a text. *)
Sums(text, n, f) ==
  /\ f \in [0..n -> Nat]
  /\ f[0] = 0 /\ \A i \in 1..n : f[i] = f[i - 1] + text[i]

LEMMA SumsExist ==
  ASSUME NEW text \in Seq(Nat \ {0})
  PROVE  \E f : Sums(text, Len(text), f)
<1> DEFINE Bad == {n \in 0..Len(text) : ~ \E f : Sums(text, n, f)}
<1>1. ASSUME Bad # {} PROVE FALSE
  <2>0. Bad \subseteq Nat  BY LenProperties
  <2>1. PICK n \in Bad : \A m \in Bad : n <= m
    <3> HIDE DEF Bad
    <3> QED BY <1>1, <2>0, Least
  <2>2. n # 0
    <3>1. Sums(text, 0, [i \in 0..0 |-> 0])  BY DEF Sums
    <3> QED BY <3>1
  <2>3. n \in Nat /\ n - 1 \in 0..Len(text) /\ n - 1 \notin Bad /\ n \in 1..Len(text)
    BY <2>1, <2>2, LenProperties
  <2>4. PICK f : Sums(text, n - 1, f)
    BY <2>3
  <2> DEFINE g == [i \in 0..n |-> IF i = n THEN f[n - 1] + text[n] ELSE f[i]]
  <2>5. text[n] \in Nat  BY <2>3, ElementOfSeq
  <2>6. g \in [0..n -> Nat] /\ g[0] = 0  BY <2>2, <2>3, <2>4, <2>5 DEF Sums
  <2>7. ASSUME NEW i \in 1..n PROVE g[i] = g[i - 1] + text[i]
    <3>1. CASE i = n  BY <2>3, <2>4, <3>1 DEF Sums
    <3>2. CASE i # n  BY <2>3, <2>4, <3>2 DEF Sums
    <3> QED BY <3>1, <3>2
  <2>8. Sums(text, n, g)  BY <2>6, <2>7 DEF Sums
  <2> QED BY <2>8
<1>2. Len(text) \in 0..Len(text)  BY LenProperties
<1> QED BY <1>1, <1>2

(* No character is narrower than a byte. *)
LEMMA WideEnough ==
  ASSUME NEW text \in Seq(Nat \ {0})
  PROVE  Bytes(text) \in Nat /\ Len(text) =< Bytes(text)
<1>1. PICK f : Sums(text, Len(text), f)  BY SumsExist
<1>2. f = [i \in 0..Len(text) |-> IF i = 0 THEN 0 ELSE f[i - 1] + text[i]]
  BY <1>1, LenProperties DEF Sums
<1> DEFINE up == CHOOSE u : u = [i \in 0..Len(text) |-> IF i = 0 THEN 0 ELSE u[i - 1] + text[i]]
<1>3. up = [i \in 0..Len(text) |-> IF i = 0 THEN 0 ELSE up[i - 1] + text[i]]
  BY <1>2
<1>4. Bytes(text) = up[Len(text)]
  BY DEF Bytes
<1> HIDE DEF up
<1> DEFINE Bad == {n \in 0..Len(text) : ~(up[n] \in Nat /\ n =< up[n])}
<1>5. ASSUME Bad # {} PROVE FALSE
  <2>0. Bad \subseteq Nat  BY LenProperties
  <2>1. PICK n \in Bad : \A m \in Bad : n <= m
    <3> HIDE DEF Bad
    <3> QED BY <1>5, <2>0, Least
  <2>2. up[0] = 0  BY <1>3, LenProperties
  <2>3. n \in 1..Len(text) /\ n - 1 \in 0..Len(text) /\ n - 1 \notin Bad
    BY <2>1, <2>2, LenProperties
  <2>4. up[n] = up[n - 1] + text[n]
    <3>1. n \in 0..Len(text) /\ n # 0  BY <2>3, LenProperties
    <3>2. up[n] = IF n = 0 THEN 0 ELSE up[n - 1] + text[n]  BY <1>3, <3>1
    <3> QED BY <3>1, <3>2
  <2>5. text[n] \in Nat \ {0}  BY <2>3, ElementOfSeq
  <2> QED BY <2>3, <2>4, <2>5
<1>6. Len(text) \in 0..Len(text)  BY LenProperties
<1> QED BY <1>4, <1>5, <1>6

-----------------------------------------------------------------------------
(* Host commands: what was captured is a beginning of what was written,    *)
(* whatever the widths of its characters; the bound counts bytes and the   *)
(* cut counts characters, and the two meet because a character takes at    *)
(* least one byte.  A result that is given says that nobody can write any  *)
(* more.                                                                   *)
States == {"none", "tied", "quiet", "escaped", "away", "gone"}

CommandTypeOK ==
  /\ process \in [Proc -> States] /\ timer \in {"armed", "cleared", "fired"}
  /\ written \in Seq(Widths) /\ captured \in Seq(Widths)
  /\ pending \in 0..Len(written) /\ truncated \in BOOLEAN
  /\ promise \in {"open", "resolved", "rejected"} /\ settles \in Nat

SettledOnce == settles = IF promise = "open" THEN 0 ELSE 1

Beginning ==
  /\ Len(captured) =< MaxBytes /\ Len(captured) =< Len(written)
  /\ captured = SubSeq(written, 1, Len(captured))

(* Nothing is missing until something is cut, and then there is no room.   *)
CutWhenFull ==
  /\ ~truncated => Len(captured) = Len(written) - pending
  /\ truncated => MaxBytes =< Bytes(captured)

(* A result is given once nobody can write any more. *)
ResolvedIsDone ==
  promise = "resolved" =>
    /\ pending = 0
    /\ ~Running("leader") /\ \A p \in Proc : ~HasPipe(p)

CommandIInv == CommandTypeOK /\ SettledOnce /\ Beginning /\ CutWhenFull /\ ResolvedIsDone

-----------------------------------------------------------------------------
LEMMA PrefixLen ==
  ASSUME NEW S, NEW s \in Seq(S), NEW n \in 0..Len(s)
  PROVE  SubSeq(s, 1, n) \in Seq(S) /\ Len(SubSeq(s, 1, n)) = n
<1>1. Len(s) \in Nat /\ \A i \in 1..Len(s) : s[i] \in S  BY LenProperties, ElementOfSeq
<1>2. \A i \in 1..n : s[i] \in S  BY <1>1
<1> QED BY <1>1, <1>2, SubSeqProperties

LEMMA PrefixWhole ==
  ASSUME NEW S, NEW s \in Seq(S)
  PROVE  SubSeq(s, 1, Len(s)) = s
<1>1. Len(s) \in Nat /\ \A i \in 1..Len(s) : s[i] \in S  BY LenProperties, ElementOfSeq
<1>2. /\ SubSeq(s, 1, Len(s)) \in Seq(S) /\ Len(SubSeq(s, 1, Len(s))) = Len(s)
      /\ \A i \in 1..Len(s) : SubSeq(s, 1, Len(s))[i] = s[i]
  BY <1>1, SubSeqProperties
<1> QED BY <1>2, SeqEqual

(* What is appended leaves the beginnings as they were. *)
LEMMA PrefixAppend ==
  ASSUME NEW S, NEW s \in Seq(S), NEW e \in S, NEW n \in 0..Len(s)
  PROVE  SubSeq(Append(s, e), 1, n) = SubSeq(s, 1, n)
<1>1. /\ Len(s) \in Nat /\ Append(s, e) \in Seq(S) /\ Len(Append(s, e)) = Len(s) + 1
      /\ \A i \in 1..Len(s) : Append(s, e)[i] = s[i]
  BY LenProperties, AppendProperties
<1>2. \A i \in 1..n : s[i] \in S /\ Append(s, e)[i] = s[i]  BY <1>1, ElementOfSeq
<1>3. /\ SubSeq(s, 1, n) \in Seq(S) /\ Len(SubSeq(s, 1, n)) = n
      /\ \A i \in 1..n : SubSeq(s, 1, n)[i] = s[i]
  BY <1>1, <1>2, SubSeqProperties
<1>4. /\ SubSeq(Append(s, e), 1, n) \in Seq(S) /\ Len(SubSeq(Append(s, e), 1, n)) = n
      /\ \A i \in 1..n : SubSeq(Append(s, e), 1, n)[i] = s[i]
  BY <1>1, <1>2, SubSeqProperties
<1> QED BY <1>3, <1>4, SeqEqual

(* A captured text is as long as it is, and takes at least as many bytes.  *)
LEMMA TextBytes ==
  ASSUME NEW text \in Seq(Widths)
  PROVE  Bytes(text) \in Nat /\ Len(text) =< Bytes(text)
<1>1. text \in Seq(Nat \ {0})
  <2>1. Len(text) \in Nat /\ text \in [1..Len(text) -> Nat \ {0}]
    BY CommandAssumption, LenProperties
  <2> QED BY <2>1
<1> QED BY <1>1, WideEnough

-----------------------------------------------------------------------------
LEMMA CommandInitOK == CommandInit => CommandIInv
<1> SUFFICES ASSUME CommandInit PROVE CommandIInv  OBVIOUS
<1>1. <<>> \in Seq(Widths) /\ Len(<<>>) = 0 /\ <<>> = SubSeq(<<>>, 1, 0)
  BY EmptySeq, SubSeqEmpty
<1>2. process \in [Proc -> States]  BY DEF CommandInit, States
<1>3. CommandTypeOK
  <2>1. /\ written = <<>> /\ captured = <<>> /\ pending = 0 /\ truncated \in BOOLEAN
        /\ timer = "armed" /\ promise = "open" /\ settles = 0
    BY DEF CommandInit
  <2>2. pending \in 0..Len(written)  BY <1>1, <2>1
  <2> QED BY <1>1, <1>2, <2>1, <2>2 DEF CommandTypeOK
<1>4. Beginning /\ CutWhenFull  BY <1>1, CommandAssumption DEF CommandInit, Beginning, CutWhenFull
<1>5. SettledOnce /\ ResolvedIsDone  BY DEF CommandInit, SettledOnce, ResolvedIsDone
<1> QED BY <1>3, <1>4, <1>5 DEF CommandIInv

(* Everything that is read of the pipe is appended, as far as there is     *)
(* room.                                                                   *)
LEMMA DataOK ==
  ASSUME CommandIInv, Data
  PROVE  CommandIInv'
<1> USE DEF CommandIInv
<1>1. /\ written \in Seq(Widths) /\ captured \in Seq(Widths) /\ Len(written) \in Nat
      /\ Len(captured) \in Nat /\ pending \in Nat /\ pending =< Len(written)
      /\ MaxBytes \in Nat /\ truncated \in BOOLEAN /\ pending' = 0 /\ pending > 0
      /\ UNCHANGED <<process, exit, timer, killer, written, outcome, host>>
  BY LenProperties, CommandAssumption DEF CommandTypeOK, Data
<1>2. PICK next : 
        /\ next = captured \o SubSeq(written, Len(written) - pending + 1, Len(written))
        /\ \/ Bytes(captured) >= MaxBytes /\ captured' = captured /\ truncated' = TRUE
           \/ /\ Bytes(captured) < MaxBytes /\ Bytes(next) =< MaxBytes
              /\ captured' = next /\ truncated' = truncated
           \/ /\ Bytes(captured) < MaxBytes /\ Bytes(next) > MaxBytes
              /\ captured' = SubSeq(next, 1, Fewer(MaxBytes, Len(next))) /\ truncated' = TRUE
  BY DEF Data
<1>3. SettledOnce' /\ ResolvedIsDone'
  <2>1. promise # "resolved"  BY <1>1 DEF ResolvedIsDone
  <2> QED BY <1>1, <2>1 DEF SettledOnce, ResolvedIsDone, outcome
<1>4. CASE MaxBytes =< Bytes(captured)
  <2>1. captured' = captured /\ truncated' = TRUE
    BY <1>1, <1>2, <1>4, TextBytes
  <2>2. CommandTypeOK'  BY <1>1, <2>1 DEF CommandTypeOK, outcome
  <2>3. Beginning'  BY <1>1, <2>1 DEF Beginning
  <2>4. CutWhenFull'  BY <1>1, <1>4, <2>1 DEF CutWhenFull
  <2> QED BY <1>3, <2>2, <2>3, <2>4
<1>5. CASE ~(MaxBytes =< Bytes(captured))
  <2>1. ~truncated /\ Len(captured) = Len(written) - pending
    BY <1>1, <1>5 DEF CutWhenFull
  <2>2. next = written
    <3>1. PICK k \in Nat : k = Len(written) - pending  BY <1>1
    <3>2. k \in 1 - 1..Len(written) /\ Len(written) \in k..Len(written) /\ 1 \in 1..Len(written) + 1
      BY <1>1, <3>1
    <3>3. SubSeq(written, 1, k) \o SubSeq(written, k + 1, Len(written)) = SubSeq(written, 1, Len(written))
      BY <1>1, <3>2, ConcatAdjacentSubSeq
    <3>4. captured = SubSeq(written, 1, k)  BY <2>1, <3>1 DEF Beginning
    <3> QED BY <1>1, <1>2, <3>1, <3>3, <3>4, PrefixWhole
  <2>3. Bytes(written) \in Nat /\ Len(written) =< Bytes(written) /\ Bytes(captured) \in Nat
    BY <1>1, TextBytes
  <2>4. CASE Bytes(written) =< MaxBytes
    <3>1. captured' = written /\ truncated' = truncated
      <4>1. ~(Bytes(captured) >= MaxBytes)  BY <1>1, <1>5, <2>3
      <4>2. ~(Bytes(next) > MaxBytes)  BY <1>1, <2>2, <2>3, <2>4
      <4>3. captured' = next /\ truncated' = truncated  BY <1>2, <4>1, <4>2, Zenon
      <4> QED BY <2>2, <4>3
    <3>2. CommandTypeOK'  BY <1>1, <3>1 DEF CommandTypeOK, outcome
    <3>3. Beginning'  BY <1>1, <2>3, <2>4, <3>1, PrefixWhole DEF Beginning
    <3>4. CutWhenFull'  BY <1>1, <2>1, <3>1 DEF CutWhenFull
    <3> QED BY <1>3, <3>2, <3>3, <3>4
  <2>5. CASE ~(Bytes(written) =< MaxBytes)
    <3>1. captured' = SubSeq(written, 1, Fewer(MaxBytes, Len(written))) /\ truncated' = TRUE
      BY <1>1, <1>2, <1>5, <2>2, <2>3, <2>5
    <3>2. PICK n \in 0..Len(written) :
            n = Fewer(MaxBytes, Len(written)) /\ n =< MaxBytes
            /\ (n = MaxBytes \/ n = Len(written))
      BY <1>1 DEF Fewer
    <3>3. captured' = SubSeq(written, 1, n) /\ captured' \in Seq(Widths) /\ Len(captured') = n
      BY <1>1, <3>1, <3>2, PrefixLen
    <3>4. CommandTypeOK'  BY <1>1, <3>1, <3>3 DEF CommandTypeOK, outcome
    <3>5. Beginning'  BY <1>1, <3>2, <3>3 DEF Beginning
    <3>6. MaxBytes =< Bytes(captured')
      <4>1. CASE n = MaxBytes  BY <1>1, <3>3, <4>1, TextBytes
      <4>2. CASE n = Len(written)
        <5>1. captured' = written  BY <1>1, <3>3, <4>2, PrefixWhole
        <5> QED BY <1>1, <2>3, <2>5, <5>1
      <4> QED BY <3>2, <4>1, <4>2
    <3>7. CutWhenFull'  BY <3>1, <3>6 DEF CutWhenFull
    <3> QED BY <1>3, <3>4, <3>5, <3>7
  <2> QED BY <2>4, <2>5
<1> QED BY <1>4, <1>5

(* A command writes only while it has the pipe. *)
LEMMA EmitOK ==
  ASSUME CommandIInv, NEW p \in Proc, Emit(p)
  PROVE  CommandIInv'
<1> USE DEF CommandIInv
<1>1. PICK w \in Widths : written' = Append(written, w)  BY DEF Emit
<1>2. /\ written \in Seq(Widths) /\ captured \in Seq(Widths) /\ Len(written) \in Nat
      /\ Len(captured) \in Nat /\ pending \in Nat /\ pending =< Len(written)
      /\ pending' = pending + 1
      /\ UNCHANGED <<process, exit, timer, killer, captured, truncated, outcome, host>>
  BY LenProperties DEF CommandTypeOK, Emit
<1>3. written' \in Seq(Widths) /\ Len(written') = Len(written) + 1
  BY <1>1, <1>2, AppendProperties
<1>4. CommandTypeOK'  BY <1>2, <1>3 DEF CommandTypeOK, outcome
<1>5. SettledOnce'  BY <1>2 DEF SettledOnce, outcome
<1>6. Beginning'
  <2>1. Len(captured) \in 0..Len(written)  BY <1>2 DEF Beginning
  <2>2. SubSeq(written', 1, Len(captured)) = SubSeq(written, 1, Len(captured))
    BY <1>1, <1>2, <2>1, PrefixAppend
  <2> QED BY <1>2, <1>3, <2>2 DEF Beginning
<1>7. CutWhenFull'  BY <1>2, <1>3 DEF CutWhenFull
<1>8. promise # "resolved"  BY DEF Emit, ResolvedIsDone
<1>9. ResolvedIsDone'  BY <1>2, <1>8 DEF ResolvedIsDone, outcome
<1> QED BY <1>4, <1>5, <1>6, <1>7, <1>9

(* The steps that only end processes. *)
LEMMA EndsOK ==
  ASSUME CommandIInv, UNCHANGED <<output, outcome>>,
         process' \in [Proc -> States], timer' \in {"armed", "cleared", "fired"},
         promise = "resolved" => \A p \in Proc : process'[p] \in {process[p], "gone"}
  PROVE  CommandIInv'
<1> USE DEF CommandIInv
<1>1. CommandTypeOK'  BY DEF CommandTypeOK, output, outcome
<1>2. SettledOnce' /\ Beginning' /\ CutWhenFull'
  BY DEF SettledOnce, Beginning, CutWhenFull, output, outcome
<1>3. ResolvedIsDone'
  BY DEF ResolvedIsDone, Running, HasPipe, InGroup, Proc, output, outcome
<1> QED BY <1>1, <1>2, <1>3

(* The promise settles, and with a result only when everything is in. *)
LEMMA SettleOK ==
  ASSUME CommandIInv, UNCHANGED <<process, output>>, NEW as \in {"resolved", "rejected"},
         Settle(as),
         as = "resolved" => pending = 0 /\ ~Running("leader") /\ \A p \in Proc : ~HasPipe(p)
  PROVE  CommandIInv'
<1> USE DEF CommandIInv
<1>0. settles \in Nat /\ settles = IF promise = "open" THEN 0 ELSE 1
  BY DEF CommandTypeOK, SettledOnce
<1>1. CommandTypeOK' /\ SettledOnce'
  <2>1. /\ promise' \in {"open", "resolved", "rejected"} /\ timer' \in {"armed", "cleared", "fired"}
        /\ settles' = IF promise' = "open" THEN 0 ELSE 1
    <3>1. CASE promise = "open"
      <4>1. promise' = as /\ settles' = settles + 1 /\ timer' = IF timer = "armed" THEN "cleared" ELSE timer
        BY <3>1 DEF Settle
      <4>2. promise' \in {"resolved", "rejected"}  BY <4>1
      <4>3. settles' = 1  BY <1>0, <3>1, <4>1
      <4>4. timer' \in {"armed", "cleared", "fired"}  BY <4>1 DEF CommandTypeOK
      <4> QED BY <4>2, <4>3, <4>4
    <3>2. CASE promise # "open"
      <4>1. UNCHANGED <<promise, settles, timer>>  BY <3>2 DEF Settle
      <4> QED BY <1>0, <3>2, <4>1 DEF CommandTypeOK
    <3> QED BY <3>1, <3>2
  <2>2. SettledOnce'  BY <2>1 DEF SettledOnce
  <2>3. settles' \in Nat  BY <2>1
  <2>4. UNCHANGED <<process, written, pending, captured, truncated>>  BY DEF output
  <2> QED BY <2>1, <2>2, <2>3, <2>4 DEF CommandTypeOK
<1>3. Beginning' /\ CutWhenFull'  BY DEF Beginning, CutWhenFull, output
<1>4. ResolvedIsDone'  BY DEF ResolvedIsDone, Running, HasPipe, InGroup, output, Settle
<1> QED BY <1>1, <1>3, <1>4

LEMMA CommandStepOK == ASSUME CommandIInv, [CommandNext]_commandVars PROVE CommandIInv'
<1>1. process \in [Proc -> States] /\ timer \in {"armed", "cleared", "fired"}
  BY DEF CommandIInv, CommandTypeOK
<1>2. ASSUME NEW d \in Descendant, Fork(d) PROVE CommandIInv'
  <2>1. promise # "resolved"  BY <1>2 DEF Fork, CommandIInv, ResolvedIsDone
  <2>2. process' \in [Proc -> States]  BY <1>1, <1>2 DEF Fork, States
  <2> QED BY <1>1, <1>2, <2>1, <2>2, EndsOK DEF Fork
<1>3. ASSUME NEW p \in Proc, Exit(p) PROVE CommandIInv'
  <2>1. process' \in [Proc -> States] /\ \A q \in Proc : process'[q] \in {process[q], "gone"}
    BY <1>1, <1>3 DEF Exit, States
  <2> QED BY <1>1, <1>3, <2>1, EndsOK DEF Exit
<1>4. ASSUME NEW p \in Proc, Emit(p) PROVE CommandIInv'  BY <1>4, EmitOK
<1>5. CASE Data  BY <1>5, DataOK
<1>6. ASSUME NEW dies, Signalled(dies)
      PROVE  process' \in [Proc -> States] /\ \A q \in Proc : process'[q] \in {process[q], "gone"}
  BY <1>1, <1>6 DEF Signalled, States
<1>7. CASE TimeoutFires
  <2>1. timer' = "fired" /\ UNCHANGED <<output, outcome>>  BY <1>7 DEF TimeoutFires
  <2>2. PICK dies : Signalled(dies)  BY <1>7 DEF TimeoutFires
  <2> QED BY <1>6, <2>1, <2>2, EndsOK
<1>8. CASE KillerFires
  <2>1. UNCHANGED <<timer, output, outcome>>  BY <1>8 DEF KillerFires
  <2>2. PICK dies : Signalled(dies)  BY <1>8 DEF KillerFires
  <2> QED BY <1>1, <1>6, <2>1, <2>2, EndsOK
<1>9. CASE ErrorEvent  BY <1>9, SettleOK DEF ErrorEvent
<1>10. CASE CloseEvent
  <2>1. PICK as \in {"resolved", "rejected"} : Settle(as)  BY <1>10 DEF CloseEvent
  <2> QED BY <1>10, <2>1, SettleOK DEF CloseEvent
<1>11. CASE HostExits  BY <1>1, <1>11, EndsOK DEF HostExits
<1>12. CASE UNCHANGED commandVars
  <2>1. UNCHANGED <<process, timer, output, outcome>>  BY <1>12 DEF commandVars, output, outcome
  <2> QED BY <1>1, <2>1, EndsOK
<1> QED BY <1>2, <1>3, <1>4, <1>5, <1>7, <1>8, <1>9, <1>10, <1>11, <1>12
        DEF CommandNext, Executor

-----------------------------------------------------------------------------
(* The capture's inductive invariant holds throughout. *)
THEOREM CommandInvariant == CommandSpec => []CommandIInv
<1>1. CommandInit => CommandIInv  BY CommandInitOK
<1>2. CommandIInv /\ [CommandNext]_commandVars => CommandIInv'  BY CommandStepOK
<1> QED BY <1>1, <1>2, PTL DEF CommandSpec

(* executeHostCommand's stdout is a beginning of what the command wrote,   *)
(* within its bound, and whole when the result does not say it was cut;    *)
(* the promise settles once.                                               *)
THEOREM OutputCaptured == CommandSpec => []CapturedFaithfully
<1>1. CommandIInv => CapturedFaithfully
  <2> SUFFICES ASSUME CommandIInv PROVE CapturedFaithfully  OBVIOUS
  <2>1. written \in Seq(Widths) /\ Len(written) \in Nat  BY LenProperties DEF CommandIInv, CommandTypeOK
  <2>2. promise = "resolved" /\ ~truncated => captured = written
    <3> SUFFICES ASSUME promise = "resolved", ~truncated PROVE captured = written  OBVIOUS
    <3>1. Len(captured) = Len(written)
      BY <2>1 DEF CommandIInv, CutWhenFull, ResolvedIsDone
    <3> QED BY <2>1, <3>1, PrefixWhole DEF CommandIInv, Beginning
  <2> QED BY <2>2 DEF CommandIInv, SettledOnce, Beginning, CapturedFaithfully
<1> QED BY <1>1, CommandInvariant, PTL

-----------------------------------------------------------------------------
(* Services, for any number of them and of releases.  A container that     *)
(* runs is recorded as failed to go, was cut off, or is still owned by a   *)
(* step to come.                                                           *)
Before == {"enter", "inspect", "pull", "run"}

(* Who still answers for a running container. *)
Owned(s) == \/ step \in Before /\ s < at
            \/ step \in {"port", "ready"} /\ s =< at
            \/ step = "cleanup" /\ (s < at \/ s \in removing)
            \/ step \in {"unwind", "releasing"} /\ s \in removing
            \/ step = "resolved" /\ guard # "thrown"

KnownUp == \A s \in Service : container[s] = "up" =>
              s \in cut \/ evidence[s].teardown = "failed" \/ Owned(s)

Phases ==
  /\ step \in {"inspect", "pull", "run", "port", "ready", "cleanup"} => at \in Service
  /\ step \in {"resolved", "releasing", "released"} => at = Count + 1
  /\ guard = "held" => step \in {"resolved", "releasing", "released"}
  /\ guard = "thrown" => step \in {"rejected", "resolved", "released"}
  /\ guard = "open" => step \notin {"releasing", "released"}
  /\ guard = "rejected" => step # "released"
  /\ removing # {} => step \in {"cleanup", "unwind", "releasing"}
  /\ cut # {} => step \in {"unwind", "rejected"}
  /\ step = "released" => ~SomeFailed

(* No removal has been tried of a service that provisioning has yet to end *)
(* with, and none is under way of a container known to be gone.            *)
Untried == \A s \in Service :
             s > at \/ (s = at /\ step \in Before \cup {"port", "ready"})
               => evidence[s].teardown = "none"

RemovingOpen == \A s \in removing : evidence[s].teardown # "completed"

(* Only services that provisioning has reached are removed. *)
Bounded == \A s \in removing : s =< at

Reports == /\ guard # "thrown" => reported = <<>>
           /\ guard = "thrown" => reported = <<evidence>>

ServicesIInv == /\ ServicesTypeOK /\ Phases /\ Untried /\ RemovingOpen
        /\ TeardownIsTrue /\ KnownUp /\ Bounded /\ Reports

LEMMA ServicesInitOK == Init => ServicesIInv
<1> SUFFICES ASSUME Init PROVE ServicesIInv  OBVIOUS
<1> USE ServicesAssumption DEF Init, Service
<1>1. Absent \in Entry /\ Absent.teardown = "none"  BY DEF Absent, Entry
<1>2. evidence \in [Service -> Entry] /\ \A s \in Service : evidence[s].teardown = "none"
  BY <1>1
<1>3. ServicesTypeOK
  <2>1. at \in 1..(Count + 1) /\ releases \in 0..MaxReleases  BY SMT
  <2>2. container \in [Service -> {"none", "up"}]  OBVIOUS
  <2> QED BY <1>2, <2>1, <2>2 DEF ServicesTypeOK
<1>4. Phases /\ Untried /\ RemovingOpen /\ Bounded
  BY <1>2, SMT DEF Phases, Untried, RemovingOpen, Bounded, Before
<1>5. TeardownIsTrue /\ KnownUp /\ Reports
  BY <1>2, SMT DEF TeardownIsTrue, KnownUp, Reports
<1> QED BY <1>3, <1>4, <1>5 DEF ServicesIInv

LEMMA EntryOps ==
  ASSUME NEW e \in Entry, NEW code \in {"readiness-failed", "provision-failed", "interrupted"}
  PROVE  /\ Pending \in Entry /\ Pending.teardown = "none"
         /\ Provisioned(e) \in Entry /\ Provisioned(e).teardown = e.teardown
         /\ Failed(e, code) \in Entry /\ Failed(e, code).teardown = e.teardown
         /\ TornDown(e) \in Entry /\ TornDown(e).teardown = "completed"
         /\ TeardownFailed(e) \in Entry /\ TeardownFailed(e).teardown = "failed"
BY DEF Entry, Pending, Provisioned, Failed, TornDown, TeardownFailed

(* The catch of a provisioning step keeps the invariant; of the containers *)
(* only the one of a cut `docker run` may have changed.                    *)
LEMMA FailOK ==
  ASSUME ServicesIInv, Fail, step \in {"inspect", "pull", "run", "port", "ready"},
         UNCHANGED <<guard, aborted, releases, reported>>,
         \/ UNCHANGED <<container, cut>>
         \/ /\ ~Started /\ cut' = cut \cup {at}
            /\ \E c \in {"none", "up"} : container' = [container EXCEPT ![at] = c]
  PROVE  ServicesIInv'
<1> USE ServicesAssumption DEF ServicesIInv, Service
<1>1. at \in Service /\ at' = at /\ cut = {} /\ removing = {} /\ guard \in {"open", "rejected"}
      /\ evidence[at] \in Entry /\ evidence[at].teardown = "none"
      /\ evidence \in [Service -> Entry]
  <2>1. at \in Service /\ cut = {} /\ removing = {} /\ guard \in {"open", "rejected"}
    BY SMT DEF Phases, ServicesTypeOK
  <2>2. evidence \in [Service -> Entry] /\ at' = at
    BY DEF ServicesTypeOK, Fail
  <2>3. evidence[at].teardown = "none"
    BY <2>1, SMT DEF Untried, Before
  <2> QED BY <2>1, <2>2, <2>3
<1>2. PICK x : x \in Entry /\ x.teardown = "none" /\ evidence' = [evidence EXCEPT ![at] = x]
  <2>1. Diagnosis \in {"readiness-failed", "provision-failed", "interrupted"}
    BY DEF Diagnosis
  <2> QED BY <1>1, <2>1, EntryOps DEF Fail
<1>3. /\ evidence' \in [Service -> Entry]
      /\ \A s \in Service : evidence'[s].teardown = evidence[s].teardown
  BY <1>1, <1>2
<1>4. \/ step' = "cleanup" /\ Started /\ removing' = {at}
      \/ /\ step' = "unwind" /\ ~Started
         /\ removing' = {s \in 1..(at - 1) : evidence[s].teardown # "completed"}
  <2>1. 1..(at - 1) \subseteq Service  BY <1>1, SMT
  <2> QED BY <1>1, <1>3, <2>1 DEF Fail, Release
<1>5. ServicesTypeOK'
  BY <1>1, <1>3, <1>4, SMT DEF ServicesTypeOK
<1>6. Phases' /\ Untried' /\ RemovingOpen' /\ Reports'
  <2>1. Phases'  BY <1>1, <1>3, <1>4, SMT DEF Phases
  <2>2. Untried'  BY <1>1, <1>3, <1>4, SMT DEF Untried, Before
  <2>3. RemovingOpen'  BY <1>1, <1>3, <1>4, SMT DEF RemovingOpen
  <2>4. Reports'  BY <1>1, SMT DEF Reports, Phases
  <2> QED BY <2>1, <2>2, <2>3, <2>4
<1>7. /\ \A s \in Service \ {at} : container'[s] = container[s]
      /\ \A s \in Service : container'[s] = container[s] \/ (s = at /\ s \in cut')
      /\ cut \subseteq cut'
  BY <1>1, SMT DEF ServicesTypeOK
<1>8. TeardownIsTrue'
  BY <1>1, <1>3, <1>7, SMT DEF TeardownIsTrue
<1>9. KnownUp'
  <2> SUFFICES ASSUME NEW s \in Service, container'[s] = "up"
               PROVE  s \in cut' \/ evidence'[s].teardown = "failed" \/ Owned(s)'
    BY DEF KnownUp
  <2>1. CASE s \in cut' \/ evidence'[s].teardown = "failed"
    BY <2>1
  <2>2. CASE s \notin cut' /\ evidence'[s].teardown # "failed"
    <3>1. container[s] = "up" /\ Owned(s) /\ evidence[s].teardown # "completed"
      BY <1>1, <1>3, <1>7, <2>2 DEF KnownUp, TeardownIsTrue
    <3>2. CASE s = at
      BY <1>1, <1>4, <3>1, <3>2, SMT DEF Owned, Before, Started
    <3>3. CASE s < at
      BY <1>1, <1>4, <3>1, <3>3, SMT DEF Owned, Before, Started
    <3>4. CASE s > at
      BY <1>1, <3>1, <3>4, SMT DEF Owned, Before
    <3> QED BY <1>1, <3>2, <3>3, <3>4, SMT
  <2> QED BY <2>1, <2>2
<1>10. Bounded'
  BY <1>1, <1>4, SMT DEF Bounded
<1> QED BY <1>5, <1>6, <1>8, <1>9, <1>10

(* A docker rm that has ended, however, does. *)
LEMMA RemoveOK == ASSUME ServicesIInv, NEW s \in Service, Remove(s) PROVE ServicesIInv'
<1> USE ServicesAssumption DEF ServicesIInv, Service
<1>1. evidence \in [Service -> Entry] /\ evidence[s] \in Entry /\ s \in removing
      /\ step \in {"cleanup", "unwind", "releasing"} /\ guard # "thrown"
  BY SMT DEF ServicesTypeOK, Phases, Remove
<1>2. PICK x : /\ x \in Entry /\ evidence' = [evidence EXCEPT ![s] = x]
               /\ \/ x.teardown = "completed" /\ container' = [container EXCEPT ![s] = "none"]
                  \/ x.teardown = "failed"
                     /\ container' \in {container, [container EXCEPT ![s] = "none"]}
  BY <1>1, EntryOps DEF Remove
<1>3. /\ evidence' \in [Service -> Entry] /\ evidence'[s].teardown = x.teardown
      /\ \A t \in Service \ {s} : evidence'[t].teardown = evidence[t].teardown
  BY <1>1, <1>2
<1>4. /\ removing' = removing \ {s}
      /\ UNCHANGED <<guard, aborted, at, step, cut, releases, reported>>
  BY DEF Remove
<1>5. ServicesTypeOK'  BY <1>2, <1>3, <1>4, SMT DEF ServicesTypeOK
<1>6. Phases'  BY <1>1, <1>4, SMT DEF Phases
<1>7. Untried'
  <2>2. s =< at
    BY <1>1 DEF Bounded
  <2> QED BY <1>1, <1>3, <1>4, <2>2, SMT DEF Untried, Before, ServicesTypeOK
<1>8. RemovingOpen'  BY <1>3, <1>4, SMT DEF RemovingOpen, ServicesTypeOK
<1>9. TeardownIsTrue'
  BY <1>2, <1>3, SMT DEF TeardownIsTrue, ServicesTypeOK
<1>10. KnownUp'
  BY <1>1, <1>2, <1>3, <1>4, SMT DEF KnownUp, Owned, Before, ServicesTypeOK
<1>11. Reports'  BY <1>1, <1>4 DEF Reports
<1>12. Bounded'  BY <1>4, SMT DEF Bounded
<1> QED BY <1>5, <1>6, <1>7, <1>8, <1>9, <1>10, <1>11, <1>12

LEMMA ServicesStepOK == ServicesIInv /\ [Next]_vars => ServicesIInv'
<1> SUFFICES ASSUME ServicesIInv, [Next]_vars PROVE ServicesIInv'
  OBVIOUS
<1> USE ServicesAssumption DEF ServicesIInv, Service
<1>1. CASE Enter
  <2>1. at \in Service /\ cut = {} /\ removing = {} /\ at' = at /\ evidence[at] \in Entry
        /\ evidence \in [Service -> Entry] /\ guard \in {"open", "rejected"}
        /\ UNCHANGED <<guard, aborted, at, container, cut, releases, reported>>
    BY <1>1, SMT DEF Enter, Phases, ServicesTypeOK
  <2>2. PICK x : x \in Entry /\ x.teardown = "none" /\ evidence' = [evidence EXCEPT ![at] = x]
    BY <1>1, <2>1, EntryOps DEF Enter
  <2>3. /\ evidence' \in [Service -> Entry] /\ evidence[at].teardown = "none"
        /\ \A s \in Service : evidence'[s].teardown = evidence[s].teardown
    BY <1>1, <2>1, <2>2 DEF Untried, Before, Enter
  <2>4. \/ step' = "inspect" /\ removing' = {}
        \/ /\ step' = "unwind"
           /\ removing' = {s \in 1..(at - 1) : evidence[s].teardown # "completed"}
    <3>1. 1..(at - 1) \subseteq Service  BY <2>1, SMT DEF ServicesTypeOK
    <3> QED BY <1>1, <2>1, <2>3, <3>1 DEF Enter, Release
  <2>5. ServicesTypeOK'  BY <2>1, <2>3, <2>4, SMT DEF ServicesTypeOK
  <2>6. Phases'  BY <2>1, <2>3, <2>4, SMT DEF Phases
  <2>7. Untried'  BY <1>1, <2>1, <2>3, <2>4, SMT DEF Untried, Before, Enter
  <2>8. RemovingOpen' /\ Bounded'
    BY <2>1, <2>3, <2>4, SMT DEF RemovingOpen, Bounded
  <2>9. TeardownIsTrue' /\ Reports'
    <3>1. Reports'  BY <2>1 DEF Reports
    <3>2. TeardownIsTrue'  BY <2>1, <2>3, SMT DEF TeardownIsTrue
    <3> QED BY <3>1, <3>2
  <2>10. KnownUp'
    BY <1>1, <2>1, <2>3, <2>4, SMT DEF KnownUp, Owned, Before, Enter, TeardownIsTrue
  <2> QED BY <2>5, <2>6, <2>7, <2>8, <2>9, <2>10
<1>2. CASE Resolve
  BY <1>2, SMT DEF Resolve, Goto, ServicesTypeOK, Phases, Untried, RemovingOpen,
     TeardownIsTrue, KnownUp, Owned, Before, Bounded, Reports, SomeFailed
<1>3. CASE Image
  <2>1. CASE Fail  BY <1>3, <2>1, FailOK DEF Image
  <2>2. CASE \E there \in {"run", "pull"} : Goto(there)
    BY <1>3, <2>2, SMT DEF Image, Goto, ServicesTypeOK, Phases, Untried, RemovingOpen,
       TeardownIsTrue, KnownUp, Owned, Before, Bounded, Reports, SomeFailed
  <2> QED BY <1>3, <2>1, <2>2 DEF Image
<1>4. CASE RunContainer
  <2>1. CASE Fail /\ UNCHANGED container  BY <1>4, <2>1, FailOK DEF RunContainer
  <2>2. CASE Goto("port") /\ container' = [container EXCEPT ![at] = "up"]
    BY <1>4, <2>2, SMT DEF RunContainer, Goto, ServicesTypeOK, Phases, Untried, RemovingOpen,
       TeardownIsTrue, KnownUp, Owned, Before, Bounded, Reports, SomeFailed
  <2> QED BY <1>4, <2>1, <2>2 DEF RunContainer
<1>5. CASE RunIsCut
  BY <1>5, FailOK DEF RunIsCut, Started
<1>6. CASE Port
  <2>1. CASE Fail  BY <1>6, <2>1, FailOK DEF Port
  <2>2. CASE Goto("ready")
    BY <1>6, <2>2, SMT DEF Port, Goto, ServicesTypeOK, Phases, Untried, RemovingOpen,
       TeardownIsTrue, KnownUp, Owned, Before, Bounded, Reports, SomeFailed
  <2> QED BY <1>6, <2>1, <2>2 DEF Port
<1>7. CASE Ready
  <2>1. CASE Fail  BY <1>7, <2>1, FailOK DEF Ready
  <2>2. CASE ~Fail
    <3>1. at \in Service /\ cut = {} /\ removing = {} /\ at' = at + 1 /\ step = "ready" /\ step' = "enter"
          /\ evidence[at] \in Entry /\ evidence \in [Service -> Entry]
          /\ evidence' = [evidence EXCEPT ![at] = Provisioned(evidence[at])]
          /\ UNCHANGED <<guard, aborted, container, cut, removing, releases, reported>>
          /\ guard \in {"open", "rejected"}
      BY <1>7, <2>2, SMT DEF Ready, Phases, ServicesTypeOK
    <3>2. Provisioned(evidence[at]) \in Entry
          /\ Provisioned(evidence[at]).teardown = evidence[at].teardown
      BY <3>1, EntryOps
    <3>3. /\ evidence' \in [Service -> Entry]
          /\ \A s \in Service : evidence'[s].teardown = evidence[s].teardown
      BY <3>1, <3>2
    <3>4. ServicesTypeOK'  BY <3>1, <3>3, SMT DEF ServicesTypeOK
    <3>5. Phases' /\ RemovingOpen' /\ Bounded'
      BY <3>1, SMT DEF Phases, RemovingOpen, Bounded
    <3>6. Untried'  BY <3>1, <3>3, SMT DEF Untried, Before
    <3>7. TeardownIsTrue'  BY <3>1, <3>3, SMT DEF TeardownIsTrue
    <3>8. KnownUp'  BY <3>1, <3>3, SMT DEF KnownUp, Owned, Before
    <3>9. Reports'  BY <3>1 DEF Reports
    <3> QED BY <3>4, <3>5, <3>6, <3>7, <3>8, <3>9
  <2> QED BY <2>1, <2>2
<1>8. ASSUME NEW s \in Service, Remove(s) PROVE ServicesIInv'
  BY <1>8, RemoveOK
<1>9. ASSUME NEW s \in Service, ContainerExits(s) PROVE ServicesIInv'
  <2>1. /\ container' = [container EXCEPT ![s] = "none"]
        /\ UNCHANGED <<guard, aborted, at, step, cut, evidence, removing, releases, reported>>
    BY <1>9 DEF ContainerExits
  <2>2. ServicesTypeOK' /\ Phases' /\ Untried' /\ RemovingOpen' /\ Bounded'
    BY <2>1, SMT DEF ServicesTypeOK, Phases, Untried, RemovingOpen, Bounded, SomeFailed
  <2>3. TeardownIsTrue' /\ KnownUp'
    BY <2>1, SMT DEF TeardownIsTrue, KnownUp, Owned, ServicesTypeOK
  <2>4. Reports'  BY <2>1 DEF Reports
  <2> QED BY <2>2, <2>3, <2>4
<1>10. CASE CleanedUp \/ Unwound
  <2>1. /\ removing = {} /\ evidence' = evidence /\ step' \in {"unwind", "rejected"}
        /\ UNCHANGED <<guard, aborted, at, container, cut, releases, reported>>
        /\ guard \in {"open", "rejected"}
    BY <1>10, SMT DEF CleanedUp, Unwound, Goto, ServicesTypeOK, Phases
  <2>2. \/ step = "unwind" /\ step' = "rejected" /\ removing' = {}
        \/ /\ step = "cleanup" /\ step' = "unwind" /\ at \in Service
           /\ removing' = {s \in 1..(at - 1) : evidence[s].teardown # "completed"}
    BY <1>10, <2>1, SMT DEF CleanedUp, Unwound, Goto, Release, Phases
  <2>3. ServicesTypeOK'  BY <2>1, <2>2, SMT DEF ServicesTypeOK
  <2>4. Phases' /\ Untried' /\ RemovingOpen' /\ Bounded'
    BY <2>1, <2>2, SMT DEF Phases, Untried, RemovingOpen, Bounded, Before, ServicesTypeOK
  <2>5. TeardownIsTrue' /\ KnownUp'
    BY <2>1, <2>2, SMT DEF TeardownIsTrue, KnownUp, Owned, Before, ServicesTypeOK
  <2>6. Reports'  BY <2>1 DEF Reports
  <2> QED BY <2>3, <2>4, <2>5, <2>6
<1>11. CASE Abort \/ GuardRejects \/ GuardPasses
  <2>1. /\ guard = "open" /\ guard' \in {"open", "held", "rejected"}
        /\ guard' = "held" => step = "resolved"
        /\ UNCHANGED <<at, step, container, cut, evidence, removing, releases, reported>>
        /\ aborted' \in BOOLEAN
    BY <1>11 DEF Abort, GuardRejects, GuardPasses, ServicesTypeOK
  <2>2. ServicesTypeOK'  BY <2>1, SMT DEF ServicesTypeOK
  <2>3. Phases' /\ Untried' /\ RemovingOpen' /\ Bounded'
    BY <2>1, SMT DEF Phases, Untried, RemovingOpen, Bounded, SomeFailed
  <2>4. TeardownIsTrue' /\ KnownUp'
    BY <2>1, SMT DEF TeardownIsTrue, KnownUp, Owned
  <2>5. Reports'  BY <2>1 DEF Reports
  <2> QED BY <2>2, <2>3, <2>4, <2>5
<1>12. CASE ReleaseLate \/ ReleaseHeld
  <2>1. /\ guard \in {"held", "rejected"} /\ step = "resolved" /\ step' = "releasing"
        /\ evidence' = evidence /\ releases' \in 0..MaxReleases
        /\ removing' = {s \in Service : evidence[s].teardown # "completed"}
        /\ UNCHANGED <<guard, aborted, at, container, cut, reported>>
    BY <1>12, SMT DEF ReleaseLate, ReleaseHeld, Release, ServicesTypeOK
  <2>2. ServicesTypeOK'  BY <2>1, SMT DEF ServicesTypeOK
  <2>3. Phases' /\ Untried' /\ RemovingOpen' /\ Bounded'
    BY <2>1, SMT DEF Phases, Untried, RemovingOpen, Bounded, Before, ServicesTypeOK
  <2>4. TeardownIsTrue' /\ KnownUp'
    BY <2>1, SMT DEF TeardownIsTrue, KnownUp, Owned, ServicesTypeOK
  <2>5. Reports'  BY <2>1 DEF Reports
  <2> QED BY <2>2, <2>3, <2>4, <2>5
<1>13. CASE ReleaseSettles
  <2>1. /\ step = "releasing" /\ removing = {} /\ guard # "thrown" /\ reported = <<>>
        /\ UNCHANGED <<at, evidence, removing, aborted, container, cut, releases>>
        /\ step' = IF SomeFailed THEN "resolved" ELSE "released"
    BY <1>13 DEF ReleaseSettles, Goto, Phases, Reports
  <2>2. IF guard = "rejected" THEN guard' = "thrown" /\ reported' = <<evidence>>
                              ELSE UNCHANGED <<guard, reported>>
    BY <1>13, <2>1, SMT DEF ReleaseSettles
  <2>3. SomeFailed' = SomeFailed /\ SomeFailed \in BOOLEAN
    BY <2>1 DEF SomeFailed
  <2>4. ServicesTypeOK' /\ Phases'
    BY <2>1, <2>2, <2>3, SMT DEF ServicesTypeOK, Phases
  <2>5. Untried' /\ RemovingOpen' /\ TeardownIsTrue' /\ KnownUp' /\ Bounded' /\ Reports'
    BY <2>1, <2>2, <2>3, SMT DEF ServicesTypeOK, Phases, Untried, RemovingOpen,
       TeardownIsTrue, KnownUp, Owned, Before, Bounded, Reports
  <2> QED BY <2>4, <2>5
<1>14. CASE UNCHANGED vars
  <2>1. ServicesTypeOK' /\ Phases' /\ Untried' /\ RemovingOpen' /\ Bounded'
    BY <1>14 DEF vars, ServicesTypeOK, Phases, Untried, RemovingOpen, Bounded, SomeFailed
  <2>2. TeardownIsTrue' /\ KnownUp' /\ Reports'
    BY <1>14 DEF vars, TeardownIsTrue, KnownUp, Owned, Before, Reports
  <2> QED BY <2>1, <2>2
<1>15. CASE Rethrow
  <2>1. /\ guard = "rejected" /\ step = "rejected" /\ guard' = "thrown" /\ reported = <<>>
        /\ UNCHANGED <<aborted, at, step, container, cut, evidence, removing, releases>>
        /\ reported' = Append(reported, evidence)
    BY <1>15 DEF Rethrow, Reports
  <2>2. reported' = <<evidence>>  BY <2>1, SMT
  <2>3. ServicesTypeOK'  BY <2>1, SMT DEF ServicesTypeOK
  <2>4. Phases' /\ Untried' /\ RemovingOpen' /\ Bounded'
    BY <2>1, SMT DEF Phases, Untried, RemovingOpen, Bounded, SomeFailed
  <2>5. TeardownIsTrue' /\ KnownUp'
    BY <2>1, SMT DEF TeardownIsTrue, KnownUp, Owned
  <2>6. Reports'  BY <2>1, <2>2 DEF Reports
  <2> QED BY <2>3, <2>4, <2>5, <2>6
<1> QED
  BY <1>1, <1>2, <1>3, <1>4, <1>5, <1>6, <1>7, <1>8, <1>9, <1>10, <1>11, <1>12, <1>13, <1>14, <1>15
     DEF Next, Provisioning, Settling

THEOREM ServicesInvariant == Spec => []ServicesIInv
<1>1. Init => ServicesIInv  BY ServicesInitOK
<1>2. ServicesIInv /\ [Next]_vars => ServicesIInv'  BY ServicesStepOK
<1> QED BY <1>1, <1>2, PTL DEF Spec

(* The variables keep their types. *)
THEOREM ServicesTyped == Spec => []ServicesTypeOK
<1>1. ServicesIInv => ServicesTypeOK  BY DEF ServicesIInv
<1> QED BY <1>1, ServicesInvariant, PTL

(* A recorded teardown happened: releaseService writes it only after       *)
(* docker said so, and no container of that name is started again.         *)
THEOREM TeardownTrue == Spec => []TeardownIsTrue
<1>1. ServicesIInv => TeardownIsTrue  BY DEF ServicesIInv
<1> QED BY <1>1, ServicesInvariant, PTL

(* Nothing runs on unrecorded when the guarded call has thrown, and a      *)
(* release() that resolved, whatever failed before it, leaves nothing.     *)
THEOREM LeftoversKnown == Spec => []OnlyKnownLeftovers
<1>1. ASSUME ServicesIInv, guard = "thrown", NEW s \in Service, container[s] = "up"
      PROVE  evidence[s].teardown = "failed" \/ s \in cut
  BY <1>1, SMT DEF ServicesIInv, Phases, KnownUp, Owned, Before, Service
<1>2. ASSUME ServicesIInv, step = "released", guard = "held", NEW s \in Service
      PROVE  container[s] = "none"
  <2>1. cut = {} /\ evidence[s].teardown # "failed"
    BY <1>2 DEF ServicesIInv, Phases, SomeFailed
  <2>2. container[s] # "up"
    BY <2>1, <1>2, SMT DEF ServicesIInv, KnownUp, Owned, Before
  <2> QED BY <2>2, <1>2 DEF ServicesIInv, ServicesTypeOK
<1>3. ServicesIInv => OnlyKnownLeftovers  BY <1>1, <1>2 DEF OnlyKnownLeftovers
<1> QED BY <1>3, ServicesInvariant, PTL

(* The evidence is reported once, by the call that throws, and is final.   *)
THEOREM ReportFinal == Spec => []ReportIsFinal
<1>1. ServicesIInv => ReportIsFinal
  <2> SUFFICES ASSUME ServicesIInv PROVE ReportIsFinal  OBVIOUS
  <2>1. CASE guard = "thrown"
    BY <2>1, SMT DEF ServicesIInv, Reports, ReportIsFinal
  <2>2. CASE guard # "thrown"
    BY <2>2, SMT DEF ServicesIInv, Reports, ReportIsFinal
  <2> QED BY <2>1, <2>2
<1> QED BY <1>1, ServicesInvariant, PTL

(* The guarded call implements ServiceContract, which is all RecipeRun     *)
(* assumes of its services.                                                *)
THEOREM ServicesImplementContract == Spec => ImplementsServiceContract
<1>1. Init => Contract!Init
  BY SMT DEF Init, Contract!Init, Seen
<1>2. ServicesIInv /\ ServicesIInv' /\ [Next]_vars => [Contract!Next]_Contract!vars
  <2> SUFFICES ASSUME ServicesIInv, ServicesIInv', [Next]_vars PROVE [Contract!Next]_Contract!vars
    OBVIOUS
  <2> USE DEF Contract!Next, Contract!vars
  <2>1. CASE Provisioning
    <3>1. guard \in {"open", "rejected"} /\ guard' = guard
      BY <2>1, SMT DEF Provisioning, Enter, Resolve, Image, RunContainer, RunIsCut, Port, Ready,
         ServicesIInv, Phases, ServicesTypeOK
    <3> QED BY <3>1, SMT DEF Seen
  <2>2. CASE GuardPasses
    BY <2>2, SMT DEF GuardPasses, Seen, Contract!HandOver
  <2>3. CASE Abort \/ GuardRejects \/ ReleaseLate \/ CleanedUp \/ Unwound
    <3>1. guard \in {"open", "rejected"} /\ guard' \in {"open", "rejected"}
      BY <2>3, SMT DEF Abort, GuardRejects, ReleaseLate, CleanedUp, Unwound, ServicesIInv, Phases, ServicesTypeOK
    <3> QED BY <3>1, SMT DEF Seen
  <2>4. CASE ReleaseHeld
    <3>1. guard = "held" /\ guard' = guard /\ step = "resolved" /\ step' = "releasing"
      BY <2>4 DEF ReleaseHeld
    <3> QED BY <3>1 DEF Seen
  <2>5. CASE ReleaseSettles
    <3>1. CASE guard = "held"
      <4>1. guard' = guard /\ step = "releasing" /\ step' \in {"resolved", "released"}
        BY <3>1, <2>5 DEF ReleaseSettles, Goto
      <4> QED BY <3>1, <4>1, SMT DEF Seen, Contract!Release
    <3>2. CASE guard = "rejected"
      <4>1. guard' = "thrown"  BY <3>2, <2>5 DEF ReleaseSettles
      <4>2. Seen = "none" /\ Seen' \in {"none", "leaked"}  BY <3>2, <4>1 DEF Seen
      <4> QED BY <3>2, <4>1, <4>2, SMT DEF Contract!Throw
    <3> QED BY <2>5, <3>1, <3>2, SMT DEF ReleaseSettles, ServicesIInv, Phases, ServicesTypeOK
  <2>6. CASE Rethrow
    <3>1. guard = "rejected" /\ guard' = "thrown"  BY <2>6 DEF Rethrow
    <3>2. Seen = "none" /\ Seen' \in {"none", "leaked"}  BY <3>1 DEF Seen
    <3> QED BY <3>1, <3>2, SMT DEF Contract!Throw
  <2>7. ASSUME NEW s \in Service, Remove(s) PROVE UNCHANGED Contract!vars
    <3>1. /\ guard' = guard /\ step' = step /\ cut' = cut /\ guard # "thrown"
      BY <2>7, SMT DEF Remove, ServicesIInv, Phases
    <3> QED BY <3>1, SMT DEF Seen
  <2>8. CASE UNCHANGED vars
    <3>1. Seen' = Seen  BY <2>8 DEF vars, Seen, SomeFailed
    <3> QED BY <2>8, <3>1 DEF vars
  <2>9. ASSUME NEW s \in Service, ContainerExits(s) PROVE UNCHANGED Contract!vars
    <3>1. Seen' = Seen  BY <2>9 DEF ContainerExits, Seen, SomeFailed
    <3> QED BY <2>9, <3>1 DEF ContainerExits
  <2> QED BY <2>1, <2>2, <2>3, <2>4, <2>5, <2>6, <2>7, <2>8, <2>9 DEF Next, Settling
<1> QED BY <1>1, <1>2, ServicesInvariant, PTL DEF Spec, ImplementsServiceContract, Contract!Spec
=============================================================================
