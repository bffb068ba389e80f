----------------------------- MODULE DataProofs -----------------------------
(***************************************************************************)
(* Lemmas about the data that several components are built from: numbers,  *)
(* sequences and the writes outstanding on one socket, for any frames.     *)
(***************************************************************************)
EXTENDS AsyncWrite, SequenceTheorems, FiniteSetTheorems, WellFoundedInduction, TLAPS

-----------------------------------------------------------------------------
(* Induction and recursion over the numbers, as facts about sets and        *)
(* functions, which first-order provers can apply.                          *)

\* A set of numbers that is not empty has a least one.
LEMMA LeastNumber ==
  ASSUME NEW T, T \subseteq Nat, T # {}
  PROVE  \E x \in T : \A y \in T : ~(y < x)
<1> DEFINE R == OpToRel(<, Nat)
<1>1. IsWellFoundedOn(R, Nat)
  BY NatLessThanWellFounded
<1>2. \A x, y \in Nat : y < x => <<y, x>> \in R
  BY DEF OpToRel
<1> HIDE DEF R
<1>3. PICK x \in T : \A y \in T : ~(<<y, x>> \in R)
  BY <1>1, WFMin
<1> QED BY <1>2, <1>3

\* Induction over the numbers, as a fact about sets.
LEMMA Induction ==
  ASSUME NEW S, 0 \in S, \A n \in Nat : n \in S => n + 1 \in S
  PROVE  \A n \in Nat : n \in S
<1> SUFFICES ASSUME Nat \ S # {} PROVE FALSE
  OBVIOUS
<1>1. PICK x \in Nat \ S : \A y \in Nat \ S : ~(y < x)
  BY LeastNumber
<1>2. x # 0 /\ x - 1 \in Nat /\ x - 1 < x /\ (x - 1) + 1 = x
  BY <1>1
<1> QED BY <1>1, <1>2

\* f goes on from a, step by step, up to n.
GoesUp(f, n, A, a, step) ==
  /\ f \in [0..n -> A] /\ f[0] = a
  /\ \A i \in 1..n : f[i] = step[<<i, f[i - 1]>>]

\* A recursion over 0..n has a solution.
LEMMA Recursion ==
  ASSUME NEW A, NEW a \in A, NEW n \in Nat, NEW step \in [(1..n) \X A -> A]
  PROVE  \E f : GoesUp(f, n, A, a, step)
<1> DEFINE Solves(f, m) == f \in [0..m -> A] /\ f[0] = a /\ \A i \in 1..m : f[i] = step[<<i, f[i - 1]>>]
           S == {m \in Nat : m <= n => \E f : Solves(f, m)}
<1>1. 0 \in S
  <2>1. Solves([i \in 0..0 |-> a], 0)
    OBVIOUS
  <2> QED BY <2>1
<1>2. ASSUME NEW m \in Nat, m \in S PROVE m + 1 \in S
  <2> SUFFICES ASSUME m + 1 <= n PROVE \E g : Solves(g, m + 1)
    OBVIOUS
  <2>1. PICK f : Solves(f, m)
    BY <1>2
  <2> DEFINE g == [i \in 0..m + 1 |-> IF i = m + 1 THEN step[<<i, f[m]>>] ELSE f[i]]
  <2>2. step[<<m + 1, f[m]>>] \in A
    BY <2>1
  <2>3. g \in [0..m + 1 -> A] /\ g[0] = a /\ g[m + 1] = step[<<m + 1, f[m]>>]
        /\ \A i \in 0..m : g[i] = f[i]
    BY <2>1, <2>2
  <2> HIDE DEF g
  <2>4. ASSUME NEW i \in 1..m + 1 PROVE g[i] = step[<<i, g[i - 1]>>]
    <3>1. CASE i = m + 1
      BY <2>3, <3>1
    <3>2. CASE i # m + 1
      <4>1. i \in 1..m /\ i - 1 \in 0..m /\ i \in 0..m
        BY <3>2
      <4> QED BY <2>1, <2>3, <4>1
    <3> QED BY <3>1, <3>2
  <2> QED BY <2>3, <2>4
<1> HIDE DEF S
<1>3. n \in S
  BY <1>1, <1>2, Induction
<1> QED BY <1>3 DEF S, GoesUp

-----------------------------------------------------------------------------
(* Sequences without duplicates.                                            *)

\* Erasing from a sequence without duplicates takes out that one element: the
\* find and erase of server_config.cpp:44-45.
LEMMA RemoveFirstLemma ==
  ASSUME NEW S, NEW s \in Seq(S), NEW e \in ToSet(s), IsInjective(s)
  PROVE  /\ RemoveFirst(s, e) \in Seq(S)
         /\ IsInjective(RemoveFirst(s, e))
         /\ ToSet(RemoveFirst(s, e)) = ToSet(s) \ {e}
         /\ Len(RemoveFirst(s, e)) = Len(s) - 1
<1>1. PICK k \in 1..Len(s) : s[k] = e
  BY DEF ToSet
<1>2. SelectInSeq(s, LAMBDA v : v = e) = k
  BY <1>1 DEF SelectInSeq, Min, IsInjective
<1> DEFINE a == SubSeq(s, 1, k - 1)
           b == SubSeq(s, k + 1, Len(s))
           r == a \o b
<1>3. RemoveFirst(s, e) = r
  BY <1>1, <1>2 DEF RemoveFirst, RemoveAt
<1>4. a \in Seq(S) /\ Len(a) = k - 1 /\ \A i \in 1..k - 1 : a[i] = s[i]
  BY <1>1, SubSeqProperties
<1>5. b \in Seq(S) /\ Len(b) = Len(s) - k /\ \A i \in 1..Len(s) - k : b[i] = s[k + i]
  <2>1. \A i \in k + 1..Len(s) : s[i] \in S
    BY <1>1
  <2>2. /\ b \in Seq(S)
        /\ Len(b) = IF k + 1 <= Len(s) THEN Len(s) - (k + 1) + 1 ELSE 0
        /\ \A i \in 1..Len(s) - (k + 1) + 1 : b[i] = s[k + 1 + i - 1]
    BY <2>1, <1>1, SubSeqProperties
  <2>3. QED
    BY <2>2, <1>1
<1> HIDE DEF a, b
<1>6. /\ r \in Seq(S)
      /\ Len(r) = Len(s) - 1
      /\ \A i \in 1..Len(r) : r[i] = IF i < k THEN s[i] ELSE s[i + 1]
  <2>1. /\ r \in Seq(S)
        /\ Len(r) = Len(a) + Len(b)
        /\ \A i \in 1..Len(a) + Len(b) :
             r[i] = IF i <= Len(a) THEN a[i] ELSE b[i - Len(a)]
    BY <1>4, <1>5, ConcatProperties
  <2> HIDE DEF r
  <2>2. Len(r) = Len(s) - 1
    BY <1>1, <1>4, <1>5, <2>1
  <2>3. ASSUME NEW i \in 1..Len(r) PROVE r[i] = IF i < k THEN s[i] ELSE s[i + 1]
    <3>1. CASE i < k
      BY <1>1, <1>4, <1>5, <2>1, <2>2, <3>1
    <3>2. CASE i >= k
      <4>1. i - (k - 1) \in 1..Len(s) - k /\ k + (i - (k - 1)) = i + 1
        BY <1>1, <2>2, <3>2
      <4>2. r[i] = b[i - (k - 1)]
        BY <1>1, <1>4, <1>5, <2>1, <2>2, <3>2
      <4>3. QED
        BY <4>1, <4>2, <1>5, <3>2
    <3>3. QED
      BY <3>1, <3>2
  <2>4. QED
    BY <2>1, <2>2, <2>3
<1> HIDE DEF r
<1>7. IsInjective(r)
  <2>1. \A i, j \in 1..Len(s) : s[i] = s[j] => i = j
    BY DEF IsInjective
  <2>2. DOMAIN r = 1..Len(r) /\ Len(s) \in Nat
    BY <1>6
  <2> SUFFICES ASSUME NEW i \in 1..Len(r), NEW j \in 1..Len(r), r[i] = r[j] PROVE i = j
    BY <2>2 DEF IsInjective
  <2> DEFINE n == Len(s)
  <2>3. i \in 1..n - 1 /\ j \in 1..n - 1 /\ n \in Nat
    BY <1>6, <2>2
  <2>4. r[i] = s[IF i < k THEN i ELSE i + 1] /\ r[j] = s[IF j < k THEN j ELSE j + 1]
    BY <1>6
  <2> HIDE DEF n
  <2>5. (IF i < k THEN i ELSE i + 1) \in 1..n /\ (IF j < k THEN j ELSE j + 1) \in 1..n
    BY <1>1, <2>3
  <2>6. (IF i < k THEN i ELSE i + 1) = (IF j < k THEN j ELSE j + 1)
    BY <2>1, <2>4, <2>5 DEF n
  <2> QED BY <1>1, <2>3, <2>6
<1>8. ToSet(r) = ToSet(s) \ {e}
  <2>1. ToSet(r) \subseteq ToSet(s) \ {e}
    BY <1>1, <1>6 DEF IsInjective, ToSet
  <2>2. ASSUME NEW x \in ToSet(s) \ {e} PROVE x \in ToSet(r)
    <3>1. PICK j \in 1..Len(s) : s[j] = x
      BY DEF ToSet
    <3>2. r[IF j < k THEN j ELSE j - 1] = x /\ (IF j < k THEN j ELSE j - 1) \in 1..Len(r)
      BY <1>1, <1>6, <3>1
    <3>3. QED
      BY <3>2, <1>6 DEF ToSet
  <2>3. QED
    BY <2>1, <2>2
<1>9. QED
  BY <1>3, <1>6, <1>7, <1>8

\* Of elements of t a sequence without duplicates has no more than t.
LEMMA NoMoreThan ==
  ASSUME NEW A, NEW t \in Seq(A), NEW s \in Seq(ToSet(t)), IsInjective(s)
  PROVE  Len(s) <= Len(t)
<1> DEFINE m == Len(s)
           n == Len(t)
           T == ToSet(t)
<1>1. m \in Nat /\ n \in Nat /\ t \in [1..n -> T] /\ s \in [1..m -> T]
  BY DEF ToSet
<1>2. t \in Surjection(1..n, T)
  BY <1>1 DEF Surjection, ToSet
<1>3. s \in Injection(1..m, T)
  BY <1>1 DEF Injection, IsInjective
<1> HIDE DEF T, m, n
<1>4. /\ IsFiniteSet(1..n) /\ Cardinality(1..n) = n
      /\ IsFiniteSet(1..m) /\ Cardinality(1..m) = m
  <2>1. \A k \in Nat : IsFiniteSet(1..k) /\ Cardinality(1..k) = k
    BY FS_Interval
  <2> QED BY <1>1, <2>1
<1>5. IsFiniteSet(T) /\ Cardinality(T) <= n
  BY <1>2, <1>4, FS_Surjection
<1>6. m <= Cardinality(T)
  BY <1>3, <1>4, <1>5, FS_Injection
<1>7. Cardinality(T) \in Nat
  BY <1>5, FS_CardinalityType
<1>8. m <= n
  BY <1>1, <1>5, <1>6, <1>7
<1> QED BY <1>8 DEF m, n

-----------------------------------------------------------------------------
(* The inductive invariant of one socket.                                   *)

\* Frames are started in the order of their numbers.
StartedInOrder(frames) == \A i, j \in DOMAIN frames : i < j => frames[i] < frames[j]

\* Nothing but those frames is on the wire.
CellsKnown(q, frames, len) ==
  \A i \in DOMAIN q.wire : q.wire[i][1] \in ToSet(frames) /\ q.wire[i][2] < len[q.wire[i][1]]

\* A write is for one of the frames, unfinished, and knows what is on the wire.
WritesKnown(q, frames, len) ==
  \A op \in Writes(q) :
    /\ op.frame \in ToSet(frames)
    /\ op.len = len[op.frame] /\ op.sent < op.len
    /\ OnWire(q, op.frame) = 0..op.sent - 1

OneWriteEach(q) ==
  /\ \A i, j \in DOMAIN q.ready : i # j => q.ready[i].frame # q.ready[j].frame
  /\ \A i, j \in DOMAIN q.resume : i # j => q.resume[i].frame # q.resume[j].frame
  /\ \A i \in DOMAIN q.ready, j \in DOMAIN q.resume : q.ready[i].frame # q.resume[j].frame

\* What has not begun is still in order, behind all headers on the wire.
UnsentInOrder(q) ==
  /\ \A i \in DOMAIN q.resume : q.resume[i].sent > 0
  /\ \A i, j \in DOMAIN q.ready :
       i < j /\ q.ready[i].sent = 0 /\ q.ready[j].sent = 0 => q.ready[i].frame < q.ready[j].frame
  /\ \A i \in DOMAIN q.ready, j \in DOMAIN q.wire :
       q.ready[i].sent = 0 /\ q.wire[j][2] = 0 => q.wire[j][1] < q.ready[i].frame

\* The wire ends with the last cell of frames[k]; with k = 0 it is empty.
EndsWith(q, frames, len, k) ==
  IF k = 0 THEN q.wire = <<>>
  ELSE q.wire # <<>> /\ q.wire[Len(q.wire)] = <<frames[k], len[frames[k]] - 1>>

\* Without overlap there is one write at most, and it is for the last frame.
OneAtATime(q, frames, len, alive) ==
  /\ OneAfterAnother(q, frames, len)
  /\ Outstanding(q) <= 1
  /\ alive => /\ Outstanding(q) = 0 => EndsWith(q, frames, len, Len(frames))
              /\ \A op \in Writes(q) :
                   /\ op.frame = frames[Len(frames)]
                   /\ IF op.sent = 0
                      THEN EndsWith(q, frames, len, Len(frames) - 1)
                      ELSE q.wire # <<>> /\ q.wire[Len(q.wire)] = <<op.frame, op.sent - 1>>

WritesInv(q, frames, len, alive) ==
  /\ StartedInOrder(frames)
  /\ CellsKnown(q, frames, len)
  /\ InOrderOnWire(q)
  /\ HeadersInOrder(q)
  /\ WritesKnown(q, frames, len)
  /\ OneWriteEach(q)
  /\ UnsentInOrder(q)
  /\ BytesKept(q, frames, len, alive)
  /\ ~q.overlapped => OneAtATime(q, frames, len, alive)

-----------------------------------------------------------------------------
(* The writes outstanding on one socket.                                    *)

\* A write that got further is a write.
LEMMA OpLemma ==
  ASSUME NEW F, NEW o \in Op(F), NEW k \in Nat
  PROVE  /\ Advanced(o, k) \in Op(F)
         /\ Advanced(o, k).frame = o.frame /\ Advanced(o, k).len = o.len
         /\ Advanced(o, k).sent = o.sent + k
BY DEF Op, Advanced

\* The operations on the writes of a socket keep its type.
LEMMA QueueLemma ==
  ASSUME NEW F, NEW w \in WriteQueue(F), NEW max \in Nat
  PROVE  /\ \A f \in F, len \in Nat : StartWrite(w, f, len) \in WriteQueue(F)
         /\ \A k \in Transfers(w, max) : TransferSome(w, k) \in WriteQueue(F)
         /\ w.resume # <<>> => /\ ResumeWrite(w) \in WriteQueue(F)
                               /\ DropResumed(w) \in WriteQueue(F)
         /\ w.ready # <<>> => FailWrite(w) \in WriteQueue(F)
         /\ AbortWrites(w) \in WriteQueue(F)
<1> USE DEF WriteQueue
<1>1. \A f \in F, len \in Nat : StartWrite(w, f, len) \in WriteQueue(F)
  <2> SUFFICES ASSUME NEW f \in F, NEW len \in Nat
               PROVE  StartWrite(w, f, len) \in WriteQueue(F)
    OBVIOUS
  <2>1. [frame |-> f, len |-> len, sent |-> 0] \in Op(F)
    BY DEF Op
  <2>2. Append(w.ready, [frame |-> f, len |-> len, sent |-> 0]) \in Seq(Op(F))
    BY <2>1, AppendProperties
  <2>3. QED
    BY <2>2 DEF StartWrite, Outstanding
<1>2. ASSUME NEW k \in Transfers(w, max)
      PROVE  TransferSome(w, k) \in WriteQueue(F)
  <2> DEFINE op == Head(w.ready)
  <2>1. k \in Nat /\ w.ready # <<>> /\ k <= op.len - op.sent
    BY DEF Transfers
  <2>2. op \in Op(F) /\ Tail(w.ready) \in Seq(Op(F))
    BY <2>1, HeadTailProperties
  <2>3. CellsOf(op, k) \in Seq(F \X Nat)
    <3>1. op.frame \in F /\ op.sent \in Nat
      BY <2>2 DEF Op
    <3> HIDE DEF op
    <3>2. \A i \in 1..k : <<op.frame, op.sent + i - 1>> \in F \X Nat
      BY <2>1, <3>1
    <3>3. QED
      BY <2>1, <3>2 DEF CellsOf
  <2>4. w.wire \o CellsOf(op, k) \in Seq(F \X Nat)
    BY <2>3, ConcatProperties
  <2>5. Advanced(op, k) \in Op(F)
    BY <2>1, <2>2, OpLemma
  <2>6. Append(w.resume, Advanced(op, k)) \in Seq(Op(F))
    BY <2>5, AppendProperties
  <2>7. QED
    BY <2>2, <2>4, <2>6 DEF TransferSome
<1>3. ASSUME w.resume # <<>>
      PROVE  ResumeWrite(w) \in WriteQueue(F) /\ DropResumed(w) \in WriteQueue(F)
  <2>1. Head(w.resume) \in Op(F) /\ Tail(w.resume) \in Seq(Op(F))
    BY <1>3, HeadTailProperties
  <2>2. Append(w.ready, Head(w.resume)) \in Seq(Op(F))
    BY <2>1, AppendProperties
  <2>3. QED
    BY <2>1, <2>2 DEF ResumeWrite, DropResumed
<1>4. ASSUME w.ready # <<>> PROVE FailWrite(w) \in WriteQueue(F)
  <2>1. Tail(w.ready) \in Seq(Op(F))
    BY <1>4, HeadTailProperties
  <2>2. QED
    BY <2>1 DEF FailWrite
<1>5. AbortWrites(w) \in WriteQueue(F)
  BY EmptySeq DEF AbortWrites
<1>6. QED
  BY <1>1, <1>2, <1>3, <1>4, <1>5
-----------------------------------------------------------------------------
(* Sequences, element by element.                                           *)

\* Concatenation, element by element.
LEMMA ConcatLemma ==
  ASSUME NEW S, NEW s \in Seq(S), NEW t \in Seq(S)
  PROVE  /\ s \o t \in Seq(S) /\ Len(s \o t) = Len(s) + Len(t)
         /\ Len(s) \in Nat /\ Len(t) \in Nat
         /\ DOMAIN s = 1..Len(s) /\ DOMAIN (s \o t) = 1..Len(s) + Len(t)
         /\ \A i \in 1..Len(s) : (s \o t)[i] = s[i]
         /\ \A i \in 1..Len(t) : (s \o t)[Len(s) + i] = t[i]
<1>1. /\ s \o t \in Seq(S) /\ Len(s \o t) = Len(s) + Len(t)
      /\ \A i \in 1..Len(s) + Len(t) : (s \o t)[i] = IF i <= Len(s) THEN s[i] ELSE t[i - Len(s)]
  BY ConcatProperties
<1>2. Len(s) \in Nat /\ Len(t) \in Nat /\ DOMAIN s = 1..Len(s) /\ DOMAIN (s \o t) = 1..Len(s) + Len(t)
  BY <1>1
<1>3. \A i \in 1..Len(s) : (s \o t)[i] = s[i]
  BY <1>1, <1>2
<1>4. ASSUME NEW i \in 1..Len(t) PROVE (s \o t)[Len(s) + i] = t[i]
  <2>1. Len(s) + i \in 1..Len(s) + Len(t) /\ ~(Len(s) + i <= Len(s)) /\ Len(s) + i - Len(s) = i
    BY <1>2
  <2> QED BY <1>1, <2>1
<1> QED BY <1>1, <1>2, <1>3, <1>4

\* One more element.
LEMMA AppendLemma ==
  ASSUME NEW S, NEW s \in Seq(S), NEW e \in S
  PROVE  /\ Append(s, e) \in Seq(S) /\ Len(s) \in Nat
         /\ Len(Append(s, e)) = Len(s) + 1
         /\ DOMAIN s = 1..Len(s) /\ DOMAIN Append(s, e) = 1..Len(s) + 1
         /\ \A i \in 1..Len(s) : Append(s, e)[i] = s[i]
         /\ Append(s, e)[Len(s) + 1] = e
         /\ ToSet(Append(s, e)) = ToSet(s) \cup {e}
<1>1. /\ Append(s, e) \in Seq(S) /\ Len(Append(s, e)) = Len(s) + 1
      /\ \A i \in 1..Len(s) : Append(s, e)[i] = s[i]
      /\ Append(s, e)[Len(s) + 1] = e
  BY AppendProperties
<1>2. Len(s) \in Nat /\ DOMAIN s = 1..Len(s)
  OBVIOUS
<1>3. DOMAIN Append(s, e) = 1..Len(s) + 1
  BY <1>1, <1>2
<1>4. ToSet(Append(s, e)) = ToSet(s) \cup {e}
  BY <1>1, <1>2, <1>3 DEF ToSet
<1> QED BY <1>1, <1>2, <1>3, <1>4

\* One element less.
LEMMA TailLemma ==
  ASSUME NEW S, NEW s \in Seq(S), s # <<>>
  PROVE  /\ Tail(s) \in Seq(S) /\ Head(s) \in S /\ Head(s) = s[1]
         /\ Len(s) \in Nat /\ Len(s) > 0 /\ Len(Tail(s)) = Len(s) - 1
         /\ DOMAIN s = 1..Len(s) /\ DOMAIN Tail(s) = 1..Len(s) - 1
         /\ \A i \in 1..Len(s) - 1 : Tail(s)[i] = s[i + 1]
         /\ ToSet(s) = ToSet(Tail(s)) \cup {Head(s)}
<1>1. /\ Tail(s) \in Seq(S) /\ Head(s) \in S /\ Head(s) = s[1] /\ Len(Tail(s)) = Len(s) - 1
      /\ \A i \in 1..Len(s) - 1 : Tail(s)[i] = s[i + 1]
  BY HeadTailProperties
<1>2. Len(s) \in Nat /\ Len(s) > 0 /\ DOMAIN s = 1..Len(s)
  OBVIOUS
<1>3. DOMAIN Tail(s) = 1..Len(s) - 1
  BY <1>1, <1>2
<1>4. ASSUME NEW x PROVE x \in ToSet(s) <=> x \in ToSet(Tail(s)) \cup {Head(s)}
  <2>1. x \in ToSet(s) <=> \E i \in 1..Len(s) : s[i] = x
    BY <1>2 DEF ToSet
  <2>2. x \in ToSet(Tail(s)) <=> \E i \in 1..Len(s) - 1 : s[i + 1] = x
    BY <1>1, <1>3 DEF ToSet
  <2>3. ASSUME NEW i \in 1..Len(s), s[i] = x, x # s[1]
        PROVE  i - 1 \in 1..Len(s) - 1 /\ s[(i - 1) + 1] = x
    BY <1>2, <2>3
  <2>4. \A i \in 1..Len(s) - 1 : i + 1 \in 1..Len(s)
    BY <1>2
  <2>5. 1 \in 1..Len(s)
    BY <1>2
  <2> QED BY <1>1, <2>1, <2>2, <2>3, <2>4, <2>5
<1>5. ToSet(s) = ToSet(Tail(s)) \cup {Head(s)}
  BY <1>4
<1> QED BY <1>1, <1>2, <1>3, <1>5
-----------------------------------------------------------------------------
(* What the operations do to the parts of the queue.                        *)

LEMMA QueueParts ==
  ASSUME NEW F, NEW w \in WriteQueue(F)
  PROVE  /\ w.ready \in Seq(Op(F)) /\ w.resume \in Seq(Op(F))
         /\ w.wire \in Seq(F \X Nat) /\ w.overlapped \in BOOLEAN
BY DEF WriteQueue

LEMMA OpParts ==
  ASSUME NEW F, NEW o \in Op(F)
  PROVE  /\ o.frame \in F /\ o.len \in Nat /\ o.sent \in Nat
         /\ o = [frame |-> o.frame, len |-> o.len, sent |-> o.sent]
BY DEF Op

\* The cells of one transfer.
LEMMA CellsLemma ==
  ASSUME NEW F, NEW op \in Op(F), NEW k \in Nat
  PROVE  /\ CellsOf(op, k) \in Seq(F \X Nat) /\ Len(CellsOf(op, k)) = k
         /\ \A i \in 1..k : CellsOf(op, k)[i] = <<op.frame, op.sent + i - 1>>
<1>1. op.frame \in F /\ op.sent \in Nat
  BY OpParts
<1>2. \A i \in 1..k : <<op.frame, op.sent + i - 1>> \in F \X Nat
  BY <1>1
<1> QED BY <1>2 DEF CellsOf

\* One transfer: the head leaves `ready', its next k cells are on the wire.
LEMMA TransferShape ==
  ASSUME NEW F, NEW w \in WriteQueue(F), NEW max \in Nat, NEW k \in Transfers(w, max)
  PROVE  /\ Head(w.ready) \in Op(F) /\ w.ready # <<>> /\ Head(w.ready) = w.ready[1]
         /\ k \in Nat /\ k > 0 /\ Head(w.ready).sent + k <= Head(w.ready).len
         /\ TransferSome(w, k).ready = Tail(w.ready)
         /\ TransferSome(w, k).wire = w.wire \o CellsOf(Head(w.ready), k)
         /\ Head(w.ready).sent + k < Head(w.ready).len =>
              TransferSome(w, k).resume = Append(w.resume, Advanced(Head(w.ready), k))
         /\ ~(Head(w.ready).sent + k < Head(w.ready).len) => TransferSome(w, k).resume = w.resume
         /\ TransferSome(w, k).overlapped = w.overlapped
<1> DEFINE op == Head(w.ready)
           v == TransferSome(w, k)
<1>1. k \in Nat /\ k > 0 /\ w.ready # <<>> /\ k <= op.len - op.sent
  BY DEF Transfers
<1>2. op \in Op(F) /\ op = w.ready[1]
  BY <1>1, QueueParts, TailLemma
<1>3. op.sent + k <= op.len
  BY <1>1, <1>2, OpParts
<1>4. /\ v.wire = w.wire \o CellsOf(op, k)
      /\ v.ready = Tail(w.ready)
      /\ op.sent + k < op.len => v.resume = Append(w.resume, Advanced(op, k))
      /\ ~(op.sent + k < op.len) => v.resume = w.resume
      /\ v.overlapped = w.overlapped
  BY DEF TransferSome, WriteQueue
<1> QED BY <1>1, <1>2, <1>3, <1>4

\* The wire of a transfer, cell by cell.
LEMMA TransferWire ==
  ASSUME NEW F, NEW w \in WriteQueue(F), NEW max \in Nat, NEW k \in Transfers(w, max)
  PROVE  /\ Len(w.wire) \in Nat /\ Len(TransferSome(w, k).wire) = Len(w.wire) + k
         /\ DOMAIN w.wire = 1..Len(w.wire)
         /\ DOMAIN TransferSome(w, k).wire = 1..Len(w.wire) + k
         /\ \A i \in 1..Len(w.wire) : TransferSome(w, k).wire[i] = w.wire[i]
         /\ \A i \in 1..k : TransferSome(w, k).wire[Len(w.wire) + i] = <<Head(w.ready).frame, Head(w.ready).sent + i - 1>>
         /\ \A i \in DOMAIN TransferSome(w, k).wire : \/ i \in DOMAIN w.wire
                                     \/ i - Len(w.wire) \in 1..k
<1> DEFINE op == Head(w.ready)
           v == TransferSome(w, k)
<1>1. /\ op \in Op(F) /\ k \in Nat /\ v.wire = w.wire \o CellsOf(op, k)
  BY TransferShape
<1>2. /\ CellsOf(op, k) \in Seq(F \X Nat) /\ Len(CellsOf(op, k)) = k
      /\ \A i \in 1..k : CellsOf(op, k)[i] = <<op.frame, op.sent + i - 1>>
  BY <1>1, CellsLemma
<1>3. w.wire \in Seq(F \X Nat)
  BY QueueParts
<1> DEFINE t == CellsOf(op, k)
           C == F \X Nat
<1> HIDE DEF t, C, op, v
<1>4. /\ Len(w.wire) \in Nat /\ Len(v.wire) = Len(w.wire) + k
      /\ DOMAIN w.wire = 1..Len(w.wire)
      /\ DOMAIN v.wire = 1..Len(w.wire) + k
      /\ \A i \in 1..Len(w.wire) : v.wire[i] = w.wire[i]
      /\ \A i \in 1..k : v.wire[Len(w.wire) + i] = t[i]
  <2>1. w.wire \in Seq(C) /\ t \in Seq(C) /\ Len(t) = k /\ v.wire = w.wire \o t
    BY <1>1, <1>2, <1>3 DEF t, C
  <2>2. /\ w.wire \o t \in Seq(C) /\ Len(w.wire \o t) = Len(w.wire) + Len(t)
        /\ Len(w.wire) \in Nat
    BY <2>1, ConcatLemma
  <2>4. DOMAIN w.wire = 1..Len(w.wire) /\ DOMAIN v.wire = 1..Len(v.wire)
    BY <2>1, <2>2
  <2>3. /\ \A i \in 1..Len(w.wire) : (w.wire \o t)[i] = w.wire[i]
        /\ \A i \in 1..Len(t) : (w.wire \o t)[Len(w.wire) + i] = t[i]
    BY <2>1, ConcatLemma
  <2> QED BY <2>1, <2>2, <2>3, <2>4
<1>5. \A i \in 1..k : v.wire[Len(w.wire) + i] = <<op.frame, op.sent + i - 1>>
  BY <1>2, <1>4 DEF t
<1>6. \A i \in DOMAIN v.wire : i \in DOMAIN w.wire \/ i - Len(w.wire) \in 1..k
  BY <1>1, <1>4
<1> QED BY <1>4, <1>5, <1>6 DEF op, v

LEMMA OnWireLemma ==
  ASSUME NEW w, NEW f, NEW o
  PROVE  o \in OnWire(w, f) <=> \E i \in DOMAIN w.wire : w.wire[i][1] = f /\ w.wire[i][2] = o
BY DEF OnWire, ToSet

\* What leaves the wire alone leaves what is on it.
LEMMA SameWire ==
  ASSUME NEW w, NEW v, v.wire = w.wire
  PROVE  \A f : OnWire(v, f) = OnWire(w, f)
BY DEF OnWire

\* The transfer adds its cells to its frame and none to another.
LEMMA TransferOnWire ==
  ASSUME NEW w \in WriteQueue(Nat), NEW max \in Nat, NEW k \in Transfers(w, max)
  PROVE  /\ OnWire(TransferSome(w, k), Head(w.ready).frame) = OnWire(w, Head(w.ready).frame) \cup Head(w.ready).sent..Head(w.ready).sent + k - 1
         /\ \A f : f # Head(w.ready).frame => OnWire(TransferSome(w, k), f) = OnWire(w, f)
<1> DEFINE op == Head(w.ready)
           v == TransferSome(w, k)
<1> DEFINE n == Len(w.wire)
<1>1. /\ n \in Nat /\ DOMAIN w.wire = 1..n /\ DOMAIN v.wire = 1..n + k
      /\ \A i \in 1..n : v.wire[i] = w.wire[i]
      /\ \A i \in 1..k : v.wire[n + i] = <<op.frame, op.sent + i - 1>>
      /\ \A i \in DOMAIN v.wire : i \in DOMAIN w.wire \/ i - n \in 1..k
  BY TransferWire
<1>2. k \in Nat /\ k > 0 /\ op \in Op(Nat)
  BY TransferShape
<1>3. op.sent \in Nat
  BY <1>2, OpParts
<1> HIDE DEF n, op, v
<1>a. n \in Nat /\ DOMAIN v.wire = 1..n + k
  BY <1>1
<1>4. ASSUME NEW f, NEW o, o \in OnWire(v, f), o \notin OnWire(w, f)
      PROVE  f = op.frame /\ o \in op.sent..op.sent + k - 1
  <2>1. PICK i \in DOMAIN v.wire : v.wire[i][1] = f /\ v.wire[i][2] = o
    BY <1>4, OnWireLemma
  <2>2. i \notin DOMAIN w.wire
    BY <1>1, <1>4, <2>1, OnWireLemma
  <2>3. i - n \in 1..k /\ n + (i - n) = i
    BY <1>1, <2>1, <2>2
  <2>4. v.wire[i] = <<op.frame, op.sent + (i - n) - 1>>
    BY <1>1, <2>3
  <2> QED BY <1>2, <1>3, <2>1, <2>3, <2>4
<1>5. ASSUME NEW f, NEW o, o \in OnWire(w, f) PROVE o \in OnWire(v, f)
  <2>1. PICK i \in DOMAIN w.wire : w.wire[i][1] = f /\ w.wire[i][2] = o
    BY <1>5, OnWireLemma
  <2>2. i \in DOMAIN v.wire /\ v.wire[i] = w.wire[i]
    BY <1>1, <1>2, <2>1
  <2> QED BY <2>1, <2>2, OnWireLemma
<1>6. ASSUME NEW o \in op.sent..op.sent + k - 1 PROVE o \in OnWire(v, op.frame)
  <2> DEFINE j == o - op.sent + 1
  <2>1. j \in 1..k /\ op.sent + j - 1 = o
    BY <1>2, <1>3
  <2> HIDE DEF j
  <2>3. n + j \in DOMAIN v.wire
    BY <1>a, <1>2, <2>1
  <2>2. v.wire[n + j] = <<op.frame, o>>
    BY <1>1, <2>1
  <2> QED BY <2>2, <2>3, OnWireLemma
<1>7. \A f, o : o \in OnWire(v, f) <=>
                  \/ o \in OnWire(w, f)
                  \/ f = op.frame /\ o \in op.sent..op.sent + k - 1
  BY <1>4, <1>5, <1>6
<1> QED BY <1>7 DEF op, v
-----------------------------------------------------------------------------
(* The invariant of one socket, operation by operation.                     *)

\* The transfer keeps what is known of the wire.
LEMMA TransferKeepsWire ==
  ASSUME NEW w \in WriteQueue(Nat), NEW max \in Nat, NEW k \in Transfers(w, max),
         NEW frames, NEW len, WritesInv(w, frames, len, TRUE)
  PROVE  /\ CellsKnown(TransferSome(w, k), frames, len)
         /\ InOrderOnWire(TransferSome(w, k))
         /\ HeadersInOrder(TransferSome(w, k))
<1> DEFINE op == Head(w.ready)
           v == TransferSome(w, k)
           n == Len(w.wire)
<1>1. /\ n \in Nat /\ DOMAIN w.wire = 1..n
      /\ \A i \in 1..n : v.wire[i] = w.wire[i]
      /\ \A i \in 1..k : v.wire[n + i] = <<op.frame, op.sent + i - 1>>
      /\ \A i \in DOMAIN v.wire : i \in DOMAIN w.wire \/ i - n \in 1..k
      /\ DOMAIN v.wire = 1..n + k
  BY TransferWire
<1>2. /\ k \in Nat /\ k > 0 /\ op \in Op(Nat) /\ op.sent + k <= op.len
      /\ w.ready # <<>> /\ op = w.ready[1]
  BY TransferShape
<1>3. op.sent \in Nat /\ op.frame \in Nat /\ op.len \in Nat
  BY <1>2, OpParts
<1>4. 1 \in DOMAIN w.ready /\ op \in Writes(w)
  <2>1. w.ready \in Seq(Op(Nat))
    BY QueueParts
  <2>2. 1 \in DOMAIN w.ready
    BY <1>2, <2>1
  <2> QED BY <1>2, <2>2 DEF Writes, ToSet
<1>5. /\ op.frame \in ToSet(frames) /\ op.len = len[op.frame]
      /\ OnWire(w, op.frame) = 0..op.sent - 1
  BY <1>4 DEF WritesInv, WritesKnown
<1> HIDE DEF n, op, v
<1>6. ASSUME NEW i \in DOMAIN v.wire
      PROVE  \/ i \in DOMAIN w.wire /\ v.wire[i] = w.wire[i] /\ i <= n
             \/ /\ i - n \in 1..k /\ v.wire[i][1] = op.frame
                /\ v.wire[i][2] = op.sent + (i - n) - 1 /\ i > n
  <2>1. CASE i \in DOMAIN w.wire
    BY <1>1, <2>1
  <2>2. CASE i - n \in 1..k
    <3>1. n + (i - n) = i /\ i > n
      BY <1>1, <2>2
    <3>2. v.wire[n + (i - n)] = <<op.frame, op.sent + (i - n) - 1>>
      BY <1>1, <2>2
    <3> QED BY <2>2, <3>1, <3>2
  <2> QED BY <1>1, <2>1, <2>2
<1>7. CellsKnown(v, frames, len)
  <2> SUFFICES ASSUME NEW i \in DOMAIN v.wire
               PROVE  v.wire[i][1] \in ToSet(frames) /\ v.wire[i][2] < len[v.wire[i][1]]
    BY DEF CellsKnown
  <2>1. CASE i \in DOMAIN w.wire /\ v.wire[i] = w.wire[i]
    BY <2>1 DEF WritesInv, CellsKnown
  <2>2. CASE i - n \in 1..k /\ v.wire[i][1] = op.frame /\ v.wire[i][2] = op.sent + (i - n) - 1
    BY <1>2, <1>3, <1>5, <2>2
  <2> QED BY <1>6, <2>1, <2>2
<1>8. InOrderOnWire(v)
  <2> SUFFICES ASSUME NEW i \in DOMAIN v.wire, NEW j \in DOMAIN v.wire, i < j,
                      v.wire[i][1] = v.wire[j][1]
               PROVE  v.wire[i][2] < v.wire[j][2]
    BY DEF InOrderOnWire
  <2>1. CASE j \in DOMAIN w.wire /\ v.wire[j] = w.wire[j] /\ j <= n
    <3>1. i \in DOMAIN w.wire /\ v.wire[i] = w.wire[i]
      <4>1. i <= n
        BY <1>1, <2>1
      <4> QED BY <1>6, <4>1, <1>1
    <3> QED BY <2>1, <3>1 DEF WritesInv, InOrderOnWire
  <2>2. CASE j - n \in 1..k /\ v.wire[j][1] = op.frame /\ v.wire[j][2] = op.sent + (j - n) - 1
    <3>1. CASE i \in DOMAIN w.wire /\ v.wire[i] = w.wire[i]
      <4>1. v.wire[i][2] \in OnWire(w, op.frame)
        BY <2>2, <3>1, OnWireLemma
      <4>2. v.wire[i][2] \in 0..op.sent - 1
        BY <1>5, <4>1
      <4> QED BY <1>3, <2>2, <4>2
    <3>2. CASE i - n \in 1..k /\ v.wire[i][2] = op.sent + (i - n) - 1
      <4>1. i \in Int /\ j \in Int /\ n \in Int
        BY <1>1, <1>2
      <4> QED BY <1>3, <2>2, <3>2, <4>1
    <3> QED BY <1>6, <3>1, <3>2
  <2> QED BY <1>6, <2>1, <2>2
<1>9. HeadersInOrder(v)
  <2> SUFFICES ASSUME NEW i \in DOMAIN v.wire, NEW j \in DOMAIN v.wire, i < j,
                      v.wire[i][2] = 0, v.wire[j][2] = 0
               PROVE  v.wire[i][1] < v.wire[j][1]
    BY DEF HeadersInOrder
  <2>1. CASE j \in DOMAIN w.wire /\ v.wire[j] = w.wire[j] /\ j <= n
    <3>1. i \in DOMAIN w.wire /\ v.wire[i] = w.wire[i]
      <4>1. i <= n
        BY <1>1, <2>1
      <4> QED BY <1>6, <4>1, <1>1
    <3> QED BY <2>1, <3>1 DEF WritesInv, HeadersInOrder
  <2>2. CASE j - n \in 1..k /\ v.wire[j][1] = op.frame /\ v.wire[j][2] = op.sent + (j - n) - 1
    <3>1. op.sent = 0 /\ j - n = 1
      BY <1>3, <2>2
    <3>2. i \in DOMAIN w.wire /\ v.wire[i] = w.wire[i]
      <4>1. i <= n
        BY <1>1, <3>1
      <4> QED BY <1>6, <4>1, <1>1
    <3>3. w.wire[i][1] < w.ready[1].frame
      BY <1>2, <1>4, <3>1, <3>2 DEF WritesInv, UnsentInOrder
    <3> QED BY <1>2, <2>2, <3>2, <3>3
  <2> QED BY <1>6, <2>1, <2>2
<1> QED BY <1>7, <1>8, <1>9 DEF v
\* The writes of a transfer: the others, and the head with k cells more unless
\* that was all of it.
LEMMA TransferWrites ==
  ASSUME NEW w \in WriteQueue(Nat), NEW max \in Nat, NEW k \in Transfers(w, max),
         OneWriteEach(w)
  PROVE  LET op == Head(w.ready)
             v  == TransferSome(w, k)
             go == Advanced(op, k)
         IN /\ \A x \in Writes(v) :
                 \/ x \in Writes(w) /\ x.frame # op.frame
                 \/ x = go /\ op.sent + k < op.len
            /\ \A x \in Writes(w) : x.frame # op.frame => x \in Writes(v)
            /\ op.sent + k < op.len => go \in Writes(v)
            /\ OneWriteEach(v)
<1> DEFINE op == Head(w.ready)
           v == TransferSome(w, k)
           go == Advanced(op, k)
<1>1. /\ v.ready = Tail(w.ready) /\ op \in Op(Nat) /\ w.ready # <<>> /\ k \in Nat
      /\ op.sent + k < op.len => v.resume = Append(w.resume, go)
      /\ ~(op.sent + k < op.len) => v.resume = w.resume
  BY TransferShape
<1>2. w.ready \in Seq(Op(Nat)) /\ w.resume \in Seq(Op(Nat))
  BY QueueParts
<1>3. go \in Op(Nat) /\ go.frame = op.frame
  BY <1>1, OpLemma
<1> HIDE DEF go
<1>4. /\ op = w.ready[1] /\ Len(w.ready) \in Nat /\ Len(w.ready) > 0
      /\ DOMAIN w.ready = 1..Len(w.ready) /\ DOMAIN v.ready = 1..Len(w.ready) - 1
      /\ \A i \in 1..Len(w.ready) - 1 : v.ready[i] = w.ready[i + 1]
      /\ ToSet(w.ready) = ToSet(v.ready) \cup {op}
  BY <1>1, <1>2, TailLemma
<1>5. /\ DOMAIN w.resume = 1..Len(w.resume) /\ Len(w.resume) \in Nat
      /\ DOMAIN Append(w.resume, go) = 1..Len(w.resume) + 1
      /\ \A i \in 1..Len(w.resume) : Append(w.resume, go)[i] = w.resume[i]
      /\ Append(w.resume, go)[Len(w.resume) + 1] = go
      /\ ToSet(Append(w.resume, go)) = ToSet(w.resume) \cup {go}
  BY <1>2, <1>3, AppendLemma
<1> HIDE DEF op, v
<1>6. \A i \in DOMAIN v.ready : i + 1 \in DOMAIN w.ready /\ i + 1 # 1 /\ v.ready[i] = w.ready[i + 1]
  BY <1>4
<1>7. \A i \in DOMAIN v.ready : v.ready[i].frame # op.frame
  <2>1. 1 \in DOMAIN w.ready
    BY <1>4
  <2> QED BY <1>4, <1>6, <2>1 DEF OneWriteEach
<1>8. \A i \in DOMAIN w.resume : w.resume[i].frame # op.frame
  <2>1. 1 \in DOMAIN w.ready
    BY <1>4
  <2> QED BY <1>4, <2>1 DEF OneWriteEach
<1>9. \A x \in ToSet(v.ready) \cup ToSet(w.resume) : x \in Writes(w) /\ x.frame # op.frame
  BY <1>4, <1>7, <1>8 DEF ToSet, Writes
<1>10. ToSet(v.resume) = IF op.sent + k < op.len THEN ToSet(w.resume) \cup {go} ELSE ToSet(w.resume)
  BY <1>1, <1>5
<1>11. \A i \in DOMAIN v.resume : \/ i \in DOMAIN w.resume /\ v.resume[i] = w.resume[i]
                                  \/ i = Len(w.resume) + 1 /\ v.resume[i] = go
  <2>1. CASE op.sent + k < op.len
    <3> DEFINE longer == Append(w.resume, go)
    <3>1. v.resume = longer
      BY <1>1, <2>1
    <3>2. \A i \in DOMAIN longer : \/ i \in DOMAIN w.resume /\ longer[i] = w.resume[i]
                                   \/ i = Len(w.resume) + 1 /\ longer[i] = go
      BY <1>5
    <3> HIDE DEF longer
    <3> QED BY <3>1, <3>2
  <2>2. CASE ~(op.sent + k < op.len)
    BY <1>1, <2>2
  <2> QED BY <2>1, <2>2
<1>12. OneWriteEach(v)
  <2>1. ASSUME NEW i \in DOMAIN v.ready, NEW j \in DOMAIN v.ready, i # j
        PROVE  v.ready[i].frame # v.ready[j].frame
    <3>1. i + 1 # j + 1
      BY <1>4, <2>1
    <3> QED BY <1>6, <3>1 DEF OneWriteEach
  <2>2. ASSUME NEW i \in DOMAIN v.resume, NEW j \in DOMAIN v.resume, i # j
        PROVE  v.resume[i].frame # v.resume[j].frame
    BY <1>3, <1>8, <1>11, <2>2 DEF OneWriteEach
  <2>3. ASSUME NEW i \in DOMAIN v.ready, NEW j \in DOMAIN v.resume
        PROVE  v.ready[i].frame # v.resume[j].frame
    <3>1. CASE j \in DOMAIN w.resume /\ v.resume[j] = w.resume[j]
      BY <1>6, <3>1 DEF OneWriteEach
    <3>2. CASE v.resume[j] = go
      BY <1>3, <1>7, <3>2
    <3> QED BY <1>11, <3>1, <3>2
  <2> QED BY <2>1, <2>2, <2>3 DEF OneWriteEach
<1>13. \A x \in Writes(v) : \/ x \in Writes(w) /\ x.frame # op.frame
                            \/ x = go /\ op.sent + k < op.len
  BY <1>9, <1>10 DEF Writes
<1>14. \A x \in Writes(w) : x.frame # op.frame => x \in Writes(v)
  BY <1>4, <1>10 DEF Writes
<1>15. op.sent + k < op.len => go \in Writes(v)
  BY <1>10 DEF Writes
<1> QED BY <1>12, <1>13, <1>14, <1>15 DEF op, v, go

\* The transfer keeps what is known of the writes.
LEMMA TransferKeepsWrites ==
  ASSUME NEW w \in WriteQueue(Nat), NEW max \in Nat, NEW k \in Transfers(w, max),
         NEW frames, NEW len, WritesInv(w, frames, len, TRUE)
  PROVE  /\ WritesKnown(TransferSome(w, k), frames, len)
         /\ UnsentInOrder(TransferSome(w, k))
         /\ BytesKept(TransferSome(w, k), frames, len, TRUE)
<1> DEFINE op == Head(w.ready)
           v == TransferSome(w, k)
           go == Advanced(op, k)
<1>1. /\ k \in Nat /\ k > 0 /\ op \in Op(Nat) /\ op.sent + k <= op.len
      /\ w.ready # <<>> /\ op = w.ready[1] /\ v.ready = Tail(w.ready)
      /\ op.sent + k < op.len => v.resume = Append(w.resume, go)
      /\ ~(op.sent + k < op.len) => v.resume = w.resume
  BY TransferShape
<1>2. op.sent \in Nat /\ op.frame \in Nat /\ op.len \in Nat
  BY <1>1, OpParts
<1>3. /\ go \in Op(Nat) /\ go.frame = op.frame /\ go.len = op.len /\ go.sent = op.sent + k
      /\ go = [frame |-> op.frame, len |-> op.len, sent |-> op.sent + k]
  <2>1. go \in Op(Nat)
    BY <1>1, OpLemma
  <2>2. go.frame = op.frame /\ go.len = op.len /\ go.sent = op.sent + k
    BY <1>1, OpLemma
  <2>3. go = [frame |-> go.frame, len |-> go.len, sent |-> go.sent]
    BY <2>1, OpParts
  <2> QED BY <2>1, <2>2, <2>3
<1>4. OneWriteEach(w)
  BY DEF WritesInv
<1>5. /\ \A x \in Writes(v) : \/ x \in Writes(w) /\ x.frame # op.frame
                              \/ x = go /\ op.sent + k < op.len
      /\ \A x \in Writes(w) : x.frame # op.frame => x \in Writes(v)
      /\ op.sent + k < op.len => go \in Writes(v)
  BY <1>4, TransferWrites
<1>6. /\ OnWire(v, op.frame) = OnWire(w, op.frame) \cup op.sent..op.sent + k - 1
      /\ \A f : f # op.frame => OnWire(v, f) = OnWire(w, f)
  BY TransferOnWire
<1>7. w.ready \in Seq(Op(Nat)) /\ w.resume \in Seq(Op(Nat))
  BY QueueParts
<1>8. /\ Len(w.ready) \in Nat /\ Len(w.ready) > 0
      /\ DOMAIN w.ready = 1..Len(w.ready) /\ DOMAIN v.ready = 1..Len(w.ready) - 1
      /\ \A i \in 1..Len(w.ready) - 1 : v.ready[i] = w.ready[i + 1]
  BY <1>1, <1>7, TailLemma
<1> HIDE DEF go
<1>9. /\ DOMAIN w.resume = 1..Len(w.resume) /\ Len(w.resume) \in Nat
      /\ DOMAIN Append(w.resume, go) = 1..Len(w.resume) + 1
      /\ \A i \in 1..Len(w.resume) : Append(w.resume, go)[i] = w.resume[i]
      /\ Append(w.resume, go)[Len(w.resume) + 1] = go
  BY <1>3, <1>7, AppendLemma
<1>10. op \in Writes(w) /\ 1 \in DOMAIN w.ready
  BY <1>1, <1>8 DEF Writes, ToSet
<1>11. /\ op.frame \in ToSet(frames) /\ op.len = len[op.frame]
       /\ OnWire(w, op.frame) = 0..op.sent - 1
  BY <1>10 DEF WritesInv, WritesKnown
<1>w. /\ DOMAIN w.wire \subseteq DOMAIN v.wire
      /\ \A i \in DOMAIN w.wire : v.wire[i] = w.wire[i]
      /\ \A i \in DOMAIN v.wire : i \in DOMAIN w.wire \/ (v.wire[i][1] = op.frame /\ v.wire[i][2] >= op.sent)
  <2> DEFINE n == Len(w.wire)
  <2>1. /\ n \in Nat /\ DOMAIN w.wire = 1..n
        /\ \A i \in 1..n : v.wire[i] = w.wire[i]
        /\ \A i \in 1..k : v.wire[n + i] = <<op.frame, op.sent + i - 1>>
        /\ \A i \in DOMAIN v.wire : i \in DOMAIN w.wire \/ i - n \in 1..k
        /\ DOMAIN v.wire = 1..n + k
    BY TransferWire
  <2> HIDE DEF n, op, v
  <2>2. DOMAIN w.wire \subseteq DOMAIN v.wire
    BY <1>1, <2>1
  <2>3. \A i \in DOMAIN w.wire : v.wire[i] = w.wire[i]
    BY <2>1
  <2>4. ASSUME NEW i \in DOMAIN v.wire, i \notin DOMAIN w.wire
        PROVE  v.wire[i][1] = op.frame /\ v.wire[i][2] >= op.sent
    <3>1. i - n \in 1..k /\ n + (i - n) = i
      BY <1>1, <2>1, <2>4
    <3>2. v.wire[i] = <<op.frame, op.sent + (i - n) - 1>>
      BY <2>1, <3>1
    <3> QED BY <1>2, <3>1, <3>2
  <2> QED BY <2>2, <2>3, <2>4
<1> HIDE DEF op, v
<1>12. OnWire(v, op.frame) = 0..(op.sent + k) - 1
  BY <1>1, <1>2, <1>6, <1>11
<1>13. WritesKnown(v, frames, len)
  <2> SUFFICES ASSUME NEW x \in Writes(v)
               PROVE  /\ x.frame \in ToSet(frames)
                      /\ x.len = len[x.frame] /\ x.sent < x.len
                      /\ OnWire(v, x.frame) = 0..x.sent - 1
    BY DEF WritesKnown
  <2>1. CASE x \in Writes(w) /\ x.frame # op.frame
    BY <1>6, <2>1 DEF WritesInv, WritesKnown
  <2>2. CASE x = go /\ op.sent + k < op.len
    <3>1. OnWire(v, go.frame) = 0..go.sent - 1
      BY <1>3, <1>12
    <3> QED BY <1>3, <1>11, <2>2, <3>1
  <2> QED BY <1>5, <2>1, <2>2
<1>14. UnsentInOrder(v)
  <2>1. ASSUME NEW i \in DOMAIN v.resume PROVE v.resume[i].sent > 0
    <3>1. \/ i \in DOMAIN w.resume /\ v.resume[i] = w.resume[i]
          \/ v.resume[i] = go
      BY <1>1, <1>9
    <3>2. go.sent > 0
      BY <1>1, <1>2, <1>3
    <3> QED BY <3>1, <3>2 DEF WritesInv, UnsentInOrder
  <2>2. ASSUME NEW i \in DOMAIN v.ready, NEW j \in DOMAIN v.ready, i < j,
               v.ready[i].sent = 0, v.ready[j].sent = 0
        PROVE  v.ready[i].frame < v.ready[j].frame
    <3>1. i + 1 \in DOMAIN w.ready /\ j + 1 \in DOMAIN w.ready /\ i + 1 < j + 1
      BY <1>8, <2>2
    <3>2. v.ready[i] = w.ready[i + 1] /\ v.ready[j] = w.ready[j + 1]
      BY <1>8
    <3> QED BY <2>2, <3>1, <3>2 DEF WritesInv, UnsentInOrder
  <2>3. ASSUME NEW i \in DOMAIN v.ready, NEW j \in DOMAIN v.wire,
               v.ready[i].sent = 0, v.wire[j][2] = 0
        PROVE  v.wire[j][1] < v.ready[i].frame
    <3>1. i + 1 \in DOMAIN w.ready /\ 1 < i + 1 /\ v.ready[i] = w.ready[i + 1]
      BY <1>8
    <3>2. CASE j \in DOMAIN w.wire
      BY <1>w, <2>3, <3>1, <3>2 DEF WritesInv, UnsentInOrder
    <3>3. CASE v.wire[j][1] = op.frame /\ v.wire[j][2] >= op.sent
      <4>1. op.sent = 0
        BY <1>2, <2>3, <3>3
      <4> QED BY <1>1, <1>10, <2>3, <3>1, <3>3, <4>1 DEF WritesInv, UnsentInOrder
    <3> QED BY <1>w, <3>2, <3>3
  <2> QED BY <2>1, <2>2, <2>3 DEF UnsentInOrder
<1>15. BytesKept(v, frames, len, TRUE)
  <2> SUFFICES ASSUME NEW f \in ToSet(frames)
               PROVE  \E n \in 0..len[f] :
                        /\ OnWire(v, f) = 0..n - 1
                        /\ \/ n = len[f]
                           \/ \E x \in Writes(v) : x = [frame |-> f, len |-> len[f], sent |-> n]
    BY DEF BytesKept
  <2>1. CASE f = op.frame
    <3>1. op.sent + k \in 0..len[f]
      BY <1>1, <1>2, <1>11, <2>1
    <3>2. \/ op.sent + k = len[f]
          \/ go \in Writes(v)
      BY <1>1, <1>2, <1>5, <1>11, <2>1
    <3>3. OnWire(v, f) = 0..(op.sent + k) - 1
      BY <1>12, <2>1
    <3>4. go = [frame |-> f, len |-> len[f], sent |-> op.sent + k]
      BY <1>3, <1>11, <2>1
    <3> QED BY <3>1, <3>2, <3>3, <3>4
  <2>2. CASE f # op.frame
    <3>1. PICK n \in 0..len[f] :
            /\ OnWire(w, f) = 0..n - 1
            /\ \/ n = len[f]
               \/ \E x \in Writes(w) : x = [frame |-> f, len |-> len[f], sent |-> n]
      BY DEF WritesInv, BytesKept
    <3>2. ASSUME NEW x \in Writes(w), x = [frame |-> f, len |-> len[f], sent |-> n]
          PROVE  x \in Writes(v)
      <4>1. x.frame = f
        BY <3>2
      <4> QED BY <1>5, <2>2, <4>1
    <3> QED BY <1>6, <2>2, <3>1, <3>2
  <2> QED BY <2>1, <2>2
<1> QED BY <1>13, <1>14, <1>15 DEF v
\* Without overlap the transfer goes on where the wire ends.
LEMMA TransferOneAtATime ==
  ASSUME NEW w \in WriteQueue(Nat), NEW max \in Nat, NEW k \in Transfers(w, max),
         NEW frames \in Seq(Nat), NEW len, WritesInv(w, frames, len, TRUE), ~w.overlapped
  PROVE  OneAtATime(TransferSome(w, k), frames, len, TRUE)
<1> DEFINE op == Head(w.ready)
           v == TransferSome(w, k)
           go == Advanced(op, k)
           n == Len(w.wire)
           last == Len(frames)
<1>1. /\ k \in Nat /\ k > 0 /\ op \in Op(Nat) /\ op.sent + k <= op.len
      /\ w.ready # <<>> /\ op = w.ready[1] /\ v.ready = Tail(w.ready)
      /\ op.sent + k < op.len => v.resume = Append(w.resume, go)
      /\ ~(op.sent + k < op.len) => v.resume = w.resume
  BY TransferShape
<1>2. op.sent \in Nat /\ op.frame \in Nat /\ op.len \in Nat
  BY <1>1, OpParts
<1>3. go \in Op(Nat) /\ go.frame = op.frame /\ go.sent = op.sent + k
  BY <1>1, OpLemma
<1>4. /\ n \in Nat /\ DOMAIN w.wire = 1..n /\ DOMAIN v.wire = 1..n + k
      /\ \A i \in 1..n : v.wire[i] = w.wire[i]
      /\ \A i \in 1..k : v.wire[n + i] = <<op.frame, op.sent + i - 1>>
      /\ \A i \in DOMAIN v.wire : i \in DOMAIN w.wire \/ i - n \in 1..k
      /\ Len(v.wire) = n + k
  BY TransferWire
<1>5. w.ready \in Seq(Op(Nat)) /\ w.resume \in Seq(Op(Nat)) /\ w.wire \in Seq(Nat \X Nat)
  BY QueueParts
<1>6. Len(v.ready) = Len(w.ready) - 1 /\ Len(w.ready) \in Nat /\ Len(w.ready) > 0
  BY <1>1, <1>5, TailLemma
<1> HIDE DEF op, v, go, n, last
<1>n. n \in Nat /\ k \in Nat /\ k > 0
  BY <1>1, <1>4
<1>7. op \in Writes(w)
  <2>1. 1 \in DOMAIN w.ready
    BY <1>5, <1>6
  <2> QED BY <1>1, <2>1 DEF Writes, ToSet
<1>8. /\ op.frame \in ToSet(frames) /\ op.len = len[op.frame] /\ op.sent < op.len
  BY <1>7 DEF WritesInv, WritesKnown
<1>9. last \in Nat /\ last > 0 /\ DOMAIN frames = 1..last /\ frames # <<>>
  BY <1>8 DEF ToSet, last
<1>10. /\ OneAfterAnother(w, frames, len)
       /\ Outstanding(w) <= 1
       /\ op.frame = frames[last]
       /\ op.sent = 0 => EndsWith(w, frames, len, last - 1)
       /\ op.sent # 0 => w.wire # <<>> /\ w.wire[n] = <<op.frame, op.sent - 1>>
  BY <1>7 DEF WritesInv, OneAtATime, n, last
<1>11. Len(w.ready) = 1 /\ Len(w.resume) = 0 /\ w.resume = <<>> /\ Len(v.ready) = 0
  <2>1. Len(w.resume) \in Nat
    BY <1>5
  <2>2. Len(w.ready) = 1 /\ Len(w.resume) = 0 /\ Len(v.ready) = 0
    <3>1. Len(w.ready) + Len(w.resume) <= 1
      BY <1>10 DEF Outstanding
    <3> DEFINE a == Len(w.ready)
               b == Len(w.resume)
               c == Len(v.ready)
    <3>2. a \in Nat /\ a > 0 /\ b \in Nat /\ a + b <= 1 /\ c = a - 1
      BY <1>6, <2>1, <3>1
    <3> HIDE DEF a, b, c
    <3>3. a = 1 /\ b = 0 /\ c = 0
      BY <3>2
    <3> QED BY <3>3 DEF a, b, c
  <2> QED BY <1>5, <2>2
<1>12. ToSet(v.ready) = {} /\ ToSet(w.resume) = {}
  <2>1. v.ready \in Seq(Op(Nat))
    BY <1>1, <1>5, TailLemma
  <2>2. DOMAIN v.ready = {} /\ DOMAIN w.resume = {}
    BY <1>5, <1>11, <2>1
  <2> QED BY <2>2 DEF ToSet
<1>13. /\ Len(Append(w.resume, go)) = 1 /\ ToSet(Append(w.resume, go)) = {go}
  <2>1. /\ Len(Append(w.resume, go)) = Len(w.resume) + 1
        /\ ToSet(Append(w.resume, go)) = ToSet(w.resume) \cup {go}
    BY <1>3, <1>5, AppendLemma
  <2> QED BY <2>1, <1>11, <1>12
<1>o. op.sent # 0 => n > 0
  BY <1>5, <1>10 DEF n
<1>e. op.sent = 0 => IF last = 1 THEN n = 0
                     ELSE /\ n > 0 /\ last - 1 \in 1..last - 1
                          /\ w.wire[n] = <<frames[last - 1], len[frames[last - 1]] - 1>>
  <2>1. last - 1 = 0 <=> last = 1
    BY <1>9
  <2>2. w.wire = <<>> => n = 0
    BY DEF n
  <2>3. w.wire # <<>> => n > 0
    BY <1>5 DEF n
  <2> QED BY <1>9, <1>10, <2>1, <2>2, <2>3 DEF EndsWith, n
<1>14. OneAfterAnother(v, frames, len)
  <2> SUFFICES ASSUME NEW i \in DOMAIN v.wire
               PROVE  /\ v.wire[i][2] < len[v.wire[i][1]]
                      /\ \/ v.wire[i][2] > 0 /\ i > 1 /\ v.wire[i - 1] = <<v.wire[i][1], v.wire[i][2] - 1>>
                         \/ v.wire[i][2] = 0 /\ i = 1 /\ frames # <<>> /\ v.wire[i][1] = frames[1]
                         \/ /\ v.wire[i][2] = 0 /\ i > 1
                            /\ \E m \in 1..Len(frames) - 1 :
                                 /\ v.wire[i][1] = frames[m + 1]
                                 /\ v.wire[i - 1] = <<frames[m], len[frames[m]] - 1>>
    BY DEF OneAfterAnother
  <2>1. i \in Int
    BY <1>1, <1>4
  <2>2. CASE i \in DOMAIN w.wire
    <3>1. v.wire[i] = w.wire[i]
      BY <1>4, <2>2
    <3>2. i > 1 => v.wire[i - 1] = w.wire[i - 1]
      <4>1. i > 1 => i - 1 \in 1..n
        BY <1>4, <2>2
      <4> QED BY <1>4, <4>1
    <3> QED BY <1>10, <2>2, <3>1, <3>2 DEF OneAfterAnother
  <2>3. CASE i - n \in 1..k
    <3>1. n + (i - n) = i
      BY <1>4, <2>1
    <3>2. v.wire[i][1] = op.frame /\ v.wire[i][2] = op.sent + (i - n) - 1
      BY <1>4, <2>3, <3>1
    <3>3. op.sent + (i - n) - 1 < len[op.frame] /\ op.sent + (i - n) - 1 >= 0
      <4> DEFINE sent == op.sent
                 total == len[op.frame]
                 j == i - n
      <4>1. sent \in Nat /\ total \in Nat /\ k \in Nat /\ sent + k <= total /\ j \in 1..k
        BY <1>1, <1>2, <1>8, <2>3
      <4> HIDE DEF sent, total, j
      <4>2. sent + j - 1 < total /\ sent + j - 1 >= 0
        BY <4>1
      <4> QED BY <4>2 DEF sent, total, j
    <3>4. CASE i - n > 1
      <4>1. (i - 1) - n \in 1..k /\ n + ((i - 1) - n) = i - 1 /\ i > 1
        BY <1>n, <2>1, <2>3, <3>4
      <4>2. v.wire[i - 1] = <<op.frame, op.sent + ((i - 1) - n) - 1>>
        BY <1>4, <4>1
      <4>3. op.sent + ((i - 1) - n) - 1 = (op.sent + (i - n) - 1) - 1 /\ op.sent + (i - n) - 1 > 0
        BY <1>2, <1>n, <2>1, <3>4
      <4>5. op.sent + ((i - 1) - n) - 1 = v.wire[i][2] - 1 /\ v.wire[i][2] > 0
        BY <3>2, <4>3
      <4>4. v.wire[i - 1] = <<v.wire[i][1], v.wire[i][2] - 1>> /\ v.wire[i][2] > 0
        BY <3>2, <4>2, <4>5
      <4> QED BY <3>2, <3>3, <4>1, <4>4
    <3>5. CASE i - n = 1 /\ op.sent # 0
      <4>1. n > 0 /\ w.wire[n] = <<op.frame, op.sent - 1>>
        BY <1>10, <1>o, <3>5
      <4>2. i - 1 = n /\ i > 1 /\ n \in 1..n
        BY <1>4, <2>1, <3>5, <4>1
      <4>3. v.wire[i - 1] = <<op.frame, op.sent - 1>>
        BY <1>4, <4>1, <4>2
      <4>4. op.sent + (i - n) - 1 = op.sent /\ op.sent > 0
        BY <1>2, <3>5
      <4> QED BY <3>2, <3>3, <4>2, <4>3, <4>4
    <3>6. CASE i - n = 1 /\ op.sent = 0
      <4>1. op.sent + (i - n) - 1 = 0
        BY <3>6
      <4>2. CASE last = 1
        <5>1. i = 1
          BY <1>e, <2>1, <3>6, <4>2
        <5> QED BY <1>9, <1>10, <3>2, <3>3, <4>1, <4>2, <5>1
      <4>3. CASE last # 1
        <5>1. n > 0 /\ last - 1 \in 1..last - 1
              /\ w.wire[n] = <<frames[last - 1], len[frames[last - 1]] - 1>>
          BY <1>e, <3>6, <4>3
        <5>2. i - 1 = n /\ i > 1 /\ n \in 1..n
          BY <1>4, <2>1, <3>6, <5>1
        <5>3. v.wire[i - 1] = <<frames[last - 1], len[frames[last - 1]] - 1>>
          BY <1>4, <5>1, <5>2
        <5>4. v.wire[i][1] = frames[(last - 1) + 1]
          BY <1>9, <1>10, <3>2
        <5> QED BY <3>2, <3>3, <4>1, <5>1, <5>2, <5>3, <5>4 DEF last
      <4> QED BY <4>2, <4>3
    <3> QED BY <2>3, <3>4, <3>5, <3>6
  <2> QED BY <1>4, <2>2, <2>3
<1>15. v.wire # <<>> /\ v.wire[Len(v.wire)] = <<op.frame, (op.sent + k) - 1>>
  <2>1. k \in 1..k /\ n + k > 0
    BY <1>1, <1>4
  <2>2. v.wire[n + k] = <<op.frame, op.sent + k - 1>>
    BY <1>4, <2>1
  <2>3. op.sent + k - 1 = (op.sent + k) - 1
    BY <1>1, <1>2
  <2>4. v.wire # <<>>
    BY <1>4, <2>1
  <2> QED BY <1>4, <2>2, <2>3, <2>4
<1>16. ASSUME op.sent + k < op.len PROVE OneAtATime(v, frames, len, TRUE)
  <2>3. Len(v.resume) = 1 /\ ToSet(v.resume) = {go}
    BY <1>1, <1>13, <1>16
  <2>4. Outstanding(v) = 1
    BY <1>11, <2>3 DEF Outstanding
  <2>1. Outstanding(v) = 1 /\ Writes(v) = {go}
    BY <1>12, <2>3, <2>4 DEF Writes
  <2>2. go.sent # 0
    BY <1>1, <1>2, <1>3
  <2> QED BY <1>3, <1>10, <1>14, <1>15, <2>1, <2>2 DEF OneAtATime, last
<1>17. ASSUME ~(op.sent + k < op.len) PROVE OneAtATime(v, frames, len, TRUE)
  <2>1. Outstanding(v) = 0 /\ Writes(v) = {}
    <3>1. v.resume = w.resume
      BY <1>1, <1>17
    <3>2. Outstanding(v) = 0
      BY <1>11, <3>1 DEF Outstanding
    <3> QED BY <1>12, <3>1, <3>2 DEF Writes
  <2>4. op.sent + k <= op.len
    BY <1>1
  <2>5. op.sent + k = op.len
    BY <1>2, <1>n, <1>17, <2>4
  <2>2. op.sent + k = len[frames[last]]
    BY <1>8, <1>10, <2>5
  <2>3. EndsWith(v, frames, len, last)
    BY <1>9, <1>10, <1>15, <2>2 DEF EndsWith
  <2> QED BY <1>14, <2>1, <2>3 DEF OneAtATime, last
<1> QED BY <1>16, <1>17 DEF v

\* A transfer of a living socket keeps its invariant.
LEMMA TransferInv ==
  ASSUME NEW w \in WriteQueue(Nat), NEW max \in Nat, NEW k \in Transfers(w, max),
         NEW frames \in Seq(Nat), NEW len, WritesInv(w, frames, len, TRUE)
  PROVE  WritesInv(TransferSome(w, k), frames, len, TRUE)
<1>1. OneWriteEach(TransferSome(w, k))
  BY TransferWrites DEF WritesInv
<1>2. TransferSome(w, k).overlapped = w.overlapped
  BY TransferShape
<1>3. StartedInOrder(frames)
  BY DEF WritesInv
<1> QED BY <1>1, <1>2, <1>3, TransferKeepsWire, TransferKeepsWrites, TransferOneAtATime DEF WritesInv
\* A frame that is started is behind all others.
LEMMA StartShape ==
  ASSUME NEW w \in WriteQueue(Nat), NEW f \in Nat, NEW l \in Nat
  PROVE  LET v  == StartWrite(w, f, l)
             op == [frame |-> f, len |-> l, sent |-> 0]
         IN /\ op \in Op(Nat)
            /\ v.ready = Append(w.ready, op)
            /\ v.resume = w.resume /\ v.wire = w.wire
            /\ ~v.overlapped => ~w.overlapped /\ Outstanding(w) = 0
            /\ Len(w.ready) \in Nat /\ Len(w.resume) \in Nat /\ Len(v.ready) = Len(w.ready) + 1
            /\ DOMAIN w.ready = 1..Len(w.ready) /\ DOMAIN v.ready = 1..Len(w.ready) + 1
            /\ \A i \in DOMAIN w.ready : v.ready[i] = w.ready[i]
            /\ v.ready[Len(w.ready) + 1] = op
            /\ Writes(v) = Writes(w) \cup {op}
<1> DEFINE v == StartWrite(w, f, l)
           op == [frame |-> f, len |-> l, sent |-> 0]
<1>1. op \in Op(Nat)
  BY DEF Op
<1>2. v.ready = Append(w.ready, op) /\ v.resume = w.resume /\ v.wire = w.wire
  BY DEF StartWrite, WriteQueue
<1>3. w.ready \in Seq(Op(Nat)) /\ w.resume \in Seq(Op(Nat))
  BY QueueParts
<1>4. Len(w.ready) \in Nat /\ Len(w.resume) \in Nat
  BY <1>3
<1>5. ~v.overlapped => ~w.overlapped /\ Outstanding(w) = 0
  <2> DEFINE a == Len(w.ready)
             b == Len(w.resume)
             n == Outstanding(w)
  <2>1. v.overlapped = (w.overlapped \/ n > 0)
    BY DEF StartWrite, WriteQueue
  <2>2. n \in Nat
    <3>1. a \in Nat /\ b \in Nat /\ n = a + b
      BY <1>4 DEF Outstanding
    <3> HIDE DEF a, b, n
    <3> QED BY <3>1
  <2> HIDE DEF n, v
  <2>3. CASE n > 0
    BY <2>1, <2>3
  <2>4. CASE ~(n > 0)
    <3>1. n = 0
      BY <2>2, <2>4
    <3>2. ~v.overlapped => ~w.overlapped
      BY <2>1, Zenon
    <3> QED BY <3>1, <3>2 DEF n
  <2> QED BY <2>3, <2>4
<1> HIDE DEF op, v
<1>6. /\ Len(v.ready) = Len(w.ready) + 1
      /\ DOMAIN w.ready = 1..Len(w.ready) /\ DOMAIN v.ready = 1..Len(w.ready) + 1
      /\ \A i \in DOMAIN w.ready : v.ready[i] = w.ready[i]
      /\ v.ready[Len(w.ready) + 1] = op
      /\ ToSet(v.ready) = ToSet(w.ready) \cup {op}
  BY <1>1, <1>2, <1>3, AppendLemma
<1>7. Writes(v) = Writes(w) \cup {op}
  BY <1>2, <1>6 DEF Writes
<1> QED BY <1>1, <1>2, <1>4, <1>5, <1>6, <1>7 DEF op, v

\* Starting a write for a new frame keeps the invariant of the socket.
LEMMA StartInv ==
  ASSUME NEW w \in WriteQueue(Nat), NEW frames \in Seq(Nat), NEW len, NEW alive \in BOOLEAN,
         NEW f \in Nat, NEW l \in Nat, l = len[f], l > 0,
         \A g \in ToSet(frames) : g < f,
         WritesInv(w, frames, len, alive)
  PROVE  WritesInv(StartWrite(w, f, l), Append(frames, f), len, alive)
<1> DEFINE v == StartWrite(w, f, l)
           op == [frame |-> f, len |-> l, sent |-> 0]
           more == Append(frames, f)
           last == Len(frames)
<1>1. /\ op \in Op(Nat)
      /\ v.resume = w.resume /\ v.wire = w.wire
      /\ ~v.overlapped => ~w.overlapped /\ Outstanding(w) = 0
      /\ Len(w.ready) \in Nat /\ Len(w.resume) \in Nat /\ Len(v.ready) = Len(w.ready) + 1
      /\ DOMAIN w.ready = 1..Len(w.ready) /\ DOMAIN v.ready = 1..Len(w.ready) + 1
      /\ \A i \in DOMAIN w.ready : v.ready[i] = w.ready[i]
      /\ v.ready[Len(w.ready) + 1] = op
      /\ Writes(v) = Writes(w) \cup {op}
  BY StartShape
<1>2. /\ last \in Nat /\ Len(more) = last + 1
      /\ DOMAIN frames = 1..last /\ DOMAIN more = 1..last + 1
      /\ \A i \in 1..last : more[i] = frames[i]
      /\ more[last + 1] = f
      /\ ToSet(more) = ToSet(frames) \cup {f}
  BY AppendLemma
<1>3. op.frame = f /\ op.len = l /\ op.sent = 0
  OBVIOUS
<1>4. ToSet(frames) \subseteq Nat /\ \A g \in ToSet(frames) : g # f
  <2> SUFFICES ASSUME NEW g \in ToSet(frames)
               PROVE  g \in Nat /\ g # f
    OBVIOUS
  <2>1. g \in Nat
    BY DEF ToSet
  <2>2. g < f
    OBVIOUS
  <2> QED BY <2>1, <2>2
<1>o. op = [frame |-> f, len |-> l, sent |-> 0]
  OBVIOUS
<1> HIDE DEF v, op, more, last
<1>5. StartedInOrder(more)
  <2> SUFFICES ASSUME NEW i \in DOMAIN more, NEW j \in DOMAIN more, i < j
               PROVE  more[i] < more[j]
    BY DEF StartedInOrder
  <2>1. i \in 1..last /\ more[i] = frames[i] /\ frames[i] \in ToSet(frames)
    BY <1>2 DEF ToSet
  <2>2. CASE j \in 1..last
    BY <1>2, <2>1, <2>2 DEF WritesInv, StartedInOrder
  <2>3. CASE j = last + 1
    BY <1>2, <2>1, <2>3
  <2> QED BY <1>2, <2>2, <2>3
<1>6. CellsKnown(v, more, len)
  BY <1>1, <1>2 DEF WritesInv, CellsKnown
<1>7. InOrderOnWire(v) /\ HeadersInOrder(v)
  BY <1>1 DEF WritesInv, InOrderOnWire, HeadersInOrder
<1>8. OnWire(v, f) = 0..op.sent - 1 /\ \A g : OnWire(v, g) = OnWire(w, g)
  <2>1. \A g : OnWire(v, g) = OnWire(w, g)
    BY <1>1, SameWire
  <2>2. ASSUME NEW o \in OnWire(w, f) PROVE FALSE
    <3>1. PICK i \in DOMAIN w.wire : w.wire[i][1] = f
      BY <2>2, OnWireLemma
    <3> QED BY <1>4, <3>1 DEF WritesInv, CellsKnown
  <2>3. 0..op.sent - 1 = {}
    BY <1>3
  <2> QED BY <2>1, <2>2, <2>3
<1>9. WritesKnown(v, more, len)
  <2> SUFFICES ASSUME NEW x \in Writes(v)
               PROVE  /\ x.frame \in ToSet(more)
                      /\ x.len = len[x.frame] /\ x.sent < x.len
                      /\ OnWire(v, x.frame) = 0..x.sent - 1
    BY DEF WritesKnown
  <2>1. CASE x \in Writes(w)
    BY <1>2, <1>8, <2>1 DEF WritesInv, WritesKnown
  <2>2. CASE x = op
    BY <1>2, <1>3, <1>8, <2>2
  <2> QED BY <1>1, <2>1, <2>2
<1>10. \A x \in Writes(w) : x.frame # f
  BY <1>4 DEF WritesInv, WritesKnown
<1>11. /\ \A i \in DOMAIN w.ready : w.ready[i].frame # f
       /\ \A i \in DOMAIN w.resume : w.resume[i].frame # f
  BY <1>10 DEF Writes, ToSet
<1>12. \A i \in DOMAIN v.ready : \/ i \in DOMAIN w.ready /\ v.ready[i] = w.ready[i]
                                 \/ i = Len(w.ready) + 1 /\ v.ready[i] = op
  BY <1>1
<1>13. OneWriteEach(v)
  <2>1. ASSUME NEW i \in DOMAIN v.ready, NEW j \in DOMAIN v.ready, i # j
        PROVE  v.ready[i].frame # v.ready[j].frame
    BY <1>3, <1>11, <1>12, <2>1 DEF WritesInv, OneWriteEach
  <2>2. ASSUME NEW i \in DOMAIN v.ready, NEW j \in DOMAIN v.resume
        PROVE  v.ready[i].frame # v.resume[j].frame
    <3>1. j \in DOMAIN w.resume /\ v.resume[j] = w.resume[j]
      BY <1>1
    <3>2. CASE i \in DOMAIN w.ready /\ v.ready[i] = w.ready[i]
      BY <3>1, <3>2 DEF WritesInv, OneWriteEach
    <3>3. CASE v.ready[i] = op
      BY <1>3, <1>11, <3>1, <3>3
    <3> QED BY <1>12, <3>2, <3>3
  <2> QED BY <1>1, <2>1, <2>2 DEF WritesInv, OneWriteEach
<1>14. UnsentInOrder(v)
  <2>1. ASSUME NEW i \in DOMAIN v.ready, NEW j \in DOMAIN v.ready, i < j,
               v.ready[i].sent = 0, v.ready[j].sent = 0
        PROVE  v.ready[i].frame < v.ready[j].frame
    <3>1. i \in DOMAIN w.ready /\ v.ready[i] = w.ready[i]
      BY <1>1, <2>1
    <3>2. v.ready[i].frame < f
      <4>1. w.ready[i] \in Writes(w)
        BY <3>1 DEF Writes, ToSet
      <4> QED BY <3>1, <4>1 DEF WritesInv, WritesKnown
    <3>3. CASE j \in DOMAIN w.ready /\ v.ready[j] = w.ready[j]
      BY <2>1, <3>1, <3>3 DEF WritesInv, UnsentInOrder
    <3>4. CASE v.ready[j] = op
      BY <1>3, <3>2, <3>4
    <3> QED BY <1>12, <3>3, <3>4
  <2>2. ASSUME NEW i \in DOMAIN v.ready, NEW j \in DOMAIN v.wire,
               v.ready[i].sent = 0, v.wire[j][2] = 0
        PROVE  v.wire[j][1] < v.ready[i].frame
    <3>1. CASE i \in DOMAIN w.ready /\ v.ready[i] = w.ready[i]
      BY <1>1, <2>2, <3>1 DEF WritesInv, UnsentInOrder
    <3>2. CASE v.ready[i] = op
      BY <1>1, <1>3, <3>2 DEF WritesInv, CellsKnown
    <3> QED BY <1>12, <3>1, <3>2
  <2> QED BY <1>1, <2>1, <2>2 DEF WritesInv, UnsentInOrder
<1>15. BytesKept(v, more, len, alive)
  <2> SUFFICES ASSUME NEW g \in ToSet(more)
               PROVE  \E n \in 0..len[g] :
                        /\ OnWire(v, g) = 0..n - 1
                        /\ alive => \/ n = len[g]
                                    \/ \E x \in Writes(v) : x = [frame |-> g, len |-> len[g], sent |-> n]
    BY DEF BytesKept
  <2>1. CASE g = f
    <3>1. 0 \in 0..len[g] /\ op \in Writes(v) /\ OnWire(v, g) = 0..0 - 1
      BY <1>1, <1>3, <1>8, <2>1
    <3> QED BY <1>o, <2>1, <3>1
  <2>2. CASE g \in ToSet(frames)
    <3>1. PICK n \in 0..len[g] :
            /\ OnWire(w, g) = 0..n - 1
            /\ alive => \/ n = len[g]
                        \/ \E x \in Writes(w) : x = [frame |-> g, len |-> len[g], sent |-> n]
      BY <2>2 DEF WritesInv, BytesKept
    <3> QED BY <1>1, <1>8, <3>1
  <2> QED BY <1>2, <2>1, <2>2
<1>16. ASSUME ~v.overlapped PROVE OneAtATime(v, more, len, alive)
  <2>1. Outstanding(w) = 0 /\ OneAtATime(w, frames, len, alive)
    BY <1>1, <1>16 DEF WritesInv
  <2>2. w.ready \in Seq(Op(Nat)) /\ w.resume \in Seq(Op(Nat))
    BY QueueParts
  <2>3. Len(w.ready) = 0 /\ Len(w.resume) = 0
    <3> DEFINE a == Len(w.ready)
               b == Len(w.resume)
    <3>1. a \in Nat /\ b \in Nat /\ a + b = 0
      BY <1>1, <2>1 DEF Outstanding
    <3> HIDE DEF a, b
    <3>2. a = 0 /\ b = 0
      BY <3>1
    <3> QED BY <3>2 DEF a, b
  <2>4. Writes(w) = {}
    <3>1. DOMAIN w.ready = {} /\ DOMAIN w.resume = {}
      BY <2>2, <2>3
    <3> QED BY <3>1 DEF Writes, ToSet
  <2>5. Writes(v) = {op}
    BY <1>1, <2>4
  <2>6. Outstanding(v) = 1
    BY <1>1, <2>3 DEF Outstanding
  <2>7. OneAfterAnother(v, more, len)
    <3> SUFFICES ASSUME NEW i \in DOMAIN w.wire
                 PROVE  /\ w.wire[i][2] < len[w.wire[i][1]]
                        /\ \/ w.wire[i][2] > 0 /\ i > 1 /\ w.wire[i - 1] = <<w.wire[i][1], w.wire[i][2] - 1>>
                           \/ w.wire[i][2] = 0 /\ i = 1 /\ more # <<>> /\ w.wire[i][1] = more[1]
                           \/ /\ w.wire[i][2] = 0 /\ i > 1
                              /\ \E m \in 1..Len(more) - 1 :
                                   /\ w.wire[i][1] = more[m + 1]
                                   /\ w.wire[i - 1] = <<more[m], len[more[m]] - 1>>
      BY <1>1 DEF OneAfterAnother
    <3>1. /\ w.wire[i][2] < len[w.wire[i][1]]
          /\ \/ w.wire[i][2] > 0 /\ i > 1 /\ w.wire[i - 1] = <<w.wire[i][1], w.wire[i][2] - 1>>
             \/ w.wire[i][2] = 0 /\ i = 1 /\ frames # <<>> /\ w.wire[i][1] = frames[1]
             \/ /\ w.wire[i][2] = 0 /\ i > 1
                /\ \E m \in 1..Len(frames) - 1 :
                     /\ w.wire[i][1] = frames[m + 1]
                     /\ w.wire[i - 1] = <<frames[m], len[frames[m]] - 1>>
      BY <2>1 DEF OneAtATime, OneAfterAnother
    <3>2. frames # <<>> => more # <<>> /\ frames[1] = more[1]
      <4>1. frames # <<>> => 1 \in 1..last
        BY <1>2
      <4>2. more # <<>>
        BY <1>2
      <4> QED BY <1>2, <4>1, <4>2
    <3>3. \A m \in 1..Len(frames) - 1 :
            m \in 1..Len(more) - 1 /\ frames[m + 1] = more[m + 1] /\ frames[m] = more[m]
      <4>1. Len(frames) = last
        BY DEF last
      <4>2. \A m \in 1..last - 1 : m \in 1..last /\ m + 1 \in 1..last /\ m \in 1..(last + 1) - 1
        BY <1>2
      <4> QED BY <1>2, <4>1, <4>2
    <3> QED BY <3>1, <3>2, <3>3
  <2>8. ASSUME alive PROVE EndsWith(v, more, len, Len(more) - 1) /\ op.frame = more[Len(more)]
    <3>1. EndsWith(w, frames, len, last)
      BY <2>1, <2>8 DEF OneAtATime, last
    <3>2. Len(more) - 1 = last
      BY <1>2
    <3>3. last # 0 => last \in 1..last
      BY <1>2
    <3>4. EndsWith(v, more, len, last)
      BY <1>1, <1>2, <3>1, <3>3 DEF EndsWith
    <3> QED BY <1>2, <1>3, <3>2, <3>4
  <2> QED BY <1>3, <2>5, <2>6, <2>7, <2>8 DEF OneAtATime
<1> QED BY <1>5, <1>6, <1>7, <1>9, <1>13, <1>14, <1>15, <1>16 DEF WritesInv, v, more

\* A frame's length counts only while the frame is one of the list.
LEMMA SameLens ==
  ASSUME NEW w \in WriteQueue(Nat), NEW frames \in Seq(Nat), NEW lenA, NEW lenB, NEW alive \in BOOLEAN,
         \A f \in ToSet(frames) : lenA[f] = lenB[f],
         WritesInv(w, frames, lenA, alive)
  PROVE  WritesInv(w, frames, lenB, alive)
<1>1. CellsKnown(w, frames, lenB)
  BY DEF WritesInv, CellsKnown
<1>2. WritesKnown(w, frames, lenB)
  BY DEF WritesInv, WritesKnown
<1>3. BytesKept(w, frames, lenB, alive)
  BY DEF WritesInv, BytesKept
<1>4. ASSUME ~w.overlapped PROVE OneAtATime(w, frames, lenB, alive)
  <2> DEFINE n == Len(frames)
  <2>1. OneAtATime(w, frames, lenA, alive)
    BY <1>4 DEF WritesInv
  <2>2. n \in Nat /\ \A k \in 1..n : frames[k] \in ToSet(frames)
    BY DEF ToSet
  <2>3. \A i \in DOMAIN w.wire : w.wire[i][1] \in ToSet(frames)
    BY DEF WritesInv, CellsKnown
  <2>4. \A k \in 0..n : EndsWith(w, frames, lenA, k) => EndsWith(w, frames, lenB, k)
    <3> HIDE DEF n
    <3> SUFFICES ASSUME NEW k \in 0..n, k # 0 PROVE lenA[frames[k]] = lenB[frames[k]]
      BY DEF EndsWith
    <3>1. k \in 1..n
      BY <2>2
    <3> QED BY <2>2, <3>1
  <2>5. OneAfterAnother(w, frames, lenB)
    <3> SUFFICES ASSUME NEW i \in DOMAIN w.wire
                 PROVE  /\ w.wire[i][2] < lenB[w.wire[i][1]]
                        /\ \/ w.wire[i][2] > 0 /\ i > 1 /\ w.wire[i - 1] = <<w.wire[i][1], w.wire[i][2] - 1>>
                           \/ w.wire[i][2] = 0 /\ i = 1 /\ frames # <<>> /\ w.wire[i][1] = frames[1]
                           \/ /\ w.wire[i][2] = 0 /\ i > 1
                              /\ \E m \in 1..n - 1 :
                                   /\ w.wire[i][1] = frames[m + 1]
                                   /\ w.wire[i - 1] = <<frames[m], lenB[frames[m]] - 1>>
      BY DEF OneAfterAnother
    <3>1. /\ w.wire[i][2] < lenA[w.wire[i][1]]
          /\ \/ w.wire[i][2] > 0 /\ i > 1 /\ w.wire[i - 1] = <<w.wire[i][1], w.wire[i][2] - 1>>
             \/ w.wire[i][2] = 0 /\ i = 1 /\ frames # <<>> /\ w.wire[i][1] = frames[1]
             \/ /\ w.wire[i][2] = 0 /\ i > 1
                /\ \E m \in 1..n - 1 :
                     /\ w.wire[i][1] = frames[m + 1]
                     /\ w.wire[i - 1] = <<frames[m], lenA[frames[m]] - 1>>
      BY <2>1 DEF OneAtATime, OneAfterAnother
    <3>2. w.wire[i][2] < lenB[w.wire[i][1]]
      BY <2>3, <3>1
    <3> HIDE DEF n
    <3>3. \A m \in 1..n - 1 : lenA[frames[m]] = lenB[frames[m]]
      <4>1. \A m \in 1..n - 1 : m \in 1..n
        BY <2>2
      <4> QED BY <2>2, <4>1
    <3> QED BY <3>1, <3>2, <3>3
  <2>6. ASSUME alive PROVE /\ Outstanding(w) = 0 => EndsWith(w, frames, lenB, n)
                           /\ \A op \in Writes(w) :
                                /\ op.frame = frames[n]
                                /\ IF op.sent = 0
                                   THEN EndsWith(w, frames, lenB, n - 1)
                                   ELSE w.wire # <<>> /\ w.wire[Len(w.wire)] = <<op.frame, op.sent - 1>>
    <3>1. /\ Outstanding(w) = 0 => EndsWith(w, frames, lenA, n)
          /\ \A op \in Writes(w) :
               /\ op.frame = frames[n]
               /\ IF op.sent = 0
                  THEN EndsWith(w, frames, lenA, n - 1)
                  ELSE w.wire # <<>> /\ w.wire[Len(w.wire)] = <<op.frame, op.sent - 1>>
      BY <2>1, <2>6 DEF OneAtATime
    <3>2. Writes(w) # {} => n # 0
      <4> SUFFICES ASSUME NEW op \in Writes(w) PROVE n # 0
        OBVIOUS
      <4>1. op.frame \in ToSet(frames)
        BY DEF WritesInv, WritesKnown
      <4> QED BY <4>1 DEF ToSet
    <3>3. n \in 0..n /\ (n # 0 => n - 1 \in 0..n)
      <4>1. n \in Nat
        BY <2>2
      <4> HIDE DEF n
      <4> QED BY <4>1
    <3> HIDE DEF n
    <3> QED BY <2>4, <3>1, <3>2, <3>3
  <2> QED BY <2>1, <2>5, <2>6 DEF OneAtATime
<1> QED BY <1>1, <1>2, <1>3, <1>4 DEF WritesInv

\* A socket nothing was started on yet.
LEMMA InitInv ==
  ASSUME NEW len, NEW alive \in BOOLEAN
  PROVE  WritesInv(NoWrites, <<>>, len, alive)
<1>1. /\ NoWrites.ready = <<>> /\ NoWrites.resume = <<>> /\ NoWrites.wire = <<>>
      /\ DOMAIN <<>> = {} /\ ToSet(<<>>) = {} /\ Len(<<>>) = 0
  BY DEF NoWrites, ToSet
<1>2. Writes(NoWrites) = {} /\ Outstanding(NoWrites) = 0
  BY <1>1 DEF Writes, Outstanding
<1>3. OneAtATime(NoWrites, <<>>, len, alive)
  BY <1>1, <1>2 DEF OneAtATime, OneAfterAnother, EndsWith
<1>4. StartedInOrder(<<>>) /\ BytesKept(NoWrites, <<>>, len, alive)
  BY <1>1 DEF StartedInOrder, BytesKept
<1>5. CellsKnown(NoWrites, <<>>, len) /\ WritesKnown(NoWrites, <<>>, len)
  BY <1>1, <1>2 DEF CellsKnown, WritesKnown
<1>6. InOrderOnWire(NoWrites) /\ HeadersInOrder(NoWrites)
  BY <1>1 DEF InOrderOnWire, HeadersInOrder
<1>7. OneWriteEach(NoWrites) /\ UnsentInOrder(NoWrites)
  BY <1>1 DEF OneWriteEach, UnsentInOrder
<1> QED BY <1>3, <1>4, <1>5, <1>6, <1>7 DEF WritesInv

\* A write that resumes joins the tail of `ready'.
LEMMA ResumeShape ==
  ASSUME NEW w \in WriteQueue(Nat), w.resume # <<>>
  PROVE  LET v  == ResumeWrite(w)
             op == Head(w.resume)
         IN /\ op \in Op(Nat) /\ op = w.resume[1] /\ 1 \in DOMAIN w.resume
            /\ v.wire = w.wire /\ v.overlapped = w.overlapped
            /\ Writes(v) = Writes(w) /\ op \in Writes(w)
            /\ Outstanding(v) = Outstanding(w)
            /\ \A i \in DOMAIN v.ready : \/ i \in DOMAIN w.ready /\ v.ready[i] = w.ready[i]
                                         \/ i = Len(w.ready) + 1 /\ v.ready[i] = op
            /\ \A i \in DOMAIN v.resume : i \in Nat /\ i > 0 /\ i + 1 \in DOMAIN w.resume /\ v.resume[i] = w.resume[i + 1]
            /\ Len(w.ready) \in Nat /\ DOMAIN w.ready = 1..Len(w.ready)
<1> DEFINE v  == ResumeWrite(w)
           op == Head(w.resume)
<1>1. v.ready = Append(w.ready, op) /\ v.resume = Tail(w.resume) /\ v.wire = w.wire /\ v.overlapped = w.overlapped
  BY DEF ResumeWrite, WriteQueue
<1>2. w.ready \in Seq(Op(Nat)) /\ w.resume \in Seq(Op(Nat))
  BY QueueParts
<1> HIDE DEF v
<1>3. /\ op \in Op(Nat) /\ op = w.resume[1]
      /\ Len(w.resume) \in Nat /\ Len(w.resume) > 0 /\ Len(v.resume) = Len(w.resume) - 1
      /\ DOMAIN w.resume = 1..Len(w.resume) /\ DOMAIN v.resume = 1..Len(w.resume) - 1
      /\ \A i \in 1..Len(w.resume) - 1 : v.resume[i] = w.resume[i + 1]
      /\ ToSet(w.resume) = ToSet(v.resume) \cup {op}
  BY <1>1, <1>2, TailLemma
<1> HIDE DEF op
<1>4. /\ Len(w.ready) \in Nat /\ Len(v.ready) = Len(w.ready) + 1
      /\ DOMAIN w.ready = 1..Len(w.ready) /\ DOMAIN v.ready = 1..Len(w.ready) + 1
      /\ \A i \in 1..Len(w.ready) : v.ready[i] = w.ready[i]
      /\ v.ready[Len(w.ready) + 1] = op
      /\ ToSet(v.ready) = ToSet(w.ready) \cup {op}
  BY <1>1, <1>2, <1>3, AppendLemma
<1>5. Writes(v) = Writes(w) /\ op \in Writes(w)
  BY <1>3, <1>4 DEF Writes
<1> DEFINE a == Len(w.ready)
           b == Len(w.resume)
<1>6. Outstanding(v) = Outstanding(w)
  <2>1. Outstanding(v) = a + 1 + (b - 1) /\ Outstanding(w) = a + b /\ a \in Nat /\ b \in Nat
    BY <1>3, <1>4 DEF Outstanding
  <2> HIDE DEF a, b
  <2> QED BY <2>1
<1>7. \A i \in DOMAIN v.ready : \/ i \in DOMAIN w.ready /\ v.ready[i] = w.ready[i]
                                \/ i = a + 1 /\ v.ready[i] = op
  BY <1>4
<1>8. 1 \in DOMAIN w.resume
      /\ \A i \in DOMAIN v.resume : i \in Nat /\ i > 0 /\ i + 1 \in DOMAIN w.resume /\ v.resume[i] = w.resume[i + 1]
  <2>1. /\ b \in Nat /\ b > 0 /\ DOMAIN w.resume = 1..b /\ DOMAIN v.resume = 1..b - 1
        /\ \A i \in 1..b - 1 : v.resume[i] = w.resume[i + 1]
    BY <1>3
  <2> HIDE DEF b
  <2> QED BY <2>1
<1> QED BY <1>1, <1>3, <1>4, <1>5, <1>6, <1>7, <1>8 DEF v, op

\* Resuming a write keeps the invariant, of a dead socket too.
LEMMA ResumeInv ==
  ASSUME NEW w \in WriteQueue(Nat), w.resume # <<>>,
         NEW frames, NEW len, NEW alive \in BOOLEAN, WritesInv(w, frames, len, alive)
  PROVE  WritesInv(ResumeWrite(w), frames, len, alive)
<1> DEFINE v  == ResumeWrite(w)
           op == Head(w.resume)
<1>1. /\ op \in Op(Nat) /\ op = w.resume[1] /\ 1 \in DOMAIN w.resume
      /\ v.wire = w.wire /\ v.overlapped = w.overlapped
      /\ Writes(v) = Writes(w) /\ op \in Writes(w)
      /\ Outstanding(v) = Outstanding(w)
      /\ \A i \in DOMAIN v.ready : \/ i \in DOMAIN w.ready /\ v.ready[i] = w.ready[i]
                                   \/ i = Len(w.ready) + 1 /\ v.ready[i] = op
      /\ \A i \in DOMAIN v.resume : i \in Nat /\ i > 0 /\ i + 1 \in DOMAIN w.resume /\ v.resume[i] = w.resume[i + 1]
      /\ Len(w.ready) \in Nat /\ DOMAIN w.ready = 1..Len(w.ready)
  BY ResumeShape
<1>2. op.sent > 0
  BY <1>1 DEF WritesInv, UnsentInOrder
<1>3. op.sent \in Nat
  BY <1>1, OpParts
<1> HIDE DEF v, op
<1>4. \A f : OnWire(v, f) = OnWire(w, f)
  BY <1>1, SameWire
<1>5. CellsKnown(v, frames, len) /\ InOrderOnWire(v) /\ HeadersInOrder(v)
  BY <1>1 DEF WritesInv, CellsKnown, InOrderOnWire, HeadersInOrder
<1>6. WritesKnown(v, frames, len) /\ BytesKept(v, frames, len, alive)
  BY <1>1, <1>4 DEF WritesInv, WritesKnown, BytesKept
<1>7. OneWriteEach(v)
  <2>1. ASSUME NEW i \in DOMAIN v.ready, NEW j \in DOMAIN v.ready, i # j
        PROVE  v.ready[i].frame # v.ready[j].frame
    <3>1. CASE i \in DOMAIN w.ready /\ v.ready[i] = w.ready[i] /\ j \in DOMAIN w.ready /\ v.ready[j] = w.ready[j]
      BY <2>1, <3>1 DEF WritesInv, OneWriteEach
    <3>2. \A m \in DOMAIN w.ready : w.ready[m].frame # op.frame
      BY <1>1 DEF WritesInv, OneWriteEach
    <3> QED BY <1>1, <2>1, <3>1, <3>2
  <2>2. ASSUME NEW i \in DOMAIN v.resume, NEW j \in DOMAIN v.resume, i # j
        PROVE  v.resume[i].frame # v.resume[j].frame
    <3>1. /\ i + 1 \in DOMAIN w.resume /\ j + 1 \in DOMAIN w.resume /\ i + 1 # j + 1
          /\ v.resume[i] = w.resume[i + 1] /\ v.resume[j] = w.resume[j + 1]
      BY <1>1, <2>2
    <3> QED BY <3>1 DEF WritesInv, OneWriteEach
  <2>3. ASSUME NEW i \in DOMAIN v.ready, NEW j \in DOMAIN v.resume
        PROVE  v.ready[i].frame # v.resume[j].frame
    <3>1. j + 1 \in DOMAIN w.resume /\ v.resume[j] = w.resume[j + 1] /\ j + 1 # 1
      BY <1>1
    <3>2. CASE i \in DOMAIN w.ready /\ v.ready[i] = w.ready[i]
      BY <3>1, <3>2 DEF WritesInv, OneWriteEach
    <3>3. CASE v.ready[i] = w.resume[1]
      BY <1>1, <3>1, <3>3 DEF WritesInv, OneWriteEach
    <3> QED BY <1>1, <3>2, <3>3
  <2> QED BY <2>1, <2>2, <2>3 DEF OneWriteEach
<1>8. UnsentInOrder(v)
  <2>1. \A i \in DOMAIN v.ready : v.ready[i].sent = 0 => i \in DOMAIN w.ready /\ v.ready[i] = w.ready[i]
    BY <1>1, <1>2, <1>3
  <2>2. \A i \in DOMAIN v.resume : v.resume[i].sent > 0
    BY <1>1 DEF WritesInv, UnsentInOrder
  <2>3. \A i, j \in DOMAIN v.ready :
          i < j /\ v.ready[i].sent = 0 /\ v.ready[j].sent = 0 => v.ready[i].frame < v.ready[j].frame
    BY <2>1 DEF WritesInv, UnsentInOrder
  <2>4. \A i \in DOMAIN v.ready, j \in DOMAIN v.wire :
          v.ready[i].sent = 0 /\ v.wire[j][2] = 0 => v.wire[j][1] < v.ready[i].frame
    BY <1>1, <2>1 DEF WritesInv, UnsentInOrder
  <2> QED BY <2>2, <2>3, <2>4 DEF UnsentInOrder
<1>9. ASSUME ~v.overlapped PROVE OneAtATime(v, frames, len, alive)
  BY <1>1, <1>9 DEF WritesInv, OneAtATime, OneAfterAnother, EndsWith
<1> QED BY <1>5, <1>6, <1>7, <1>8, <1>9 DEF WritesInv, v

\* A dead socket owes nobody the rest of a frame: it may lose writes.
LEMMA FewerInv ==
  ASSUME NEW w \in WriteQueue(Nat), NEW v, NEW a \in Nat, NEW b \in Nat,
         v.wire = w.wire, v.overlapped = w.overlapped, Outstanding(v) <= Outstanding(w),
         Outstanding(v) \in Nat, Outstanding(w) \in Nat,
         \A i \in DOMAIN v.ready : i \in Nat /\ i + a \in DOMAIN w.ready /\ v.ready[i] = w.ready[i + a],
         \A i \in DOMAIN v.resume : i \in Nat /\ i + b \in DOMAIN w.resume /\ v.resume[i] = w.resume[i + b],
         NEW frames, NEW len, NEW alive \in BOOLEAN, WritesInv(w, frames, len, alive)
  PROVE  WritesInv(v, frames, len, FALSE)
<1>1. Writes(v) \subseteq Writes(w)
  BY DEF Writes, ToSet
<1>2. \A f : OnWire(v, f) = OnWire(w, f)
  BY SameWire
<1>3. CellsKnown(v, frames, len) /\ InOrderOnWire(v) /\ HeadersInOrder(v)
  BY DEF WritesInv, CellsKnown, InOrderOnWire, HeadersInOrder
<1>4. WritesKnown(v, frames, len) /\ BytesKept(v, frames, len, FALSE)
  BY <1>1, <1>2 DEF WritesInv, WritesKnown, BytesKept
<1>5. OneWriteEach(v)
  <2>1. \A i, j \in DOMAIN v.ready : i # j => v.ready[i].frame # v.ready[j].frame
    BY DEF WritesInv, OneWriteEach
  <2>2. \A i, j \in DOMAIN v.resume : i # j => v.resume[i].frame # v.resume[j].frame
    BY DEF WritesInv, OneWriteEach
  <2>3. \A i \in DOMAIN v.ready, j \in DOMAIN v.resume : v.ready[i].frame # v.resume[j].frame
    BY DEF WritesInv, OneWriteEach
  <2> QED BY <2>1, <2>2, <2>3 DEF OneWriteEach
<1>6. UnsentInOrder(v)
  <2>1. \A i \in DOMAIN v.resume : v.resume[i].sent > 0
    BY DEF WritesInv, UnsentInOrder
  <2>2. ASSUME NEW i \in DOMAIN v.ready, NEW j \in DOMAIN v.ready, i < j,
               v.ready[i].sent = 0, v.ready[j].sent = 0
        PROVE  v.ready[i].frame < v.ready[j].frame
    <3>1. /\ i + a \in DOMAIN w.ready /\ j + a \in DOMAIN w.ready /\ i + a < j + a
          /\ v.ready[i] = w.ready[i + a] /\ v.ready[j] = w.ready[j + a]
      BY <2>2
    <3> QED BY <2>2, <3>1 DEF WritesInv, UnsentInOrder
  <2>3. \A i \in DOMAIN v.ready, j \in DOMAIN v.wire :
          v.ready[i].sent = 0 /\ v.wire[j][2] = 0 => v.wire[j][1] < v.ready[i].frame
    BY DEF WritesInv, UnsentInOrder
  <2> QED BY <2>1, <2>2, <2>3 DEF UnsentInOrder
<1>7. ASSUME ~v.overlapped PROVE OneAtATime(v, frames, len, FALSE)
  <2>1. OneAfterAnother(v, frames, len)
    BY <1>7 DEF WritesInv, OneAtATime, OneAfterAnother
  <2>2. Outstanding(v) <= 1
    <3>1. Outstanding(w) <= 1
      BY <1>7 DEF WritesInv, OneAtATime
    <3> QED BY <3>1
  <2> QED BY <2>1, <2>2 DEF OneAtATime
<1>8. StartedInOrder(frames)
  BY DEF WritesInv
<1> QED BY <1>3, <1>4, <1>5, <1>6, <1>7, <1>8 DEF WritesInv

\* The ways a dead socket loses writes.
LEMMA DeadInv ==
  ASSUME NEW w \in WriteQueue(Nat), NEW frames, NEW len, NEW alive \in BOOLEAN,
         WritesInv(w, frames, len, alive)
  PROVE  /\ WritesInv(w, frames, len, FALSE)
         /\ WritesInv(AbortWrites(w), frames, len, FALSE)
         /\ w.ready # <<>> => WritesInv(FailWrite(w), frames, len, FALSE)
         /\ w.resume # <<>> => WritesInv(DropResumed(w), frames, len, FALSE)
<1>1. w.ready \in Seq(Op(Nat)) /\ w.resume \in Seq(Op(Nat))
  BY QueueParts
<1> DEFINE a == Len(w.ready)
           b == Len(w.resume)
<1>2. a \in Nat /\ b \in Nat /\ DOMAIN w.ready = 1..a /\ DOMAIN w.resume = 1..b
  BY <1>1
<1>3. Outstanding(w) = a + b
  BY DEF Outstanding
<1> HIDE DEF a, b
<1>4. Outstanding(w) \in Nat
  BY <1>2, <1>3
<1>5. WritesInv(w, frames, len, FALSE)
  <2>1. /\ \A i \in DOMAIN w.ready : i \in Nat /\ i + 0 \in DOMAIN w.ready /\ w.ready[i] = w.ready[i + 0]
        /\ \A i \in DOMAIN w.resume : i \in Nat /\ i + 0 \in DOMAIN w.resume /\ w.resume[i] = w.resume[i + 0]
    BY <1>2
  <2>2. Outstanding(w) <= Outstanding(w)
    BY <1>4
  <2> QED BY <1>4, <2>1, <2>2, FewerInv
<1>6. WritesInv(AbortWrites(w), frames, len, FALSE)
  <2> DEFINE v == AbortWrites(w)
  <2>1. v.ready = <<>> /\ v.resume = w.resume /\ v.wire = w.wire /\ v.overlapped = w.overlapped
    BY DEF AbortWrites, WriteQueue
  <2> HIDE DEF v
  <2>2. Outstanding(v) = 0 + b
    BY <2>1 DEF Outstanding, b
  <2>3. /\ \A i \in DOMAIN v.ready : i \in Nat /\ i + 0 \in DOMAIN w.ready /\ v.ready[i] = w.ready[i + 0]
        /\ \A i \in DOMAIN v.resume : i \in Nat /\ i + 0 \in DOMAIN w.resume /\ v.resume[i] = w.resume[i + 0]
    BY <1>2, <2>1
  <2>4. Outstanding(v) \in Nat /\ Outstanding(v) <= Outstanding(w)
    BY <1>2, <1>3, <2>2
  <2>5. WritesInv(v, frames, len, FALSE)
    BY <1>4, <2>1, <2>3, <2>4, FewerInv
  <2> QED BY <2>5 DEF v
<1>7. ASSUME w.ready # <<>> PROVE WritesInv(FailWrite(w), frames, len, FALSE)
  <2> DEFINE v == FailWrite(w)
  <2>1. v.ready = Tail(w.ready) /\ v.resume = w.resume /\ v.wire = w.wire /\ v.overlapped = w.overlapped
    BY DEF FailWrite, WriteQueue
  <2> HIDE DEF v
  <2>2. /\ Len(v.ready) = a - 1 /\ a > 0 /\ DOMAIN v.ready = 1..a - 1
        /\ \A i \in 1..a - 1 : v.ready[i] = w.ready[i + 1]
    BY <1>1, <1>7, <2>1, TailLemma DEF a
  <2>3. /\ \A i \in DOMAIN v.ready : i \in Nat /\ i + 1 \in DOMAIN w.ready /\ v.ready[i] = w.ready[i + 1]
        /\ \A i \in DOMAIN v.resume : i \in Nat /\ i + 0 \in DOMAIN w.resume /\ v.resume[i] = w.resume[i + 0]
    BY <1>2, <2>1, <2>2
  <2>4. Outstanding(v) \in Nat /\ Outstanding(v) <= Outstanding(w)
    <3>1. Outstanding(v) = (a - 1) + b
      BY <2>1, <2>2 DEF Outstanding, b
    <3> QED BY <1>2, <1>3, <2>2, <3>1
  <2>5. WritesInv(v, frames, len, FALSE)
    BY <1>4, <2>1, <2>3, <2>4, FewerInv
  <2> QED BY <2>5 DEF v
<1>8. ASSUME w.resume # <<>> PROVE WritesInv(DropResumed(w), frames, len, FALSE)
  <2> DEFINE v == DropResumed(w)
  <2>1. v.ready = w.ready /\ v.resume = Tail(w.resume) /\ v.wire = w.wire /\ v.overlapped = w.overlapped
    BY DEF DropResumed, WriteQueue
  <2> HIDE DEF v
  <2>2. /\ Len(v.resume) = b - 1 /\ b > 0 /\ DOMAIN v.resume = 1..b - 1
        /\ \A i \in 1..b - 1 : v.resume[i] = w.resume[i + 1]
    BY <1>1, <1>8, <2>1, TailLemma DEF b
  <2>3. /\ \A i \in DOMAIN v.ready : i \in Nat /\ i + 0 \in DOMAIN w.ready /\ v.ready[i] = w.ready[i + 0]
        /\ \A i \in DOMAIN v.resume : i \in Nat /\ i + 1 \in DOMAIN w.resume /\ v.resume[i] = w.resume[i + 1]
    BY <1>2, <2>1, <2>2
  <2>4. Outstanding(v) \in Nat /\ Outstanding(v) <= Outstanding(w)
    <3>1. Outstanding(v) = a + (b - 1)
      BY <2>1, <2>2 DEF Outstanding, a
    <3> QED BY <1>2, <1>3, <2>2, <3>1
  <2>5. WritesInv(v, frames, len, FALSE)
    BY <1>4, <2>1, <2>3, <2>4, FewerInv
  <2> QED BY <2>5 DEF v
<1> QED BY <1>5, <1>6, <1>7, <1>8
=============================================================================
