---------------------------- MODULE ThreadProofs ----------------------------
(***************************************************************************)
(* The two components in which the steps of two threads interleave.        *)
(*                                                                         *)
(* The io_context: the thread in run() never sleeps on something to do;    *)
(* the queues, counters and edges of scheduler and reactor agree with one  *)
(* another.  For any number of handlers, operations and cells.             *)
(*                                                                         *)
(* The list of messages, which no lock protects: as long as nothing        *)
(* overlaps it is what was appended, in order, the cursor is on what is    *)
(* drawn and the line under it stays; and even what overlaps never draws a *)
(* message twice.                                                          *)
(* For any number of messages, any height of a message and of the screen.  *)
(***************************************************************************)
EXTENDS IoContext, ChatView, DataProofs

-----------------------------------------------------------------------------
(* The io_context.                                                          *)

\* The protocol of task_interrupted_: whoever finds it FALSE renews the
\* registration of the interrupter and sets it, so that a blocked thread with the
\* flag set has been poked; and whoever gives a blocked thread something to do
\* sets it.
WakeInv ==
  pc = "poll" /\ blocking =>
    /\ interrupted => poke
    /\ queue # <<>> \/ stopped => interrupted

LEMMA WakeInit == Init => WakeInv
BY DEF Init, WakeInv

\* Push and Stop keep the protocol, whatever is queued.
LEMMA InterruptKeeps ==
  ASSUME WakeInv, Interrupt, pc' = "poll" /\ blocking' => pc = "poll" /\ blocking
  PROVE  WakeInv'
BY DEF WakeInv, Interrupt

LEMMA WakeNext == WakeInv /\ [Next]_vars => WakeInv'
<1> SUFFICES ASSUME WakeInv, [Next]_vars PROVE WakeInv'
  OBVIOUS
<1> DEFINE Asleep == <<pc, blocking>>
           Wakes == <<queue, stopped, interrupted, poke>>
<1>1. ASSUME UNCHANGED <<Asleep, Wakes>> PROVE WakeInv'
  BY <1>1 DEF WakeInv
<1>2. ASSUME UNCHANGED Asleep, Interrupt PROVE WakeInv'
  BY <1>2, InterruptKeeps
<1>3. ASSUME pc' # "poll" PROVE WakeInv'
  BY <1>3 DEF WakeInv
<1>4. CASE Run
  <2>1. CASE Turn
    BY <2>1 DEF Turn, Looking, WakeInv
  <2>2. CASE Call \/ GiveUp \/ Return \/ Take \/ Poll \/ TaskCleanup \/ PerformIo \/ HandlerReturns
              \/ Settle \/ Requeue
    <3>1. pc' # "poll"
      BY <2>2 DEF Call, GiveUp, Return, Take, Poll, TaskCleanup, PerformIo, HandlerReturns, Settle,
                  Requeue
    <3> QED BY <3>1, <1>3
  <2> QED BY <1>4, <2>1, <2>2 DEF Run
<1>5. CASE Handler
  <2>1. pc \in {"call", "run"} /\ pc' = pc
    BY <1>5 DEF Handler, Start, StartOp, HandlerPosts, HandlerCloses, HandlerStops, runner
  <2> QED BY <2>1, <1>3
<1>6. CASE Other
  <2>1. CASE WorkStarted \/ Close \/ ResetGuard
    BY <2>1, <1>1 DEF WorkStarted, Close, ResetGuard, Deregister, runner, scheduler, kernel
  <2>2. CASE PostQueued \/ StopCalled
    BY <2>2, <1>2 DEF PostQueued, StopCalled, Push, Stop, runner
  <2>3. CASE AbortedQueued
    BY <2>3, <1>1, <1>2 DEF AbortedQueued, Push, runner
  <2> QED BY <1>6, <2>1, <2>2, <2>3 DEF Other
<1>7. CASE Arrive \/ Drain \/ UNCHANGED vars
  BY <1>7, <1>1 DEF Arrive, Drain, vars, scheduler, runner, kernel
<1> QED BY <1>4, <1>5, <1>6, <1>7 DEF Next

\* No wakeup is lost: a thread blocked in epoll_wait with a handler in the queue, or
\* with the io_context stopped, has been poked (scheduler.ipp:472-488, 660-685;
\* epoll_reactor.ipp:625-631), although nobody resets the interrupter.
THEOREM NoWakeupIsLost == Spec => []NoLostWakeup
<1>1. WakeInv => NoLostWakeup
  BY DEF WakeInv, NoLostWakeup
<1> QED BY WakeInit, WakeNext, <1>1, PTL DEF Spec

-----------------------------------------------------------------------------
(* The invariant of scheduler and reactor.                                  *)

One(b) == IF b THEN 1 ELSE 0

\* a may be ahead of b in a list: handlers are in the order of the posts, and the
\* descriptor_state, which the task queued, is ahead of the task.
Before(a, b) ==
  /\ a # b
  /\ ~(a = Task /\ b = Descriptor)
  /\ a.kind = "post" /\ b.kind = "post" => a.n < b.n

Ordered(s) == \A i, j \in DOMAIN s : i < j => Before(s[i], s[j])

\* What each list may hold, and when.
PlacesInv ==
  /\ private \in Seq(IoOps \cup {Descriptor})
  /\ pc \notin {"polled", "run", "settle", "giveUp", "requeue"} => private = <<>>
  /\ pc # "polled" => Descriptor \notin ToSet(private)
  /\ other # "close" => aborted = <<>>
  /\ Task \in ToSet(queue) <=> pc \notin {"poll", "polled"}
  /\ Descriptor \in ToSet(queue) => Task \in ToSet(queue)

\* Every list is in order, and nothing is in two of them.
Apart(s, t) == ToSet(s) \cap ToSet(t) = {}

ListsInv ==
  /\ Ordered(queue) /\ Ordered(private) /\ Ordered(aborted)
  /\ \A d \in Dir : /\ Ordered(waiting[d]) /\ Apart(queue, waiting[d])
                    /\ Apart(private, waiting[d]) /\ Apart(aborted, waiting[d])
  /\ Apart(waiting["read"], waiting["write"])
  /\ Apart(queue, private) /\ Apart(queue, aborted) /\ Apart(private, aborted)

\* What is outstanding was numbered already, and what ran is not outstanding.
NumInv ==
  /\ \A a \in Begun :
       /\ a.kind = "post" => a.n <= posts /\ \A n \in ToSet(ran.posts) : n < a.n
       /\ a.kind = "io" => a.n <= ops /\ a.n \notin ToSet(ran.ops)
  /\ \A a, b \in Begun : a.kind = "io" /\ b.kind = "io" /\ a.n = b.n => a = b
  /\ \A n \in ToSet(ran.posts) : n <= posts
  /\ \A n \in ToSet(ran.ops) : n <= ops
  /\ RunOnceInOrder

\* The descriptor_state is on its way to run, and direction d will be served.
Coming == Descriptor \in ToSet(queue) \/ Descriptor \in ToSet(private) \/ pc = "perform"
Due(d) == d \in edge \/ (d \in ready /\ Coming)

\* An event is still to come for whatever waits and could be performed.  For the
\* write that a later drain has to report the kernel remembers that there was no
\* room (nospace), as long as no event is on its way; and reads are always tried.
EdgeInv ==
  /\ \A d \in Dir : waiting[d] # <<>> /\ cells[d] > 0 => Due(d)
  /\ open /\ (waiting["write"] # <<>> \/ ~speculative["write"]) => nospace \/ Due("write")
  /\ nospace => cells["write"] = 0
  /\ ~open => \A d \in Dir : cells[d] = 0 /\ waiting[d] = <<>>
  /\ speculative["read"]

\* What else than the operations is counted; and between handlers the thread has
\* nothing on its own account, so that work alone never falls below the guard's.
Account == One(guard) + One(other = "post") + One(pc \in {"run", "settle"})

WorkInv ==
  /\ work + privateWork = Cardinality(Begun) + Account
  /\ work >= One(guard)
  /\ pc \notin {"run", "settle"} => privateWork = 0

SchedInv == TypeOK /\ PlacesInv /\ ListsInv /\ NumInv /\ EdgeInv /\ WorkInv

-----------------------------------------------------------------------------
LEMMA KindLemma ==
  /\ Task # Descriptor /\ Task.kind = "task" /\ Descriptor.kind = "descriptor"
  /\ Task \in Operation /\ Descriptor \in Operation
  /\ IoOps \subseteq UserOps /\ UserOps \subseteq Operation
  /\ \A a \in IoOps : a.kind = "io" /\ a.n \in 1..MaxOps /\ a.size \in 1..2 /\ a = Io(a.n, a.size)
  /\ \A a \in UserOps : /\ a \in IoOps \/ (a.kind = "post" /\ a.n \in 1..MaxPosts /\ a = Post(a.n))
                        /\ a # Task /\ a # Descriptor
  /\ \A a \in Operation : a \in UserOps \/ a = Task \/ a = Descriptor
  /\ \A n \in 1..MaxPosts : Post(n) \in UserOps /\ Post(n).kind = "post" /\ Post(n).n = n
  /\ \A n \in 1..MaxOps, k \in 1..2 : Io(n, k) \in IoOps /\ Io(n, k).n = n
<1>1. Task # Descriptor /\ Task.kind = "task" /\ Descriptor.kind = "descriptor"
  BY DEF Task, Descriptor
<1>2. \A a \in IoOps : a.kind = "io" /\ a.n \in 1..MaxOps /\ a.size \in 1..2 /\ a = Io(a.n, a.size)
  BY DEF IoOps, Io
<1>3. \A a \in UserOps : a \in IoOps \/ (a.kind = "post" /\ a.n \in 1..MaxPosts /\ a = Post(a.n))
  BY DEF UserOps, Post
<1>4. \A a \in UserOps : a.kind \in {"io", "post"}
  BY <1>2, <1>3
<1>5. \A a \in UserOps : a # Task /\ a # Descriptor
  BY <1>1, <1>4
<1>6. /\ IoOps \subseteq UserOps /\ UserOps \subseteq Operation
      /\ Task \in Operation /\ Descriptor \in Operation
      /\ \A a \in Operation : a \in UserOps \/ a = Task \/ a = Descriptor
  BY DEF UserOps, Operation
<1>7. \A n \in 1..MaxPosts : Post(n) \in UserOps /\ Post(n).kind = "post" /\ Post(n).n = n
  BY DEF UserOps, Post
<1>8. \A n \in 1..MaxOps, k \in 1..2 : Io(n, k) \in IoOps /\ Io(n, k).n = n
  BY DEF IoOps, Io
<1> QED BY <1>1, <1>2, <1>3, <1>5, <1>6, <1>7, <1>8

\* Lists joined.
LEMMA JoinLemma ==
  ASSUME NEW S, NEW s \in Seq(S), NEW t \in Seq(S)
  PROVE  /\ s \o t \in Seq(S) /\ ToSet(s \o t) = ToSet(s) \cup ToSet(t)
         /\ Ordered(s) /\ Ordered(t) /\ (\A a \in ToSet(s), b \in ToSet(t) : Before(a, b))
              => Ordered(s \o t)
         /\ IsInjective(s) /\ IsInjective(t) /\ ToSet(s) \cap ToSet(t) = {} => IsInjective(s \o t)
<1> DEFINE m == Len(s)
           n == Len(t)
           c == s \o t
<1>1. /\ m \in Nat /\ n \in Nat /\ DOMAIN s = 1..m /\ DOMAIN t = 1..n
      /\ c \in Seq(S) /\ Len(c) = m + n /\ DOMAIN c = 1..m + n
      /\ \A i \in 1..m + n : c[i] = IF i <= m THEN s[i] ELSE t[i - m]
  BY ConcatProperties, LenProperties
<1> HIDE DEF c, m, n
<1>2. \A i \in 1..m + n : \/ i \in 1..m /\ c[i] = s[i]
                          \/ i - m \in 1..n /\ c[i] = t[i - m] /\ i > m
  BY <1>1
<1>3. \A i \in 1..m : i \in 1..m + n /\ c[i] = s[i]
  BY <1>1
<1>4. ASSUME NEW i \in 1..n PROVE i + m \in 1..m + n /\ c[i + m] = t[i]
  <2>1. i + m \in 1..m + n /\ ~(i + m <= m) /\ (i + m) - m = i
    BY <1>1
  <2> QED BY <1>1, <2>1
<1>5. ToSet(c) = ToSet(s) \cup ToSet(t)
  <2>1. ToSet(c) \subseteq ToSet(s) \cup ToSet(t)
    BY <1>1, <1>2 DEF ToSet
  <2>2. ToSet(s) \subseteq ToSet(c)
    BY <1>1, <1>3 DEF ToSet
  <2>3. ToSet(t) \subseteq ToSet(c)
    BY <1>1, <1>4 DEF ToSet
  <2> QED BY <2>1, <2>2, <2>3
<1>6. ASSUME Ordered(s), Ordered(t), \A a \in ToSet(s), b \in ToSet(t) : Before(a, b)
      PROVE  Ordered(c)
  <2> SUFFICES ASSUME NEW i \in 1..m + n, NEW j \in 1..m + n, i < j PROVE Before(c[i], c[j])
    BY <1>1 DEF Ordered
  <2>1. CASE j \in 1..m
    <3>1. i \in 1..m
      BY <1>1, <2>1
    <3> QED BY <1>1, <1>3, <1>6, <2>1, <3>1 DEF Ordered
  <2>2. CASE i \in 1..m /\ j \notin 1..m
    <3>1. c[i] \in ToSet(s) /\ c[j] \in ToSet(t)
      BY <1>1, <1>2, <1>3, <2>2 DEF ToSet
    <3> QED BY <1>6, <3>1
  <2>3. CASE i \notin 1..m /\ j \notin 1..m
    <3>1. i - m \in 1..n /\ j - m \in 1..n /\ i - m < j - m
      BY <1>1, <2>3
    <3> QED BY <1>1, <1>2, <1>6, <2>3, <3>1 DEF Ordered
  <2> QED BY <1>1, <2>1, <2>2, <2>3
<1>7. ASSUME IsInjective(s), IsInjective(t), ToSet(s) \cap ToSet(t) = {}
      PROVE  IsInjective(c)
  <2> SUFFICES ASSUME NEW i \in 1..m + n, NEW j \in 1..m + n, c[i] = c[j] PROVE i = j
    BY <1>1 DEF IsInjective
  <2>1. \A k \in 1..m, l \in 1..n : s[k] # t[l]
    BY <1>1, <1>7 DEF ToSet
  <2>2. \A k, l \in 1..m : s[k] = s[l] => k = l
    BY <1>1, <1>7 DEF IsInjective
  <2>3. \A k, l \in 1..n : t[k] = t[l] => k = l
    BY <1>1, <1>7 DEF IsInjective
  <2> QED BY <1>1, <1>2, <2>1, <2>2, <2>3
<1> QED BY <1>1, <1>5, <1>6, <1>7 DEF c

LEMMA SingleLemma == \A x : ToSet(<<x>>) = {x} /\ Ordered(<<x>>) /\ IsInjective(<<x>>)
  <1>1. \A x : DOMAIN <<x>> = {1} /\ <<x>>[1] = x
    OBVIOUS
  <1> QED BY <1>1 DEF ToSet, Ordered, IsInjective

LEMMA NothingLemma == ToSet(<<>>) = {} /\ Ordered(<<>>)
<1>1. DOMAIN <<>> = {}
  OBVIOUS
<1> QED BY <1>1 DEF ToSet, Ordered

\* The first of a list taken.
LEMMA TakenLemma ==
  ASSUME NEW S, NEW s \in Seq(S), s # <<>>, Ordered(s)
  PROVE  /\ Tail(s) \in Seq(S) /\ Head(s) \in ToSet(s) /\ ToSet(Tail(s)) = ToSet(s) \ {Head(s)}
         /\ Ordered(Tail(s)) /\ \A a \in ToSet(Tail(s)) : Before(Head(s), a)
<1> DEFINE n == Len(s)
           t == Tail(s)
<1>1. /\ n \in Nat /\ n >= 1 /\ DOMAIN s = 1..n /\ Head(s) = s[1]
      /\ t \in Seq(S) /\ DOMAIN t = 1..n - 1 /\ \A i \in 1..n - 1 : t[i] = s[i + 1]
  <2>1. n \in Nat /\ n # 0 /\ DOMAIN s = 1..n
    BY EmptySeq, LenProperties
  <2>2. t \in Seq(S) /\ Len(t) = n - 1 /\ \A i \in 1..n - 1 : t[i] = s[i + 1]
    BY HeadTailProperties
  <2>3. DOMAIN t = 1..n - 1
    BY <2>2, LenProperties
  <2> QED BY <2>1, <2>2, <2>3
<1> HIDE DEF n, t
<1>2. \A i, j \in 1..n : i < j => Before(s[i], s[j])
  BY <1>1 DEF Ordered
<1>3. \A i \in 1..n - 1 : i + 1 \in 1..n /\ 1 < i + 1
  BY <1>1
<1>4. \A a \in ToSet(t) : Before(s[1], a)
  BY <1>1, <1>2, <1>3 DEF ToSet
<1>5. Ordered(t)
  <2> SUFFICES ASSUME NEW i \in 1..n - 1, NEW j \in 1..n - 1, i < j PROVE Before(t[i], t[j])
    BY <1>1 DEF Ordered
  <2> QED BY <1>1, <1>2
<1>6. ToSet(t) = ToSet(s) \ {s[1]}
  <2>1. ASSUME NEW a \in ToSet(t) PROVE a \in ToSet(s) /\ a # s[1]
    <3>1. PICK i \in 1..n - 1 : a = t[i]
      BY <1>1 DEF ToSet
    <3>2. a \in ToSet(s)
      BY <1>1, <1>3, <3>1 DEF ToSet
    <3> QED BY <1>4, <3>2 DEF Before
  <2>2. ASSUME NEW a \in ToSet(s), a # s[1] PROVE a \in ToSet(t)
    <3>1. PICK i \in 1..n : a = s[i]
      BY <1>1 DEF ToSet
    <3>2. i # 1
      BY <2>2, <3>1
    <3>3. i - 1 \in 1..n - 1 /\ (i - 1) + 1 = i
      BY <1>1, <3>2
    <3>4. t[i - 1] = s[i]
      BY <1>1, <3>3
    <3> QED BY <1>1, <3>1, <3>3, <3>4 DEF ToSet
  <2> QED BY <2>1, <2>2
<1>7. s[1] \in ToSet(s)
  BY <1>1 DEF ToSet
<1> QED BY <1>1, <1>4, <1>5, <1>6, <1>7 DEF t

\* A list cut in two.
LEMMA CutLemma ==
  ASSUME NEW S, NEW s \in Seq(S), Ordered(s), NEW k \in 0..Len(s)
  PROVE  /\ SubSeq(s, 1, k) \in Seq(S) /\ SubSeq(s, k + 1, Len(s)) \in Seq(S)
         /\ Len(SubSeq(s, 1, k)) = k
         /\ SubSeq(s, k + 1, Len(s)) = <<>> <=> k = Len(s)
         /\ Ordered(SubSeq(s, 1, k)) /\ Ordered(SubSeq(s, k + 1, Len(s)))
         /\ ToSet(SubSeq(s, 1, k)) \cup ToSet(SubSeq(s, k + 1, Len(s))) = ToSet(s)
         /\ ToSet(SubSeq(s, 1, k)) \cap ToSet(SubSeq(s, k + 1, Len(s))) = {}
<1> DEFINE n == Len(s)
           a == SubSeq(s, 1, k)
           b == SubSeq(s, k + 1, n)
<1>1. n \in Nat /\ k \in Nat /\ k <= n /\ DOMAIN s = 1..n /\ \A i \in 1..n : s[i] \in S
  BY LenProperties
<1>2. a \in Seq(S) /\ Len(a) = k /\ \A i \in 1..k : a[i] = s[i]
  BY <1>1, SubSeqProperties
<1>3. b \in Seq(S) /\ Len(b) = n - k /\ \A i \in 1..n - k : b[i] = s[k + i]
  <2>1. \A i \in k + 1..n : s[i] \in S
    BY <1>1
  <2>2. /\ b \in Seq(S)
        /\ Len(b) = IF k + 1 <= n THEN n - (k + 1) + 1 ELSE 0
        /\ \A i \in 1..n - (k + 1) + 1 : b[i] = s[k + 1 + i - 1]
    BY <1>1, <2>1, SubSeqProperties
  <2> HIDE DEF b, n
  <2> QED BY <1>1, <2>2
<1>4. DOMAIN a = 1..k /\ DOMAIN b = 1..n - k
  BY <1>2, <1>3, LenProperties
<1>5. b = <<>> <=> k = n
  <2>1. b = <<>> <=> Len(b) = 0
    BY <1>3, EmptySeq
  <2> HIDE DEF b, n
  <2> QED BY <1>1, <1>3, <2>1
<1> HIDE DEF a, b, n
<1>6. \A i, j \in 1..n : i < j => Before(s[i], s[j])
  BY <1>1 DEF Ordered
<1>7. Ordered(a)
  BY <1>1, <1>2, <1>4, <1>6 DEF Ordered
<1>8. Ordered(b)
  <2> SUFFICES ASSUME NEW i \in 1..n - k, NEW j \in 1..n - k, i < j PROVE Before(b[i], b[j])
    BY <1>4 DEF Ordered
  <2> QED BY <1>1, <1>3, <1>6
<1>9. ToSet(a) \cup ToSet(b) = ToSet(s)
  <2>1. \A i \in 1..k : a[i] = s[i] /\ i \in 1..n
    BY <1>1, <1>2
  <2>2. \A i \in 1..n - k : b[i] = s[k + i] /\ k + i \in 1..n
    BY <1>1, <1>3
  <2>3. ASSUME NEW i \in 1..n
        PROVE  \/ i \in 1..k /\ s[i] = a[i]
               \/ i - k \in 1..n - k /\ s[i] = b[i - k]
    <3>1. i \in 1..k \/ (i - k \in 1..n - k /\ k + (i - k) = i)
      BY <1>1
    <3> QED BY <1>2, <1>3, <3>1
  <2>4. ToSet(s) \subseteq ToSet(a) \cup ToSet(b)
    BY <1>1, <1>4, <2>3 DEF ToSet
  <2>5. ToSet(a) \subseteq ToSet(s)
    BY <1>1, <1>4, <2>1 DEF ToSet
  <2>6. ToSet(b) \subseteq ToSet(s)
    BY <1>1, <1>4, <2>2 DEF ToSet
  <2> QED BY <2>4, <2>5, <2>6
<1>10. ToSet(a) \cap ToSet(b) = {}
  <2> SUFFICES ASSUME NEW i \in 1..k, NEW j \in 1..n - k, a[i] = b[j] PROVE FALSE
    BY <1>4 DEF ToSet
  <2>1. i \in 1..n /\ k + j \in 1..n /\ i < k + j
    BY <1>1
  <2>2. s[i] # s[k + j]
    BY <1>6, <2>1 DEF Before
  <2> QED BY <1>2, <1>3, <2>2
<1> QED BY <1>2, <1>3, <1>5, <1>7, <1>8, <1>9, <1>10 DEF a, b, n

-----------------------------------------------------------------------------
(* What perform() does with a list of operations.                           *)

LEMMA LeftLemma ==
  ASSUME NEW c \in Nat, NEW s \in Seq(IoOps)
  PROVE  /\ Left(c, s)[0] = c
         /\ \A i \in 0..Len(s) : Left(c, s)[i] \in Nat
         /\ \A i \in 1..Len(s) : Left(c, s)[i - 1] < s[i].size => Left(c, s)[i] = 0
<1> DEFINE n == Len(s)
           Later(i, x) == IF s[i].size <= x THEN x - s[i].size ELSE 0
           step == [p \in (1..n) \X Nat |-> Later(p[1], p[2])]
           f == CHOOSE f : f = [i \in 0..n |-> IF i = 0 THEN c ELSE Later(i, f[i - 1])]
<1>1. Left(c, s) = f
  BY DEF Left
<1>2. n \in Nat /\ \A i \in 1..n : s[i].size \in 1..2
  BY KindLemma, LenProperties
<1>3. \A i \in 1..n, x \in Nat : Later(i, x) \in Nat /\ (x < s[i].size => Later(i, x) = 0)
  BY <1>2
<1> HIDE DEF Later, n
<1>4. step \in [(1..n) \X Nat -> Nat]
  BY <1>3
<1>5. \A i \in 1..n, x \in Nat : step[<<i, x>>] = Later(i, x)
  OBVIOUS
<1> HIDE DEF step
<1>6. PICK g : GoesUp(g, n, Nat, c, step)
  BY <1>2, <1>4, Recursion
<1>7. g \in [0..n -> Nat] /\ g[0] = c /\ \A i \in 1..n : g[i] = step[<<i, g[i - 1]>>]
  BY <1>6 DEF GoesUp
<1>8. ASSUME NEW i \in 1..n PROVE g[i] = Later(i, g[i - 1])
  <2>1. i - 1 \in 0..n
    BY <1>2
  <2>2. g[i - 1] \in Nat
    BY <1>7, <2>1
  <2> QED BY <1>5, <1>7, <2>2
<1>9. g = [i \in 0..n |-> IF i = 0 THEN c ELSE Later(i, g[i - 1])]
  <2>1. ASSUME NEW i \in 0..n PROVE g[i] = IF i = 0 THEN c ELSE Later(i, g[i - 1])
    <3>1. CASE i = 0
      BY <1>7, <3>1
    <3>2. CASE i # 0
      <4>1. i \in 1..n
        BY <1>2, <3>2
      <4> QED BY <1>8, <3>2, <4>1
    <3> QED BY <3>1, <3>2
  <2>2. g = [i \in 0..n |-> g[i]]
    BY <1>7
  <2> QED BY <2>1, <2>2
<1>10. f = [i \in 0..n |-> IF i = 0 THEN c ELSE Later(i, f[i - 1])]
  BY <1>9
<1> HIDE DEF f
<1>11. f[0] = c /\ \A i \in 1..n : f[i] = Later(i, f[i - 1])
  BY <1>2, <1>10
<1>12. \A i \in 0..n : f[i] \in Nat
  <2> DEFINE N == {i \in Nat : i <= n => f[i] \in Nat}
  <2>1. 0 \in N
    BY <1>11
  <2>2. ASSUME NEW i \in Nat, i \in N PROVE i + 1 \in N
    <3> SUFFICES ASSUME i + 1 <= n PROVE f[i + 1] \in Nat
      OBVIOUS
    <3>1. f[i] \in Nat /\ i + 1 \in 1..n /\ (i + 1) - 1 = i
      BY <1>2, <2>2
    <3> QED BY <1>3, <1>11, <3>1
  <2> HIDE DEF N
  <2>3. \A i \in Nat : i \in N
    BY <2>1, <2>2, Induction
  <2> QED BY <1>2, <2>3 DEF N
<1>13. ASSUME NEW i \in 1..n, f[i - 1] < s[i].size PROVE f[i] = 0
  <2>1. i - 1 \in 0..n
    BY <1>2
  <2>2. f[i - 1] \in Nat
    BY <1>12, <2>1
  <2> QED BY <1>3, <1>11, <1>13, <2>2
<1> QED BY <1>1, <1>11, <1>12, <1>13 DEF n

\* The first k operations of s are performed; what is not performed, or only in
\* part, finds no cell left.
Performs(d, s, k, r) ==
  /\ k \in 0..Len(s) /\ r.done = SubSeq(s, 1, k)
  /\ r.cells \in Nat /\ r.short \in BOOLEAN /\ r.exhausted \in BOOLEAN
  /\ k < Len(s) => r.short
  /\ r.short => r.cells = 0
  /\ r.exhausted => r.short /\ d = "write"
  /\ k = 0 => r.cells = cells[d] /\ ~r.exhausted
  /\ cells[d] = 0 => k = 0
  /\ Len(s) = 0 => ~r.short

LEMMA PerformLemma ==
  ASSUME NEW d \in Dir, cells[d] \in Nat, NEW s \in Seq(IoOps)
  PROVE  \E k \in Nat : Performs(d, s, k, PerformAll(d, s))
<1> DEFINE n == Len(s)
           left == Left(cells[d], s)
           Ends(k) == (k = n \/ left[k] = 0) /\ \A i \in 0..k - 1 : left[i] > 0
           k == CHOOSE k \in 0..n : Ends(k)
           exhausted == d = "write" /\ \E i \in 1..k : left[i - 1] < s[i].size
<1>1. PerformAll(d, s) = [cells |-> left[k], done |-> SubSeq(s, 1, k),
                          short |-> k < n \/ exhausted, exhausted |-> exhausted]
  BY DEF PerformAll
<1>2. n \in Nat
  BY LenProperties
<1>3. /\ left[0] = cells[d] /\ \A i \in 0..n : left[i] \in Nat
      /\ \A i \in 1..n : left[i - 1] < s[i].size => left[i] = 0
  BY LeftLemma
<1> HIDE DEF left, n
<1>4. \E i \in 0..n : Ends(i)
  <2> DEFINE T == {i \in 0..n : i = n \/ left[i] = 0}
  <2>1. T \subseteq Nat /\ n \in T
    BY <1>2
  <2>2. PICK x \in T : \A y \in T : ~(y < x)
    BY <2>1, LeastNumber
  <2>3. ASSUME NEW i \in 0..x - 1 PROVE left[i] > 0
    <3>1. i \in 0..n /\ i < x /\ i # n
      BY <1>2, <2>2
    <3>2. i \notin T
      BY <2>2, <3>1
    <3> QED BY <1>3, <3>1, <3>2
  <2>4. x \in 0..n /\ (x = n \/ left[x] = 0)
    BY <2>2
  <2> QED BY <2>3, <2>4
<1>5. k \in 0..n /\ Ends(k)
  BY <1>4
<1> HIDE DEF k
<1>6. k < n => left[k] = 0
  BY <1>2, <1>5
<1>7. ASSUME exhausted PROVE left[k] = 0
  <2>1. PICK i \in 1..k : left[i - 1] < s[i].size
    BY <1>7
  <2>2. i \in 1..n
    BY <1>2, <1>5
  <2>3. left[i] = 0
    BY <1>3, <2>1, <2>2
  <2>4. i \in 0..k - 1 \/ i = k
    BY <1>2, <1>5
  <2> QED BY <1>5, <2>3, <2>4
<1>8. cells[d] = 0 => k = 0
  <2> SUFFICES ASSUME cells[d] = 0, k # 0 PROVE FALSE
    OBVIOUS
  <2>1. 0 \in 0..k - 1
    BY <1>2, <1>5
  <2> QED BY <1>3, <1>5, <2>1
<1>9. k = 0 => ~exhausted
  OBVIOUS
<1>10. left[k] \in Nat /\ exhausted \in BOOLEAN
  BY <1>3, <1>5
<1>11. exhausted => d = "write"
  OBVIOUS
<1>12. n = 0 => k = 0 /\ ~(k < n)
  BY <1>2, <1>5
<1> HIDE DEF exhausted, Ends
<1> DEFINE r == PerformAll(d, s)
<1>13. /\ r.cells = left[k] /\ r.done = SubSeq(s, 1, k) /\ r.short = (k < n \/ exhausted)
       /\ r.exhausted = exhausted
  <2> DEFINE short == k < n \/ exhausted
  <2>1. r = [cells |-> left[k], done |-> SubSeq(s, 1, k), short |-> short, exhausted |-> exhausted]
    BY <1>1
  <2> HIDE DEF short, r
  <2>2. /\ r.cells = left[k] /\ r.done = SubSeq(s, 1, k) /\ r.short = short
        /\ r.exhausted = exhausted
    BY <2>1
  <2> QED BY <2>2 DEF short
<1>14. k \in Nat /\ k \in 0..n /\ (k < n) \in BOOLEAN
  BY <1>2, <1>5
<1> HIDE DEF r
<1>15. Performs(d, s, k, r)
  BY <1>3, <1>6, <1>7, <1>8, <1>9, <1>10, <1>11, <1>12, <1>13, <1>14 DEF Performs, n
<1> QED BY <1>14, <1>15 DEF r

-----------------------------------------------------------------------------
(* What is outstanding, by the lists it is in.                              *)

LEMMA ItemLemma == ASSUME NEW S, NEW s \in Seq(S) PROVE ToSet(s) \subseteq S
BY LenProperties DEF ToSet

LEMMA FiniteLemma == ASSUME NEW S, NEW s \in Seq(S) PROVE IsFiniteSet(ToSet(s))
<1>1. Len(s) \in Nat /\ DOMAIN s = 1..Len(s) /\ s \in [1..Len(s) -> S]
  BY LenProperties
<1>2. IsFiniteSet(1..Len(s))
  BY <1>1, FS_Interval
<1>3. s \in Surjection(1..Len(s), ToSet(s))
  BY <1>1 DEF ToSet, Surjection
<1> QED BY <1>2, <1>3, FS_Surjection

\* The members of five lists one behind the other.
FiveLists(q, p, w, a) ==
  /\ w["read"] \o w["write"] \in Seq(IoOps)
  /\ ToSet(w["read"] \o w["write"]) = ToSet(w["read"]) \cup ToSet(w["write"])
  /\ q \o p \o (w["read"] \o w["write"]) \o a \in Seq(Operation)
  /\ ToSet(q \o p \o (w["read"] \o w["write"]) \o a)
       = ToSet(q) \cup ToSet(p) \cup ToSet(w["read"]) \cup ToSet(w["write"]) \cup ToSet(a)

LEMMA FiveLemma ==
  ASSUME NEW q \in Seq(Operation), NEW p \in Seq(Operation), NEW w \in [Dir -> Seq(IoOps)],
         NEW a \in Seq(IoOps)
  PROVE  FiveLists(q, p, w, a)
<1> DEFINE r == w["read"]
           v == w["write"]
<1>1. r \in Seq(IoOps) /\ v \in Seq(IoOps)
  BY DEF Dir
<1> HIDE DEF r, v
<1>2. r \o v \in Seq(IoOps) /\ ToSet(r \o v) = ToSet(r) \cup ToSet(v)
  BY <1>1, JoinLemma
<1>3. \A s \in Seq(IoOps) : s \in Seq(Operation)
  BY KindLemma, SeqMonotonic
<1>4. q \o p \in Seq(Operation) /\ ToSet(q \o p) = ToSet(q) \cup ToSet(p)
  BY JoinLemma
<1> DEFINE x == q \o p
           y == r \o v
           z == x \o y
<1>5. x \in Seq(Operation) /\ y \in Seq(Operation)
  BY <1>2, <1>3, <1>4
<1> HIDE DEF x, y
<1>6. z \in Seq(Operation) /\ ToSet(z) = ToSet(x) \cup ToSet(y)
  BY <1>5, JoinLemma
<1> HIDE DEF z
<1>7. a \in Seq(Operation)
  BY <1>3
<1>8. z \o a \in Seq(Operation) /\ ToSet(z \o a) = ToSet(z) \cup ToSet(a)
  BY <1>6, <1>7, JoinLemma
<1>9. ToSet(z \o a) = ToSet(q) \cup ToSet(p) \cup ToSet(r) \cup ToSet(v) \cup ToSet(a)
  BY <1>2, <1>4, <1>6, <1>8 DEF x, y
<1> QED BY <1>1, <1>2, <1>8, <1>9 DEF FiveLists, r, v, x, y, z

Waiters == ToSet(waiting["read"]) \cup ToSet(waiting["write"])

InLists == (ToSet(queue) \cup ToSet(private) \cup Waiters \cup ToSet(aborted)) \ {Task, Descriptor}

LEMMA SetsLemma ==
  /\ TypeOK => /\ Begun = InLists /\ IsFiniteSet(Begun) /\ Begun \subseteq UserOps
               /\ AllWaiting \in Seq(IoOps) /\ ToSet(AllWaiting) = Waiters
  /\ TypeOK' => Begun' = InLists'
<1>1. ASSUME TypeOK
      PROVE  /\ Begun = InLists /\ Enlisted \in Seq(Operation)
             /\ AllWaiting \in Seq(IoOps) /\ ToSet(AllWaiting) = Waiters
  <2>1. /\ queue \in Seq(Operation) /\ private \in Seq(Operation)
        /\ waiting \in [Dir -> Seq(IoOps)] /\ aborted \in Seq(IoOps)
    BY <1>1 DEF TypeOK
  <2>2. FiveLists(queue, private, waiting, aborted)
    BY <2>1, FiveLemma
  <2> QED BY <2>2 DEF FiveLists, Begun, InLists, Enlisted, AllWaiting, Waiters
<1>2. ASSUME TypeOK' PROVE Begun' = InLists'
  <2>1. /\ queue' \in Seq(Operation) /\ private' \in Seq(Operation)
        /\ waiting' \in [Dir -> Seq(IoOps)] /\ aborted' \in Seq(IoOps)
    BY <1>2 DEF TypeOK
  <2>2. FiveLists(queue', private', waiting', aborted')
    BY <2>1, FiveLemma
  <2> QED BY <2>2 DEF FiveLists, Begun, InLists, Enlisted, AllWaiting, Waiters
<1>3. ASSUME TypeOK PROVE IsFiniteSet(Begun) /\ Begun \subseteq UserOps
  <2>1. IsFiniteSet(ToSet(Enlisted))
    BY <1>1, <1>3, FiniteLemma
  <2>2. ToSet(Enlisted) \subseteq Operation
    <3>1. Enlisted \in Seq(Operation)
      BY <1>1, <1>3
    <3>2. \A i \in DOMAIN Enlisted : Enlisted[i] \in Operation
      BY <3>1, LenProperties
    <3> QED BY <3>2 DEF ToSet
  <2> QED BY <2>1, <2>2, KindLemma, FS_Subset DEF Begun
<1> QED BY <1>1, <1>2, <1>3

\* What cannot be in a list.
LEMMA MembersLemma ==
  ASSUME TypeOK, PlacesInv
  PROVE  /\ ToSet(queue) \subseteq Operation /\ ToSet(private) \subseteq IoOps \cup {Descriptor}
         /\ ToSet(aborted) \subseteq IoOps /\ \A d \in Dir : ToSet(waiting[d]) \subseteq IoOps
         /\ Waiters \subseteq IoOps
<1>2. \A d \in Dir : waiting[d] \in Seq(IoOps)
  BY DEF TypeOK
<1>3. \A d \in Dir : ToSet(waiting[d]) \subseteq IoOps
  BY ItemLemma, <1>2
<1>4. queue \in Seq(Operation) /\ private \in Seq(IoOps \cup {Descriptor}) /\ aborted \in Seq(IoOps)
  BY DEF TypeOK, PlacesInv
<1>5. ToSet(queue) \subseteq Operation
  BY ItemLemma, <1>4
<1>6. ToSet(private) \subseteq IoOps \cup {Descriptor}
  BY ItemLemma, <1>4
<1>7. ToSet(aborted) \subseteq IoOps
  BY ItemLemma, <1>4
<1> QED BY <1>3, <1>5, <1>6, <1>7 DEF Waiters, Dir

-----------------------------------------------------------------------------
(* Numbers of operations.                                                   *)

LEMMA NumStays ==
  ASSUME NumInv, Begun' \subseteq Begun, UNCHANGED counts
  PROVE  NumInv'
<1>1. posts' = posts /\ ops' = ops /\ ran' = ran
  BY DEF counts
<1> QED BY <1>1 DEF NumInv, RunOnceInOrder

\* A handler is run: it was started before all that is outstanding.
LEMMA NumRuns ==
  ASSUME TypeOK, NumInv, NEW a \in Begun, Begun' = Begun \ {a},
         \A b \in Begun \ {a} : a.kind = "post" /\ b.kind = "post" => a.n < b.n,
         ran' = Noted(a), posts' = posts, ops' = ops
  PROVE  NumInv' /\ ran' \in [posts: Seq(1..MaxPosts), ops: Seq(1..MaxOps)]
<1>1. a \in UserOps
  BY SetsLemma
<1>2. /\ ran \in [posts: Seq(1..MaxPosts), ops: Seq(1..MaxOps)]
      /\ ran.posts \in Seq(1..MaxPosts) /\ ran.ops \in Seq(1..MaxOps) /\ posts \in Nat /\ ops \in Nat
  BY DEF TypeOK
<1>3. \A b \in Begun : b.n \in Int
  BY SetsLemma, KindLemma
<1>4. CASE a.kind = "post"
  <2>1. a.n \in 1..MaxPosts
    BY <1>1, <1>4, KindLemma
  <2> DEFINE s == ran.posts
             e == a.n
             t == Append(s, e)
  <2>2. ran' = [ran EXCEPT !.posts = t]
    BY <1>4 DEF Noted
  <2>3. s \in Seq(1..MaxPosts)
    BY <1>2
  <2>4. /\ t \in Seq(1..MaxPosts) /\ Len(s) \in Nat /\ DOMAIN s = 1..Len(s)
        /\ DOMAIN t = 1..Len(s) + 1 /\ (\A i \in 1..Len(s) : t[i] = s[i])
        /\ t[Len(s) + 1] = a.n /\ ToSet(t) = ToSet(s) \cup {a.n}
    <3> DEFINE S == 1..MaxPosts
    <3>1. s \in Seq(S) /\ e \in S
      BY <2>1, <2>3
    <3> HIDE DEF s, e, S
    <3>2. /\ t \in Seq(S) /\ Len(s) \in Nat /\ DOMAIN s = 1..Len(s)
          /\ DOMAIN t = 1..Len(s) + 1 /\ (\A i \in 1..Len(s) : t[i] = s[i])
          /\ t[Len(s) + 1] = e /\ ToSet(t) = ToSet(s) \cup {e}
      BY <3>1, AppendLemma
    <3> QED BY <3>2 DEF S, e
  <2> HIDE DEF t
  <2>5. /\ ran' \in [posts: Seq(1..MaxPosts), ops: Seq(1..MaxOps)]
        /\ ran'.posts = t /\ ran'.ops = ran.ops
    BY <1>2, <2>2, <2>4
  <2>6. (\A n \in ToSet(s) : n < a.n /\ n <= posts) /\ a.n <= posts
    BY <1>4 DEF NumInv
  <2>7. ASSUME NEW i \in DOMAIN t, NEW j \in DOMAIN t, i < j PROVE t[i] < t[j]
    <3>1. i \in 1..Len(s)
      BY <2>4, <2>7
    <3>2. CASE j \in 1..Len(s)
      BY <2>4, <2>7, <3>1, <3>2 DEF NumInv, RunOnceInOrder
    <3>3. CASE j \notin 1..Len(s)
      <4>1. j = Len(s) + 1
        BY <2>4, <3>3
      <4>2. t[i] \in ToSet(s)
        BY <2>4, <3>1 DEF ToSet
      <4> QED BY <2>4, <2>6, <4>1, <4>2
    <3> QED BY <3>2, <3>3
  <2>8. \A n \in ToSet(t) : n <= posts
    BY <2>4, <2>6
  <2>9. ASSUME NEW b \in Begun \ {a}, b.kind = "post" PROVE b.n <= posts /\ \A n \in ToSet(t) : n < b.n
    BY <1>4, <2>4, <2>9 DEF NumInv
  <2>10. NumInv'
    BY <2>5, <2>7, <2>8, <2>9 DEF NumInv, RunOnceInOrder
  <2> QED BY <2>5, <2>10
<1>5. CASE a.kind # "post"
  <2>1. a.n \in 1..MaxOps /\ a.kind = "io"
    BY <1>1, <1>5, KindLemma
  <2> DEFINE s == ran.ops
             e == a.n
             t == Append(s, e)
  <2>2. ran' = [ran EXCEPT !.ops = t]
    BY <1>5 DEF Noted
  <2>3. s \in Seq(1..MaxOps)
    BY <1>2
  <2>4. /\ t \in Seq(1..MaxOps) /\ Len(s) \in Nat /\ DOMAIN s = 1..Len(s)
        /\ DOMAIN t = 1..Len(s) + 1 /\ (\A i \in 1..Len(s) : t[i] = s[i])
        /\ t[Len(s) + 1] = a.n /\ ToSet(t) = ToSet(s) \cup {a.n}
    <3> DEFINE S == 1..MaxOps
    <3>1. s \in Seq(S) /\ e \in S
      BY <2>1, <2>3
    <3> HIDE DEF s, e, S
    <3>2. /\ t \in Seq(S) /\ Len(s) \in Nat /\ DOMAIN s = 1..Len(s)
          /\ DOMAIN t = 1..Len(s) + 1 /\ (\A i \in 1..Len(s) : t[i] = s[i])
          /\ t[Len(s) + 1] = e /\ ToSet(t) = ToSet(s) \cup {e}
      BY <3>1, AppendLemma
    <3> QED BY <3>2 DEF S, e
  <2> HIDE DEF t
  <2>5. /\ ran' \in [posts: Seq(1..MaxPosts), ops: Seq(1..MaxOps)]
        /\ ran'.ops = t /\ ran'.posts = ran.posts
    BY <1>2, <2>2, <2>4
  <2>6. (\A n \in ToSet(s) : n <= ops) /\ a.n <= ops /\ a.n \notin ToSet(s)
    BY <2>1 DEF NumInv
  <2>7. ASSUME NEW i \in DOMAIN t, NEW j \in DOMAIN t, i # j PROVE t[i] # t[j]
    <3>1. \A l \in 1..Len(s) : s[l] # a.n
      BY <2>4, <2>6 DEF ToSet
    <3>2. \A l, m \in 1..Len(s) : l # m => s[l] # s[m]
      BY <2>4 DEF NumInv, RunOnceInOrder
    <3>3. \A l \in DOMAIN t : l \in 1..Len(s) \/ l = Len(s) + 1
      BY <2>4
    <3> QED BY <2>4, <2>7, <3>1, <3>2, <3>3
  <2>8. \A n \in ToSet(t) : n <= ops
    BY <2>4, <2>6
  <2>9. ASSUME NEW b \in Begun \ {a}, b.kind = "io" PROVE b.n <= ops /\ b.n \notin ToSet(t)
    BY <2>1, <2>4, <2>9 DEF NumInv
  <2>10. NumInv'
    BY <2>5, <2>7, <2>8, <2>9 DEF NumInv, RunOnceInOrder
  <2> QED BY <2>5, <2>10
<1> QED BY <1>4, <1>5

LEMMA NumPosts ==
  ASSUME TypeOK, NumInv, posts < MaxPosts, Begun' = Begun \cup {Post(posts + 1)},
         posts' = posts + 1, ops' = ops, ran' = ran
  PROVE  NumInv'
<1> DEFINE a == Post(posts + 1)
<1>1. posts \in Nat /\ ops \in Nat /\ posts + 1 \in 1..MaxPosts
  BY IoContextAssumption DEF TypeOK
<1>2. a.kind = "post" /\ a.n = posts + 1
  BY <1>1, KindLemma
<1> HIDE DEF a
<1>3. ran.posts \in Seq(1..MaxPosts)
  BY DEF TypeOK
<1>4. \A n \in ToSet(ran.posts) : n \in Int /\ n < posts + 1 /\ n <= posts'
  <2>1. \A n \in ToSet(ran.posts) : n \in Int
    <3>1. ToSet(ran.posts) \subseteq 1..MaxPosts
      BY <1>3, ItemLemma
    <3> QED BY <3>1
  <2> QED BY <1>1, <2>1 DEF NumInv
<1>5. \A b \in Begun : b.kind = "post" => b.n <= posts'
  <2>1. \A b \in Begun : b.n \in Int
    BY SetsLemma, KindLemma
  <2> QED BY <1>1, <2>1 DEF NumInv
<1>6. Begun' = Begun \cup {a}
  BY DEF a
<1> QED BY <1>1, <1>2, <1>4, <1>5, <1>6 DEF NumInv, RunOnceInOrder

LEMMA NumStarts ==
  ASSUME TypeOK, NumInv, ops < MaxOps, NEW length \in 1..2, Begun' = Begun \cup {Io(ops + 1, length)},
         ops' = ops + 1, posts' = posts, ran' = ran
  PROVE  NumInv'
<1> DEFINE a == Io(ops + 1, length)
<1>1. posts \in Nat /\ ops \in Nat /\ ops + 1 \in 1..MaxOps
  BY IoContextAssumption DEF TypeOK
<1>2. a.kind = "io" /\ a.n = ops + 1
  BY <1>1, KindLemma
<1> HIDE DEF a
<1>3. ran.ops \in Seq(1..MaxOps)
  BY DEF TypeOK
<1>4. \A n \in ToSet(ran.ops) : n \in Int /\ n < ops + 1 /\ n <= ops'
  <2>1. \A n \in ToSet(ran.ops) : n \in Int
    <3>1. ToSet(ran.ops) \subseteq 1..MaxOps
      BY <1>3, ItemLemma
    <3> QED BY <3>1
  <2> QED BY <1>1, <2>1 DEF NumInv
<1>5. \A b \in Begun : b.kind = "io" => b.n <= ops' /\ b.n # a.n
  <2>1. \A b \in Begun : b.n \in Int
    BY SetsLemma, KindLemma
  <2> QED BY <1>1, <1>2, <2>1 DEF NumInv
<1>6. Begun' = Begun \cup {a}
  BY DEF a
<1>7. a.n \notin ToSet(ran.ops) /\ a.n <= ops'
  BY <1>1, <1>2, <1>4
<1> QED BY <1>1, <1>2, <1>4, <1>5, <1>6, <1>7 DEF NumInv, RunOnceInOrder

-----------------------------------------------------------------------------
(* Work.                                                                    *)

LEMMA CardLemma ==
  ASSUME TypeOK
  PROVE  /\ Cardinality(Begun) \in Nat
         /\ \A a \in Begun : Cardinality(Begun \ {a}) = Cardinality(Begun) - 1
         /\ \A a : a \notin Begun => Cardinality(Begun \cup {a}) = Cardinality(Begun) + 1
<1>1. IsFiniteSet(Begun)
  BY SetsLemma
<1> QED BY <1>1, FS_CardinalityType, FS_AddElement, FS_RemoveElement

\* As many units of work come as are accounted for.
LEMMA WorkBy ==
  ASSUME TypeOK, TypeOK', WorkInv, NEW x \in Int, Cardinality(Begun') = Cardinality(Begun) + x,
         work' + privateWork' = work + privateWork + x + Account' - Account,
         work' >= One(guard)', pc' \notin {"run", "settle"} => privateWork' = 0
  PROVE  WorkInv'
<1>1. Cardinality(Begun) \in Nat
  BY CardLemma
<1>2. work \in Nat /\ privateWork \in Nat /\ work' \in Nat /\ privateWork' \in Nat
  BY DEF TypeOK
<1>3. Account \in Nat /\ Account' \in Nat
  BY DEF Account, One
<1>4. work + privateWork = Cardinality(Begun) + Account
  BY DEF WorkInv
<1>5. work' + privateWork' = Cardinality(Begun') + Account'
  <2> DEFINE c == Cardinality(Begun)
             d == Cardinality(Begun')
             a == Account
             b == Account'
             w == work + privateWork
             v == work' + privateWork'
  <2>1. /\ c \in Int /\ a \in Int /\ b \in Int /\ w \in Int
        /\ d = c + x /\ w = c + a /\ v = w + x + b - a
    BY <1>1, <1>2, <1>3, <1>4
  <2> HIDE DEF a, b, c, d, w, v
  <2>2. v = d + b
    BY <2>1
  <2> QED BY <2>2 DEF d, b, v
<1> QED BY <1>5 DEF WorkInv

LEMMA WorkStays ==
  ASSUME TypeOK, TypeOK', WorkInv, Begun' = Begun, UNCHANGED <<work, privateWork, guard>>,
         other = "post" <=> other' = "post",
         pc \in {"run", "settle"} <=> pc' \in {"run", "settle"}
  PROVE  WorkInv'
<1>1. Account' = Account /\ One(guard)' = One(guard)
  BY DEF Account, One
<1>2. /\ work' = work /\ privateWork' = privateWork /\ Cardinality(Begun') = Cardinality(Begun) + 0
      /\ work \in Nat /\ privateWork \in Nat /\ Account \in Nat
  <2>1. Cardinality(Begun) \in Nat /\ Cardinality(Begun') = Cardinality(Begun)
    BY CardLemma
  <2>2. Account \in Nat
    BY DEF Account, One
  <2>3. work' = work /\ privateWork' = privateWork /\ work \in Nat /\ privateWork \in Nat
    BY DEF TypeOK
  <2> QED BY <2>1, <2>2, <2>3
<1>3. work' + privateWork' = work + privateWork + 0 + Account' - Account
  BY <1>1, <1>2
<1>4. work' >= One(guard)' /\ (pc' \notin {"run", "settle"} => privateWork' = 0)
  BY <1>1, <1>2 DEF WorkInv
<1> QED BY <1>2, <1>3, <1>4, WorkBy

-----------------------------------------------------------------------------
(* Edges.                                                                   *)

LEMMA EdgeStays ==
  ASSUME EdgeInv, UNCHANGED <<edge, cells, nospace, socket>>, Coming => Coming'
  PROVE  EdgeInv'
<1>1. /\ edge' = edge /\ cells' = cells /\ nospace' = nospace /\ ready' = ready
      /\ waiting' = waiting /\ speculative' = speculative /\ open' = open
  BY DEF socket
<1>2. \A d \in Dir : Due(d) => Due(d)'
  BY <1>1 DEF Due
<1> QED BY <1>1, <1>2 DEF EdgeInv, Dir

-----------------------------------------------------------------------------
(* Steps that leave the lists alone.                                        *)

LEMMA ListsStay ==
  ASSUME SchedInv, UNCHANGED <<queue, private, waiting, aborted, counts>>
  PROVE  ListsInv' /\ NumInv' /\ Begun' = Begun
<1>1. /\ queue' = queue /\ private' = private /\ waiting' = waiting /\ aborted' = aborted
  OBVIOUS
<1>2. Begun' = Begun
  BY <1>1 DEF Begun, Enlisted, AllWaiting
<1>3. ListsInv'
  BY <1>1 DEF SchedInv, ListsInv
<1>4. NumInv'
  BY <1>2, NumStays DEF SchedInv
<1> QED BY <1>2, <1>3, <1>4

LEMMA AloneSteps ==
  ASSUME SchedInv, Call \/ GiveUp \/ Return \/ HandlerReturns \/ Settle \/ HandlerStops
                   \/ WorkStarted \/ ResetGuard \/ StopCalled \/ Arrive \/ Drain \/ UNCHANGED vars
  PROVE  SchedInv'
<1> USE DEF SchedInv
<1>1. /\ queue' = queue /\ private' = private /\ waiting' = waiting /\ aborted' = aborted
      /\ UNCHANGED counts
  BY DEF Call, GiveUp, Return, HandlerReturns, Settle, HandlerStops, WorkStarted, ResetGuard,
         StopCalled, Arrive, Drain, Stop, Interrupt, scheduler, runner, kernel, socket, outside, vars
<1>2. ListsInv' /\ NumInv' /\ Begun' = Begun
  BY <1>1, ListsStay
<1>3. /\ posts' = posts /\ ops' = ops /\ ran' = ran
  BY <1>1 DEF counts
<1>4. work \in Nat /\ privateWork \in Nat /\ Cardinality(Begun) \in Nat /\ Cardinality(Begun') = Cardinality(Begun) + 0
  BY <1>2, CardLemma DEF TypeOK
<1> DEFINE Owed == Cardinality(Begun)
<1>5. work + privateWork = Owed + Account /\ work >= One(guard) /\ (pc \notin {"run", "settle"} => privateWork = 0)
  BY DEF WorkInv
<1> HIDE DEF Owed, SchedInv
<1>6. CASE Call \/ GiveUp \/ Return \/ HandlerReturns \/ HandlerStops \/ StopCalled \/ UNCHANGED vars
  <2>1. /\ UNCHANGED <<server, work, privateWork, cur, blocking, edge, cells, nospace, brought, socket, guard>>
        /\ stopped' \in BOOLEAN /\ interrupted' \in BOOLEAN /\ poke' \in BOOLEAN
        /\ other' \in {other, "left"} /\ (other' # other => other # "post" /\ other # "close")
        /\ pc' \in {pc, "noWork", "loop", "returned", "requeue", "settle"}
        /\ pc' # pc => pc \in {"call", "noWork", "giveUp", "loop", "locked", "run"}
        /\ pc' # pc => (pc' = "settle" <=> pc = "run") /\ (pc' = "requeue" <=> pc = "giveUp")
    <3> USE DEF SchedInv, TypeOK
    <3> QED BY <1>6 DEF Call, GiveUp, Return, HandlerReturns, HandlerStops,
               StopCalled, Stop, Interrupt, scheduler, runner, kernel, socket, outside, vars, One
  <2>2. TypeOK'
    BY <1>1, <1>3, <2>1 DEF SchedInv, TypeOK, socket
  <2>3. PlacesInv'
    <3>1. pc' \in {"poll", "polled"} <=> pc \in {"poll", "polled"}
      BY <2>1
    <3>2. pc' = "polled" <=> pc = "polled"
      BY <2>1
    <3>3. pc \in {"polled", "run", "settle", "giveUp", "requeue"}
            => pc' \in {"polled", "run", "settle", "giveUp", "requeue"}
      BY <2>1
    <3>4. other' # "close" => other # "close"
      BY <2>1
    <3> QED BY <1>1, <3>1, <3>2, <3>3, <3>4 DEF SchedInv, PlacesInv
  <2>4. pc = "perform" <=> pc' = "perform"
    BY <2>1
  <2>5. EdgeInv'
    BY <1>1, <2>1, <2>4, EdgeStays DEF SchedInv, Coming
  <2>6. WorkInv'
    BY <1>2, <2>1, <2>2, WorkStays DEF SchedInv
  <2> QED BY <1>2, <2>2, <2>3, <2>5, <2>6 DEF SchedInv
<1>7. CASE Settle
  <2>1. /\ pc = "settle" /\ work' = work + privateWork - 1 /\ privateWork' = 0
        /\ pc' \in {"giveUp", "requeue"} /\ cur' = Task
        /\ UNCHANGED <<server, queue, private, stopped, interrupted, blocking, poke, edge, cells,
                       nospace, brought, ready, waiting, speculative, open, other, aborted, guard>>
    BY <1>7 DEF Settle, kernel, socket, outside
  <2>2. Account = One(guard) + One(other = "post") + 1 /\ Account' = One(guard) + One(other = "post")
    BY <2>1 DEF Account, One
  <2>3. One(guard) \in Nat /\ One(other = "post") \in Nat /\ Owed \in Nat
    BY <1>4 DEF One, Owed
  <2>4. work' \in Nat /\ work' >= One(guard) /\ Account' - Account = -1
    BY <1>4, <1>5, <2>1, <2>2, <2>3
  <2>5. TypeOK'
    BY <1>1, <1>3, <2>1, <2>4, KindLemma DEF SchedInv, TypeOK
  <2>6. PlacesInv'
    BY <1>1, <2>1 DEF SchedInv, PlacesInv
  <2>7. EdgeInv'
    BY <1>1, <2>1, EdgeStays DEF SchedInv, Coming, socket
  <2>8. work' + privateWork' = work + privateWork + 0 + Account' - Account
    BY <1>4, <2>1, <2>2, <2>3
  <2>9. One(guard)' = One(guard)
    BY <2>1 DEF One
  <2>10. WorkInv'
    BY <1>4, <2>1, <2>4, <2>5, <2>8, <2>9, WorkBy DEF SchedInv
  <2> QED BY <1>2, <2>5, <2>6, <2>7, <2>10 DEF SchedInv
<1>8. CASE WorkStarted
  <2>1. /\ other = "idle" /\ other' = "post" /\ work' = work + 1
        /\ UNCHANGED <<server, queue, private, privateWork, stopped, interrupted, pc, cur, blocking,
                       poke, edge, cells, nospace, brought, ready, waiting, speculative, open,
                       aborted, guard>>
    BY <1>8 DEF WorkStarted, runner, kernel, socket
  <2>2. Account' = Account + 1 /\ One(guard)' = One(guard) /\ One(guard) \in Nat /\ Account \in Nat
    BY <2>1 DEF Account, One
  <2>3. TypeOK'
    BY <1>1, <1>3, <1>4, <2>1 DEF SchedInv, TypeOK
  <2>4. PlacesInv'
    BY <1>1, <2>1 DEF SchedInv, PlacesInv
  <2>5. EdgeInv'
    BY <1>1, <2>1, EdgeStays DEF SchedInv, Coming, socket
  <2>6. work' + privateWork' = work + privateWork + 0 + Account' - Account
    BY <1>4, <2>1, <2>2
  <2>7. work' >= One(guard)' /\ (pc' \notin {"run", "settle"} => privateWork' = 0)
    BY <1>4, <1>5, <2>1, <2>2
  <2>8. WorkInv'
    BY <1>4, <2>3, <2>6, <2>7, WorkBy DEF SchedInv
  <2> QED BY <1>2, <2>3, <2>4, <2>5, <2>8 DEF SchedInv
<1>9. CASE ResetGuard
  <2>1. /\ other = "idle" /\ guard /\ guard' = FALSE /\ work' = work - 1 /\ other' = "leaving"
        /\ UNCHANGED <<server, queue, private, privateWork, stopped, interrupted, pc, cur, blocking,
                       poke, edge, cells, nospace, brought, ready, waiting, speculative, open, aborted>>
    BY <1>9 DEF ResetGuard, runner, kernel, socket
  <2>2. Account' = Account - 1 /\ One(guard)' = 0 /\ One(guard) = 1 /\ Account \in Nat
    BY <2>1 DEF Account, One
  <2>3. work' \in Nat
    <3>1. work >= 1
      BY <1>5, <2>2
    <3> QED BY <1>4, <2>1, <3>1
  <2>4. TypeOK'
    BY <1>1, <1>3, <2>1, <2>3 DEF SchedInv, TypeOK
  <2>5. PlacesInv'
    BY <1>1, <2>1 DEF SchedInv, PlacesInv
  <2>6. EdgeInv'
    BY <1>1, <2>1, EdgeStays DEF SchedInv, Coming, socket
  <2>7. work' + privateWork' = work + privateWork + 0 + Account' - Account
    BY <1>4, <2>1, <2>2
  <2>8. work' >= One(guard)' /\ (pc' \notin {"run", "settle"} => privateWork' = 0)
    BY <1>5, <2>1, <2>2, <2>3
  <2>9. WorkInv'
    BY <1>4, <2>4, <2>7, <2>8, WorkBy DEF SchedInv
  <2> QED BY <1>2, <2>4, <2>5, <2>6, <2>9 DEF SchedInv
<1>10. CASE Arrive \/ Drain
  <2>1. /\ open
        /\ UNCHANGED <<server, queue, private, work, privateWork, stopped, interrupted, pc, cur,
                       blocking, poke, ready, waiting, speculative, open, other, aborted, guard>>
    BY <1>10 DEF Arrive, Drain, scheduler, runner, socket, outside
  <2>2. /\ cells \in [Dir -> Nat] /\ brought \in [Dir -> Nat] /\ edge \in SUBSET Dir
        /\ "read" \in Dir /\ "write" \in Dir
    BY DEF SchedInv, TypeOK, Dir
  <2>3. /\ cells' \in [Dir -> Nat] /\ brought' \in [Dir -> Nat] /\ edge \subseteq edge'
        /\ edge' \in SUBSET Dir /\ nospace' \in BOOLEAN
    <3>1. \A f \in [Dir -> Nat], d \in Dir : [f EXCEPT ![d] = f[d] + 1] \in [Dir -> Nat]
      OBVIOUS
    <3>2. CASE Arrive
      <4>1. /\ cells' = [cells EXCEPT !["read"] = cells["read"] + 1]
            /\ brought' = [brought EXCEPT !["read"] = brought["read"] + 1]
            /\ edge' = edge \cup {"read"} /\ nospace' = nospace
        BY <3>2 DEF Arrive
      <4> QED BY <2>2, <3>1, <4>1 DEF SchedInv, TypeOK
    <3>3. CASE Drain
      <4>1. /\ cells' = [cells EXCEPT !["write"] = cells["write"] + 1]
            /\ brought' = [brought EXCEPT !["write"] = brought["write"] + 1]
            /\ edge' = (IF nospace THEN edge \cup {"write"} ELSE edge) /\ nospace' = FALSE
        BY <3>3 DEF Drain
      <4> QED BY <2>2, <3>1, <4>1
    <3> QED BY <1>10, <3>2, <3>3
  <2>4. TypeOK'
    BY <1>3, <2>1, <2>3 DEF SchedInv, TypeOK
  <2>5. PlacesInv'
    BY <2>1 DEF SchedInv, PlacesInv
  <2>6. EdgeInv'
    <3>1. (\A d \in Dir : Due(d) => Due(d)') /\ open'
      BY <2>1, <2>3 DEF Due, Coming
    <3>2. CASE Arrive
      <4>1. /\ nospace' = nospace /\ cells'["write"] = cells["write"]
            /\ Due("read")'
        BY <2>2, <3>2 DEF Arrive, Due
      <4> QED BY <2>1, <3>1, <4>1 DEF SchedInv, EdgeInv, Dir
    <3>3. CASE Drain
      <4>1. nospace' = FALSE /\ cells'["read"] = cells["read"] /\ (nospace => Due("write")')
        BY <2>2, <3>3 DEF Drain, Due
      <4>2. waiting["write"] # <<>> \/ ~speculative["write"] => Due("write")'
        BY <2>1, <2>2, <3>1, <4>1 DEF SchedInv, EdgeInv
      <4> QED BY <2>1, <3>1, <4>1, <4>2 DEF SchedInv, EdgeInv, Dir
    <3> QED BY <1>10, <3>2, <3>3
  <2>7. WorkInv'
    BY <1>2, <2>1, <2>4, WorkStays DEF SchedInv
  <2> QED BY <1>2, <2>4, <2>5, <2>6, <2>7 DEF SchedInv
<1> QED BY <1>6, <1>7, <1>8, <1>9, <1>10

-----------------------------------------------------------------------------
(* Steps that move operations from list to list.                            *)

\* The first of the queue is taken.
LEMMA HeadLemma ==
  ASSUME SchedInv, Looking, queue' = Tail(queue)
  PROVE  /\ private = <<>> /\ ToSet(private) = {} /\ Head(queue) \in ToSet(queue)
         /\ queue' \in Seq(Operation) /\ ToSet(queue') = ToSet(queue) \ {Head(queue)}
         /\ Ordered(queue') /\ \A a \in ToSet(queue') : Before(Head(queue), a)
         /\ pc \in {"loop", "locked"} /\ Task \in ToSet(queue) /\ privateWork = 0
<1>1. queue \in Seq(Operation) /\ queue # <<>> /\ Ordered(queue) /\ pc \in {"loop", "locked"}
  BY DEF SchedInv, TypeOK, ListsInv, Looking
<1>2. private = <<>> /\ Task \in ToSet(queue) /\ privateWork = 0
  BY <1>1 DEF SchedInv, PlacesInv, WorkInv
<1> QED BY <1>1, <1>2, TakenLemma, NothingLemma

LEMMA TurnKeeps == SchedInv /\ Turn => SchedInv'
<1> SUFFICES ASSUME SchedInv, Turn PROVE SchedInv'
  OBVIOUS
<1>1. /\ Looking /\ Head(queue) = Task /\ queue' = Tail(queue) /\ pc' = "poll"
      /\ interrupted' \in BOOLEAN /\ blocking' \in BOOLEAN
      /\ UNCHANGED <<server, private, work, privateWork, stopped, cur, poke, edge, cells, nospace,
                     brought, ready, waiting, speculative, open, other, aborted, guard, posts, ops, ran>>
  BY DEF Turn, kernel, socket, outside, counts
<1>2. /\ private = <<>> /\ ToSet(private) = {} /\ queue' \in Seq(Operation)
      /\ ToSet(queue') = ToSet(queue) \ {Task} /\ Ordered(queue')
      /\ \A a \in ToSet(queue') : Before(Task, a)
      /\ pc \in {"loop", "locked"}
  BY <1>1, HeadLemma
<1>3. Descriptor \notin ToSet(queue) /\ Descriptor \notin ToSet(queue')
  BY <1>2, KindLemma DEF Before
<1>4. TypeOK'
  BY <1>1, <1>2 DEF SchedInv, TypeOK
<1>5. PlacesInv'
  BY <1>1, <1>2, <1>3 DEF SchedInv, PlacesInv
<1>6. ListsInv'
  BY <1>1, <1>2 DEF SchedInv, ListsInv, Apart
<1>7. Begun' = Begun
  <2>1. Begun = InLists /\ Begun' = InLists'
    BY <1>4, SetsLemma DEF SchedInv
  <2> QED BY <1>1, <1>2, <2>1 DEF InLists, Waiters
<1>8. NumInv'
  BY <1>1, <1>7, NumStays DEF SchedInv, counts
<1>9. EdgeInv'
  BY <1>1, <1>2, <1>3, EdgeStays DEF SchedInv, socket, Coming
<1>10. WorkInv'
  BY <1>1, <1>2, <1>4, <1>7, WorkStays DEF SchedInv
<1> QED BY <1>4, <1>5, <1>6, <1>8, <1>9, <1>10 DEF SchedInv

LEMMA PollKeeps == SchedInv /\ Poll => SchedInv'
<1> SUFFICES ASSUME SchedInv, Poll PROVE SchedInv'
  OBVIOUS
<1>1. /\ pc = "poll" /\ edge' = {} /\ poke' = FALSE /\ pc' = "polled" /\ blocking' = FALSE
      /\ UNCHANGED <<server, queue, work, privateWork, stopped, interrupted, cur, cells, nospace,
                     brought, waiting, speculative, open, other, aborted, guard, posts, ops, ran>>
  BY DEF Poll, outside, counts
<1>2. IF edge = {} THEN private' = private /\ ready' = ready
                   ELSE private' = Append(private, Descriptor) /\ ready' = edge
  BY DEF Poll
<1>3. /\ private = <<>> /\ ToSet(private) = {} /\ Descriptor \notin ToSet(queue)
      /\ Task \notin ToSet(queue)
  BY <1>1, NothingLemma DEF SchedInv, PlacesInv
<1>4. /\ private' \in Seq(IoOps \cup {Descriptor}) /\ Ordered(private')
      /\ private' \in Seq(Operation)
      /\ ToSet(private') \subseteq {Descriptor}
      /\ edge # {} => ready' = edge /\ Descriptor \in ToSet(private')
      /\ ready' \in SUBSET Dir
  <2>1. edge \in SUBSET Dir /\ ready \in SUBSET Dir
    BY DEF SchedInv, TypeOK
  <2>2. private' = <<>> \/ private' = <<Descriptor>>
    BY <1>2, <1>3
  <2>3. <<>> \in Seq(Operation) /\ <<Descriptor>> \in Seq(Operation)
        /\ <<>> \in Seq(IoOps \cup {Descriptor}) /\ <<Descriptor>> \in Seq(IoOps \cup {Descriptor})
    BY KindLemma
  <2>4. edge # {} => private' = <<Descriptor>> /\ ready' = edge
    BY <1>2, <1>3
  <2>5. ready' \in SUBSET Dir
    BY <1>2, <2>1
  <2>6. /\ ToSet(<<>>) = {} /\ Ordered(<<>>) /\ ToSet(<<Descriptor>>) = {Descriptor}
        /\ Ordered(<<Descriptor>>)
    BY SingleLemma, NothingLemma
  <2> QED BY <2>2, <2>3, <2>4, <2>5, <2>6
<1>5. TypeOK'
  BY <1>1, <1>4 DEF SchedInv, TypeOK
<1>6. PlacesInv'
  BY <1>1, <1>3, <1>4 DEF SchedInv, PlacesInv
<1>7. ListsInv'
  <2>1. Descriptor \notin ToSet(aborted) /\ \A d \in Dir : Descriptor \notin ToSet(waiting[d])
    BY MembersLemma, KindLemma DEF SchedInv
  <2> QED BY <1>1, <1>3, <1>4, <2>1 DEF SchedInv, ListsInv, Apart
<1>8. Begun' = Begun
  <2>1. Begun = InLists /\ Begun' = InLists'
    BY <1>5, SetsLemma DEF SchedInv
  <2> QED BY <1>1, <1>3, <1>4, <2>1 DEF InLists, Waiters
<1>9. NumInv'
  BY <1>1, <1>8, NumStays DEF SchedInv, counts
<1>10. EdgeInv'
  <2>1. \A d \in Dir : Due(d) => Due(d)'
    BY <1>1, <1>3, <1>4 DEF Due, Coming
  <2> QED BY <1>1, <2>1 DEF SchedInv, EdgeInv, Dir
<1>11. WorkInv'
  BY <1>1, <1>5, <1>8, WorkStays DEF SchedInv
<1> QED BY <1>5, <1>6, <1>7, <1>9, <1>10, <1>11 DEF SchedInv

\* A list that is pushed comes after the queue.
LEMMA PushedLemma ==
  ASSUME TypeOK, Ordered(queue), NEW s \in Seq(Operation), Ordered(s),
         \A a \in ToSet(queue), b \in ToSet(s) : Before(a, b)
  PROVE  /\ queue \o s \in Seq(Operation) /\ Ordered(queue \o s)
         /\ ToSet(queue \o s) = ToSet(queue) \cup ToSet(s)
<1>1. queue \in Seq(Operation)
  BY DEF TypeOK
<1> QED BY <1>1, JoinLemma

LEMMA TaskCleanupKeeps == SchedInv /\ TaskCleanup => SchedInv'
<1> SUFFICES ASSUME SchedInv, TaskCleanup PROVE SchedInv'
  OBVIOUS
<1>1. /\ pc = "polled" /\ work' = work + privateWork /\ privateWork' = 0 /\ interrupted' = TRUE
      /\ queue' = queue \o private \o <<Task>> /\ private' = <<>> /\ pc' = "locked"
      /\ UNCHANGED <<server, stopped, cur, blocking, poke, edge, cells, nospace, brought, ready,
                     waiting, speculative, open, other, aborted, guard, posts, ops, ran>>
  BY DEF TaskCleanup, TaskLast, kernel, socket, outside, counts
<1>2. /\ Task \notin ToSet(queue) /\ Ordered(queue) /\ Ordered(private)
      /\ Apart(queue, private) /\ privateWork = 0
  BY <1>1 DEF SchedInv, PlacesInv, ListsInv, WorkInv
<1>3. /\ ToSet(queue) \subseteq Operation /\ ToSet(private) \subseteq IoOps \cup {Descriptor}
      /\ queue \in Seq(Operation) /\ private \in Seq(Operation)
  BY MembersLemma DEF SchedInv, TypeOK
<1>4. \A a \in ToSet(queue), b \in ToSet(private) : Before(a, b)
  BY <1>2, <1>3, KindLemma DEF Before, Apart
<1> DEFINE s == queue \o private
<1>5. s \in Seq(Operation) /\ Ordered(s) /\ ToSet(s) = ToSet(queue) \cup ToSet(private)
  BY <1>2, <1>3, <1>4, PushedLemma DEF SchedInv
<1>6. \A a \in ToSet(s) : Before(a, Task)
  BY <1>2, <1>3, <1>5, KindLemma DEF Before
<1> DEFINE t == <<Task>>
<1>7. /\ t \in Seq(Operation) /\ ToSet(t) = {Task} /\ Ordered(t)
      /\ \A a \in ToSet(s), b \in ToSet(t) : Before(a, b)
  <2>1. t \in Seq(Operation) /\ ToSet(t) = {Task} /\ Ordered(t)
    BY KindLemma, SingleLemma
  <2> HIDE DEF t, s
  <2> QED BY <1>6, <2>1
<1> HIDE DEF s, t
<1>8. s \o t \in Seq(Operation) /\ Ordered(s \o t) /\ ToSet(s \o t) = ToSet(s) \cup {Task}
  BY <1>5, <1>7, JoinLemma
<1>9. /\ queue' \in Seq(Operation) /\ Ordered(queue')
      /\ ToSet(queue') = ToSet(queue) \cup ToSet(private) \cup {Task}
  BY <1>1, <1>5, <1>8 DEF s, t
<1>10. /\ <<>> \in Seq(Operation) /\ <<>> \in Seq(IoOps \cup {Descriptor})
       /\ ToSet(private') = {} /\ Ordered(private')
  BY <1>1, NothingLemma
<1>11. TypeOK'
  <2>1. work' \in Nat
    BY <1>1, <1>2 DEF SchedInv, TypeOK
  <2> QED BY <1>1, <1>9, <1>10, <2>1 DEF SchedInv, TypeOK
<1>12. PlacesInv'
  BY <1>1, <1>9, <1>10 DEF SchedInv, PlacesInv
<1>13. ListsInv'
  <2>1. Task \notin ToSet(aborted) /\ \A d \in Dir : Task \notin ToSet(waiting[d])
    BY MembersLemma, KindLemma DEF SchedInv
  <2> QED BY <1>1, <1>9, <1>10, <2>1 DEF SchedInv, ListsInv, Apart
<1>14. Begun' = Begun
  <2>1. Begun = InLists /\ Begun' = InLists'
    BY <1>11, SetsLemma DEF SchedInv
  <2> QED BY <1>1, <1>9, <1>10, <2>1 DEF InLists, Waiters
<1>15. NumInv'
  BY <1>1, <1>14, NumStays DEF SchedInv, counts
<1>16. EdgeInv'
  BY <1>1, <1>9, EdgeStays DEF SchedInv, socket, Coming
<1>17. WorkInv'
  <2>1. work' = work /\ privateWork' = privateWork
    BY <1>1, <1>2 DEF SchedInv, TypeOK
  <2> QED BY <1>1, <1>11, <1>14, <2>1, WorkStays DEF SchedInv
<1> QED BY <1>11, <1>12, <1>13, <1>15, <1>16, <1>17 DEF SchedInv

LEMMA RequeueKeeps == SchedInv /\ Requeue => SchedInv'
<1> SUFFICES ASSUME SchedInv, Requeue PROVE SchedInv'
  OBVIOUS
<1>1. /\ pc = "requeue" /\ queue' = queue \o private /\ private' = <<>> /\ pc' \in {"loop", "locked"}
      /\ UNCHANGED <<server, work, privateWork, stopped, interrupted, cur, blocking, poke, edge,
                     cells, nospace, brought, ready, waiting, speculative, open, other, aborted,
                     guard, posts, ops, ran>>
  BY DEF Requeue, kernel, socket, outside, counts
<1>2. /\ Task \in ToSet(queue) /\ Ordered(queue) /\ Ordered(private) /\ Apart(queue, private)
      /\ Descriptor \notin ToSet(private)
  BY <1>1 DEF SchedInv, PlacesInv, ListsInv
<1>3. /\ ToSet(queue) \subseteq Operation /\ ToSet(private) \subseteq IoOps
      /\ private \in Seq(Operation)
  BY <1>2, MembersLemma DEF SchedInv, TypeOK
<1>4. \A a \in ToSet(queue), b \in ToSet(private) : Before(a, b)
  BY <1>2, <1>3, KindLemma DEF Before, Apart
<1>5. queue' \in Seq(Operation) /\ Ordered(queue') /\ ToSet(queue') = ToSet(queue) \cup ToSet(private)
  BY <1>1, <1>2, <1>3, <1>4, PushedLemma DEF SchedInv
<1>6. /\ <<>> \in Seq(Operation) /\ <<>> \in Seq(IoOps \cup {Descriptor})
      /\ ToSet(private') = {} /\ Ordered(private')
  BY <1>1, NothingLemma
<1>7. TypeOK'
  BY <1>1, <1>5, <1>6 DEF SchedInv, TypeOK
<1>8. PlacesInv'
  BY <1>1, <1>2, <1>5, <1>6 DEF SchedInv, PlacesInv
<1>9. ListsInv'
  BY <1>1, <1>5, <1>6 DEF SchedInv, ListsInv, Apart
<1>10. Begun' = Begun
  <2>1. Begun = InLists /\ Begun' = InLists'
    BY <1>7, SetsLemma DEF SchedInv
  <2> QED BY <1>1, <1>5, <1>6, <2>1 DEF InLists, Waiters
<1>11. NumInv'
  BY <1>1, <1>10, NumStays DEF SchedInv, counts
<1>12. EdgeInv'
  BY <1>1, <1>5, EdgeStays DEF SchedInv, socket, Coming
<1>13. WorkInv'
  BY <1>1, <1>7, <1>10, WorkStays DEF SchedInv
<1> QED BY <1>7, <1>8, <1>9, <1>11, <1>12, <1>13 DEF SchedInv

\* The queue grows, whether the reactor is interrupted for it or not.
LEMMA PushShape ==
  ASSUME TypeOK, NEW s \in Seq(Operation), Push(s) \/ (s = <<>> /\ UNCHANGED <<queue, interrupted, poke>>)
  PROVE  /\ queue' = queue \o s /\ interrupted' \in BOOLEAN /\ poke' \in BOOLEAN
<1>1. queue \in Seq(Operation) /\ interrupted \in BOOLEAN /\ poke \in BOOLEAN
  BY DEF TypeOK
<1>2. queue \o <<>> = queue
  BY <1>1, ConcatEmptySeq
<1> QED BY <1>1, <1>2 DEF Push, Interrupt

\* What waits is aborted.
LEMMA AbortLemma ==
  ASSUME SchedInv
  PROVE  /\ AllWaiting \in Seq(IoOps) /\ AllWaiting \in Seq(Operation)
         /\ ToSet(AllWaiting) = Waiters /\ Ordered(AllWaiting) /\ Waiters \subseteq IoOps
         /\ \A a \in ToSet(queue), b \in Waiters : Before(a, b)
         /\ Waiters \cap (ToSet(queue) \cup ToSet(private) \cup ToSet(aborted)) = {}
<1> DEFINE r == waiting["read"]
           w == waiting["write"]
<1>1. /\ r \in Seq(IoOps) /\ w \in Seq(IoOps) /\ Ordered(r) /\ Ordered(w) /\ Apart(r, w)
  BY DEF SchedInv, TypeOK, ListsInv, Dir
<1>2. AllWaiting \in Seq(IoOps) /\ ToSet(AllWaiting) = Waiters
  BY SetsLemma DEF SchedInv
<1>3. AllWaiting = r \o w
  BY DEF AllWaiting
<1>4. Waiters \subseteq IoOps /\ ToSet(queue) \subseteq Operation
  BY MembersLemma DEF SchedInv
<1>5. ToSet(r) \subseteq Waiters /\ ToSet(w) \subseteq Waiters
  BY DEF Waiters
<1> HIDE DEF r, w
<1>6. \A a \in ToSet(r), b \in ToSet(w) : Before(a, b)
  BY <1>1, <1>4, <1>5, KindLemma DEF Before, Apart
<1>7. Ordered(AllWaiting)
  BY <1>1, <1>3, <1>6, JoinLemma
<1>8. Waiters \cap (ToSet(queue) \cup ToSet(private) \cup ToSet(aborted)) = {}
  BY DEF SchedInv, ListsInv, Apart, Waiters, Dir
<1>9. \A a \in ToSet(queue), b \in Waiters : Before(a, b)
  BY <1>4, <1>8, KindLemma DEF Before
<1>10. AllWaiting \in Seq(Operation)
  BY <1>2, KindLemma, SeqMonotonic
<1> QED BY <1>2, <1>4, <1>7, <1>8, <1>9, <1>10

\* The socket after it is closed.
LEMMA ClosedLemma ==
  ASSUME SchedInv, Deregister
  PROVE  /\ speculative' = speculative => EdgeInv'
         /\ waiting' \in [Dir -> Seq(IoOps)] /\ cells' \in [Dir -> Nat] /\ edge' \in SUBSET Dir
         /\ nospace' = FALSE /\ open' = FALSE
         /\ \A d \in Dir : waiting'[d] = <<>> /\ ToSet(waiting'[d]) = {} /\ Ordered(waiting'[d])
         /\ Waiters' = {}
<1>1. /\ waiting' = [d \in Dir |-> <<>>] /\ cells' = [d \in Dir |-> 0] /\ edge' = {}
      /\ nospace' = FALSE /\ open' = FALSE
  BY DEF Deregister
<1>2. /\ waiting' \in [Dir -> Seq(IoOps)] /\ cells' \in [Dir -> Nat]
      /\ \A d \in Dir : waiting'[d] = <<>> /\ cells'[d] = 0
  BY <1>1
<1>3. \A d \in Dir : ToSet(waiting'[d]) = {} /\ Ordered(waiting'[d])
  BY <1>2, NothingLemma
<1>4. speculative' = speculative => EdgeInv'
  BY <1>1, <1>2 DEF SchedInv, EdgeInv, Dir
<1>5. Waiters' = {}
  BY <1>3 DEF Waiters, Dir
<1> QED BY <1>1, <1>2, <1>3, <1>4, <1>5

LEMMA HandlerClosesKeeps == SchedInv /\ HandlerCloses => SchedInv'
<1> SUFFICES ASSUME SchedInv, HandlerCloses PROVE SchedInv'
  OBVIOUS
<1>1. /\ pc = "run" /\ pc' = "run" /\ Deregister
      /\ Push(AllWaiting) \/ (AllWaiting = <<>> /\ UNCHANGED <<queue, interrupted, poke>>)
      /\ UNCHANGED <<server, private, work, privateWork, stopped, cur, blocking, brought, ready,
                     speculative, other, aborted, guard, posts, ops, ran>>
  BY DEF HandlerCloses, runner, outside, counts
<1>2. /\ AllWaiting \in Seq(Operation) /\ ToSet(AllWaiting) = Waiters /\ Ordered(AllWaiting)
      /\ Waiters \subseteq IoOps /\ \A a \in ToSet(queue), b \in Waiters : Before(a, b)
      /\ Waiters \cap (ToSet(queue) \cup ToSet(private) \cup ToSet(aborted)) = {}
  BY AbortLemma
<1>3. /\ queue' = queue \o AllWaiting /\ interrupted' \in BOOLEAN /\ poke' \in BOOLEAN
  BY <1>1, <1>2, PushShape DEF SchedInv
<1>4. /\ queue' \in Seq(Operation) /\ Ordered(queue') /\ ToSet(queue') = ToSet(queue) \cup Waiters
  <2>1. Ordered(queue)
    BY DEF SchedInv, ListsInv
  <2> QED BY <1>2, <1>3, <2>1, PushedLemma DEF SchedInv
<1>5. /\ EdgeInv' /\ waiting' \in [Dir -> Seq(IoOps)] /\ cells' \in [Dir -> Nat] /\ edge' \in SUBSET Dir
      /\ nospace' = FALSE /\ open' = FALSE /\ Waiters' = {}
      /\ \A d \in Dir : ToSet(waiting'[d]) = {} /\ Ordered(waiting'[d])
  BY <1>1, ClosedLemma
<1>6. TypeOK'
  BY <1>1, <1>3, <1>4, <1>5 DEF SchedInv, TypeOK
<1>7. PlacesInv'
  BY <1>1, <1>2, <1>4, KindLemma DEF SchedInv, PlacesInv
<1>8. ListsInv'
  <2>1. Apart(waiting["read"], waiting["write"])'
    BY <1>5 DEF Apart, Dir
  <2>2. \A d \in Dir : /\ Ordered(waiting[d])' /\ Apart(queue, waiting[d])'
                       /\ Apart(private, waiting[d])' /\ Apart(aborted, waiting[d])'
    BY <1>5 DEF Apart
  <2>3. /\ Ordered(queue)' /\ Ordered(private)' /\ Ordered(aborted)'
        /\ Apart(queue, private)' /\ Apart(queue, aborted)' /\ Apart(private, aborted)'
    BY <1>1, <1>2, <1>4 DEF SchedInv, ListsInv, Apart
  <2> QED BY <2>1, <2>2, <2>3 DEF ListsInv
<1>9. Begun' = Begun
  <2>1. Begun = InLists /\ Begun' = InLists'
    BY <1>6, SetsLemma DEF SchedInv
  <2> QED BY <1>1, <1>4, <1>5, <2>1 DEF InLists
<1>10. NumInv'
  BY <1>1, <1>9, NumStays DEF SchedInv, counts
<1>11. WorkInv'
  BY <1>1, <1>6, <1>9, WorkStays DEF SchedInv
<1> QED BY <1>5, <1>6, <1>7, <1>8, <1>10, <1>11 DEF SchedInv

LEMMA CloseKeeps == SchedInv /\ Close => SchedInv'
<1> SUFFICES ASSUME SchedInv, Close PROVE SchedInv'
  OBVIOUS
<1>1. /\ other = "idle" /\ other' = "close" /\ Deregister /\ aborted' = AllWaiting
      /\ UNCHANGED <<server, queue, private, work, privateWork, stopped, interrupted, pc, cur,
                     blocking, poke, brought, ready, speculative, guard, posts, ops, ran>>
  BY DEF Close, scheduler, runner, counts
<1>2. /\ AllWaiting \in Seq(IoOps) /\ ToSet(AllWaiting) = Waiters /\ Ordered(AllWaiting)
      /\ Waiters \cap (ToSet(queue) \cup ToSet(private) \cup ToSet(aborted)) = {}
  BY AbortLemma
<1>3. ToSet(aborted) = {}
  BY <1>1, NothingLemma DEF SchedInv, PlacesInv
<1>4. /\ EdgeInv' /\ waiting' \in [Dir -> Seq(IoOps)] /\ cells' \in [Dir -> Nat] /\ edge' \in SUBSET Dir
      /\ nospace' = FALSE /\ open' = FALSE /\ Waiters' = {}
      /\ \A d \in Dir : ToSet(waiting'[d]) = {} /\ Ordered(waiting'[d])
  BY <1>1, ClosedLemma
<1>5. TypeOK'
  BY <1>1, <1>2, <1>4 DEF SchedInv, TypeOK
<1>6. PlacesInv'
  BY <1>1 DEF SchedInv, PlacesInv
<1>7. ListsInv'
  <2>1. Apart(waiting["read"], waiting["write"])'
    BY <1>4 DEF Apart, Dir
  <2>2. \A d \in Dir : /\ Ordered(waiting[d])' /\ Apart(queue, waiting[d])'
                       /\ Apart(private, waiting[d])' /\ Apart(aborted, waiting[d])'
    BY <1>4 DEF Apart
  <2>3. /\ Ordered(queue)' /\ Ordered(private)' /\ Ordered(aborted)'
        /\ Apart(queue, private)' /\ Apart(queue, aborted)' /\ Apart(private, aborted)'
    BY <1>1, <1>2 DEF SchedInv, ListsInv, Apart
  <2> QED BY <2>1, <2>2, <2>3 DEF ListsInv
<1>8. Begun' = Begun
  <2>1. Begun = InLists /\ Begun' = InLists'
    BY <1>5, SetsLemma DEF SchedInv
  <2> QED BY <1>1, <1>2, <1>3, <1>4, <2>1 DEF InLists
<1>9. NumInv'
  BY <1>1, <1>8, NumStays DEF SchedInv, counts
<1>10. WorkInv'
  BY <1>1, <1>5, <1>8, WorkStays DEF SchedInv
<1> QED BY <1>4, <1>5, <1>6, <1>7, <1>9, <1>10 DEF SchedInv

LEMMA AbortedQueuedKeeps == SchedInv /\ AbortedQueued => SchedInv'
<1> SUFFICES ASSUME SchedInv, AbortedQueued PROVE SchedInv'
  OBVIOUS
<1>1. /\ other = "close" /\ other' = "leaving" /\ aborted' = <<>>
      /\ Push(aborted) \/ (aborted = <<>> /\ UNCHANGED <<queue, interrupted, poke>>)
      /\ UNCHANGED <<server, private, work, privateWork, stopped, pc, cur, blocking, edge, cells,
                     nospace, brought, ready, waiting, speculative, open, guard, posts, ops, ran>>
  BY DEF AbortedQueued, runner, socket, counts
<1>2. /\ aborted \in Seq(IoOps) /\ aborted \in Seq(Operation) /\ Ordered(aborted) /\ Ordered(queue)
      /\ Apart(queue, aborted) /\ Apart(private, aborted)
      /\ \A d \in Dir : Apart(aborted, waiting[d])
  <2>1. aborted \in Seq(IoOps)
    BY DEF SchedInv, TypeOK
  <2> QED BY <2>1, KindLemma, SeqMonotonic DEF SchedInv, ListsInv
<1>3. ToSet(aborted) \subseteq IoOps /\ ToSet(queue) \subseteq Operation
  BY MembersLemma DEF SchedInv
<1>4. \A a \in ToSet(queue), b \in ToSet(aborted) : Before(a, b)
  BY <1>2, <1>3, KindLemma DEF Before, Apart
<1>5. /\ queue' = queue \o aborted /\ interrupted' \in BOOLEAN /\ poke' \in BOOLEAN
  BY <1>1, <1>2, PushShape DEF SchedInv
<1>6. /\ queue' \in Seq(Operation) /\ Ordered(queue')
      /\ ToSet(queue') = ToSet(queue) \cup ToSet(aborted)
  BY <1>2, <1>4, <1>5, PushedLemma DEF SchedInv
<1>7. <<>> \in Seq(IoOps) /\ ToSet(aborted') = {} /\ Ordered(aborted')
  BY <1>1, NothingLemma
<1>8. TypeOK'
  BY <1>1, <1>5, <1>6, <1>7 DEF SchedInv, TypeOK
<1>9. PlacesInv'
  BY <1>1, <1>3, <1>6, KindLemma DEF SchedInv, PlacesInv
<1>10. ListsInv'
  BY <1>1, <1>2, <1>6, <1>7 DEF SchedInv, ListsInv, Apart
<1>11. Begun' = Begun
  <2>1. Begun = InLists /\ Begun' = InLists'
    BY <1>8, SetsLemma DEF SchedInv
  <2> QED BY <1>1, <1>6, <1>7, <2>1 DEF InLists, Waiters
<1>12. NumInv'
  BY <1>1, <1>11, NumStays DEF SchedInv, counts
<1>13. EdgeInv'
  BY <1>1, <1>6, EdgeStays DEF SchedInv, socket, Coming
<1>14. WorkInv'
  BY <1>1, <1>8, <1>11, WorkStays DEF SchedInv
<1> QED BY <1>8, <1>9, <1>10, <1>12, <1>13, <1>14 DEF SchedInv

-----------------------------------------------------------------------------
(* Steps that begin and run operations.                                     *)

LEMMA FreshLemma ==
  ASSUME TypeOK, NumInv
  PROVE  /\ posts < MaxPosts => /\ Post(posts + 1) \in UserOps /\ Post(posts + 1).kind = "post"
                                /\ Post(posts + 1).n = posts + 1
                                /\ \A a \in Begun : a # Post(posts + 1) /\ (a.kind = "post" => a.n < posts + 1)
         /\ ops < MaxOps => \A length \in 1..2 : /\ Io(ops + 1, length) \in IoOps
                                               /\ Io(ops + 1, length) \notin Begun
<1>1. posts \in Nat /\ ops \in Nat
  BY DEF TypeOK
<1>2. posts < MaxPosts => posts + 1 \in 1..MaxPosts
  BY <1>1, IoContextAssumption
<1>3. ops < MaxOps => ops + 1 \in 1..MaxOps
  BY <1>1, IoContextAssumption
<1>4. \A a \in Begun : a.n \in Int /\ (a.kind = "post" => a.n < posts + 1) /\ (a.kind = "io" => a.n < ops + 1)
  <2>1. \A a \in Begun : a.n \in Int
    BY SetsLemma, KindLemma
  <2> QED BY <1>1, <2>1 DEF NumInv
<1>5. ASSUME posts < MaxPosts
      PROVE  /\ Post(posts + 1) \in UserOps /\ Post(posts + 1).kind = "post"
             /\ Post(posts + 1).n = posts + 1 /\ Post(posts + 1) \notin Begun
  <2>1. /\ Post(posts + 1) \in UserOps /\ Post(posts + 1).kind = "post"
        /\ Post(posts + 1).n = posts + 1
    BY <1>2, <1>5, KindLemma
  <2>2. ~(posts + 1 < posts + 1)
    BY <1>1
  <2> QED BY <1>4, <2>1, <2>2
<1>6. ASSUME ops < MaxOps, NEW length \in 1..2
      PROVE  Io(ops + 1, length) \in IoOps /\ Io(ops + 1, length) \notin Begun
  <2>1. Io(ops + 1, length) \in IoOps /\ Io(ops + 1, length).n = ops + 1 /\ Io(ops + 1, length).kind = "io"
    BY <1>3, <1>6, KindLemma
  <2>2. ~(ops + 1 < ops + 1)
    BY <1>1
  <2> QED BY <1>4, <2>1, <2>2
<1> QED BY <1>4, <1>5, <1>6

\* A handler is posted; the unit of work for it comes before, or with it.
LEMMA PostedKeeps ==
  ASSUME SchedInv, posts < MaxPosts, posts' = posts + 1, Push(<<Post(posts + 1)>>),
         UNCHANGED <<server, private, privateWork, stopped, pc, cur, blocking, edge, cells, nospace,
                     brought, ready, waiting, speculative, open, aborted, guard, ops, ran>>,
         \/ work' = work + 1 /\ other' = other
         \/ work' = work /\ other = "post" /\ other' = "idle"
  PROVE  SchedInv'
<1> DEFINE a == Post(posts + 1)
           s == <<a>>
<1>1. /\ a \in UserOps /\ a \in Operation /\ a.kind = "post" /\ a # Task /\ a # Descriptor
      /\ \A b \in Begun : b # a /\ (b.kind = "post" => b.n < a.n)
  BY FreshLemma, KindLemma DEF SchedInv
<1>2. /\ posts + 1 \in 0..MaxPosts /\ a \notin IoOps
  BY <1>1, IoContextAssumption, KindLemma DEF SchedInv, TypeOK
<1>3. s \in Seq(Operation) /\ ToSet(s) = {a} /\ Ordered(s)
  BY <1>1, SingleLemma
<1>4. Begun = InLists /\ ToSet(queue) \subseteq Operation
  BY SetsLemma, MembersLemma DEF SchedInv
<1>5. \A b \in ToSet(queue) : Before(b, a)
  <2> SUFFICES ASSUME NEW b \in ToSet(queue) PROVE Before(b, a)
    OBVIOUS
  <2>1. b \in Begun \/ b = Task \/ b = Descriptor
    BY <1>4 DEF InLists
  <2> HIDE DEF a
  <2> QED BY <1>1, <2>1, KindLemma DEF Before
<1>6. /\ a \notin ToSet(queue) /\ a \notin ToSet(private) /\ a \notin ToSet(aborted)
      /\ \A d \in Dir : a \notin ToSet(waiting[d])
  BY <1>1, <1>4 DEF InLists, Waiters, Dir
<1>7. Push(s)
  OBVIOUS
<1> HIDE DEF a, s
<1>8. queue' = queue \o s /\ interrupted' \in BOOLEAN /\ poke' \in BOOLEAN
  BY <1>3, <1>7, PushShape DEF SchedInv
<1>9. queue' \in Seq(Operation) /\ Ordered(queue') /\ ToSet(queue') = ToSet(queue) \cup {a}
  <2>1. Ordered(queue) /\ \A b \in ToSet(queue), c \in ToSet(s) : Before(b, c)
    BY <1>3, <1>5 DEF SchedInv, ListsInv
  <2> QED BY <1>3, <1>8, <2>1, PushedLemma DEF SchedInv
<1>10. work \in Nat /\ privateWork \in Nat /\ privateWork' = privateWork /\ other' \in {other, "idle"} /\ (other' # other => other = "post")
  BY DEF SchedInv, TypeOK
<1>11. TypeOK'
  BY <1>2, <1>8, <1>9, <1>10 DEF SchedInv, TypeOK
<1>12. PlacesInv'
  BY <1>1, <1>9, <1>10 DEF SchedInv, PlacesInv
<1>13. ListsInv'
  BY <1>6, <1>9 DEF SchedInv, ListsInv, Apart
<1>14. Begun' = Begun \cup {a}
  <2>1. Begun' = InLists'
    BY <1>11, SetsLemma
  <2> QED BY <1>1, <1>4, <1>9, <2>1 DEF InLists, Waiters
<1>15. NumInv'
  BY <1>14, NumPosts DEF SchedInv, a
<1>16. EdgeInv'
  BY <1>9, EdgeStays DEF SchedInv, socket, Coming
<1>17. WorkInv'
  <2>1. Cardinality(Begun') = Cardinality(Begun) + 1
    BY <1>1, <1>14, CardLemma DEF SchedInv
  <2>2. One(guard)' = One(guard) /\ One(guard) \in Nat /\ Account \in Nat /\ Account' \in Nat
    BY DEF One, Account
  <2>3. work' + privateWork' = work + privateWork + 1 + Account' - Account
    <3>1. CASE work' = work + 1 /\ other' = other
      <4>1. Account' = Account
        BY <3>1 DEF Account
      <4> QED BY <1>10, <2>2, <3>1, <4>1
    <3>2. CASE work' = work /\ other = "post" /\ other' = "idle"
      <4> DEFINE x == Account
                 y == Account'
      <4>1. x = y + 1 /\ y \in Nat
        BY <3>2 DEF Account, One
      <4> HIDE DEF x, y
      <4>2. work' + privateWork' = work + privateWork + 1 + y - x
        BY <1>10, <3>2, <4>1
      <4> QED BY <4>2 DEF x, y
    <3> QED BY <3>1, <3>2
  <2>4. work' >= One(guard)'
    <3>1. work >= One(guard)
      BY DEF SchedInv, WorkInv
    <3> QED BY <1>10, <2>2, <3>1
  <2>5. pc' \notin {"run", "settle"} => privateWork' = 0
    BY DEF SchedInv, WorkInv
  <2> QED BY <1>11, <2>1, <2>3, <2>4, <2>5, WorkBy DEF SchedInv
<1> QED BY <1>11, <1>12, <1>13, <1>15, <1>16, <1>17 DEF SchedInv

LEMMA PostsKeep == SchedInv /\ (HandlerPosts \/ PostQueued) => SchedInv'
<1> SUFFICES ASSUME SchedInv, HandlerPosts \/ PostQueued PROVE SchedInv'
  OBVIOUS
<1>1. /\ posts < MaxPosts /\ posts' = posts + 1 /\ Push(<<Post(posts + 1)>>)
      /\ UNCHANGED <<server, private, privateWork, stopped, pc, cur, blocking, edge, cells, nospace,
                     brought, ready, waiting, speculative, open, aborted, guard, ops, ran>>
      /\ \/ work' = work + 1 /\ other' = other
         \/ work' = work /\ other = "post" /\ other' = "idle"
  BY DEF HandlerPosts, PostQueued, runner, socket, outside
<1> QED BY <1>1, PostedKeeps

LEMMA TakeKeeps == SchedInv /\ Take => SchedInv'
<1> SUFFICES ASSUME SchedInv, Take PROVE SchedInv'
  OBVIOUS
<1> DEFINE a == Head(queue)
<1>1. /\ Looking /\ a # Task /\ queue' = Tail(queue) /\ cur' = a
      /\ interrupted' \in BOOLEAN /\ poke' \in BOOLEAN
      /\ UNCHANGED <<server, private, work, privateWork, stopped, blocking, edge, cells, nospace,
                     brought, ready, waiting, speculative, open, other, aborted, guard, posts, ops>>
      /\ IF a = Descriptor THEN pc' = "perform" /\ ran' = ran ELSE pc' = "run" /\ ran' = Noted(a)
  BY DEF Take, Interrupt, socket, outside, SchedInv, TypeOK
<1>2. /\ private = <<>> /\ ToSet(private) = {} /\ a \in ToSet(queue)
      /\ queue' \in Seq(Operation) /\ ToSet(queue') = ToSet(queue) \ {a}
      /\ Ordered(queue') /\ (\A b \in ToSet(queue') : Before(a, b))
      /\ pc \in {"loop", "locked"} /\ Task \in ToSet(queue) /\ privateWork = 0
  BY <1>1, HeadLemma
<1> HIDE DEF a
<1>3. a \in Operation
  BY <1>2, MembersLemma DEF SchedInv
<1>4. PlacesInv'
  BY <1>1, <1>2 DEF SchedInv, PlacesInv
<1>5. ListsInv'
  BY <1>1, <1>2 DEF SchedInv, ListsInv, Apart
<1>6. EdgeInv'
  <2>1. Coming => Coming'
    BY <1>1, <1>2 DEF Coming
  <2> QED BY <1>1, <2>1, EdgeStays DEF SchedInv, socket
<1>7. Begun = InLists /\ (TypeOK' => Begun' = InLists')
  BY SetsLemma DEF SchedInv
<1>8. CASE a = Descriptor
  <2>1. TypeOK'
    BY <1>1, <1>2, <1>3, <1>8 DEF SchedInv, TypeOK
  <2>2. Begun' = Begun
    BY <1>1, <1>2, <1>7, <1>8, <2>1 DEF InLists, Waiters
  <2>3. NumInv'
    BY <1>1, <1>8, <2>2, NumStays DEF SchedInv, counts
  <2>4. WorkInv'
    BY <1>1, <1>2, <1>8, <2>1, <2>2, WorkStays DEF SchedInv
  <2> QED BY <1>4, <1>5, <1>6, <2>1, <2>3, <2>4 DEF SchedInv
<1>9. CASE a # Descriptor
  <2>1. a \in Begun
    BY <1>1, <1>2, <1>7, <1>9 DEF InLists
  <2>2. \A d \in Dir : a \notin ToSet(waiting[d])
    BY <1>2 DEF SchedInv, ListsInv, Apart
  <2>3. a \notin ToSet(aborted)
    BY <1>2 DEF SchedInv, ListsInv, Apart
  <2>4. InLists' = InLists \ {a}
    BY <1>1, <1>2, <2>2, <2>3 DEF InLists, Waiters, Dir
  <2>5. \A b \in Begun \ {a} : a.kind = "post" /\ b.kind = "post" => a.n < b.n
    <3> SUFFICES ASSUME NEW b \in Begun \ {a}, b.kind = "post", a.kind = "post" PROVE a.n < b.n
      OBVIOUS
    <3>1. b \notin IoOps
      BY KindLemma
    <3>2. b \in ToSet(queue')
      BY <1>2, <1>7, <3>1, MembersLemma DEF SchedInv, InLists
    <3> QED BY <1>2, <3>2 DEF Before
  <2>6. Begun' = InLists'
    <3>1. queue' \in Seq(Operation) /\ private' = private /\ waiting' = waiting /\ aborted' = aborted
      BY <1>1, <1>2
    <3>2. FiveLists(queue', private', waiting', aborted')
      BY <3>1, FiveLemma DEF SchedInv, TypeOK
    <3> QED BY <3>2 DEF FiveLists, Begun, InLists, Enlisted, AllWaiting, Waiters
  <2>7. NumInv' /\ ran' \in [posts: Seq(1..MaxPosts), ops: Seq(1..MaxOps)]
    BY <1>1, <1>7, <1>9, <2>1, <2>4, <2>5, <2>6, NumRuns DEF SchedInv
  <2>8. TypeOK'
    BY <1>1, <1>2, <1>3, <1>9, <2>7 DEF SchedInv, TypeOK
  <2>9. WorkInv'
    <3>1. Cardinality(Begun') = Cardinality(Begun) + (-1)
      <4>1. Cardinality(Begun \ {a}) = Cardinality(Begun) - 1 /\ Cardinality(Begun) \in Nat
        BY <2>1, CardLemma DEF SchedInv
      <4>2. Begun' = Begun \ {a}
        BY <1>7, <2>4, <2>6
      <4> QED BY <4>1, <4>2
    <3>2. One(guard)' = One(guard) /\ Account' = Account + 1 /\ Account \in Nat
      BY <1>1, <1>2, <1>9 DEF One, Account
    <3>3. work' = work /\ privateWork' = privateWork /\ work \in Nat /\ privateWork \in Nat
      BY <1>1 DEF SchedInv, TypeOK
    <3>4. work' + privateWork' = work + privateWork + (-1) + Account' - Account
      BY <3>2, <3>3
    <3>5. work' >= One(guard)' /\ (pc' \notin {"run", "settle"} => privateWork' = 0)
      BY <1>2, <3>2, <3>3 DEF SchedInv, WorkInv
    <3> QED BY <2>8, <3>1, <3>4, <3>5, WorkBy DEF SchedInv
  <2> QED BY <1>4, <1>5, <1>6, <2>7, <2>8, <2>9 DEF SchedInv
<1> QED BY <1>8, <1>9

\* One more at the end of a list.
Added(S, s, a) ==
  /\ Append(s, a) \in Seq(S) /\ Append(s, a) = s \o <<a>>
  /\ ToSet(Append(s, a)) = ToSet(s) \cup {a} /\ Ordered(Append(s, a))

LEMMA AddedLemma ==
  ASSUME NEW S, NEW s \in Seq(S), Ordered(s), NEW a \in S, \A b \in ToSet(s) : Before(b, a)
  PROVE  Added(S, s, a)
<1> DEFINE t == <<a>>
<1>1. t \in Seq(S) /\ ToSet(t) = {a} /\ Ordered(t)
  BY SingleLemma
<1>2. Append(s, a) = s \o t
  BY AppendIsConcat
<1> HIDE DEF t
<1>3. \A b \in ToSet(s), c \in ToSet(t) : Before(b, c)
  BY <1>1
<1>4. s \o t \in Seq(S) /\ ToSet(s \o t) = ToSet(s) \cup ToSet(t) /\ Ordered(s \o t)
  BY <1>1, <1>3, JoinLemma
<1> QED BY <1>1, <1>2, <1>4 DEF Added, t

\* An operation that was not begun may come after any list of operations.
LEMMA NewLast ==
  ASSUME SchedInv, NEW a \in IoOps, a \notin Begun
  PROVE  /\ a \notin ToSet(queue) /\ a \notin ToSet(private) /\ a \notin ToSet(aborted)
         /\ \A d \in Dir : a \notin ToSet(waiting[d])
         /\ \A b \in Operation : b # a => Before(b, a)
<1>1. a # Task /\ a # Descriptor /\ a.kind # "post"
  BY KindLemma
<1>2. a \notin InLists
  BY SetsLemma DEF SchedInv
<1>3. /\ a \notin ToSet(queue) /\ a \notin ToSet(private) /\ a \notin ToSet(aborted)
      /\ \A d \in Dir : a \notin ToSet(waiting[d])
  BY <1>1, <1>2 DEF InLists, Waiters, Dir
<1>4. \A b \in Operation : b # a => Before(b, a)
  BY <1>1 DEF Before
<1> QED BY <1>3, <1>4

\* What start_op does to the socket.
LEMMA SocketStart ==
  ASSUME SchedInv, NEW d \in Dir, NEW op \in IoOps, NEW r, NEW tries \in BOOLEAN,
         tries = (open /\ waiting[d] = <<>> /\ speculative[d]),
         r = PerformAll(d, IF tries THEN <<op>> ELSE <<>>),
         cells' = [cells EXCEPT ![d] = r.cells],
         nospace' = (nospace \/ (d = "write" /\ r.short)),
         speculative' = [speculative EXCEPT ![d] = @ /\ ~r.exhausted],
         IF ~open \/ r.done # <<>> THEN waiting' = waiting
                                   ELSE waiting' = [waiting EXCEPT ![d] = Append(@, op)],
         edge' = edge, ready' = ready, open' = open, Coming => Coming'
  PROVE  /\ cells' \in [Dir -> Nat] /\ nospace' \in BOOLEAN /\ speculative' \in [Dir -> BOOLEAN]
         /\ EdgeInv'
<1> DEFINE s == IF tries THEN <<op>> ELSE <<>>
<1>1. /\ s \in Seq(IoOps) /\ Len(s) = (IF tries THEN 1 ELSE 0) /\ (~tries => s = <<>>)
  OBVIOUS
<1>2. /\ cells \in [Dir -> Nat] /\ cells[d] \in Nat /\ nospace \in BOOLEAN
      /\ speculative \in [Dir -> BOOLEAN] /\ waiting \in [Dir -> Seq(IoOps)] /\ open \in BOOLEAN
  BY DEF SchedInv, TypeOK
<1>3. r = PerformAll(d, s)
  OBVIOUS
<1> HIDE DEF s
<1>4. PICK k \in Nat : Performs(d, s, k, r)
  BY <1>1, <1>2, <1>3, PerformLemma
<1>5. /\ k \in 0..Len(s) /\ r.done = SubSeq(s, 1, k)
      /\ r.cells \in Nat /\ r.short \in BOOLEAN /\ r.exhausted \in BOOLEAN
      /\ k < Len(s) => r.short
      /\ r.short => r.cells = 0
      /\ r.exhausted => r.short /\ d = "write"
      /\ k = 0 => r.cells = cells[d] /\ ~r.exhausted
      /\ cells[d] = 0 => k = 0
      /\ Len(s) = 0 => ~r.short
  BY <1>4 DEF Performs
<1>6. cells' \in [Dir -> Nat] /\ nospace' \in BOOLEAN /\ speculative' \in [Dir -> BOOLEAN]
  BY <1>2, <1>5
<1>7. \A e \in Dir : e # d => cells'[e] = cells[e] /\ waiting'[e] = waiting[e] /\ speculative'[e] = speculative[e]
  BY <1>2
<1>8. cells'[d] = r.cells /\ speculative'[d] = (speculative[d] /\ ~r.exhausted)
  BY <1>2
<1>9. \A e \in Dir : Due(e) => Due(e)'
  BY DEF Due
<1>10. /\ \A e \in Dir : waiting[e] # <<>> /\ cells[e] > 0 => Due(e)
       /\ open /\ (waiting["write"] # <<>> \/ ~speculative["write"]) => nospace \/ Due("write")
       /\ nospace => cells["write"] = 0
       /\ ~open => \A e \in Dir : cells[e] = 0 /\ waiting[e] = <<>>
       /\ speculative["read"]
  BY DEF SchedInv, EdgeInv
<1>11. "read" \in Dir /\ "write" \in Dir /\ (d = "read" \/ d = "write")
  BY DEF Dir
<1> SUFFICES EdgeInv'
  BY <1>6
<1>12. CASE ~tries
  <2>1. /\ k = 0 /\ r.cells = cells[d] /\ ~r.exhausted /\ ~r.short /\ r.done = <<>>
    BY <1>1, <1>5, <1>12
  <2>2. /\ \A e \in Dir : cells'[e] = cells[e] /\ speculative'[e] = speculative[e]
        /\ nospace' = nospace
    BY <1>2, <1>7, <1>8, <2>1
  <2>3. CASE ~open
    <3>1. waiting' = waiting
      BY <2>3
    <3> QED BY <1>9, <1>10, <1>11, <2>2, <3>1 DEF EdgeInv
  <2>4. CASE open
    <3>1. waiting[d] # <<>> \/ ~speculative[d]
      BY <1>12, <2>4
    <3>2. cells[d] > 0 => Due(d)
      BY <1>2, <1>10, <1>11, <2>4, <3>1
    <3>3. d = "write" => nospace \/ Due("write")
      BY <1>10, <2>4, <3>1
    <3> QED BY <1>7, <1>9, <1>10, <1>11, <2>2, <2>4, <3>2, <3>3 DEF EdgeInv
  <2> QED BY <2>3, <2>4
<1>13. CASE tries
  <2>1. open /\ waiting[d] = <<>> /\ speculative[d] /\ Len(s) = 1
    BY <1>1, <1>13
  <2>2. r.done = <<>> => k = 0
    <3> SUFFICES ASSUME k = 1 PROVE r.done # <<>>
      BY <1>5, <2>1
    <3>1. Len(SubSeq(s, 1, 1)) = 1
      <4>1. \A i \in 1..1 : s[i] \in IoOps
        BY <1>1, <2>1
      <4> QED BY <4>1, SubSeqProperties
    <3> QED BY <1>5, <3>1
  <2>3. cells'[d] > 0 => waiting'[d] = <<>>
    <3>1. r.cells > 0 => k # 0
      BY <1>5, <2>1
    <3> QED BY <1>8, <2>1, <2>2, <3>1
  <2>4. d = "write" => (waiting'[d] # <<>> \/ ~speculative'[d] => nospace')
    <3>1. k = 0 => r.short
      BY <1>5, <2>1
    <3> QED BY <1>5, <1>8, <2>1, <2>2, <3>1
  <2>5. d = "write" /\ nospace' => cells'[d] = 0
    BY <1>5, <1>8, <1>10
  <2>6. ASSUME d = "read" PROVE nospace' = nospace /\ speculative'["read"]
    <3>1. ~r.exhausted /\ d # "write"
      BY <1>5, <2>6
    <3>2. speculative'[d]
      BY <1>8, <2>1, <3>1
    <3>3. nospace' = nospace
      BY <1>2, <3>1
    <3> QED BY <2>6, <3>2, <3>3
  <2>7. \A e \in Dir : waiting'[e] # <<>> /\ cells'[e] > 0 => Due(e)'
    BY <1>7, <1>9, <1>10, <2>3
  <2>8. waiting'["write"] # <<>> \/ ~speculative'["write"] => nospace' \/ Due("write")'
    BY <1>7, <1>9, <1>10, <1>11, <2>1, <2>4, <2>6
  <2>9. (nospace' => cells'["write"] = 0) /\ speculative'["read"]
    BY <1>7, <1>10, <1>11, <2>5, <2>6
  <2> QED BY <2>1, <2>7, <2>8, <2>9 DEF EdgeInv
<1> QED BY <1>12, <1>13

LEMMA StartKeeps == SchedInv /\ Start => SchedInv'
<1> SUFFICES ASSUME SchedInv, NEW d \in Dir, NEW continuation \in BOOLEAN,
                    NEW length \in 1..2, StartOp(d, length, continuation)
             PROVE  SchedInv'
  <2> SUFFICES ASSUME SchedInv, Start PROVE SchedInv'
    OBVIOUS
  <2>1. PICK d \in Dir, continuation \in BOOLEAN :
          \E length \in IF d = "write" THEN 1..2 ELSE {1} : StartOp(d, length, continuation)
    BY DEF Start
  <2>2. PICK length \in 1..2 : StartOp(d, length, continuation)
    BY <2>1
  <2> QED BY <2>2
<1> DEFINE op == Io(ops + 1, length)
           tries == open /\ waiting[d] = <<>> /\ speculative[d]
           r == PerformAll(d, IF tries THEN <<op>> ELSE <<>>)
<1>1. /\ pc \in {"call", "run"} /\ ops < MaxOps /\ ops' = ops + 1
      /\ cells' = [cells EXCEPT ![d] = r.cells]
      /\ nospace' = (nospace \/ (d = "write" /\ r.short))
      /\ speculative' = [speculative EXCEPT ![d] = @ /\ ~r.exhausted]
      /\ IF ~open \/ r.done # <<>>
         THEN Immediate(op, continuation) /\ waiting' = waiting
         ELSE /\ waiting' = [waiting EXCEPT ![d] = Append(@, op)]
              /\ work' = work + 1
              /\ UNCHANGED <<queue, private, privateWork, interrupted, poke>>
      /\ UNCHANGED <<server, stopped, pc, cur, blocking, edge, brought, ready, open, other, aborted,
                     guard, posts, ran>>
  BY DEF StartOp, runner, outside
<1>2. op \in IoOps /\ op \in UserOps /\ op \in Operation /\ op \notin Begun /\ op # Task /\ op # Descriptor
  BY <1>1, FreshLemma, KindLemma DEF SchedInv
<1>3. /\ op \notin ToSet(queue) /\ op \notin ToSet(private) /\ op \notin ToSet(aborted)
      /\ \A e \in Dir : op \notin ToSet(waiting[e])
      /\ \A b \in Operation : b # op => Before(b, op)
  BY <1>2, NewLast
<1>4. tries \in BOOLEAN /\ ops + 1 \in 0..MaxOps
  BY <1>1, IoContextAssumption DEF SchedInv, TypeOK
<1>5. Begun = InLists /\ (TypeOK' => Begun' = InLists')
  BY SetsLemma DEF SchedInv
<1>6. /\ ToSet(queue) \subseteq Operation /\ ToSet(private) \subseteq IoOps \cup {Descriptor}
      /\ \A e \in Dir : ToSet(waiting[e]) \subseteq IoOps
      /\ private \in Seq(IoOps \cup {Descriptor}) /\ waiting[d] \in Seq(IoOps)
      /\ waiting \in [Dir -> Seq(IoOps)] /\ queue \in Seq(Operation)
      /\ Ordered(queue) /\ Ordered(private) /\ Ordered(waiting[d])
      /\ work \in Nat /\ privateWork \in Nat
  BY MembersLemma DEF SchedInv, TypeOK, PlacesInv, ListsInv
<1> HIDE DEF op
\* Where it goes, the rest is the same.
<1> DEFINE Types == /\ queue' \in Seq(Operation) /\ interrupted' \in BOOLEAN /\ poke' \in BOOLEAN
                    /\ private' \in Seq(IoOps \cup {Descriptor}) /\ private' \in Seq(Operation)
                    /\ waiting' \in [Dir -> Seq(IoOps)]
                    /\ work' \in Nat /\ privateWork' \in Nat
           Lists == /\ ToSet(queue) \subseteq ToSet(queue') /\ ToSet(queue') \subseteq ToSet(queue) \cup {op}
                    /\ ToSet(private) \subseteq ToSet(private') /\ ToSet(private') \subseteq ToSet(private) \cup {op}
                    /\ Ordered(queue') /\ Ordered(private')
                    /\ \A e \in Dir : /\ ToSet(waiting[e]) \subseteq ToSet(waiting'[e])
                                      /\ ToSet(waiting'[e]) \subseteq ToSet(waiting[e]) \cup {op}
                                      /\ Ordered(waiting'[e])
           Once == \/ op \in ToSet(queue') /\ op \notin ToSet(private') /\ \A e \in Dir : op \notin ToSet(waiting'[e])
                   \/ op \notin ToSet(queue') /\ op \in ToSet(private') /\ \A e \in Dir : op \notin ToSet(waiting'[e])
                   \/ /\ op \notin ToSet(queue') /\ op \notin ToSet(private')
                      /\ op \in ToSet(waiting'[d]) /\ \A e \in Dir : e # d => op \notin ToSet(waiting'[e])
           Works == /\ work' + privateWork' = work + privateWork + 1 /\ work' >= work
                    /\ pc # "run" => private' = private /\ privateWork' = privateWork
<1>7. SUFFICES Types /\ Lists /\ Once /\ Works
  <2>1. Coming => Coming'
    BY <1>1, <1>7 DEF Coming
  <2>2. /\ cells' \in [Dir -> Nat] /\ nospace' \in BOOLEAN /\ speculative' \in [Dir -> BOOLEAN]
        /\ EdgeInv'
    <3> DEFINE try == tries
               res == PerformAll(d, IF try THEN <<op>> ELSE <<>>)
    <3>1. IF ~open \/ r.done # <<>> THEN waiting' = waiting
                                    ELSE waiting' = [waiting EXCEPT ![d] = Append(@, op)]
      BY <1>1
    <3> QED BY <1>1, <1>2, <1>4, <2>1, <3>1, SocketStart
  <2>3. TypeOK'
    BY <1>1, <1>4, <1>7, <2>2 DEF SchedInv, TypeOK
  <2>4. PlacesInv'
    BY <1>1, <1>2, <1>7 DEF SchedInv, PlacesInv
  <2>5. ListsInv'
    <3>1. op \notin ToSet(aborted)
      BY <1>3
    <3>2. Ordered(queue)' /\ Ordered(private)' /\ Ordered(aborted)' /\ \A e \in Dir : Ordered(waiting[e])'
      BY <1>1, <1>7 DEF SchedInv, ListsInv
    <3>3. Apart(queue, private)' /\ Apart(queue, aborted)' /\ Apart(private, aborted)'
      <4>1. /\ ToSet(queue) \cap ToSet(private) = {} /\ ToSet(queue) \cap ToSet(aborted) = {}
            /\ ToSet(private) \cap ToSet(aborted) = {}
        BY DEF SchedInv, ListsInv, Apart
      <4>2. ~(op \in ToSet(queue') /\ op \in ToSet(private'))
        BY <1>7
      <4>3. ToSet(queue') \subseteq ToSet(queue) \cup {op} /\ ToSet(private') \subseteq ToSet(private) \cup {op}
        BY <1>7
      <4>4. aborted' = aborted
        BY <1>1
      <4> HIDE DEF Once, Lists, Types, Works
      <4>5. ToSet(queue') \cap ToSet(private') = {}
        BY <4>1, <4>2, <4>3
      <4>6. ToSet(queue') \cap ToSet(aborted) = {} /\ ToSet(private') \cap ToSet(aborted) = {}
        BY <3>1, <4>1, <4>3
      <4> QED BY <4>4, <4>5, <4>6 DEF Apart
    <3>4. \A e \in Dir : Apart(queue, waiting[e])' /\ Apart(private, waiting[e])' /\ Apart(aborted, waiting[e])'
      <4> SUFFICES ASSUME NEW e \in Dir
                   PROVE  /\ ToSet(queue') \cap ToSet(waiting'[e]) = {}
                          /\ ToSet(private') \cap ToSet(waiting'[e]) = {}
                          /\ ToSet(aborted') \cap ToSet(waiting'[e]) = {}
        BY DEF Apart
      <4>1. /\ ToSet(queue) \cap ToSet(waiting[e]) = {} /\ ToSet(private) \cap ToSet(waiting[e]) = {}
            /\ ToSet(aborted) \cap ToSet(waiting[e]) = {}
        BY DEF SchedInv, ListsInv, Apart
      <4>2. ~(op \in ToSet(queue') /\ op \in ToSet(waiting'[e]))
        BY <1>7
      <4>3. ~(op \in ToSet(private') /\ op \in ToSet(waiting'[e]))
        BY <1>7
      <4>4. ToSet(queue') \subseteq ToSet(queue) \cup {op} /\ ToSet(private') \subseteq ToSet(private) \cup {op}
            /\ ToSet(waiting'[e]) \subseteq ToSet(waiting[e]) \cup {op} /\ aborted' = aborted
        BY <1>1, <1>7
      <4> HIDE DEF Once, Lists, Types, Works
      <4> QED BY <3>1, <4>1, <4>2, <4>3, <4>4
    <3>5. Apart(waiting["read"], waiting["write"])'
      <4>1. ~(op \in ToSet(waiting'["read"]) /\ op \in ToSet(waiting'["write"]))
        BY <1>7 DEF Dir
      <4> QED BY <1>7, <4>1 DEF SchedInv, ListsInv, Apart, Dir
    <3> QED BY <3>2, <3>3, <3>4, <3>5 DEF ListsInv
  <2>6. Begun' = Begun \cup {op}
    <3>1. InLists' = InLists \cup {op}
      BY <1>1, <1>2, <1>7 DEF InLists, Waiters, Dir
    <3> QED BY <1>5, <2>3, <3>1
  <2>7. NumInv'
    BY <1>1, <2>6, NumStarts DEF SchedInv, op
  <2>8. WorkInv'
    <3>1. Cardinality(Begun') = Cardinality(Begun) + 1
      BY <1>2, <2>6, CardLemma DEF SchedInv
    <3>2. Account' = Account /\ Account \in Nat /\ One(guard)' = One(guard) /\ One(guard) \in Nat
      BY <1>1 DEF Account, One
    <3>3. work' + privateWork' = work + privateWork + 1 + Account' - Account
      <4> DEFINE x == Account
                 y == Account'
      <4>1. x = y /\ x \in Nat /\ y \in Nat /\ work' + privateWork' = work + privateWork + 1
            /\ work \in Nat /\ privateWork \in Nat
        BY <1>6, <1>7, <3>2
      <4> HIDE DEF x, y, Types, Lists, Once, Works
      <4>2. y - x = 0
        BY <4>1
      <4>3. work' + privateWork' = work + privateWork + 1 + y - x
        BY <4>1, <4>2
      <4> QED BY <4>3 DEF x, y
    <3>4. work' >= One(guard)' /\ (pc' \notin {"run", "settle"} => privateWork' = 0)
      <4>1. work >= One(guard) /\ (pc \notin {"run", "settle"} => privateWork = 0)
        BY DEF SchedInv, WorkInv
      <4>2. work' >= work /\ work' \in Nat /\ (pc # "run" => privateWork' = privateWork)
        BY <1>7
      <4>3. work' >= One(guard)
        BY <1>6, <3>2, <4>1, <4>2
      <4> QED BY <1>1, <3>2, <4>1, <4>2, <4>3
    <3> QED BY <2>3, <3>1, <3>3, <3>4, WorkBy DEF SchedInv
  <2> QED BY <2>2, <2>3, <2>4, <2>5, <2>7, <2>8 DEF SchedInv
<1>8. CASE waiting' # waiting
  <2>1. /\ waiting' = [waiting EXCEPT ![d] = Append(waiting[d], op)] /\ work' = work + 1
        /\ UNCHANGED <<queue, private, privateWork, interrupted, poke>>
    BY <1>1, <1>8
  <2>2. /\ Append(waiting[d], op) \in Seq(IoOps) /\ Ordered(Append(waiting[d], op))
        /\ ToSet(Append(waiting[d], op)) = ToSet(waiting[d]) \cup {op}
    <3> DEFINE w == waiting[d]
    <3>1. w \in Seq(IoOps) /\ Ordered(w) /\ \A b \in ToSet(w) : Before(b, op)
      BY <1>3, <1>6, KindLemma
    <3> HIDE DEF w
    <3>2. Added(IoOps, w, op)
      BY <1>2, <3>1, AddedLemma
    <3> QED BY <3>2 DEF Added, w
  <2>3. /\ waiting'[d] = Append(waiting[d], op) /\ \A e \in Dir : e # d => waiting'[e] = waiting[e]
        /\ waiting' \in [Dir -> Seq(IoOps)]
    BY <1>6, <2>1, <2>2
  <2>4. Types
    BY <1>6, <2>1, <2>3 DEF SchedInv, TypeOK
  <2>5. Lists
    BY <1>6, <2>1, <2>2, <2>3 DEF SchedInv, ListsInv
  <2>6. Once
    BY <1>3, <2>1, <2>2, <2>3
  <2>7. Works
    BY <1>6, <2>1
  <2> QED BY <2>4, <2>5, <2>6, <2>7
<1>9. CASE waiting' = waiting
  <2>1. Immediate(op, continuation)
    <3>1. waiting[d] \in Seq(IoOps) /\ Append(waiting[d], op) # waiting[d]
      BY <1>2, <1>6, AppendLemma
    <3>2. [waiting EXCEPT ![d] = Append(waiting[d], op)] # waiting
      BY <1>6, <3>1
    <3> QED BY <1>1, <1>9, <3>2
  <2>2. \A e \in Dir : waiting'[e] = waiting[e] /\ Ordered(waiting[e])
    BY <1>9 DEF SchedInv, ListsInv
  <2>3. CASE continuation /\ pc = "run"
    <3>1. /\ private' = Append(private, op) /\ privateWork' = privateWork + 1
          /\ UNCHANGED <<queue, work, interrupted, poke>>
      BY <2>1, <2>3 DEF Immediate
    <3>2. /\ private' \in Seq(IoOps \cup {Descriptor}) /\ Ordered(private')
          /\ ToSet(private') = ToSet(private) \cup {op} /\ private' \in Seq(Operation)
      <4>1. \A b \in ToSet(private) : Before(b, op)
        BY <1>3, <1>6, KindLemma
      <4> DEFINE S == IoOps \cup {Descriptor}
      <4>2. op \in S /\ private \in Seq(S) /\ Ordered(private)
        BY <1>2, <1>6
      <4> HIDE DEF S
      <4>3. Added(S, private, op)
        BY <4>1, <4>2, AddedLemma
      <4> USE DEF S, Added
      <4>4. IoOps \cup {Descriptor} \subseteq Operation
        BY KindLemma
      <4> QED BY <3>1, <4>3, <4>4, SeqMonotonic
    <3>3. Types
      BY <1>6, <1>9, <3>1, <3>2 DEF SchedInv, TypeOK
    <3>4. Lists
      BY <1>6, <2>2, <3>1, <3>2
    <3>5. Once
      BY <1>3, <2>2, <3>1, <3>2
    <3>6. Works
      BY <1>6, <2>3, <3>1
    <3> QED BY <3>3, <3>4, <3>5, <3>6
  <2>4. CASE ~(continuation /\ pc = "run")
    <3>1. work' = work + 1 /\ Push(<<op>>) /\ UNCHANGED <<private, privateWork>>
      BY <2>1, <2>4 DEF Immediate
    <3>2. /\ queue' \in Seq(Operation) /\ Ordered(queue') /\ ToSet(queue') = ToSet(queue) \cup {op}
          /\ interrupted' \in BOOLEAN /\ poke' \in BOOLEAN
      <4>1. \A b \in ToSet(queue) : Before(b, op)
        BY <1>3, <1>6
      <4>2. /\ Append(queue, op) \in Seq(Operation) /\ Append(queue, op) = queue \o <<op>>
            /\ ToSet(Append(queue, op)) = ToSet(queue) \cup {op} /\ Ordered(Append(queue, op))
        BY <1>2, <1>6, <4>1, AddedLemma DEF Added
      <4>3. queue' = queue \o <<op>> /\ interrupted' \in BOOLEAN /\ poke' \in BOOLEAN
        BY <3>1 DEF Push, Interrupt, SchedInv, TypeOK
      <4> QED BY <4>2, <4>3
    <3>3. private \in Seq(Operation)
      BY DEF SchedInv, TypeOK
    <3>4. Types
      BY <1>6, <1>9, <3>1, <3>2, <3>3
    <3>5. Lists
      BY <1>6, <2>2, <3>1, <3>2
    <3>6. Once
      BY <1>3, <2>2, <3>1, <3>2
    <3>7. Works
      BY <1>6, <3>1
    <3> QED BY <3>4, <3>5, <3>6, <3>7
  <2> QED BY <2>3, <2>4
<1> QED BY <1>8, <1>9

-----------------------------------------------------------------------------
(* The descriptor_state runs.                                               *)

\* What is performed of the operations that wait in direction d, with result r;
\* w is what still waits then.
Served(d, r, w) ==
  /\ r.done \in Seq(IoOps) /\ Ordered(r.done) /\ w \in Seq(IoOps) /\ Ordered(w)
  /\ ToSet(r.done) \cup ToSet(w) = ToSet(waiting[d]) /\ ToSet(r.done) \cap ToSet(w) = {}
  /\ r.cells \in Nat /\ r.short \in BOOLEAN /\ r.exhausted \in BOOLEAN
  /\ r.short => r.cells = 0
  /\ r.exhausted => r.short /\ d = "write"
  /\ d \in ready /\ w # <<>> => r.short
  /\ d \notin ready => r.cells = cells[d] /\ w = waiting[d] /\ ~r.short /\ ~r.exhausted
  /\ cells[d] = 0 => r.cells = 0
  /\ waiting[d] = <<>> => w = <<>>

LEMMA ServedLemma ==
  ASSUME SchedInv, NEW d \in Dir, NEW r,
         r = PerformAll(d, IF d \in ready THEN waiting[d] ELSE <<>>)
  PROVE  Served(d, r, SubSeq(waiting[d], Len(r.done) + 1, Len(waiting[d])))
<1> DEFINE v == waiting[d]
           s == IF d \in ready THEN v ELSE <<>>
           w == SubSeq(v, Len(r.done) + 1, Len(v))
<1>1. v \in Seq(IoOps) /\ Ordered(v) /\ cells[d] \in Nat
  BY DEF SchedInv, TypeOK, ListsInv
<1>2. s \in Seq(IoOps) /\ r = PerformAll(d, s)
  BY <1>1
<1>3. (d \in ready => s = v) /\ (d \notin ready => s = <<>>)
  OBVIOUS
<1> HIDE DEF v, s
<1>4. PICK k \in Nat : Performs(d, s, k, r)
  BY <1>1, <1>2, PerformLemma
<1>5. /\ k \in 0..Len(s) /\ r.done = SubSeq(s, 1, k)
      /\ r.cells \in Nat /\ r.short \in BOOLEAN /\ r.exhausted \in BOOLEAN
      /\ k < Len(s) => r.short
      /\ r.short => r.cells = 0
      /\ r.exhausted => r.short /\ d = "write"
      /\ k = 0 => r.cells = cells[d] /\ ~r.exhausted
      /\ cells[d] = 0 => k = 0
      /\ Len(s) = 0 => ~r.short
  BY <1>4 DEF Performs
<1>6. k \in 0..Len(v) /\ Len(r.done) = k /\ r.done = SubSeq(v, 1, k)
  <2>1. CASE d \in ready
    <3>1. s = v
      BY <1>3, <2>1
    <3>2. Len(SubSeq(v, 1, k)) = k
      BY <1>1, <1>5, <3>1, CutLemma
    <3> QED BY <1>5, <3>1, <3>2
  <2>2. CASE d \notin ready
    <3>1. s = <<>> /\ Len(s) = 0
      BY <1>3, <2>2
    <3>2. k = 0
      BY <1>5, <3>1
    <3>3. Len(v) \in Nat /\ 0 \in 0..Len(v)
      BY <1>1, LenProperties
    <3>4. SubSeq(v, 1, 0) \in Seq(IoOps) /\ Len(SubSeq(v, 1, 0)) = 0
      BY <1>1, <3>3, CutLemma
    <3>5. SubSeq(s, 1, 0) \in Seq(IoOps) /\ Len(SubSeq(s, 1, 0)) = 0
      BY <1>2, <3>1, CutLemma, NothingLemma
    <3>6. SubSeq(v, 1, 0) = <<>> /\ SubSeq(s, 1, 0) = <<>>
      BY <3>4, <3>5, EmptySeq
    <3> QED BY <1>5, <3>2, <3>3, <3>5, <3>6
  <2> QED BY <2>1, <2>2
<1> DEFINE m == Len(v)
           a == SubSeq(v, 1, k)
<1>7. w = SubSeq(v, k + 1, m)
  BY <1>6
<1>8. /\ a \in Seq(IoOps) /\ SubSeq(v, k + 1, m) \in Seq(IoOps)
      /\ SubSeq(v, k + 1, m) = <<>> <=> k = m
      /\ Ordered(a) /\ Ordered(SubSeq(v, k + 1, m))
      /\ ToSet(a) \cup ToSet(SubSeq(v, k + 1, m)) = ToSet(v)
      /\ ToSet(a) \cap ToSet(SubSeq(v, k + 1, m)) = {}
  BY <1>1, <1>6, CutLemma
<1>9. m \in Nat
  BY <1>1, LenProperties
<1>10. k = 0 => w = v
  <2> SUFFICES ASSUME k = 0 PROVE w = v
    OBVIOUS
  <2>1. w = SubSeq(v, 1, m)
    <3>1. k + 1 = 1
      OBVIOUS
    <3> HIDE DEF w, m
    <3> QED BY <1>7, <3>1
  <2>2. \A i \in 1..m : v[i] \in IoOps
    BY <1>1, LenProperties
  <2>3. /\ SubSeq(v, 1, m) \in Seq(IoOps)
        /\ Len(SubSeq(v, 1, m)) = IF 1 <= m THEN m - 1 + 1 ELSE 0
        /\ \A i \in 1..m - 1 + 1 : SubSeq(v, 1, m)[i] = v[1 + i - 1]
    BY <1>1, <1>9, <2>2, SubSeqProperties
  <2> DEFINE u == SubSeq(v, 1, m)
  <2>4. u \in Seq(IoOps) /\ Len(u) = m /\ \A i \in 1..m : u[i] = v[i]
    <3> HIDE DEF m, u
    <3> QED BY <1>9, <2>3 DEF u
  <2> HIDE DEF u
  <2>5. u = v
    BY <1>1, <2>4, SeqEqual
  <2> QED BY <2>1, <2>5 DEF u
<1> HIDE DEF w, a
<1>11. /\ r.done = a /\ w \in Seq(IoOps) /\ Ordered(w) /\ ToSet(a) \cup ToSet(w) = ToSet(v)
       /\ ToSet(a) \cap ToSet(w) = {} /\ (w = <<>> <=> k = m)
  BY <1>6, <1>7, <1>8 DEF a
<1> HIDE DEF m
<1>12. d \in ready /\ w # <<>> => r.short
  <2> SUFFICES ASSUME d \in ready, w # <<>> PROVE r.short
    OBVIOUS
  <2>1. k # m /\ k \in 0..m /\ Len(s) = m
    BY <1>3, <1>6, <1>11, <2>1 DEF m
  <2> QED BY <1>5, <1>9, <2>1
<1>13. d \notin ready => r.cells = cells[d] /\ w = v /\ ~r.short /\ ~r.exhausted
  <2> SUFFICES ASSUME d \notin ready PROVE r.cells = cells[d] /\ w = v /\ ~r.short /\ ~r.exhausted
    OBVIOUS
  <2>1. Len(s) = 0
    BY <1>3
  <2>2. k = 0
    BY <1>5, <2>1
  <2> QED BY <1>5, <1>10, <2>1, <2>2
<1>14. v = <<>> => w = <<>>
  <2> SUFFICES ASSUME v = <<>> PROVE w = <<>>
    OBVIOUS
  <2>1. m = 0
    BY DEF m
  <2>2. k = m
    BY <1>6, <2>1 DEF m
  <2> QED BY <1>11, <2>2
<1>15. Served(d, r, w)
  BY <1>5, <1>8, <1>11, <1>12, <1>13, <1>14 DEF Served, v
<1> QED BY <1>15 DEF w, v

LEMMA PerformIoKeeps == SchedInv /\ PerformIo => SchedInv'
<1> SUFFICES ASSUME SchedInv, PerformIo PROVE SchedInv'
  OBVIOUS
<1> DEFINE results == [d \in Dir |-> PerformAll(d, IF d \in ready THEN waiting[d] ELSE <<>>)]
           wr == results["write"]
           rd == results["read"]
           done == wr.done \o rd.done
<1>1. /\ pc = "perform" /\ ready' = {}
      /\ UNCHANGED <<server, private, work, stopped, blocking, edge, brought, open, other, aborted,
                     guard, posts, ops>>
  BY DEF PerformIo, outside
<1>2. /\ cells' = [d \in Dir |-> results[d].cells]
      /\ waiting' = [d \in Dir |-> SubSeq(waiting[d], Len(results[d].done) + 1, Len(waiting[d]))]
      /\ speculative' = [d \in Dir |-> IF d \in ready THEN ~results[d].exhausted ELSE speculative[d]]
      /\ nospace' = (nospace \/ wr.short)
  BY DEF PerformIo, Again
<1>3. IF done = <<>>
      THEN /\ privateWork' = privateWork + 1 /\ pc' = "settle"
           /\ UNCHANGED <<queue, interrupted, poke, cur, ran>>
      ELSE /\ cur' = Head(done) /\ ran' = Noted(Head(done)) /\ pc' = "run"
           /\ IF Len(done) > 1 THEN Push(Tail(done)) ELSE UNCHANGED <<queue, interrupted, poke>>
           /\ privateWork' = privateWork
  BY DEF PerformIo, Compensated, Deferred
<1>4. ASSUME NEW d \in Dir PROVE Served(d, results[d], waiting'[d])
  <2> DEFINE r == results[d]
  <2>1. r = PerformAll(d, IF d \in ready THEN waiting[d] ELSE <<>>)
    OBVIOUS
  <2>2. waiting'[d] = SubSeq(waiting[d], Len(r.done) + 1, Len(waiting[d]))
    BY <1>2
  <2> HIDE DEF r
  <2>3. Served(d, r, waiting'[d])
    BY <2>1, <2>2, ServedLemma
  <2> QED BY <2>3 DEF r
<1> HIDE DEF results
<1>5. "read" \in Dir /\ "write" \in Dir /\ \A d \in Dir : d = "read" \/ d = "write"
  BY DEF Dir
<1>6. /\ cells' \in [Dir -> Nat] /\ waiting' \in [Dir -> Seq(IoOps)]
      /\ speculative' \in [Dir -> BOOLEAN] /\ nospace' \in BOOLEAN /\ ready' \in SUBSET Dir
  <2>1. \A d \in Dir : /\ results[d].cells \in Nat /\ waiting'[d] \in Seq(IoOps)
                       /\ results[d].exhausted \in BOOLEAN /\ results[d].short \in BOOLEAN
    BY <1>4 DEF Served
  <2>2. nospace \in BOOLEAN /\ speculative \in [Dir -> BOOLEAN]
    BY DEF SchedInv, TypeOK
  <2>3. cells' \in [Dir -> Nat]
    BY <1>2, <2>1
  <2>4. waiting' \in [Dir -> Seq(IoOps)]
    <3>1. waiting' = [d \in Dir |-> waiting'[d]]
      BY <1>2
    <3> QED BY <2>1, <3>1
  <2>5. \A d \in Dir : (IF d \in ready THEN ~results[d].exhausted ELSE speculative[d]) \in BOOLEAN
    BY <2>2
  <2>6. speculative' \in [Dir -> BOOLEAN]
    BY <1>2, <2>5
  <2> QED BY <1>1, <1>2, <1>5, <2>1, <2>2, <2>3, <2>4, <2>6
<1>7. EdgeInv'
  <2>1. \A d \in Dir :
          /\ cells'[d] = results[d].cells
          /\ speculative'[d] = IF d \in ready THEN ~results[d].exhausted ELSE speculative[d]
    BY <1>2
  <2>2. /\ \A d \in Dir : waiting[d] # <<>> /\ cells[d] > 0 => Due(d)
        /\ open /\ (waiting["write"] # <<>> \/ ~speculative["write"]) => nospace \/ Due("write")
        /\ nospace => cells["write"] = 0
        /\ ~open => \A d \in Dir : cells[d] = 0 /\ waiting[d] = <<>>
        /\ speculative["read"]
    BY DEF SchedInv, EdgeInv
  <2>3. \A d \in Dir : d \notin ready /\ Due(d) => Due(d)'
    BY <1>1 DEF Due
  <2>4. ASSUME NEW d \in Dir, waiting'[d] # <<>>, cells'[d] > 0 PROVE Due(d)'
    <3>1. Served(d, results[d], waiting'[d])
      BY <1>4
    <3>2. ~results[d].short
      BY <2>1, <2>4, <3>1 DEF Served
    <3>3. d \notin ready
      BY <2>4, <3>1, <3>2 DEF Served
    <3>4. waiting[d] # <<>> /\ cells[d] > 0
      BY <2>1, <2>4, <3>1, <3>3 DEF Served
    <3> QED BY <2>2, <2>3, <3>3, <3>4
  <2> DEFINE w == waiting'["write"]
             sp == speculative'["write"]
  <2>5. Served("write", wr, w)
    BY <1>4, <1>5
  <2>6. ASSUME open, w # <<>> \/ ~sp PROVE nospace' \/ Due("write")'
    <3>1. CASE "write" \in ready
      <4>1. wr.exhausted => wr.short
        BY <2>5 DEF Served
      <4>2. sp = ~wr.exhausted
        BY <1>5, <2>1, <3>1
      <4>3. w # <<>> => wr.short
        BY <2>5, <3>1 DEF Served
      <4> QED BY <1>2, <2>6, <4>1, <4>2, <4>3
    <3>2. CASE "write" \notin ready
      <4>1. w = waiting["write"]
        BY <2>5, <3>2 DEF Served
      <4>2. sp = speculative["write"]
        BY <1>5, <2>1, <3>2
      <4> QED BY <1>2, <1>5, <2>2, <2>3, <2>6, <3>2, <4>1, <4>2
    <3> QED BY <3>1, <3>2
  <2>7. nospace' => cells'["write"] = 0
    <3>1. (wr.short => wr.cells = 0) /\ (cells["write"] = 0 => wr.cells = 0)
      BY <2>5 DEF Served
    <3> QED BY <1>2, <1>5, <2>1, <2>2, <3>1
  <2>8. ASSUME ~open, NEW d \in Dir PROVE cells'[d] = 0 /\ waiting'[d] = <<>>
    <3>1. Served(d, results[d], waiting'[d])
      BY <1>4
    <3> QED BY <2>1, <2>2, <2>8, <3>1 DEF Served
  <2>9. speculative'["read"]
    <3>1. Served("read", results["read"], waiting'["read"])
      BY <1>4, <1>5
    <3>2. ~results["read"].exhausted
      BY <3>1 DEF Served
    <3> QED BY <1>5, <2>1, <2>2, <3>2
  <2>10. open' = open
    BY <1>1
  <2> QED BY <2>4, <2>6, <2>7, <2>8, <2>9, <2>10 DEF EdgeInv
\* What is done now, of what waited.
<1> DEFINE Finished == ToSet(wr.done) \cup ToSet(rd.done)
<1>8. /\ ToSet(done) = Finished /\ done \in Seq(IoOps) /\ Ordered(done) /\ Finished \subseteq IoOps
      /\ Waiters = Finished \cup Waiters' /\ Finished \cap Waiters' = {}
      /\ \A d \in Dir : ToSet(waiting'[d]) \subseteq ToSet(waiting[d]) /\ Ordered(waiting'[d])
      /\ Finished \cap (ToSet(queue) \cup ToSet(private) \cup ToSet(aborted)) = {}
  <2> DEFINE a == wr.done
             b == rd.done
  <2>1. Served("write", wr, waiting'["write"]) /\ Served("read", rd, waiting'["read"])
    BY <1>4, <1>5
  <2>2. /\ a \in Seq(IoOps) /\ Ordered(a) /\ b \in Seq(IoOps) /\ Ordered(b)
        /\ ToSet(a) \cup ToSet(waiting'["write"]) = ToSet(waiting["write"])
        /\ ToSet(a) \cap ToSet(waiting'["write"]) = {}
        /\ ToSet(b) \cup ToSet(waiting'["read"]) = ToSet(waiting["read"])
        /\ ToSet(b) \cap ToSet(waiting'["read"]) = {}
    BY <2>1 DEF Served
  <2>3. ToSet(waiting["read"]) \cap ToSet(waiting["write"]) = {}
    BY DEF SchedInv, ListsInv, Apart
  <2> HIDE DEF a, b
  <2>4. ToSet(a) \subseteq IoOps /\ ToSet(b) \subseteq IoOps /\ ToSet(a) \cap ToSet(b) = {}
    BY <2>2, <2>3, ItemLemma
  <2>5. \A x \in ToSet(a), y \in ToSet(b) : Before(x, y)
    BY <2>4, KindLemma DEF Before
  <2>6. a \o b \in Seq(IoOps) /\ Ordered(a \o b) /\ ToSet(a \o b) = ToSet(a) \cup ToSet(b)
    BY <2>2, <2>5, JoinLemma
  <2> DEFINE A == ToSet(a)
             B == ToSet(b)
             R == ToSet(waiting["read"])
             W == ToSet(waiting["write"])
             R1 == ToSet(waiting'["read"])
             W1 == ToSet(waiting'["write"])
  <2>7. Waiters = R \cup W /\ Waiters' = R1 \cup W1
    BY DEF Waiters
  <2>8. /\ Waiters = (A \cup B) \cup Waiters' /\ (A \cup B) \cap Waiters' = {}
    <3>1. A \cup W1 = W /\ A \cap W1 = {} /\ B \cup R1 = R /\ B \cap R1 = {} /\ R \cap W = {}
      BY <2>2, <2>3
    <3> HIDE DEF A, B, R, W, R1, W1
    <3> QED BY <2>7, <3>1
  <2>9. \A d \in Dir : ToSet(waiting'[d]) \subseteq ToSet(waiting[d]) /\ Ordered(waiting'[d])
    BY <1>4 DEF Served
  <2>10. Waiters \cap (ToSet(queue) \cup ToSet(private) \cup ToSet(aborted)) = {}
    BY AbortLemma
  <2> QED BY <2>4, <2>6, <2>8, <2>9, <2>10 DEF a, b
<1> HIDE DEF done, wr, rd, Finished
<1>9. /\ Task \in ToSet(queue) /\ private = <<>> /\ privateWork = 0 /\ Ordered(queue)
      /\ ToSet(queue) \subseteq Operation /\ queue \in Seq(Operation) /\ work \in Nat
      /\ Begun = InLists /\ work >= One(guard)
  BY <1>1, SetsLemma, MembersLemma DEF SchedInv, TypeOK, PlacesInv, WorkInv, ListsInv
<1>10. One(guard)' = One(guard) /\ One(guard) \in Nat
  BY <1>1 DEF One
\* Whatever is run and queued, the rest is the same.
<1>11. ASSUME NEW now, now \subseteq IoOps,
              queue' \in Seq(Operation), Ordered(queue'), interrupted' \in BOOLEAN, poke' \in BOOLEAN,
              ToSet(queue') = ToSet(queue) \cup (Finished \ now), now \subseteq Finished, pc' \in {"run", "settle"}
       PROVE  PlacesInv' /\ ListsInv' /\ InLists' = InLists \ now
  <2>1. Descriptor \notin Finished /\ Task \notin Finished /\ Task \notin Waiters /\ Descriptor \notin Waiters
    <3>1. Waiters \subseteq IoOps
      BY AbortLemma
    <3> QED BY <1>8, <3>1, KindLemma
  <2>2. PlacesInv'
    BY <1>1, <1>9, <1>11, <2>1 DEF SchedInv, PlacesInv
  <2>3. ListsInv'
    <3>1. Ordered(queue)' /\ Ordered(private)' /\ Ordered(aborted)' /\ \A d \in Dir : Ordered(waiting[d])'
      BY <1>1, <1>8, <1>11 DEF SchedInv, ListsInv
    <3>2. Apart(queue, private)' /\ Apart(queue, aborted)' /\ Apart(private, aborted)'
      BY <1>1, <1>8, <1>11 DEF SchedInv, ListsInv, Apart
    <3>3. \A d \in Dir : Apart(queue, waiting[d])'
      <4> SUFFICES ASSUME NEW d \in Dir PROVE ToSet(queue') \cap ToSet(waiting'[d]) = {}
        BY DEF Apart
      <4>1. ToSet(queue) \cap ToSet(waiting[d]) = {}
        BY DEF SchedInv, ListsInv, Apart
      <4>2. ToSet(waiting'[d]) \subseteq Waiters' /\ ToSet(waiting'[d]) \subseteq ToSet(waiting[d])
        BY <1>5, <1>8 DEF Waiters
      <4> QED BY <1>8, <1>11, <4>1, <4>2
    <3>4. \A d \in Dir : Apart(private, waiting[d])' /\ Apart(aborted, waiting[d])'
      BY <1>1, <1>8 DEF SchedInv, ListsInv, Apart
    <3>5. Apart(waiting["read"], waiting["write"])'
      BY <1>5, <1>8 DEF SchedInv, ListsInv, Apart
    <3> QED BY <3>1, <3>2, <3>3, <3>4, <3>5 DEF ListsInv
  <2>4. InLists' = InLists \ now
    <3>1. now \cap (ToSet(queue) \cup ToSet(private) \cup ToSet(aborted) \cup Waiters') = {}
      BY <1>8, <1>11
    <3>2. ToSet(private') = ToSet(private) /\ ToSet(aborted') = ToSet(aborted)
      BY <1>1
    <3> QED BY <1>8, <1>11, <3>1, <3>2 DEF InLists
  <2> QED BY <2>2, <2>3, <2>4
<1>12. CASE done = <<>>
  <2>1. privateWork' = privateWork + 1 /\ pc' = "settle" /\ UNCHANGED <<queue, interrupted, poke, cur, ran>>
    BY <1>3, <1>12
  <2>2. Finished = {}
    BY <1>8, <1>12, NothingLemma
  <2>3. interrupted' \in BOOLEAN /\ poke' \in BOOLEAN
    BY <2>1 DEF SchedInv, TypeOK
  <2>4. PlacesInv' /\ ListsInv' /\ InLists' = InLists
    <3>1. ToSet(queue') = ToSet(queue) \cup (Finished \ {}) /\ queue' \in Seq(Operation) /\ Ordered(queue')
      BY <1>9, <2>1, <2>2
    <3>2. {} \subseteq IoOps /\ {} \subseteq Finished /\ pc' \in {"run", "settle"}
      BY <2>1
    <3>3. PlacesInv' /\ ListsInv' /\ InLists' = InLists \ {}
      BY <1>11, <2>3, <3>1, <3>2
    <3> QED BY <3>3
  <2>5. TypeOK'
    BY <1>1, <1>6, <1>9, <2>1 DEF SchedInv, TypeOK
  <2>6. Begun' = Begun
    BY <1>9, <2>4, <2>5, SetsLemma
  <2>7. NumInv'
    BY <1>1, <2>1, <2>6, NumStays DEF SchedInv, counts
  <2>8. WorkInv'
    <3>1. Cardinality(Begun') = Cardinality(Begun) + 0
      BY <2>6, CardLemma DEF SchedInv
    <3>2. Account' = Account + 1 /\ Account \in Nat
      BY <1>1, <2>1 DEF Account, One
    <3>3. work' + privateWork' = work + privateWork + 0 + Account' - Account
      BY <1>1, <1>9, <2>1, <3>2
    <3>4. work' >= One(guard)' /\ (pc' \notin {"run", "settle"} => privateWork' = 0)
      BY <1>1, <1>9, <1>10, <2>1
    <3> QED BY <2>5, <3>1, <3>3, <3>4, WorkBy DEF SchedInv
  <2> QED BY <1>7, <2>4, <2>5, <2>7, <2>8 DEF SchedInv
<1>13. CASE done # <<>>
  <2> DEFINE h == Head(done)
             t == Tail(done)
  <2>1. /\ cur' = h /\ ran' = Noted(h) /\ pc' = "run" /\ privateWork' = privateWork
        /\ IF Len(done) > 1 THEN Push(t) ELSE UNCHANGED <<queue, interrupted, poke>>
    BY <1>3, <1>13
  <2>2. /\ t \in Seq(IoOps) /\ h \in ToSet(done) /\ ToSet(t) = ToSet(done) \ {h} /\ Ordered(t)
    BY <1>8, <1>13, TakenLemma
  <2>3. t \in Seq(Operation)
    BY <2>2, KindLemma, SeqMonotonic
  <2>4. Push(t) \/ (t = <<>> /\ UNCHANGED <<queue, interrupted, poke>>)
    <3>1. Len(done) \in Nat /\ Len(done) # 0 /\ Len(t) = Len(done) - 1
      BY <1>8, <1>13, LenProperties, EmptySeq, HeadTailProperties
    <3>2. CASE Len(done) > 1
      BY <2>1, <3>2
    <3>3. CASE ~(Len(done) > 1)
      <4>1. Len(t) = 0
        <5> HIDE DEF t
        <5> QED BY <3>1, <3>3
      <4>2. t = <<>>
        BY <2>2, <4>1, EmptySeq
      <4> QED BY <2>1, <3>3, <4>2
    <3> QED BY <3>2, <3>3
  <2> HIDE DEF h, t
  <2>5. /\ queue' = queue \o t /\ interrupted' \in BOOLEAN /\ poke' \in BOOLEAN
    BY <2>3, <2>4, PushShape DEF SchedInv
  <2>6. h \in Finished /\ h \in IoOps /\ ToSet(t) = Finished \ {h}
    BY <1>8, <2>2
  <2>7. \A a \in ToSet(queue), b \in ToSet(t) : Before(a, b)
    <3>1. Waiters \subseteq IoOps /\ \A a \in ToSet(queue), b \in Waiters : Before(a, b)
      BY AbortLemma
    <3> QED BY <1>8, <2>6, <3>1
  <2>8. queue' \in Seq(Operation) /\ Ordered(queue') /\ ToSet(queue') = ToSet(queue) \cup (Finished \ {h})
    BY <1>9, <2>2, <2>3, <2>5, <2>6, <2>7, PushedLemma DEF SchedInv
  <2>9. PlacesInv' /\ ListsInv' /\ InLists' = InLists \ {h}
    <3>1. {h} \subseteq IoOps /\ {h} \subseteq Finished /\ pc' \in {"run", "settle"}
      BY <2>1, <2>6
    <3> QED BY <1>11, <2>5, <2>8, <3>1
  <2>10. h \in Begun
    <3>1. h \in Waiters /\ h # Task /\ h # Descriptor
      BY <1>8, <2>6, KindLemma
    <3> QED BY <1>9, <3>1 DEF InLists
  <2>11. Begun' = Begun \ {h}
    <3>1. FiveLists(queue', private', waiting', aborted')
      BY <1>1, <1>6, <2>8, FiveLemma DEF SchedInv, TypeOK
    <3>2. Begun' = InLists'
      BY <3>1 DEF FiveLists, Begun, InLists, Enlisted, AllWaiting, Waiters
    <3> QED BY <1>9, <2>9, <3>2
  <2>12. h.kind = "io" /\ h \in Operation
    BY <2>6, KindLemma
  <2>13. NumInv' /\ ran' \in [posts: Seq(1..MaxPosts), ops: Seq(1..MaxOps)]
    BY <1>1, <2>1, <2>10, <2>11, <2>12, NumRuns DEF SchedInv
  <2>14. TypeOK'
    BY <1>1, <1>6, <1>9, <2>1, <2>5, <2>8, <2>12, <2>13 DEF SchedInv, TypeOK
  <2>15. WorkInv'
    <3>1. Cardinality(Begun') = Cardinality(Begun) + (-1)
      <4>1. Cardinality(Begun \ {h}) = Cardinality(Begun) - 1 /\ Cardinality(Begun) \in Nat
        BY <2>10, CardLemma DEF SchedInv
      <4> QED BY <2>11, <4>1
    <3>2. Account' = Account + 1 /\ Account \in Nat
      BY <1>1, <2>1 DEF Account, One
    <3>3. work' + privateWork' = work + privateWork + (-1) + Account' - Account
      BY <1>1, <1>9, <2>1, <3>2
    <3>4. work' >= One(guard)' /\ (pc' \notin {"run", "settle"} => privateWork' = 0)
      BY <1>1, <1>9, <1>10, <2>1
    <3> QED BY <2>14, <3>1, <3>3, <3>4, WorkBy DEF SchedInv
  <2> QED BY <1>7, <2>9, <2>13, <2>14, <2>15 DEF SchedInv
<1> QED BY <1>12, <1>13

-----------------------------------------------------------------------------
(* The invariant holds, and it is strong enough.                            *)

LEMMA InitSched == Init => SchedInv
<1> SUFFICES ASSUME Init PROVE SchedInv
  OBVIOUS
<1>1. /\ server \in BOOLEAN /\ queue = <<Task>> /\ private = <<>> /\ work = One(server)
      /\ privateWork = 0 /\ stopped = FALSE /\ interrupted = TRUE /\ pc = "call" /\ cur = Task
      /\ blocking = FALSE /\ poke = FALSE /\ edge = {} /\ ready = {}
      /\ cells = [d \in Dir |-> 0] /\ nospace = FALSE /\ brought = [d \in Dir |-> 0]
      /\ waiting = [d \in Dir |-> <<>>] /\ speculative = [d \in Dir |-> TRUE] /\ open = TRUE
      /\ other = "idle" /\ aborted = <<>> /\ guard = server /\ posts = 0 /\ ops = 0
      /\ ran = [posts |-> <<>>, ops |-> <<>>]
  BY DEF Init, One
<1>2. /\ ToSet(queue) = {Task} /\ Ordered(queue) /\ ToSet(private) = {} /\ Ordered(private)
      /\ ToSet(aborted) = {} /\ Ordered(aborted)
      /\ \A d \in Dir : ToSet(waiting[d]) = {} /\ Ordered(waiting[d]) /\ waiting[d] = <<>> /\ cells[d] = 0
  BY <1>1, SingleLemma, NothingLemma
<1>3. "read" \in Dir /\ "write" \in Dir
  BY DEF Dir
<1>4. TypeOK
  <2>1. queue \in Seq(Operation) /\ cur \in Operation
    BY <1>1, KindLemma
  <2>2. /\ cells \in [Dir -> Nat] /\ brought \in [Dir -> Nat] /\ waiting \in [Dir -> Seq(IoOps)]
        /\ speculative \in [Dir -> BOOLEAN]
    BY <1>1
  <2>3. ran \in [posts: Seq(1..MaxPosts), ops: Seq(1..MaxOps)]
    BY <1>1
  <2>4. posts \in 0..MaxPosts /\ ops \in 0..MaxOps
    BY <1>1, IoContextAssumption
  <2>5. work \in Nat /\ privateWork \in Nat
    BY <1>1 DEF One
  <2>6. /\ private \in Seq(Operation) /\ aborted \in Seq(IoOps)
        /\ edge \in SUBSET Dir /\ ready \in SUBSET Dir
    BY <1>1
  <2>7. /\ stopped \in BOOLEAN /\ interrupted \in BOOLEAN /\ blocking \in BOOLEAN /\ poke \in BOOLEAN
        /\ nospace \in BOOLEAN /\ open \in BOOLEAN /\ guard \in BOOLEAN /\ server \in BOOLEAN
    BY <1>1
  <2>8. pc = "call" /\ other = "idle"
    BY <1>1
  <2> QED BY <2>1, <2>2, <2>3, <2>4, <2>5, <2>6, <2>7, <2>8 DEF TypeOK
<1>5. PlacesInv
  BY <1>1, <1>2, KindLemma DEF PlacesInv
<1>6. ListsInv
  BY <1>2, <1>3 DEF ListsInv, Apart
<1>7. Begun = {}
  BY <1>2, <1>3, <1>4, SetsLemma DEF InLists, Waiters
<1>8. NumInv
  <2>1. ran.posts = <<>> /\ ran.ops = <<>>
    BY <1>1
  <2>2. DOMAIN <<>> = {} /\ ToSet(<<>>) = {}
    BY NothingLemma
  <2> QED BY <1>7, <2>1, <2>2 DEF NumInv, RunOnceInOrder
<1>9. EdgeInv
  BY <1>1, <1>2, <1>3 DEF EdgeInv
<1>10. WorkInv
  <2>1. Cardinality(Begun) = 0 /\ One(guard) \in Nat /\ work = One(guard) /\ privateWork = 0
    BY <1>1, <1>7, FS_EmptySet DEF One
  <2>2. Account = One(guard)
    BY <1>1, <2>1 DEF Account, One
  <2> QED BY <2>1, <2>2 DEF WorkInv
<1> QED BY <1>4, <1>5, <1>6, <1>8, <1>9, <1>10 DEF SchedInv

LEMMA SchedStep == SchedInv /\ [Next]_vars => SchedInv'
<1> SUFFICES ASSUME SchedInv, [Next]_vars PROVE SchedInv'
  OBVIOUS
<1>1. CASE Run
  BY <1>1, AloneSteps, TurnKeeps, TakeKeeps, PollKeeps, TaskCleanupKeeps, PerformIoKeeps,
     RequeueKeeps DEF Run
<1>2. CASE Handler
  BY <1>2, AloneSteps, StartKeeps, PostsKeep, HandlerClosesKeeps DEF Handler
<1>3. CASE Other
  BY <1>3, AloneSteps, PostsKeep, CloseKeeps, AbortedQueuedKeeps DEF Other
<1>4. CASE Arrive \/ Drain \/ UNCHANGED vars
  BY <1>4, AloneSteps
<1> QED BY <1>1, <1>2, <1>3, <1>4 DEF Next

LEMMA OrderedOnce == ASSUME NEW S, NEW s \in Seq(S), Ordered(s) PROVE IsInjective(s)
<1>1. DOMAIN s = 1..Len(s) /\ Len(s) \in Nat
  BY LenProperties
<1>2. ASSUME NEW i \in 1..Len(s), NEW j \in 1..Len(s), i # j PROVE s[i] # s[j]
  <2>1. i < j \/ j < i
    BY <1>1, <1>2
  <2> QED BY <1>1, <2>1 DEF Ordered, Before
<1> QED BY <1>1, <1>2 DEF IsInjective

LEMMA SchedIsSound == SchedInv => SchedulerSound
<1> SUFFICES ASSUME SchedInv PROVE SchedulerSound
  OBVIOUS
<1>1. \A x, s : IsIn(x, s) <=> x \in ToSet(s)
  BY DEF IsIn, ToSet
<1>2. TypeOK /\ PlacesInv /\ ListsInv /\ NumInv /\ EdgeInv /\ WorkInv
  BY DEF SchedInv
<1>3. QueueNeverEmpty
  BY <1>1, <1>2 DEF PlacesInv, QueueNeverEmpty
<1>4. OneList
  <2> DEFINE r == waiting["read"]
             w == waiting["write"]
             y == r \o w
             x == queue \o private
             z == x \o y
  <2>1. /\ r \in Seq(IoOps) /\ w \in Seq(IoOps) /\ aborted \in Seq(IoOps)
        /\ queue \in Seq(Operation) /\ private \in Seq(Operation)
    BY <1>2 DEF TypeOK, Dir
  <2>2. /\ Ordered(queue) /\ Ordered(private) /\ Ordered(aborted) /\ Ordered(r) /\ Ordered(w)
        /\ Apart(queue, private) /\ Apart(queue, aborted) /\ Apart(private, aborted) /\ Apart(r, w)
        /\ Apart(queue, r) /\ Apart(private, r) /\ Apart(aborted, r)
        /\ Apart(queue, w) /\ Apart(private, w) /\ Apart(aborted, w)
    BY <1>2 DEF ListsInv, Dir
  <2>3. \A s \in Seq(IoOps) : s \in Seq(Operation)
    BY KindLemma, SeqMonotonic
  <2>4. Enlisted = z \o aborted
    BY DEF Enlisted, AllWaiting
  <2> HIDE DEF r, w
  <2>5. /\ IsInjective(queue) /\ IsInjective(private) /\ IsInjective(aborted)
        /\ IsInjective(r) /\ IsInjective(w)
    BY <2>1, <2>2, OrderedOnce
  <2>6. y \in Seq(IoOps) /\ ToSet(y) = ToSet(r) \cup ToSet(w) /\ IsInjective(y)
    BY <2>1, <2>2, <2>5, JoinLemma DEF Apart
  <2>7. x \in Seq(Operation) /\ ToSet(x) = ToSet(queue) \cup ToSet(private) /\ IsInjective(x)
    BY <2>1, <2>2, <2>5, JoinLemma DEF Apart
  <2>8. y \in Seq(Operation)
    BY <2>3, <2>6
  <2> HIDE DEF x, y
  <2>9. z \in Seq(Operation) /\ ToSet(z) = ToSet(x) \cup ToSet(y) /\ IsInjective(z)
    <3>1. ToSet(x) \cap ToSet(y) = {}
      BY <2>2, <2>6, <2>7 DEF Apart
    <3> QED BY <2>6, <2>7, <2>8, <3>1, JoinLemma
  <2> HIDE DEF z
  <2>10. ToSet(z) \cap ToSet(aborted) = {}
    BY <2>2, <2>6, <2>7, <2>9 DEF Apart
  <2>11. aborted \in Seq(Operation)
    BY <2>1, <2>3
  <2>12. IsInjective(z \o aborted)
    BY <2>5, <2>9, <2>10, <2>11, JoinLemma
  <2> QED BY <2>4, <2>12 DEF OneList
<1>5. DescriptorDequeued
  <2> SUFFICES ASSUME pc = "poll" PROVE Descriptor \notin ToSet(queue) /\ Descriptor \notin ToSet(private)
    BY <1>1 DEF DescriptorDequeued
  <2> QED BY <1>2, NothingLemma DEF PlacesInv
<1>6. NoLostEdge
  BY <1>1, <1>2 DEF EdgeInv, NoLostEdge, Due, Coming
<1>7. WorkIsCounted
  <2>1. work + privateWork = Cardinality(Begun) + Account /\ Cardinality(Begun) \in Nat
    BY <1>2, CardLemma DEF WorkInv
  <2> DEFINE c == Cardinality(Begun)
             a == One(guard)
             b == One(other = "post")
             e == One(pc \in {"run", "settle"})
             v == work + privateWork
  <2>2. a \in Nat /\ b \in Nat /\ e \in Nat
    BY DEF One
  <2>3. c \in Nat /\ v = c + (a + b + e)
    BY <2>1 DEF Account
  <2>4. WorkIsCounted <=> v = c + a + b + e
    BY DEF WorkIsCounted, One
  <2> HIDE DEF a, b, c, e, v
  <2>5. v = c + a + b + e
    BY <2>2, <2>3
  <2> QED BY <2>4, <2>5
<1>8. RunOnceInOrder
  BY <1>2 DEF NumInv
<1> QED BY <1>2, <1>3, <1>4, <1>5, <1>6, <1>7, <1>8 DEF SchedulerSound

\* Scheduler and reactor agree with one another, in every state: the task is in
\* the queue unless it runs, an operation is in one list once, the descriptor_state
\* is dequeued before it is queued again, an edge-triggered event is never lost, the
\* two counters count the work that is outstanding, and posted handlers run once, in
\* the order of the posts.
THEOREM Scheduled == Spec => []SchedulerSound
<1>1. Init => SchedInv
  BY InitSched
<1>2. SchedInv /\ [Next]_vars => SchedInv'
  BY SchedStep
<1>3. SchedInv => SchedulerSound
  BY SchedIsSound
<1> QED BY <1>1, <1>2, <1>3, PTL DEF Spec

-----------------------------------------------------------------------------
(* The inductive invariant of the message list.                             *)

Moving(t) == append[t] \in {"put", "move"}

\* Types: blocks have been allocated, and no offset is above the number of
\* messages (where appends overlapped it may be beyond the end of its block).
MemTyped ==
  /\ heap \in Seq(Seq(Message \cup {Hole})) /\ freed \subseteq DOMAIN heap
  /\ begin \in 0..Len(heap)
  /\ end \in (0..Len(heap)) \X (0..Len(order))
  /\ append \in [Thread -> Step]
  /\ at \in [Thread -> (0..Len(heap)) \X (0..Len(order))]
  /\ target \in [Thread -> 0..Len(heap)]
  /\ count \in [Thread -> Nat]
  /\ \A t \in Thread : count[t] <= Bound[t] /\ (append[t] # "none" => count[t] >= 1)
  /\ order \in Seq(Message)

\* Every append adds one message to the order and allocates one block at most.
Counted ==
  /\ Len(order) + One(Active("conn")) + One(Active("ui")) = count["conn"] + count["ui"]
  /\ Len(heap) + One(Moving("conn")) + One(Moving("ui")) <= count["conn"] + count["ui"]

\* A block that is moved is full, and one that is to be freed is a block.
Full ==
  \A t \in Thread : /\ append[t] = "move" => at[t][2] = Capacity(at[t][1])
                    /\ append[t] = "free" => at[t][1] # 0

\* What a thread has still to store is not in memory,
Pending(m) == \E t \in Thread : Moving(t) /\ m = Said(t)

OnlySaid ==
  \A b \in DOMAIN heap : \A i \in DOMAIN heap[b] :
    heap[b][i] # Hole => heap[b][i][2] <= count[heap[b][i][1]] /\ ~Pending(heap[b][i])

\* and what is in memory is there once.
Distinct ==
  \A b, c \in DOMAIN heap : \A i \in DOMAIN heap[b], j \in DOMAIN heap[c] :
    heap[b][i] = heap[c][j] /\ heap[b][i] # Hole => b = c /\ i = j

MemInv == MemTyped /\ Counted /\ Full /\ OnlySaid /\ Distinct

\* The UI thread either appends or draws.
FrameInv ==
  /\ process \in {"running", "undefined"}
  /\ event \in BOOLEAN /\ screen \in {"chat", "other", "left"}
  /\ ui \in {"idle", "check", "measure", "copy"} /\ measured \in 0..Len(order)
  /\ drawn \in Seq(Message) /\ size \in Nat /\ selected \in Nat /\ torn \in BOOLEAN
  /\ ui # "idle" => append["ui"] = "none"
  /\ NeverTwice

\* Block b holds the messages s.
Holds(b, s) ==
  /\ Usable(b) /\ Len(s) <= Capacity(b)
  /\ \A i \in DOMAIN s : heap[b][i] = s[i]

\* Between appends the vector is the messages in their order.
Rest == end = <<begin, Len(order)>> /\ Holds(begin, order)

\* During an append, until the new block is published, and then in that block.
Underway(t) ==
  /\ append[t] = "put" => Rest /\ at[t] = end /\ Len(order) < Capacity(begin)
  /\ append[t] = "move" => Rest /\ at[t] = end
  /\ append[t] = "free" => begin # target[t] /\ begin \notin freed /\ at[t][1] = begin
  /\ append[t] \in {"free", "publish", "publishEnd"} =>
       at[t][2] = Len(order) /\ Holds(target[t], Append(order, Said(t)))
  /\ append[t] = "publishEnd" => begin = target[t]

\* As long as nothing overlaps.
Alone ==
  /\ Running
  /\ ~(Active("conn") /\ Active("ui"))
  /\ ui = "copy" => ~Active("conn") /\ measured = Len(order)
  /\ ~Active("conn") /\ ~Active("ui") => Rest
  /\ \A t \in Thread : Underway(t)

\* What was drawn are the first messages, and the cursor is on one of them.
Prefix(s, t) == Len(s) <= Len(t) /\ \A i \in DOMAIN s : s[i] = t[i]

Shown ==
  /\ Prefix(drawn, order) /\ size = Lines * Len(drawn)
  /\ selected < size \/ selected = 0

ViewInv == MemInv /\ FrameInv /\ (~torn => Alone /\ Shown)

-----------------------------------------------------------------------------
LEMMA MessageLemma ==
  /\ \A t \in Thread, k \in Nat : k >= 1 /\ k <= Bound[t] => <<t, k>> \in Message
  /\ \A m \in Message : m[1] \in Thread /\ m[2] \in 1..Bound[m[1]] /\ m = <<m[1], m[2]>>
  /\ Hole \notin Message
  /\ Bound["conn"] = MaxHeard /\ Bound["ui"] = MaxOwn
  /\ MaxHeard \in Nat /\ MaxOwn \in Nat
  /\ \A t \in Thread : Bound[t] \in Nat
<1>1. /\ Bound["conn"] = MaxHeard /\ Bound["ui"] = MaxOwn
      /\ MaxHeard \in Nat /\ MaxOwn \in Nat
  BY ChatViewAssumption DEF Bound
<1>2. \A t \in Thread : Bound[t] \in Nat
  BY <1>1 DEF Thread
<1>3. \A t \in Thread, k \in Nat : k >= 1 /\ k <= Bound[t] => <<t, k>> \in Message
  BY <1>2 DEF Message
<1>4. ASSUME NEW m \in Message
      PROVE  m[1] \in Thread /\ m[2] \in 1..Bound[m[1]] /\ m = <<m[1], m[2]>> /\ m # Hole
  <2>1. PICK t \in Thread : m \in {t} \X (1..Bound[t])
    BY DEF Message
  <2> QED BY <2>1 DEF Hole, Thread
<1> QED BY <1>1, <1>2, <1>3, <1>4

\* The length of a block, and what a vector reads there.
LEMMA HeapLemma ==
  ASSUME MemTyped
  PROVE  /\ Len(heap) \in Nat /\ DOMAIN heap = 1..Len(heap) /\ Len(order) \in Nat
         /\ DOMAIN order = 1..Len(order)
         /\ \A b \in 1..Len(heap) : /\ heap[b] \in Seq(Message \cup {Hole})
                                    /\ Len(heap[b]) \in Nat /\ DOMAIN heap[b] = 1..Len(heap[b])
                                    /\ Capacity(b) = Len(heap[b])
         /\ Capacity(0) = 0 /\ \A b \in 0..Len(heap) : Capacity(b) \in Nat
<1>1. /\ Len(heap) \in Nat /\ DOMAIN heap = 1..Len(heap) /\ Len(order) \in Nat
      /\ DOMAIN order = 1..Len(order)
      /\ heap \in Seq(Seq(Message \cup {Hole}))
  BY LenProperties DEF MemTyped
<1>2. \A b \in 1..Len(heap) : heap[b] \in Seq(Message \cup {Hole})
  BY <1>1
<1>3. \A b \in 1..Len(heap) : /\ Len(heap[b]) \in Nat /\ DOMAIN heap[b] = 1..Len(heap[b])
                              /\ Capacity(b) = Len(heap[b])
  BY <1>2, LenProperties DEF Capacity
<1>4. Capacity(0) = 0
  BY DEF Capacity
<1> QED BY <1>1, <1>2, <1>3, <1>4

LEMMA InitView == ViewInit => ViewInv
<1> SUFFICES ASSUME ViewInit PROVE ViewInv
  OBVIOUS
<1>1. /\ heap = <<>> /\ order = <<>> /\ drawn = <<>> /\ Len(heap) = 0 /\ Len(order) = 0 /\ Len(drawn) = 0
      /\ DOMAIN heap = {} /\ DOMAIN order = {} /\ DOMAIN drawn = {}
  BY EmptySeq DEF ViewInit
<1>2. MemTyped
  <2>1. heap \in Seq(Seq(Message \cup {Hole})) /\ order \in Seq(Message)
    BY <1>1, EmptySeq
  <2>2. \A t \in Thread : Bound[t] \in Nat
    BY MessageLemma
  <2> QED BY <1>1, <2>1, <2>2 DEF ViewInit, MemTyped, Step
<1>3. Counted /\ Full /\ OnlySaid /\ Distinct
  BY <1>1 DEF ViewInit, Counted, Full, OnlySaid, Distinct, One, Active, Moving, Thread
<1>4. FrameInv
  <2>1. drawn \in Seq(Message) /\ NeverTwice
    BY <1>1, EmptySeq DEF NeverTwice, IsInjective
  <2>2. event \in BOOLEAN /\ torn \in BOOLEAN
    BY DEF ViewInit
  <2>3. /\ process \in {"running", "undefined"} /\ screen \in {"chat", "other", "left"}
        /\ ui = "idle" /\ measured \in 0..Len(order) /\ size \in Nat /\ selected \in Nat
    BY <1>1 DEF ViewInit
  <2> QED BY <2>1, <2>2, <2>3 DEF FrameInv
<1>5. Alone /\ Shown
  <2>1. Capacity(0) = 0
    BY DEF Capacity
  <2>2. Rest
    BY <1>1, <2>1 DEF ViewInit, Rest, Holds, Usable
  <2>3. \A t \in Thread : append[t] = "none"
    BY DEF ViewInit
  <2>4. ~Active("conn") /\ ~Active("ui") /\ \A t \in Thread : Underway(t)
    BY <2>3 DEF Active, Thread, Underway
  <2>5. Lines * 0 = 0
    BY ChatViewAssumption
  <2> QED BY <1>1, <2>2, <2>4, <2>5 DEF Alone, Shown, Prefix, ViewInit, Running
<1> QED BY <1>2, <1>3, <1>4, <1>5 DEF ViewInv, MemInv

-----------------------------------------------------------------------------
(* Appends: the memory.                                                     *)

\* What a step of thread t leaves alone of the other thread.
OthersStay(t) ==
  \A u \in Thread : u # t => /\ append'[u] = append[u] /\ count'[u] = count[u]
                             /\ at'[u] = at[u] /\ target'[u] = target[u]

LEMMA MemStays ==
  ASSUME MemInv, UNCHANGED <<vector, appending, order>>
  PROVE  MemInv'
<1>1. /\ heap' = heap /\ freed' = freed /\ begin' = begin /\ end' = end /\ order' = order
      /\ append' = append /\ at' = at /\ target' = target /\ count' = count
  BY DEF vector, appending
<1>2. MemTyped' /\ Distinct'
  BY <1>1 DEF MemInv, MemTyped, Distinct
<1>3. Counted'
  BY <1>1 DEF MemInv, Counted, One, Active, Moving
<1>4. Full'
  BY <1>1 DEF MemInv, Full, Capacity
<1>5. OnlySaid'
  <2>1. \A x : Pending(x)' => Pending(x)
    BY <1>1 DEF Pending, Moving, Said
  <2> QED BY <1>1, <2>1 DEF MemInv, OnlySaid
<1> QED BY <1>2, <1>3, <1>4, <1>5 DEF MemInv

LEMMA OthersLemma ==
  ASSUME MemTyped, NEW t \in Thread, LoadEnd(t) \/ Appending(t)
  PROVE  /\ OthersStay(t)
         /\ append' \in [Thread -> Step] /\ count' \in [Thread -> Nat]
         /\ Appending(t) => count' = count /\ at' = at
         /\ LoadEnd(t) => target' = target
<1>1. append' = [append EXCEPT ![t] = append'[t]] /\ append'[t] \in Step
  BY DEF MemTyped, Appending, LoadEnd, Put, Move, Free, Publish, PublishEnd, Notify, Done, Step
<1>2. count' = [count EXCEPT ![t] = count'[t]] /\ at' = [at EXCEPT ![t] = at'[t]]
      /\ count'[t] \in Nat
  BY DEF MemTyped, Appending, LoadEnd, Put, Move, Free, Publish, PublishEnd, Notify
<1>3. target' = [target EXCEPT ![t] = target'[t]]
  BY DEF MemTyped, Appending, LoadEnd, Put, Move, Free, Publish, PublishEnd, Notify
<1>4. Appending(t) => count' = count /\ at' = at
  BY DEF Appending, Put, Move, Free, Publish, PublishEnd, Notify
<1>5. LoadEnd(t) => target' = target
  BY DEF LoadEnd
<1> QED BY <1>1, <1>2, <1>3, <1>4, <1>5 DEF MemTyped, OthersStay

\* The sums of Counted, without the other thread's part.
Ledger(t) == Len(order) + One(Active(t)) - count[t]
Allowance(t) == Len(heap) + One(Moving(t)) - count[t]

LEMMA CountedStays ==
  ASSUME MemTyped, MemTyped', Counted, NEW t \in Thread, OthersStay(t),
         Ledger(t)' = Ledger(t), Allowance(t)' <= Allowance(t)
  PROVE  Counted'
<1> DEFINE n == Len(order)
           n1 == Len(order')
           h == Len(heap)
           h1 == Len(heap')
           a(u) == One(Active(u))
           a1(u) == One(Active(u))'
           m(u) == One(Moving(u))
           m1(u) == One(Moving(u))'
           x(u) == count[u]
           x1(u) == count'[u]
<1>1. n \in Nat /\ n1 \in Nat /\ h \in Nat /\ h1 \in Nat
  BY LenProperties DEF MemTyped
<1>2. \A u \in Thread : /\ a(u) \in Nat /\ a1(u) \in Nat /\ m(u) \in Nat /\ m1(u) \in Nat
                        /\ x(u) \in Nat /\ x1(u) \in Nat
  BY DEF MemTyped, One
<1>3. \A u \in Thread : u # t => a1(u) = a(u) /\ m1(u) = m(u) /\ x1(u) = x(u)
  BY DEF OthersStay, One, Active, Moving
<1>4. n1 + a1(t) - x1(t) = n + a(t) - x(t) /\ h1 + m1(t) - x1(t) <= h + m(t) - x(t)
  BY DEF Ledger, Allowance
<1>5. n + a("conn") + a("ui") = x("conn") + x("ui") /\ h + m("conn") + m("ui") <= x("conn") + x("ui")
  BY DEF Counted
<1>6. SUFFICES /\ n1 + a1("conn") + a1("ui") = x1("conn") + x1("ui")
               /\ h1 + m1("conn") + m1("ui") <= x1("conn") + x1("ui")
  BY DEF Counted
<1> HIDE DEF n, n1, h, h1, a, a1, m, m1, x, x1
<1>7. t \in {"conn", "ui"} /\ Thread = {"conn", "ui"}
  BY DEF Thread
<1> QED BY <1>1, <1>2, <1>3, <1>4, <1>5, <1>7

LEMMA LoadMem ==
  ASSUME MemInv, NEW t \in Thread, LoadEnd(t)
  PROVE  MemInv'
<1>1. MemTyped /\ Counted /\ Full /\ OnlySaid /\ Distinct
  BY DEF MemInv
<1>2. /\ OthersStay(t) /\ append' \in [Thread -> Step] /\ count' \in [Thread -> Nat]
      /\ target' = target
  BY <1>1, OthersLemma
<1>3. /\ heap' = heap /\ freed' = freed /\ begin' = begin /\ end' = end /\ order' = order
      /\ count[t] < Bound[t] /\ append[t] = "none"
  BY DEF LoadEnd, vector
<1>4. /\ count'[t] = count[t] + 1 /\ count[t] \in Nat /\ at'[t] = end
      /\ append'[t] = IF end[2] # Capacity(end[1]) THEN "put" ELSE "move"
  BY <1>1 DEF LoadEnd, MemTyped
<1>5. MemTyped'
  <2>1. at' \in [Thread -> (0..Len(heap)) \X (0..Len(order))]
    BY <1>1 DEF LoadEnd, MemTyped
  <2>2. \A u \in Thread : count'[u] <= Bound[u]
    <3>1. \A u \in Thread : u # t => count'[u] <= Bound[u]
      BY <1>1, <1>2 DEF OthersStay, MemTyped
    <3>2. count'[t] <= Bound[t]
      <4>1. Bound[t] \in Nat
        BY MessageLemma
      <4> QED BY <1>3, <1>4, <4>1
    <3> QED BY <3>1, <3>2
  <2>3. \A u \in Thread : append'[u] # "none" => count'[u] >= 1
    <3>1. \A u \in Thread : u # t /\ append'[u] # "none" => count'[u] >= 1
      BY <1>1, <1>2 DEF OthersStay, MemTyped
    <3> QED BY <1>4, <3>1
  <2> QED BY <1>1, <1>2, <1>3, <2>1, <2>2, <2>3 DEF MemTyped
<1>6. Counted'
  <2>1. ~Active(t) /\ Active(t)' /\ ~Moving(t) /\ Moving(t)'
    BY <1>3, <1>4 DEF Active, Moving
  <2>2. One(Active(t)) = 0 /\ One(Active(t))' = 1 /\ One(Moving(t)) = 0 /\ One(Moving(t))' = 1
    BY <2>1 DEF One
  <2>3. Len(order)' = Len(order) /\ Len(heap)' = Len(heap) /\ Len(order) \in Nat /\ Len(heap) \in Nat
    BY <1>1, <1>3, HeapLemma
  <2>4. Ledger(t)' = Ledger(t) /\ Allowance(t)' <= Allowance(t)
    BY <1>4, <2>2, <2>3 DEF Ledger, Allowance
  <2> QED BY <1>1, <1>2, <1>5, <2>4, CountedStays
<1>7. Full'
  <2>1. \A u \in Thread : /\ append[u] = "move" => at[u][2] = Capacity(at[u][1])
                          /\ append[u] = "free" => at[u][1] # 0
    BY <1>1 DEF Full
  <2>2. \A b : Capacity(b)' = Capacity(b)
    BY <1>3 DEF Capacity
  <2>3. ASSUME NEW u \in Thread
        PROVE  /\ append'[u] = "move" => at'[u][2] = Capacity(at'[u][1])
               /\ append'[u] = "free" => at'[u][1] # 0
    <3>1. CASE u = t
      BY <1>4, <3>1
    <3>2. CASE u # t
      BY <1>2, <2>1, <3>2 DEF OthersStay
    <3> QED BY <3>1, <3>2
  <2> QED BY <2>2, <2>3 DEF Full
<1>8. OnlySaid'
  <2>1. ASSUME NEW b \in DOMAIN heap, NEW i \in DOMAIN heap[b], heap[b][i] # Hole
        PROVE  /\ heap[b][i][2] <= count'[heap[b][i][1]]
               /\ \A u \in Thread : append'[u] \in {"put", "move"} => heap[b][i] # <<u, count'[u]>>
    <3> DEFINE m == heap[b][i]
    <3>1. m[2] <= count[m[1]] /\ \A u \in Thread : append[u] \in {"put", "move"} => m # <<u, count[u]>>
      BY <1>1, <2>1 DEF OnlySaid, Pending, Moving, Said
    <3>2. m[1] \in Thread /\ m[2] \in Nat
      <4>1. m \in Message
        BY <1>1, <2>1, HeapLemma
      <4> QED BY <4>1, MessageLemma
    <3> HIDE DEF m
    <3>3. m[2] <= count'[m[1]]
      <4>1. CASE m[1] = t
        BY <1>4, <3>1, <3>2, <4>1
      <4>2. CASE m[1] # t
        BY <1>2, <3>1, <3>2, <4>2 DEF OthersStay
      <4> QED BY <4>1, <4>2
    <3>4. m # <<t, count'[t]>>
      <4> SUFFICES ASSUME m = <<t, count'[t]>> PROVE FALSE
        OBVIOUS
      <4>1. m[1] = t /\ m[2] = count'[t]
        OBVIOUS
      <4> QED BY <1>4, <3>1, <4>1
    <3>5. \A u \in Thread : append'[u] \in {"put", "move"} => m # <<u, count'[u]>>
      BY <1>2, <3>1, <3>4 DEF OthersStay
    <3> QED BY <3>3, <3>5 DEF m
  <2> QED BY <1>3, <2>1 DEF OnlySaid, Pending, Moving, Said
<1>9. Distinct'
  BY <1>1, <1>3 DEF Distinct
<1> QED BY <1>5, <1>6, <1>7, <1>8, <1>9 DEF MemInv

\* Steps that leave the memory and what is due to it alone.
LEMMA SameMem ==
  ASSUME MemInv, MemTyped', NEW t \in Thread, OthersStay(t), UNCHANGED <<heap, count>>,
         Ledger(t)' = Ledger(t), append'[t] \notin {"put", "move", "free"}
  PROVE  MemInv'
<1>1. MemTyped /\ Counted /\ Full /\ OnlySaid /\ Distinct
  BY DEF MemInv
<1>2. ~Moving(t)' /\ \A u \in Thread : Moving(u)' => Moving(u)
  BY DEF OthersStay, Moving
<1>3. heap' = heap /\ count' = count
  OBVIOUS
<1>4. Counted'
  <2>1. Allowance(t)' <= Allowance(t)
    <3>1. Len(heap) \in Nat /\ count[t] \in Int
      BY <1>1, HeapLemma DEF MemTyped
    <3>2. One(Moving(t))' = 0 /\ One(Moving(t)) \in {0, 1}
      BY <1>2 DEF One
    <3>3. Len(heap)' = Len(heap)
      BY <1>3
    <3> QED BY <1>3, <3>1, <3>2, <3>3 DEF Allowance
  <2> QED BY <1>1, <2>1, CountedStays
<1>5. Full'
  <2>1. \A b : Capacity(b)' = Capacity(b)
    BY <1>3 DEF Capacity
  <2>2. \A u \in Thread : append'[u] \in {"move", "free"} => u # t
    OBVIOUS
  <2> QED BY <1>1, <2>1, <2>2 DEF Full, OthersStay
<1>6. OnlySaid'
  <2>1. \A u \in Thread : Said(u)' = Said(u)
    BY <1>3 DEF Said
  <2>2. \A m : Pending(m)' => Pending(m)
    BY <1>2, <2>1 DEF Pending
  <2> QED BY <1>1, <1>3, <2>2 DEF OnlySaid
<1>7. Distinct'
  BY <1>1, <1>3 DEF Distinct
<1> QED BY <1>4, <1>5, <1>6, <1>7 DEF MemInv

\* An append that is done is in the order.
LEMMA DoneLemma ==
  ASSUME MemTyped, NEW t \in Thread, append[t] # "none", Done(t)
  PROVE  /\ order' \in Seq(Message) /\ Len(order') = Len(order) + 1 /\ Said(t) \in Message
         /\ \A i \in 1..Len(order) : order'[i] = order[i]
         /\ order'[Len(order) + 1] = Said(t)
         /\ append'[t] = "notify" /\ ~Active(t)' /\ ~Moving(t)'
<1>1. Said(t) \in Message
  <2>1. count[t] \in Nat /\ count[t] <= Bound[t]
    BY DEF MemTyped
  <2>2. count[t] >= 1
    BY DEF MemTyped
  <2> QED BY <2>1, <2>2, MessageLemma DEF Said
<1>2. order' = Append(order, Said(t)) /\ append'[t] = "notify" /\ order \in Seq(Message)
  BY DEF Done, MemTyped
<1>3. ~Active(t)' /\ ~Moving(t)'
  BY <1>2 DEF Active, Moving
<1>4. /\ Append(order, Said(t)) \in Seq(Message)
      /\ Len(Append(order, Said(t))) = Len(order) + 1
      /\ \A i \in 1..Len(order) : Append(order, Said(t))[i] = order[i]
      /\ Append(order, Said(t))[Len(order) + 1] = Said(t)
  BY <1>1, <1>2, AppendProperties
<1> QED BY <1>1, <1>2, <1>3, <1>4

\* An element is put into a block.
LEMMA PutShape ==
  ASSUME NEW S, NEW h \in Seq(Seq(S)), NEW b \in 1..Len(h), NEW k \in 1..Len(h[b]), NEW m \in S,
         NEW g, g = [h EXCEPT ![b][k] = m]
  PROVE  /\ g \in Seq(Seq(S)) /\ Len(g) = Len(h)
         /\ \A c \in 1..Len(h) : Len(g[c]) = Len(h[c]) /\ DOMAIN g[c] = DOMAIN h[c]
         /\ \A c \in 1..Len(h) : \A i \in DOMAIN h[c] : g[c][i] = IF c = b /\ i = k THEN m ELSE h[c][i]
<1> DEFINE old == h[b]
           new == [old EXCEPT ![k] = m]
<1>1. old \in Seq(S) /\ DOMAIN old = 1..Len(old) /\ Len(old) \in Nat
  BY LenProperties
<1>2. new \in Seq(S) /\ Len(new) = Len(old)
  BY <1>1, ExceptSeq
<1>3. \A i \in DOMAIN old : new[i] = IF i = k THEN m ELSE old[i]
  BY <1>1
<1>4. DOMAIN new = DOMAIN old
  OBVIOUS
<1>5. g = [h EXCEPT ![b] = new]
  OBVIOUS
<1> HIDE DEF new
<1>6. g \in Seq(Seq(S)) /\ Len(g) = Len(h)
  BY <1>2, <1>5, ExceptSeq
<1>7. DOMAIN h = 1..Len(h)
  BY LenProperties
<1>8. \A c \in 1..Len(h) : g[c] = IF c = b THEN new ELSE h[c]
  BY <1>5, <1>7
<1> QED BY <1>2, <1>3, <1>4, <1>6, <1>8

LEMMA PutMem ==
  ASSUME MemInv, NEW t \in Thread, Put(t)
  PROVE  MemInv'
<1>1. MemTyped /\ Counted /\ Full /\ OnlySaid /\ Distinct
  BY DEF MemInv
<1>2. /\ OthersStay(t) /\ append' \in [Thread -> Step] /\ count' \in [Thread -> Nat]
      /\ count' = count /\ at' = at
  BY <1>1, OthersLemma DEF Appending
<1>3. append[t] = "put" /\ freed' = freed /\ begin' = begin /\ target' = target
  BY DEF Put
<1> DEFINE b == at[t][1]
           n == at[t][2]
           m == Said(t)
<1>4. CASE UNCHANGED <<heap, end, append, order>>
  BY <1>2, <1>3, <1>4, MemStays DEF vector, appending
<1>5. ASSUME b \notin freed, n < Capacity(b), heap' = [heap EXCEPT ![b][n + 1] = m],
             end' \in {<<b, n + 1>>, <<end[1], end[2] + 1>>}, Done(t)
      PROVE  MemInv'
  <2>1. b \in 0..Len(heap) /\ n \in 0..Len(order) /\ Len(heap) \in Nat /\ Len(order) \in Nat
    BY <1>1, HeapLemma DEF MemTyped
  <2>2. b \in 1..Len(heap) /\ n + 1 \in 1..Len(heap[b]) /\ heap \in Seq(Seq(Message \cup {Hole}))
    <3>1. Capacity(0) = 0 /\ \A c \in 1..Len(heap) : Capacity(c) = Len(heap[c]) /\ Len(heap[c]) \in Nat
      BY <1>1, HeapLemma
    <3>2. b # 0
      BY <1>5, <2>1, <3>1
    <3>3. b \in 1..Len(heap)
      BY <2>1, <3>2
    <3> QED BY <1>1, <1>5, <2>1, <3>1, <3>3 DEF MemTyped
  <2>3. /\ order' \in Seq(Message) /\ Len(order') = Len(order) + 1 /\ m \in Message
        /\ append'[t] = "notify" /\ ~Active(t)' /\ ~Moving(t)'
    BY <1>1, <1>3, <1>5, DoneLemma
  <2>4. /\ heap' \in Seq(Seq(Message \cup {Hole})) /\ Len(heap') = Len(heap)
        /\ \A c \in 1..Len(heap) : Len(heap'[c]) = Len(heap[c]) /\ DOMAIN heap'[c] = DOMAIN heap[c]
        /\ \A c \in 1..Len(heap) : \A i \in DOMAIN heap[c] :
             heap'[c][i] = IF c = b /\ i = n + 1 THEN m ELSE heap[c][i]
    BY <1>5, <2>2, <2>3, PutShape
  <2>5. DOMAIN heap = 1..Len(heap) /\ DOMAIN heap' = 1..Len(heap)
    BY <2>2, <2>4, LenProperties
  <2> HIDE DEF b, n, m
  <2>6. MemTyped'
    <3>1. end' \in (0..Len(heap')) \X (0..Len(order'))
      <4>1. end \in (0..Len(heap)) \X (0..Len(order))
        BY <1>1 DEF MemTyped
      <4>2. <<b, n + 1>> \in (0..Len(heap)) \X (0..Len(order) + 1)
        BY <2>1
      <4>3. <<end[1], end[2] + 1>> \in (0..Len(heap)) \X (0..Len(order) + 1)
        BY <2>1, <4>1
      <4> QED BY <1>5, <2>3, <2>4, <4>2, <4>3
    <3>2. at' \in [Thread -> (0..Len(heap')) \X (0..Len(order'))]
      <4>1. (0..Len(order)) \subseteq 0..Len(order')
        BY <2>1, <2>3
      <4> QED BY <1>1, <1>2, <2>4, <4>1 DEF MemTyped
    <3>3. \A u \in Thread : append'[u] # "none" => append[u] # "none"
      BY <1>2, <1>3 DEF OthersStay
    <3> QED BY <1>1, <1>2, <1>3, <2>3, <2>4, <2>5, <3>1, <3>2, <3>3 DEF MemTyped
  <2>7. Counted'
    <3>1. One(Active(t)) = 1 /\ One(Active(t))' = 0 /\ One(Moving(t)) = 1 /\ One(Moving(t))' = 0
      BY <1>3, <2>3 DEF One, Active, Moving
    <3>2. count[t] \in Int
      BY <1>1 DEF MemTyped
    <3>3. Ledger(t)' = Ledger(t) /\ Allowance(t)' <= Allowance(t)
      BY <1>2, <2>1, <2>3, <2>4, <3>1, <3>2 DEF Ledger, Allowance
    <3> QED BY <1>1, <1>2, <2>6, <3>3, CountedStays
  <2>8. Full'
    <3>1. \A c \in 0..Len(heap) : Capacity(c)' = Capacity(c)
      BY <2>4 DEF Capacity
    <3>2. \A u \in Thread : append'[u] \in {"move", "free"} => u # t
      BY <2>3
    <3>3. \A u \in Thread : at[u][1] \in 0..Len(heap)
      BY <1>1 DEF MemTyped
    <3> QED BY <1>1, <1>2, <3>1, <3>2, <3>3 DEF Full, OthersStay
  <2>9. \A x : Pending(x)' => Pending(x) /\ x # m
    <3>1. \A u \in Thread : Moving(u)' => u # t /\ Moving(u) /\ Said(u)' = Said(u)
      BY <1>2, <2>3 DEF OthersStay, Moving, Said
    <3> QED BY <3>1 DEF Pending, m, Said
  <2>10. OnlySaid'
    <3>1. ASSUME NEW c \in 1..Len(heap), NEW i \in DOMAIN heap[c],
                 NEW x, x = heap'[c][i], x # Hole
          PROVE  x[2] <= count[x[1]] /\ ~Pending(x)'
      <4>1. CASE c = b /\ i = n + 1
        <5>1. x = m
          BY <2>4, <3>1, <4>1
        <5>2. m[2] <= count[m[1]]
          BY <1>1 DEF m, Said, MemTyped
        <5> QED BY <2>9, <5>1, <5>2
      <4>2. CASE ~(c = b /\ i = n + 1)
        <5>1. x = heap[c][i]
          BY <2>4, <3>1, <4>2
        <5>2. x[2] <= count[x[1]] /\ ~Pending(x)
          BY <1>1, <2>5, <3>1, <5>1 DEF OnlySaid
        <5> QED BY <2>9, <5>2
      <4> QED BY <4>1, <4>2
    <3>2. \A c \in 1..Len(heap) : \A i \in DOMAIN heap'[c] :
            heap'[c][i] # Hole => heap'[c][i][2] <= count'[heap'[c][i][1]]
                                  /\ \A u \in Thread : ~(append'[u] \in {"put", "move"}
                                                         /\ heap'[c][i] = <<u, count'[u]>>)
      <4>1. \A x : ~Pending(x)' => \A u \in Thread : ~(append'[u] \in {"put", "move"} /\ x = <<u, count'[u]>>)
        BY DEF Pending, Moving, Said
      <4> QED BY <1>2, <2>4, <3>1, <4>1
    <3> QED BY <2>5, <3>2 DEF OnlySaid, Pending, Moving, Said
  <2>11. Distinct'
    <3>1. \A c \in 1..Len(heap) : \A i \in DOMAIN heap[c] : heap[c][i] # m
      <4>1. Pending(m) /\ m # Hole
        BY <1>3, <2>3, MessageLemma DEF Pending, Moving, m
      <4> QED BY <1>1, <2>5, <4>1 DEF OnlySaid
    <3> SUFFICES ASSUME NEW c \in 1..Len(heap), NEW d \in 1..Len(heap),
                        NEW i \in DOMAIN heap[c], NEW j \in DOMAIN heap[d],
                        heap'[c][i] = heap'[d][j], heap'[c][i] # Hole
                 PROVE  c = d /\ i = j
      BY <2>4, <2>5 DEF Distinct
    <3>2. \A x, y \in 1..Len(heap) : \A k \in DOMAIN heap[x], l \in DOMAIN heap[y] :
            heap[x][k] = heap[y][l] /\ heap[x][k] # Hole => x = y /\ k = l
      BY <1>1, <2>5 DEF Distinct
    <3>3. heap'[c][i] = IF c = b /\ i = n + 1 THEN m ELSE heap[c][i]
      BY <2>4
    <3>4. heap'[d][j] = IF d = b /\ j = n + 1 THEN m ELSE heap[d][j]
      BY <2>4
    <3>5. CASE c = b /\ i = n + 1
      <4>1. heap'[d][j] = m
        BY <3>3, <3>5
      <4>2. d = b /\ j = n + 1
        BY <3>1, <3>4, <4>1
      <4> QED BY <3>5, <4>2
    <3>6. CASE ~(c = b /\ i = n + 1)
      <4>1. heap[c][i] = heap'[d][j] /\ heap[c][i] # Hole /\ heap[c][i] # m
        BY <3>1, <3>3, <3>6
      <4>2. heap[d][j] = heap'[d][j]
        BY <3>4, <4>1
      <4> QED BY <3>2, <4>1, <4>2
    <3> QED BY <3>5, <3>6
  <2> QED BY <2>6, <2>7, <2>8, <2>10, <2>11 DEF MemInv
<1>6. n \in Nat /\ Capacity(b) \in Nat
  <2>1. b \in 0..Len(heap) /\ n \in 0..Len(order)
    BY <1>1 DEF MemTyped
  <2> QED BY <1>1, <2>1, HeapLemma
<1>7. \/ b \notin freed /\ ~(n >= Capacity(b)) /\ heap' = [heap EXCEPT ![b][n + 1] = m]
         /\ end' \in {<<b, n + 1>>, <<end[1], end[2] + 1>>} /\ Done(t)
      \/ UNCHANGED <<heap, end, append, order>>
  BY DEF Put
<1> QED BY <1>4, <1>5, <1>6, <1>7

\* A sequence is one over a larger set too.
LEMMA SeqWider ==
  ASSUME NEW S, NEW T, S \subseteq T, NEW s \in Seq(S)
  PROVE  s \in Seq(T)
<1>1. Len(s) \in Nat /\ s \in [1..Len(s) -> T]
  OBVIOUS
<1> QED BY <1>1

LEMMA HolesLemma ==
  ASSUME NEW k \in Nat
  PROVE  /\ Holes(k) \in Seq({Hole}) /\ Len(Holes(k)) = k
         /\ \A i \in 1..k : Holes(k)[i] = Hole
<1>1. Holes(k) \in [1..k -> {Hole}]
  BY DEF Holes
<1>2. Holes(k) \in Seq({Hole})
  BY <1>1
<1>3. Len(Holes(k)) = k
  BY <1>1, <1>2, LenProperties
<1> QED BY <1>2, <1>3 DEF Holes

\* The new block s: the elements of the old one, the new element, and room.
IsBlock(s, S, old, n, m, k) ==
  /\ s \in Seq(S) /\ Len(s) = n + 1 + k
  /\ \A i \in 1..n : s[i] = old[i]
  /\ s[n + 1] = m
  /\ \A i \in DOMAIN s : i \notin 1..n + 1 => s[i] = Hole

LEMMA NewBlock ==
  ASSUME NEW S, NEW old \in Seq(S), NEW m \in S, Hole \in S, NEW k \in Nat
  PROVE  IsBlock(old \o <<m>> \o Holes(k), S, old, Len(old), m, k)
<1> DEFINE n == Len(old)
           p == old \o <<m>>
           h == Holes(k)
           s == p \o h
<1>1. n \in Nat
  BY LenProperties
<1>2. h \in Seq(S) /\ Len(h) = k /\ \A i \in 1..k : h[i] = Hole
  <2>1. h \in Seq({Hole}) /\ {Hole} \subseteq S
    BY HolesLemma
  <2>2. h \in Seq(S)
    BY <2>1, SeqWider
  <2> QED BY <2>2, HolesLemma
<1>3. /\ p \in Seq(S) /\ Len(p) = n + 1
      /\ \A i \in 1..n : p[i] = old[i]
      /\ p[n + 1] = m
  <2>1. <<m>> \in Seq(S) /\ Len(<<m>>) = 1 /\ <<m>>[1] = m
    OBVIOUS
  <2>2. /\ p \in Seq(S) /\ Len(p) = n + 1
        /\ \A i \in 1..n + 1 : p[i] = IF i <= n THEN old[i] ELSE <<m>>[i - n]
    BY <2>1, ConcatProperties
  <2> QED BY <1>1, <2>1, <2>2
<1> HIDE DEF p, h, n
<1>4. /\ s \in Seq(S) /\ Len(s) = n + 1 + k
      /\ \A i \in 1..n + 1 + k : s[i] = IF i <= n + 1 THEN p[i] ELSE h[i - (n + 1)]
  <2>1. /\ p \o h \in Seq(S) /\ Len(p \o h) = Len(p) + Len(h)
        /\ \A i \in 1..Len(p) + Len(h) : (p \o h)[i] = IF i <= Len(p) THEN p[i] ELSE h[i - Len(p)]
    BY <1>2, <1>3, ConcatProperties
  <2>2. Len(p) = n + 1 /\ Len(h) = k
    BY <1>2, <1>3
  <2> QED BY <2>1, <2>2
<1>5. \A i \in DOMAIN s : i \notin 1..n + 1 => s[i] = Hole
  <2>1. DOMAIN s = 1..n + 1 + k
    BY <1>4, LenProperties
  <2> QED BY <1>1, <1>2, <1>4, <2>1
<1>6. (\A i \in 1..n : s[i] = old[i]) /\ s[n + 1] = m
  BY <1>1, <1>3, <1>4
<1>7. IsBlock(s, S, old, n, m, k)
  BY <1>4, <1>5, <1>6 DEF IsBlock
<1> QED BY <1>7 DEF n, p, h

\* The elements of block b are moved to a new block N, and m is put behind them.
Moves(g, b, n, m, N) ==
  /\ g \in Seq(Seq(Message \cup {Hole})) /\ Len(g) = N
  /\ \A c \in 1..Len(heap) : /\ Len(g[c]) = Len(heap[c]) /\ DOMAIN g[c] = DOMAIN heap[c]
                             /\ \A i \in DOMAIN heap[c] :
                                  g[c][i] = IF c = b THEN Hole ELSE heap[c][i]
  /\ Len(g[N]) \in Nat /\ n + 1 <= Len(g[N]) /\ DOMAIN g[N] = 1..Len(g[N])
  /\ \A i \in 1..n : b # 0 /\ i \in DOMAIN heap[b] /\ g[N][i] = heap[b][i]
  /\ g[N][n + 1] = m
  /\ \A i \in DOMAIN g[N] : i \notin 1..n + 1 => g[N][i] = Hole

LEMMA MoveShape ==
  ASSUME MemTyped, NEW b \in 0..Len(heap), NEW n \in Nat, n = Capacity(b), NEW m \in Message
  PROVE  Moves(Relocated(b, n, m), b, n, m, Len(heap) + 1)
<1> DEFINE S == Message \cup {Hole}
           k == IF n = 0 THEN 0 ELSE n - 1
           old == IF b = 0 THEN <<>> ELSE SubSeq(heap[b], 1, n)
           emptied == IF b = 0 THEN heap ELSE [heap EXCEPT ![b] = Holes(Len(heap[b]))]
           new == old \o <<m>> \o Holes(k)
           N == Len(heap) + 1
           g == Relocated(b, n, m)
<1>1. /\ Len(heap) \in Nat /\ DOMAIN heap = 1..Len(heap) /\ heap \in Seq(Seq(S))
      /\ \A c \in 1..Len(heap) : /\ heap[c] \in Seq(S) /\ Len(heap[c]) \in Nat
                                 /\ DOMAIN heap[c] = 1..Len(heap[c]) /\ Capacity(c) = Len(heap[c])
      /\ Capacity(0) = 0
  BY HeapLemma DEF MemTyped
<1>2. /\ old \in Seq(S) /\ Len(old) = n
      /\ \A i \in 1..n : b # 0 /\ i \in DOMAIN heap[b] /\ old[i] = heap[b][i]
  <2>1. CASE b = 0
    <3>1. n = 0 /\ old = <<>>
      BY <1>1, <2>1
    <3> QED BY <3>1, EmptySeq
  <2>2. CASE b # 0
    <3>1. b \in 1..Len(heap)
      BY <2>2
    <3>2. heap[b] \in Seq(S) /\ n = Len(heap[b]) /\ DOMAIN heap[b] = 1..n
      BY <1>1, <3>1
    <3>3. old = SubSeq(heap[b], 1, n)
      BY <2>2
    <3>4. SubSeq(heap[b], 1, n) = heap[b]
      BY <3>2
    <3> QED BY <2>2, <3>2, <3>3, <3>4
  <2> QED BY <2>1, <2>2
<1>3. k \in Nat
  OBVIOUS
<1> HIDE DEF old, k
<1>4. /\ new \in Seq(S) /\ Len(new) = n + 1 + k
      /\ \A i \in 1..n : new[i] = old[i]
      /\ new[n + 1] = m
      /\ \A i \in DOMAIN new : i \notin 1..n + 1 => new[i] = Hole
  <2>1. m \in S /\ Hole \in S /\ old \in Seq(S) /\ n = Len(old)
    BY <1>2
  <2> HIDE DEF S
  <2>2. IsBlock(new, S, old, Len(old), m, k)
    BY <1>3, <2>1, NewBlock
  <2>3. IsBlock(new, S, old, n, m, k)
    BY <2>1, <2>2
  <2> HIDE DEF new
  <2> QED BY <2>3 DEF IsBlock
<1>5. /\ emptied \in Seq(Seq(S)) /\ Len(emptied) = Len(heap)
      /\ \A c \in 1..Len(heap) : emptied[c] = IF c = b THEN Holes(Len(heap[c])) ELSE heap[c]
  <2>1. CASE b = 0
    BY <1>1, <2>1
  <2>2. CASE b # 0
    <3>1. b \in 1..Len(heap)
      BY <2>2
    <3> DEFINE e == Holes(Len(heap[b]))
    <3>2. e \in Seq(S)
      <4>1. e \in Seq({Hole}) /\ {Hole} \subseteq S
        BY <1>1, <3>1, HolesLemma
      <4> QED BY <4>1
    <3> HIDE DEF e
    <3>3. emptied = [heap EXCEPT ![b] = e]
      BY <2>2 DEF e
    <3>4. /\ [heap EXCEPT ![b] = e] \in Seq(Seq(S)) /\ Len([heap EXCEPT ![b] = e]) = Len(heap)
      BY <1>1, <3>1, <3>2, ExceptSeq
    <3>5. \A c \in 1..Len(heap) : [heap EXCEPT ![b] = e][c] = IF c = b THEN e ELSE heap[c]
      BY <1>1
    <3> QED BY <3>3, <3>4, <3>5 DEF e
  <2> QED BY <2>1, <2>2
<1>6. g = Append(emptied, new)
  BY DEF Relocated, old, k
<1> HIDE DEF new, emptied, g
<1>7. /\ g \in Seq(Seq(S)) /\ Len(g) = N
      /\ \A c \in 1..Len(heap) : g[c] = emptied[c]
      /\ g[N] = new
  BY <1>4, <1>5, <1>6, AppendProperties
<1>8. ASSUME NEW c \in 1..Len(heap)
      PROVE  /\ Len(g[c]) = Len(heap[c]) /\ DOMAIN g[c] = DOMAIN heap[c]
             /\ \A i \in DOMAIN heap[c] : g[c][i] = IF c = b THEN Hole ELSE heap[c][i]
  <2>1. CASE c = b
    <3>1. g[c] = Holes(Len(heap[c])) /\ Len(heap[c]) \in Nat /\ DOMAIN heap[c] = 1..Len(heap[c])
      BY <1>1, <1>5, <1>7, <2>1
    <3>2. DOMAIN Holes(Len(heap[c])) = 1..Len(heap[c])
      BY DEF Holes
    <3> QED BY <2>1, <3>1, <3>2, HolesLemma
  <2>2. CASE c # b
    BY <1>5, <1>7, <2>2
  <2> QED BY <2>1, <2>2
<1>9. Len(new) \in Nat /\ n + 1 <= Len(new) /\ DOMAIN new = 1..Len(new)
  BY <1>3, <1>4, LenProperties
<1>10. Moves(g, b, n, m, N)
  BY <1>2, <1>4, <1>7, <1>8, <1>9 DEF Moves
<1> QED BY <1>10 DEF g

LEMMA MoveMem ==
  ASSUME MemInv, NEW t \in Thread, Move(t)
  PROVE  MemInv'
<1>1. MemTyped /\ Counted /\ Full /\ OnlySaid /\ Distinct
  BY DEF MemInv
<1>2. /\ OthersStay(t) /\ append' \in [Thread -> Step] /\ count' \in [Thread -> Nat]
      /\ count' = count /\ at' = at
  BY <1>1, OthersLemma DEF Appending
<1>3. append[t] = "move" /\ UNCHANGED <<freed, begin, end, order>>
  BY DEF Move
<1> DEFINE b == at[t][1]
           n == at[t][2]
           m == Said(t)
           N == Len(heap) + 1
<1>4. CASE UNCHANGED <<heap, append, target>>
  BY <1>2, <1>3, <1>4, MemStays DEF vector, appending
<1>5. ASSUME heap' = Relocated(b, n, m), target' = [target EXCEPT ![t] = N],
             append' = [append EXCEPT ![t] = IF b = 0 THEN "publish" ELSE "free"]
      PROVE  MemInv'
  <2>1. b \in 0..Len(heap) /\ n \in 0..Len(order) /\ Len(heap) \in Nat /\ Len(order) \in Nat
        /\ n \in Nat /\ n = Capacity(b)
    BY <1>1, <1>3, HeapLemma DEF MemTyped, Full
  <2>2. m \in Message /\ count[t] \in Nat
    <3>1. count[t] \in Nat /\ count[t] <= Bound[t] /\ count[t] >= 1
      BY <1>1, <1>3 DEF MemTyped
    <3> QED BY <3>1, MessageLemma DEF Said
  <2>3. append'[t] \in {"publish", "free"}
    BY <1>1, <1>5 DEF MemTyped
  <2>4. /\ heap' \in Seq(Seq(Message \cup {Hole})) /\ Len(heap') = N
        /\ \A c \in 1..Len(heap) : /\ Len(heap'[c]) = Len(heap[c]) /\ DOMAIN heap'[c] = DOMAIN heap[c]
                                   /\ \A i \in DOMAIN heap[c] :
                                        heap'[c][i] = IF c = b THEN Hole ELSE heap[c][i]
        /\ \A i \in 1..n : b # 0 /\ i \in DOMAIN heap[b] /\ heap'[N][i] = heap[b][i]
        /\ heap'[N][n + 1] = m
        /\ \A i \in DOMAIN heap'[N] : i \notin 1..n + 1 => heap'[N][i] = Hole
    <3>1. Moves(Relocated(b, n, m), b, n, m, N)
      BY <1>1, <2>1, <2>2, MoveShape
    <3> HIDE DEF b, n, m, N
    <3> QED BY <1>5, <3>1 DEF Moves
  <2>5. DOMAIN heap = 1..Len(heap) /\ DOMAIN heap' = 1..N
    BY <1>1, <2>4, HeapLemma, LenProperties
  <2> HIDE DEF b, n, m
  <2>6. MemTyped'
    <3>1. (0..Len(heap)) \subseteq 0..Len(heap') /\ DOMAIN heap \subseteq DOMAIN heap'
      BY <2>1, <2>4, <2>5
    <3>2. target' \in [Thread -> 0..Len(heap')]
      <4>1. N \in 0..Len(heap') /\ target \in [Thread -> 0..Len(heap')]
        BY <1>1, <2>1, <2>4, <3>1 DEF MemTyped
      <4> QED BY <1>5, <4>1
    <3>3. /\ end \in (0..Len(heap')) \X (0..Len(order))
          /\ at \in [Thread -> (0..Len(heap')) \X (0..Len(order))]
          /\ begin \in 0..Len(heap') /\ freed \subseteq DOMAIN heap'
      BY <1>1, <3>1 DEF MemTyped
    <3>4. \A u \in Thread : append'[u] # "none" => append[u] # "none"
      BY <1>2, <1>3 DEF OthersStay
    <3>5. order' = order /\ end' = end /\ begin' = begin /\ freed' = freed
      BY <1>3
    <3> QED BY <1>1, <1>2, <2>4, <3>2, <3>3, <3>4, <3>5 DEF MemTyped
  <2>7. Counted'
    <3>1. Active(t) /\ Active(t)' /\ Moving(t) /\ ~Moving(t)'
      BY <1>3, <2>3 DEF Active, Moving
    <3>2. One(Active(t)) = 1 /\ One(Active(t))' = 1 /\ One(Moving(t)) = 1 /\ One(Moving(t))' = 0
      BY <3>1 DEF One
    <3>3. Len(order)' = Len(order) /\ Len(heap)' = Len(heap) + 1
      BY <1>3, <2>4
    <3>4. Ledger(t)' = Ledger(t) /\ Allowance(t)' <= Allowance(t)
      BY <1>2, <2>1, <2>2, <3>2, <3>3 DEF Ledger, Allowance
    <3> QED BY <1>1, <1>2, <2>6, <3>4, CountedStays
  <2>8. Full'
    <3>1. \A c \in 0..Len(heap) : Capacity(c)' = Capacity(c)
      BY <2>4 DEF Capacity
    <3>2. \A u \in Thread : append'[u] = "move" => u # t
      BY <2>3
    <3>3. append'[t] = "free" => at'[t][1] # 0
      BY <1>1, <1>2, <1>5 DEF b, MemTyped
    <3>4. \A u \in Thread : at[u][1] \in 0..Len(heap)
      BY <1>1 DEF MemTyped
    <3> QED BY <1>1, <1>2, <3>1, <3>2, <3>3, <3>4 DEF Full, OthersStay
  <2>9. \A x : Pending(x)' => Pending(x) /\ x # m
    <3>1. \A u \in Thread : Moving(u)' => u # t /\ Moving(u) /\ Said(u)' = Said(u)
      BY <1>2, <2>3 DEF OthersStay, Moving, Said
    <3> QED BY <3>1 DEF Pending, m, Said
  <2> DEFINE From(x, c, i) ==
               \/ c \in 1..Len(heap) /\ c # b /\ i \in DOMAIN heap[c] /\ x = heap[c][i]
               \/ c = N /\ b \in 1..Len(heap) /\ i \in 1..n /\ i \in DOMAIN heap[b] /\ x = heap[b][i]
               \/ c = N /\ i = n + 1 /\ x = m
  <2>10. ASSUME NEW c \in 1..N, NEW i \in DOMAIN heap'[c], NEW x, x = heap'[c][i], x # Hole
         PROVE  From(x, c, i)
    <3>1. CASE c = N
      <4>1. i \in 1..n + 1
        BY <2>4, <2>10, <3>1
      <4>2. i \in 1..n \/ i = n + 1
        BY <2>1, <4>1
      <4> QED BY <2>1, <2>4, <2>10, <3>1, <4>2
    <3>2. CASE c # N
      <4>1. c \in 1..Len(heap)
        BY <2>1, <3>2
      <4>2. i \in DOMAIN heap[c] /\ heap'[c][i] = IF c = b THEN Hole ELSE heap[c][i]
        BY <2>4, <2>10, <4>1
      <4> QED BY <2>10, <4>1, <4>2
    <3> QED BY <3>1, <3>2
  <2>11. OnlySaid'
    <3>1. ASSUME NEW x, NEW c, NEW i, From(x, c, i), x # Hole
          PROVE  x[2] <= count[x[1]] /\ ~Pending(x)'
      <4>1. CASE x = m
        <5>1. m[2] <= count[m[1]]
          BY <2>2 DEF m, Said
        <5> QED BY <2>9, <4>1, <5>1
      <4>2. CASE \E d \in 1..Len(heap) : \E j \in DOMAIN heap[d] : x = heap[d][j]
        <5>1. x[2] <= count[x[1]] /\ ~Pending(x)
          BY <1>1, <2>5, <3>1, <4>2 DEF OnlySaid
        <5> QED BY <2>9, <5>1
      <4> QED BY <3>1, <4>1, <4>2
    <3> HIDE DEF From
    <3>2. \A c \in 1..N : \A i \in DOMAIN heap'[c] :
            heap'[c][i] # Hole => heap'[c][i][2] <= count'[heap'[c][i][1]]
                                  /\ \A u \in Thread : ~(append'[u] \in {"put", "move"}
                                                         /\ heap'[c][i] = <<u, count'[u]>>)
      <4>1. \A x : ~Pending(x)' => \A u \in Thread : ~(append'[u] \in {"put", "move"} /\ x = <<u, count'[u]>>)
        BY DEF Pending, Moving, Said
      <4> QED BY <1>2, <2>10, <3>1, <4>1
    <3> QED BY <2>5, <3>2 DEF OnlySaid, Pending, Moving, Said
  <2>12. Distinct'
    <3>1. \A c \in 1..Len(heap) : \A i \in DOMAIN heap[c] : heap[c][i] # m
      <4>1. Pending(m) /\ m # Hole
        BY <1>3, <2>2, MessageLemma DEF Pending, Moving, m
      <4> QED BY <1>1, <2>5, <4>1 DEF OnlySaid
    <3>2. \A x, y \in 1..Len(heap) : \A k \in DOMAIN heap[x], l \in DOMAIN heap[y] :
            heap[x][k] = heap[y][l] /\ heap[x][k] # Hole => x = y /\ k = l
      BY <1>1, <2>5 DEF Distinct
    <3>3. ASSUME NEW x, x # Hole, NEW c, NEW d, NEW i, NEW j, From(x, c, i), From(x, d, j)
          PROVE  c = d /\ i = j
      <4>1. CASE x = m
        BY <3>1, <3>3, <4>1
      <4>2. CASE x # m
        <5>1. PICK k \in 1..Len(heap) : /\ i \in DOMAIN heap[k] /\ x = heap[k][i]
                                        /\ c = IF k = b THEN N ELSE k
          BY <3>3, <4>2
        <5>2. PICK l \in 1..Len(heap) : /\ j \in DOMAIN heap[l] /\ x = heap[l][j]
                                        /\ d = IF l = b THEN N ELSE l
          BY <3>3, <4>2
        <5>3. heap[k][i] = heap[l][j] /\ heap[k][i] # Hole
          BY <3>3, <5>1, <5>2
        <5>4. k = l /\ i = j
          BY <3>2, <5>1, <5>2, <5>3
        <5> QED BY <5>1, <5>2, <5>4
      <4> QED BY <4>1, <4>2
    <3> HIDE DEF From
    <3> SUFFICES ASSUME NEW c \in 1..N, NEW d \in 1..N,
                        NEW i \in DOMAIN heap'[c], NEW j \in DOMAIN heap'[d],
                        heap'[c][i] = heap'[d][j], heap'[c][i] # Hole
                 PROVE  c = d /\ i = j
      BY <2>5 DEF Distinct
    <3> QED BY <2>10, <3>3
  <2> QED BY <2>6, <2>7, <2>8, <2>11, <2>12 DEF MemInv
<1>6. \/ UNCHANGED <<heap, append, target>>
      \/ heap' = Relocated(b, n, m) /\ target' = [target EXCEPT ![t] = N]
         /\ append' = [append EXCEPT ![t] = IF b = 0 THEN "publish" ELSE "free"]
  BY DEF Move
<1> QED BY <1>4, <1>5, <1>6

LEMMA FreeMem ==
  ASSUME MemInv, NEW t \in Thread, Free(t)
  PROVE  MemInv'
<1>1. MemTyped /\ Full
  BY DEF MemInv
<1>2. /\ OthersStay(t) /\ append' \in [Thread -> Step] /\ count' = count /\ at' = at
  BY <1>1, OthersLemma DEF Appending
<1>3. append[t] = "free" /\ UNCHANGED <<heap, begin, end, target, order>>
  BY DEF Free
<1>4. CASE UNCHANGED <<freed, append>>
  BY <1>2, <1>3, <1>4, MemStays DEF vector, appending
<1>5. ASSUME freed' = freed \cup {at[t][1]}, append' = [append EXCEPT ![t] = "publish"]
      PROVE  MemInv'
  <2>1. at[t][1] \in DOMAIN heap
    <3>1. at[t][1] \in 0..Len(heap) /\ at[t][1] # 0
      BY <1>1, <1>3 DEF MemTyped, Full
    <3> QED BY <1>1, <3>1, HeapLemma
  <2>2. \A u \in Thread : append'[u] # "none" => append[u] # "none"
    BY <1>2, <1>3 DEF OthersStay
  <2>3. MemTyped'
    BY <1>1, <1>2, <1>3, <1>5, <2>1, <2>2 DEF MemTyped
  <2>4. append'[t] = "publish"
    BY <1>1, <1>5 DEF MemTyped
  <2>5. One(Active(t))' = One(Active(t))
    BY <1>3, <2>4 DEF One, Active
  <2>6. Ledger(t)' = Ledger(t)
    BY <1>2, <1>3, <2>5 DEF Ledger
  <2> QED BY <1>2, <1>3, <2>3, <2>4, <2>6, SameMem
<1>6. \/ UNCHANGED <<freed, append>>
      \/ freed' = freed \cup {at[t][1]} /\ append' = [append EXCEPT ![t] = "publish"]
  BY DEF Free
<1> QED BY <1>4, <1>5, <1>6

LEMMA PublishMem ==
  ASSUME MemInv, NEW t \in Thread, Publish(t) \/ Notify(t)
  PROVE  MemInv'
<1>1. MemTyped
  BY DEF MemInv
<1>2. /\ OthersStay(t) /\ append' \in [Thread -> Step] /\ count' = count /\ at' = at
  BY <1>1, OthersLemma DEF Appending
<1>3. /\ append[t] # "none" /\ UNCHANGED <<heap, freed, end, target, order>>
      /\ begin' \in {begin, target[t]}
  BY DEF Publish, Notify, vector
<1>4. append'[t] \in {"publishEnd", "none"} /\ One(Active(t))' = One(Active(t))
  BY <1>1 DEF Publish, Notify, MemTyped, One, Active
<1>5. MemTyped'
  <2>1. begin' \in 0..Len(heap)
    BY <1>1, <1>3 DEF MemTyped
  <2>2. \A u \in Thread : append'[u] # "none" => append[u] # "none"
    BY <1>2, <1>3 DEF OthersStay
  <2> QED BY <1>1, <1>2, <1>3, <2>1, <2>2 DEF MemTyped
<1>6. Ledger(t)' = Ledger(t)
  BY <1>2, <1>3, <1>4 DEF Ledger
<1> QED BY <1>2, <1>3, <1>4, <1>5, <1>6, SameMem

LEMMA PublishEndMem ==
  ASSUME MemInv, NEW t \in Thread, PublishEnd(t)
  PROVE  MemInv'
<1>1. MemTyped
  BY DEF MemInv
<1>2. /\ OthersStay(t) /\ append' \in [Thread -> Step] /\ count' = count /\ at' = at
  BY <1>1, OthersLemma DEF Appending
<1>3. /\ append[t] = "publishEnd" /\ UNCHANGED <<heap, freed, begin, target>>
      /\ end' = <<target[t], at[t][2] + 1>> /\ Done(t)
  BY DEF PublishEnd
<1>4. /\ order' \in Seq(Message) /\ Len(order') = Len(order) + 1
      /\ append'[t] = "notify" /\ ~Active(t)'
  BY <1>1, <1>3, DoneLemma
<1>5. Len(order) \in Nat /\ count[t] \in Nat
  BY <1>1, HeapLemma DEF MemTyped
<1>6. MemTyped'
  <2>1. end' \in (0..Len(heap)) \X (0..Len(order'))
    <3>1. target[t] \in 0..Len(heap) /\ at[t][2] \in 0..Len(order)
      BY <1>1 DEF MemTyped
    <3>2. at[t][2] + 1 \in 0..Len(order')
      BY <1>4, <1>5, <3>1
    <3> QED BY <1>3, <3>1, <3>2
  <2>2. at' \in [Thread -> (0..Len(heap)) \X (0..Len(order'))]
    <3>1. (0..Len(order)) \subseteq 0..Len(order')
      BY <1>4, <1>5
    <3> QED BY <1>1, <1>2, <3>1 DEF MemTyped
  <2>3. \A u \in Thread : append'[u] # "none" => append[u] # "none"
    BY <1>2, <1>3 DEF OthersStay
  <2> QED BY <1>1, <1>2, <1>3, <1>4, <2>1, <2>2, <2>3 DEF MemTyped
<1>7. Ledger(t)' = Ledger(t)
  <2>1. One(Active(t)) = 1 /\ One(Active(t))' = 0
    BY <1>3, <1>4 DEF One, Active
  <2> QED BY <1>2, <1>4, <1>5, <2>1 DEF Ledger
<1> QED BY <1>2, <1>3, <1>4, <1>6, <1>7, SameMem

LEMMA MemStep ==
  ASSUME MemInv, ViewNext
  PROVE  MemInv'
<1>1. ASSUME NEW t \in Thread, LoadEnd(t) \/ Appending(t) PROVE MemInv'
  BY <1>1, LoadMem, PutMem, MoveMem, FreeMem, PublishMem, PublishEndMem DEF Appending
<1>2. ASSUME UNCHANGED <<vector, appending, order>> PROVE MemInv'
  BY <1>2, MemStays
<1>3. "conn" \in Thread /\ "ui" \in Thread
  BY DEF Thread
<1>4. CASE Conn \/ Appending("ui") \/ Say
  BY <1>1, <1>3, <1>4 DEF Conn, Say
<1>5. CASE Enter \/ Leave \/ \E key \in Keys : Scroll(key)
  BY <1>2, <1>5 DEF Enter, Leave, Scroll
<1>6. CASE Drawing
  BY <1>2, <1>6 DEF Drawing, BeginFrame, Check, Measure, Copy
<1> QED BY <1>4, <1>5, <1>6 DEF ViewNext, User

-----------------------------------------------------------------------------
(* The frames.                                                              *)

\* The order grows only.
Grows == /\ Len(order) \in Nat /\ Len(order') \in Nat /\ Len(order) <= Len(order')
         /\ \A i \in 1..Len(order) : order'[i] = order[i]

LEMMA GrowsLemma ==
  ASSUME MemTyped, NEW t \in Thread, LoadEnd(t) \/ Appending(t)
  PROVE  Grows
<1>1. Len(order) \in Nat
  BY HeapLemma
<1>2. CASE Put(t) \/ PublishEnd(t)
  <2>1. order' = order \/ Done(t)
    BY <1>2 DEF Put, PublishEnd
  <2>2. append[t] # "none"
    BY <1>2 DEF Put, PublishEnd
  <2>3. ASSUME Done(t) PROVE Grows
    <3>1. /\ Len(order') = Len(order) + 1
          /\ \A i \in 1..Len(order) : order'[i] = order[i]
      BY <2>2, <2>3, DoneLemma
    <3> QED BY <1>1, <3>1 DEF Grows
  <2> QED BY <1>1, <2>1, <2>3 DEF Grows
<1>3. CASE ~(Put(t) \/ PublishEnd(t))
  <2>1. order' = order
    BY <1>3 DEF Appending, LoadEnd, Move, Free, Publish, Notify
  <2> QED BY <1>1, <2>1 DEF Grows
<1> QED BY <1>2, <1>3

\* What a thread's append leaves alone of the frame.
LEMMA AppendFrame ==
  ASSUME MemTyped, FrameInv, NEW t \in Thread, LoadEnd(t) \/ Appending(t),
         t = "ui" => ui = "idle"
  PROVE  FrameInv' /\ UNCHANGED <<framing, selected>>
<1>1. /\ UNCHANGED <<ui, measured, drawn, size, selected, screen>> /\ event' \in {event, TRUE}
      /\ process' \in {process, "undefined"} /\ torn' \in BOOLEAN
  BY DEF FrameInv, Appending, LoadEnd, Put, Move, Free, Publish, PublishEnd, Notify, framing
<1>2. Grows /\ OthersStay(t)
  BY GrowsLemma, OthersLemma
<1>3. measured' \in 0..Len(order')
  BY <1>1, <1>2 DEF FrameInv, Grows
<1>4. ui' # "idle" => append'["ui"] = "none"
  <2>1. ui' # "idle" => t # "ui"
    BY <1>1
  <2> QED BY <1>1, <1>2, <2>1 DEF FrameInv, OthersStay, Thread
<1>5. NeverTwice'
  BY <1>1 DEF FrameInv, NeverTwice
<1>6. FrameInv'
  BY <1>1, <1>3, <1>4, <1>5 DEF FrameInv
<1> QED BY <1>1, <1>6 DEF framing

\* What a copy reads, if there is no hole in it, are messages, each once.
LEMMA ContentLemma ==
  ASSUME MemInv, NEW n \in Nat, Hole \notin ToSet(Content(n))
  PROVE  Content(n) \in Seq(Message) /\ IsInjective(Content(n)) /\ Len(Content(n)) = n
<1> DEFINE s == Content(n)
<1>1. MemTyped /\ Distinct
  BY DEF MemInv
<1>2. DOMAIN s = 1..n /\ \A i \in 1..n : s[i] = IF i <= Capacity(begin) THEN heap[begin][i] ELSE Hole
  BY DEF Content
<1>3. \A i \in 1..n : s[i] # Hole
  BY <1>2 DEF ToSet
<1> HIDE DEF s
<1>4. ASSUME NEW i \in 1..n
      PROVE  begin \in DOMAIN heap /\ i \in DOMAIN heap[begin] /\ s[i] = heap[begin][i] /\ s[i] \in Message
  <2>1. i <= Capacity(begin) /\ s[i] = heap[begin][i]
    BY <1>2, <1>3
  <2>2. begin \in 0..Len(heap)
    BY <1>1 DEF MemTyped
  <2>3. begin # 0
    BY <1>1, <2>1, HeapLemma
  <2>4. begin \in 1..Len(heap)
    BY <2>2, <2>3
  <2>5. /\ begin \in DOMAIN heap /\ Capacity(begin) = Len(heap[begin]) /\ Len(heap[begin]) \in Nat
        /\ DOMAIN heap[begin] = 1..Len(heap[begin]) /\ heap[begin] \in Seq(Message \cup {Hole})
    BY <1>1, <2>4, HeapLemma
  <2>6. i \in DOMAIN heap[begin]
    BY <2>1, <2>5
  <2>7. heap[begin][i] \in Message \cup {Hole}
    BY <2>5, <2>6
  <2> QED BY <1>3, <2>1, <2>5, <2>6, <2>7
<1>5. s \in Seq(Message) /\ Len(s) = n
  <2>1. s = [i \in 1..n |-> s[i]]
    BY DEF s, Content
  <2>2. s \in [1..n -> Message]
    BY <1>4, <2>1
  <2>3. s \in Seq(Message)
    BY <2>2
  <2> QED BY <1>2, <2>3, LenProperties
<1>6. IsInjective(s)
  <2>1. \A i, j \in 1..n : s[i] = s[j] => i = j
    BY <1>1, <1>3, <1>4 DEF Distinct
  <2> QED BY <1>2, <2>1 DEF IsInjective
<1> QED BY <1>5, <1>6 DEF s

\* What a key does.
LEMMA ScrollLemma ==
  ASSUME FrameInv, NEW key \in Keys, Scroll(key)
  PROVE  selected' \in Nat /\ (selected' < size \/ selected' = 0)
<1>1. Moved(selected, size, Page, key) \in Int
  BY ChatViewAssumption DEF FrameInv, Moved, Keys
<1>2. size \in Nat
  BY DEF FrameInv
<1>3. \A x \in Int : Clamp(x, size) \in Nat /\ (Clamp(x, size) < size \/ Clamp(x, size) = 0)
  BY <1>2 DEF Clamp
<1> QED BY <1>1, <1>3 DEF Scroll, OnEvent

LEMMA FrameStep ==
  ASSUME MemInv, FrameInv, ViewNext
  PROVE  FrameInv'
<1>1. MemTyped /\ Len(order) \in Nat
  BY HeapLemma DEF MemInv
<1>2. "conn" \in Thread /\ "ui" \in Thread
  BY DEF Thread
<1>3. CASE Conn
  BY <1>1, <1>2, <1>3, AppendFrame DEF Conn
<1>4. CASE Appending("ui") \/ Say
  <2>1. Appending("ui") => append["ui"] # "none"
    BY DEF Appending, Put, Move, Free, Publish, PublishEnd, Notify
  <2>2. ui = "idle"
    BY <1>4, <2>1 DEF FrameInv, Say, Idle
  <2> QED BY <1>1, <1>2, <1>4, <2>2, AppendFrame DEF Say
<1>5. CASE Enter \/ Leave
  <2>1. /\ UNCHANGED <<process, ui, measured, drawn, size, selected, order, torn, append>>
        /\ event' \in BOOLEAN /\ screen' \in {"chat", "left"}
    BY <1>5 DEF Enter, Leave, framing, appending, FrameInv
  <2> QED BY <2>1 DEF FrameInv, NeverTwice
<1>6. CASE \E key \in Keys : Scroll(key)
  <2>1. /\ UNCHANGED <<process, ui, measured, drawn, size, screen, order, torn, append>>
        /\ event' = TRUE /\ selected' \in Nat
    BY <1>6, ScrollLemma DEF Scroll, framing, appending
  <2> QED BY <2>1 DEF FrameInv, NeverTwice
<1>7. CASE BeginFrame
  <2>1. /\ UNCHANGED <<process, measured, drawn, size, selected, screen, order, torn, append>>
        /\ event' = FALSE /\ ui' \in {"check", "idle"} /\ append["ui"] = "none"
    BY <1>7 DEF BeginFrame, appending, Idle
  <2> QED BY <2>1 DEF FrameInv, NeverTwice
<1>8. CASE Check
  <2>1. /\ UNCHANGED <<process, event, measured, size, selected, screen, order, append>>
        /\ torn' \in BOOLEAN /\ ui' \in {"measure", "idle"} /\ ui = "check"
        /\ drawn' = drawn \/ drawn' = <<>>
    BY <1>8 DEF Check, appending, Read, FrameInv
  <2>2. <<>> \in Seq(Message) /\ IsInjective(<<>>)
    BY EmptySeq DEF IsInjective
  <2> QED BY <2>1, <2>2 DEF FrameInv, NeverTwice
<1>9. CASE Measure
  <2>1. /\ UNCHANGED <<drawn, event, size, selected, screen, order, append>>
        /\ torn' \in BOOLEAN /\ ui' \in {ui, "copy"} /\ ui = "measure"
        /\ process' \in {process, "undefined"}
        /\ measured' \in {measured, end[2]}
    BY <1>9 DEF Measure, appending, Read, FrameInv
  <2>2. end[2] \in 0..Len(order)
    BY <1>1 DEF MemTyped
  <2> QED BY <2>1, <2>2 DEF FrameInv, NeverTwice
<1>10. CASE Copy
  <2>1. /\ UNCHANGED <<measured, event, selected, screen, order, append>>
        /\ torn' \in BOOLEAN /\ ui' \in {ui, "idle"} /\ ui = "copy"
        /\ process' \in {process, "undefined"}
    BY <1>10 DEF Copy, appending, Read, FrameInv
  <2>2. \/ UNCHANGED <<drawn, size>>
        \/ /\ drawn' = Content(end[2]) /\ size' = Lines * end[2]
           /\ Hole \notin ToSet(Content(end[2]))
    BY <1>10 DEF Copy, Drawn
  <2>3. end[2] \in Nat
    BY <1>1 DEF MemTyped
  <2>4. drawn' \in Seq(Message) /\ NeverTwice'
    BY <2>2, <2>3, ContentLemma DEF FrameInv, NeverTwice
  <2>5. size' \in Nat
    <3>1. Lines * end[2] \in Nat
      BY <2>3, ChatViewAssumption
    <3> QED BY <2>2, <3>1 DEF FrameInv
  <2> QED BY <2>1, <2>4, <2>5 DEF FrameInv
<1> QED BY <1>3, <1>4, <1>5, <1>6, <1>7, <1>8, <1>9, <1>10 DEF ViewNext, User, Drawing

-----------------------------------------------------------------------------
(* As long as nothing overlaps.                                             *)

LEMMA RestLemma ==
  ASSUME MemTyped, Rest
  PROVE  /\ end[1] = begin /\ end[2] = Len(order) /\ begin \notin freed
         /\ Len(order) <= Capacity(begin) /\ \A i \in 1..Len(order) : heap[begin][i] = order[i]
<1>1. end[1] = begin /\ end[2] = Len(order)
  BY DEF Rest
<1>2. begin \notin freed
  <2>1. 0 \notin freed
    BY HeapLemma DEF MemTyped
  <2> QED BY <2>1 DEF Rest, Holds, Usable
<1>3. DOMAIN order = 1..Len(order)
  BY HeapLemma
<1> QED BY <1>1, <1>2, <1>3 DEF Rest, Holds

\* Steps that leave all that the threads append with alone.
LEMMA AloneStays ==
  ASSUME Alone, UNCHANGED <<process, vector, appending, order>>,
         ui' = "copy" => ~Active("conn") /\ measured' = Len(order)
  PROVE  Alone'
<1>1. /\ process' = process /\ heap' = heap /\ freed' = freed /\ begin' = begin /\ end' = end
      /\ order' = order /\ append' = append /\ at' = at /\ target' = target /\ count' = count
  BY DEF vector, appending
<1>2. \A b, s : Holds(b, s)' = Holds(b, s)
  BY <1>1 DEF Holds, Usable, Capacity
<1>3. Rest' = Rest
  BY <1>1 DEF Rest, Holds, Usable, Capacity
<1>4. ASSUME NEW t \in Thread PROVE Underway(t)'
  <2>1. Underway(t)
    BY DEF Alone
  <2>2. Holds(target[t], Append(order, Said(t)))' = Holds(target[t], Append(order, Said(t)))
    BY <1>1 DEF Holds, Usable, Capacity, Said
  <2> QED BY <1>1, <1>3, <2>1, <2>2 DEF Underway, Capacity
<1>5. Active("conn")' = Active("conn") /\ Active("ui")' = Active("ui")
  BY <1>1 DEF Active
<1> QED BY <1>1, <1>3, <1>4, <1>5 DEF Alone, Running

LEMMA LoadAlone ==
  ASSUME MemTyped, Alone, NEW t \in Thread, LoadEnd(t), ~torn'
  PROVE  Alone'
<1>1. /\ append[t] = "none" /\ ui # "copy" /\ \A u \in Thread \ {t} : ~Active(u)
      /\ at'[t] = end /\ append'[t] = IF end[2] # Capacity(end[1]) THEN "put" ELSE "move"
      /\ UNCHANGED <<process, vector, target, ui, order>>
  BY DEF LoadEnd, MemTyped, framing
<1>2. OthersStay(t)
  BY OthersLemma
<1>3. \A u \in Thread : ~Active(u)
  BY <1>1 DEF Active
<1>4. Rest
  BY <1>3 DEF Alone, Thread
<1>5. UNCHANGED <<heap, freed, begin, end>>
  BY <1>1 DEF vector
<1>6. Rest'
  BY <1>1, <1>4, <1>5 DEF Rest, Holds, Usable, Capacity
<1>7. append'[t] = "put" => Len(order) < Capacity(begin)
  <2>1. Len(order) \in Nat /\ Capacity(begin) \in Nat
    BY HeapLemma DEF MemTyped
  <2> QED BY <1>1, <1>4, <2>1, RestLemma
<1>8. Underway(t)'
  <2>1. Capacity(begin)' = Capacity(begin) /\ Len(order)' = Len(order) /\ end' = end
    BY <1>1, <1>5 DEF Capacity
  <2>2. append'[t] \in {"put", "move"} /\ (append'[t] = "put" => (Len(order) < Capacity(begin))')
    BY <1>1, <1>7, <2>1
  <2> QED BY <1>1, <1>6, <2>1, <2>2 DEF Underway
<1>9. \A u \in Thread : u # t => Underway(u)' /\ ~Active(u)'
  BY <1>1, <1>2 DEF Underway, Active, OthersStay
<1>10. Active("conn")' => t = "conn"
  BY <1>9 DEF Thread
<1>11. Active("ui")' => t = "ui"
  BY <1>9 DEF Thread
<1>12. Running' /\ ui' # "copy"
  BY <1>1 DEF Alone, Running
<1> QED BY <1>6, <1>8, <1>9, <1>10, <1>11, <1>12 DEF Alone

\* An append under way has the vector for itself.
LEMMA AloneBy ==
  ASSUME MemTyped, FrameInv, Alone, NEW t \in Thread, Active(t), OthersStay(t),
         Running', ui' = ui, Underway(t)', ~Active(t)' => Rest'
  PROVE  Alone'
<1>1. ui # "copy"
  <2>1. append["ui"] # "none" => ui # "copy"
    BY DEF FrameInv
  <2>2. t = "ui" \/ t = "conn"
    BY DEF Thread
  <2> QED BY <2>1, <2>2 DEF Active, Alone
<1>2. \A u \in Thread : u # t => ~Active(u)
  BY DEF Alone, Thread
<1>3. \A u \in Thread : u # t => ~Active(u)' /\ Underway(u)'
  BY <1>2 DEF OthersStay, Active, Underway
<1>4. \A u \in Thread : Underway(u)'
  BY <1>3
<1>5. ~Active("conn")' /\ ~Active("ui")' => Rest'
  BY DEF Thread
<1>6. ~(Active("conn")' /\ Active("ui")')
  BY <1>3 DEF Thread
<1> QED BY <1>1, <1>4, <1>5, <1>6 DEF Alone

\* The messages in the block that was filled.
LEMMA PutAlone ==
  ASSUME MemInv, FrameInv, Alone, NEW t \in Thread, Put(t)
  PROVE  Alone'
<1>1. MemTyped /\ append[t] = "put"
  BY DEF MemInv, Put
<1>2. OthersStay(t)
  BY <1>1, OthersLemma DEF Appending
<1>3. Rest /\ at[t] = end /\ Len(order) < Capacity(begin)
  BY <1>1 DEF Alone, Underway
<1> DEFINE n == Len(order)
           m == Said(t)
<1>4. /\ end[1] = begin /\ end[2] = n /\ begin \notin freed /\ n \in Nat
      /\ \A i \in 1..n : heap[begin][i] = order[i]
      /\ Capacity(begin) \in Nat
  BY <1>1, <1>3, RestLemma, HeapLemma DEF MemTyped
<1>5. begin \in 1..Len(heap) /\ Capacity(begin) = Len(heap[begin]) /\ n + 1 \in 1..Len(heap[begin])
  <2>1. begin \in 0..Len(heap) /\ begin # 0
    BY <1>1, <1>3, <1>4, HeapLemma DEF MemTyped
  <2>2. begin \in 1..Len(heap)
    BY <2>1
  <2>3. Capacity(begin) = Len(heap[begin])
    BY <1>1, <2>2, HeapLemma
  <2> QED BY <1>3, <1>4, <2>2, <2>3
<1>6. ~(at[t][1] \in freed \/ at[t][2] >= Capacity(at[t][1]))
  BY <1>3, <1>4
<1>7. /\ heap' = [heap EXCEPT ![begin][n + 1] = m]
      /\ end' \in {<<begin, n + 1>>, <<end[1], end[2] + 1>>} /\ Done(t)
      /\ UNCHANGED <<process, freed, begin, ui>>
  BY <1>3, <1>4, <1>6 DEF Put, framing
<1>8. /\ order' \in Seq(Message) /\ Len(order') = n + 1 /\ m \in Message
      /\ \A i \in 1..n : order'[i] = order[i]
      /\ order'[n + 1] = m
      /\ append'[t] = "notify" /\ ~Active(t)'
  BY <1>1, <1>7, DoneLemma
<1>9. /\ Len(heap'[begin]) = Len(heap[begin])
      /\ \A i \in DOMAIN heap[begin] : heap'[begin][i] = IF i = n + 1 THEN m ELSE heap[begin][i]
  <2>1. heap \in Seq(Seq(Message \cup {Hole})) /\ m \in Message \cup {Hole}
    BY <1>1, <1>8 DEF MemTyped
  <2> QED BY <1>5, <1>7, <2>1, PutShape
<1>10. DOMAIN heap[begin] = 1..Len(heap[begin]) /\ Len(heap[begin]) \in Nat
  BY <1>1, <1>5, HeapLemma
<1>11. \A i \in 1..n + 1 : heap'[begin][i] = order'[i]
  <2>1. \A i \in 1..n : heap'[begin][i] = order'[i]
    BY <1>4, <1>5, <1>8, <1>9, <1>10
  <2>2. heap'[begin][n + 1] = order'[n + 1]
    BY <1>5, <1>8, <1>9, <1>10
  <2>3. \A i \in 1..n + 1 : i \in 1..n \/ i = n + 1
    BY <1>4
  <2> QED BY <2>1, <2>2, <2>3
<1>12. Rest'
  <2>1. DOMAIN order' = 1..n + 1
    BY <1>8, LenProperties
  <2>2. end' = <<begin', Len(order')>>
    BY <1>4, <1>7, <1>8
  <2>3. Capacity(begin)' = Len(heap[begin])
    BY <1>5, <1>7, <1>9 DEF Capacity
  <2>4. n + 1 <= Len(heap[begin])
    BY <1>5
  <2> QED BY <1>4, <1>7, <1>8, <1>11, <2>1, <2>2, <2>3, <2>4 DEF Rest, Holds, Usable
<1>13. Underway(t)'
  BY <1>8 DEF Underway
<1>14. Running'
  BY <1>7 DEF Alone, Running
<1>15. Active(t)
  BY <1>1 DEF Active
<1> QED BY <1>1, <1>2, <1>7, <1>12, <1>13, <1>14, <1>15, AloneBy

\* The messages in the new block.
LEMMA MoveAlone ==
  ASSUME MemInv, FrameInv, Alone, NEW t \in Thread, Move(t)
  PROVE  Alone'
<1>1. MemTyped /\ append[t] = "move"
  BY DEF MemInv, Move
<1>2. OthersStay(t) /\ at' = at /\ count' = count
  BY <1>1, OthersLemma DEF Appending
<1>3. Rest /\ at[t] = end
  BY <1>1 DEF Alone, Underway
<1> DEFINE n == Len(order)
           m == Said(t)
           N == Len(heap) + 1
<1>4. /\ end[1] = begin /\ end[2] = n /\ begin \notin freed /\ n \in Nat
      /\ \A i \in 1..n : heap[begin][i] = order[i]
      /\ begin \in 0..Len(heap) /\ Len(heap) \in Nat
  BY <1>1, <1>3, RestLemma, HeapLemma DEF MemTyped
<1>5. n = Capacity(begin)
  BY <1>1, <1>3, <1>4 DEF MemInv, Full
<1>6. /\ heap' = Relocated(begin, n, m)
      /\ target' = [target EXCEPT ![t] = N]
      /\ append' = [append EXCEPT ![t] = IF begin = 0 THEN "publish" ELSE "free"]
      /\ UNCHANGED <<process, freed, begin, end, order, ui>>
  BY <1>3, <1>4 DEF Move, framing
<1>7. m \in Message
  <2>1. count[t] \in Nat /\ count[t] <= Bound[t] /\ count[t] >= 1
    BY <1>1 DEF MemTyped
  <2> QED BY <2>1, MessageLemma DEF Said
<1>8. Moves(heap', begin, n, m, N)
  BY <1>1, <1>4, <1>5, <1>6, <1>7, MoveShape
<1>9. /\ target'[t] = N /\ append'[t] \in {"publish", "free"}
      /\ append'[t] = "free" => begin # 0
  BY <1>1, <1>6 DEF MemTyped
<1> HIDE DEF n, m, N
<1>10. /\ Len(heap'[N]) \in Nat /\ n + 1 <= Len(heap'[N])
       /\ \A i \in 1..n : heap'[N][i] = heap[begin][i]
       /\ heap'[N][n + 1] = m
  BY <1>8 DEF Moves
<1>11. Holds(target[t], Append(order, Said(t)))'
  <2> DEFINE s == Append(order, m)
  <2>1. /\ order \in Seq(Message) /\ s \in Seq(Message) /\ Len(s) = n + 1
        /\ \A i \in 1..n : s[i] = order[i]
        /\ s[n + 1] = m /\ DOMAIN s = 1..n + 1
    <3>1. order \in Seq(Message)
      BY <1>1 DEF MemTyped
    <3> QED BY <1>7, <3>1, AppendProperties, LenProperties DEF n
  <2>2. \A i \in 1..n + 1 : heap'[N][i] = s[i]
    <3> HIDE DEF s
    <3>1. \A i \in 1..n + 1 : i \in 1..n \/ i = n + 1
      BY <1>4
    <3> QED BY <1>4, <1>10, <2>1, <3>1
  <2>3. N \notin freed /\ N # 0
    BY <1>1, <1>4, HeapLemma DEF MemTyped, N
  <2>4. Append(order', Said(t)') = s
    BY <1>2, <1>6 DEF m, Said
  <2> HIDE DEF s
  <2>5. /\ target'[t] = N /\ N \notin freed' /\ Len(s) <= Len(heap'[N]) /\ N # 0
        /\ \A i \in DOMAIN s : heap'[N][i] = s[i]
    BY <1>6, <1>9, <1>10, <2>1, <2>2, <2>3
  <2> QED BY <2>4, <2>5 DEF Holds, Usable, Capacity
<1>12. Underway(t)'
  <2>1. append'[t] = "free" => begin' # target'[t] /\ begin' \notin freed' /\ at'[t][1] = begin'
    BY <1>2, <1>3, <1>4, <1>6, <1>9 DEF N
  <2>2. at'[t][2] = Len(order')
    BY <1>2, <1>3, <1>4, <1>6 DEF n
  <2> QED BY <1>9, <1>11, <2>1, <2>2 DEF Underway
<1>13. Active(t) /\ Active(t)' /\ Running'
  BY <1>1, <1>6, <1>9 DEF Active, Alone, Running
<1> QED BY <1>1, <1>2, <1>6, <1>12, <1>13, AloneBy

\* The new block is published.
LEMMA PublishAlone ==
  ASSUME MemInv, FrameInv, Alone, NEW t \in Thread,
         Free(t) \/ Publish(t) \/ PublishEnd(t)
  PROVE  Alone'
<1>1. MemTyped /\ append[t] \in {"free", "publish", "publishEnd"} /\ Active(t)
  BY DEF MemInv, Free, Publish, PublishEnd, Active
<1>2. OthersStay(t) /\ at' = at /\ count' = count
  BY <1>1, OthersLemma DEF Appending
<1>3. at[t][2] = Len(order) /\ Holds(target[t], Append(order, Said(t)))
  BY <1>1 DEF Alone, Underway
<1>4. heap' = heap /\ target' = target /\ ui' = ui /\ Said(t)' = Said(t)
  BY <1>2 DEF Free, Publish, PublishEnd, framing, Said
<1>5. CASE Free(t)
  <2>1. begin # target[t] /\ begin \notin freed /\ at[t][1] = begin
    BY <1>5 DEF Alone, Underway, Free
  <2>2. /\ freed' = freed \cup {begin} /\ append'[t] = "publish" /\ UNCHANGED <<process, begin, end, order>>
    BY <1>1, <1>5, <2>1 DEF Free, MemTyped
  <2>3. Holds(target[t], Append(order, Said(t)))'
    BY <1>3, <1>4, <2>1, <2>2 DEF Holds, Usable, Capacity
  <2>4. Underway(t)' /\ Active(t)' /\ Running'
    BY <1>2, <1>3, <2>2, <2>3 DEF Underway, Active, Running, Alone
  <2> QED BY <1>1, <1>2, <1>4, <2>4, AloneBy
<1>6. CASE Publish(t)
  <2>1. begin' = target[t] /\ append'[t] = "publishEnd" /\ UNCHANGED <<process, freed, end, order>>
    BY <1>1, <1>6 DEF Publish, MemTyped
  <2>2. Holds(target[t], Append(order, Said(t)))'
    BY <1>3, <1>4, <2>1 DEF Holds, Usable, Capacity
  <2>3. Underway(t)' /\ Active(t)' /\ Running'
    BY <1>2, <1>3, <1>4, <2>1, <2>2 DEF Underway, Active, Running, Alone
  <2> QED BY <1>1, <1>2, <1>4, <2>3, AloneBy
<1>7. CASE PublishEnd(t)
  <2>1. /\ append[t] = "publishEnd" /\ UNCHANGED <<process, freed, begin>>
        /\ end' = <<target[t], at[t][2] + 1>> /\ Done(t)
    BY <1>7 DEF PublishEnd
  <2>2. /\ order' = Append(order, Said(t)) /\ Len(order') = Len(order) + 1
        /\ append'[t] = "notify" /\ ~Active(t)'
    BY <1>1, <2>1, DoneLemma DEF Done
  <2>3. begin = target[t]
    BY <2>1 DEF Alone, Underway
  <2>4. end' = <<begin', Len(order')>>
    BY <1>3, <2>1, <2>2, <2>3
  <2>5. Rest'
    BY <1>3, <1>4, <2>1, <2>2, <2>3, <2>4 DEF Rest, Holds, Usable, Capacity
  <2>6. Underway(t)' /\ Running'
    BY <2>1, <2>2 DEF Underway, Running, Alone
  <2> QED BY <1>1, <1>2, <1>4, <2>2, <2>5, <2>6, AloneBy
<1> QED BY <1>5, <1>6, <1>7

LEMMA NotifyAlone ==
  ASSUME MemTyped, Alone, NEW t \in Thread, Notify(t)
  PROVE  Alone'
<1>1. /\ append[t] = "notify" /\ append'[t] = "none" /\ UNCHANGED target
      /\ process' = process /\ heap' = heap /\ freed' = freed /\ begin' = begin /\ end' = end
      /\ order' = order /\ ui' = ui /\ measured' = measured
  BY DEF Notify, vector, framing, MemTyped
<1>2. OthersStay(t) /\ at' = at /\ count' = count
  BY OthersLemma DEF Appending
<1>3. Rest' = Rest
  BY <1>1 DEF Rest, Holds, Usable, Capacity
<1>4. \A u \in Thread : Active(u)' = Active(u)
  BY <1>1, <1>2 DEF Active, OthersStay
<1>5. ASSUME NEW u \in Thread PROVE Underway(u)'
  <2>1. Underway(u)
    BY DEF Alone
  <2>2. CASE u = t
    BY <1>1, <2>2 DEF Underway
  <2>3. CASE u # t
    <3>1. append'[u] = append[u] /\ Said(u)' = Said(u)
      BY <1>2, <2>3 DEF OthersStay, Said
    <3>2. Holds(target[u], Append(order, Said(u)))' = Holds(target[u], Append(order, Said(u)))
      BY <1>1, <3>1 DEF Holds, Usable, Capacity
    <3> QED BY <1>1, <1>2, <1>3, <2>1, <3>1, <3>2 DEF Underway, Capacity
  <2> QED BY <2>2, <2>3
<1>6. Active("conn")' = Active("conn") /\ Active("ui")' = Active("ui")
  BY <1>4 DEF Thread
<1> QED BY <1>1, <1>3, <1>5, <1>6 DEF Alone, Running

\* The steps of the threads, as long as nothing overlaps.
LEMMA AppendAlone ==
  ASSUME MemInv, FrameInv, Alone, Shown, NEW t \in Thread, LoadEnd(t) \/ Appending(t),
         t = "ui" => ui = "idle", ~torn'
  PROVE  Alone' /\ Shown'
<1>1. MemTyped
  BY DEF MemInv
<1>2. Alone'
  BY <1>1, LoadAlone, PutAlone, MoveAlone, PublishAlone, NotifyAlone DEF Appending
<1>3. UNCHANGED <<framing, selected>> /\ Grows
  BY <1>1, AppendFrame, GrowsLemma
<1>4. drawn' = drawn /\ size' = size /\ selected' = selected
  BY <1>3 DEF framing
<1>5. Prefix(drawn, order)'
  <2>1. Len(drawn) \in Nat /\ DOMAIN drawn = 1..Len(drawn)
    BY LenProperties DEF FrameInv
  <2>2. Len(drawn) <= Len(order) /\ \A i \in 1..Len(drawn) : drawn[i] = order[i]
    BY <2>1 DEF Shown, Prefix
  <2>3. Len(drawn) <= Len(order') /\ \A i \in 1..Len(drawn) : i \in 1..Len(order)
    BY <1>3, <2>1, <2>2 DEF Grows
  <2> QED BY <1>3, <1>4, <2>1, <2>2, <2>3 DEF Grows, Prefix
<1>6. Shown'
  BY <1>4, <1>5 DEF Shown
<1> QED BY <1>2, <1>6

\* What a copy that overlaps with nothing draws is the order.
LEMMA CopyLemma ==
  ASSUME MemInv, FrameInv, Alone, Copy, ~torn'
  PROVE  /\ Len(drawn') = Len(order) /\ \A i \in 1..Len(order) : drawn'[i] = order[i]
         /\ drawn' \in Seq(Message) /\ size' = Lines * Len(order) /\ ui' = "idle"
         /\ UNCHANGED <<process, selected, order>>
<1>1. MemTyped /\ Len(order) \in Nat
  BY HeapLemma DEF MemInv
<1>2. /\ ui = "copy" /\ ~Active("conn") /\ append["ui"] = "none" /\ UNCHANGED <<selected, order>>
  BY DEF Copy, Read, FrameInv
<1>3. Rest /\ measured = Len(order)
  BY <1>2 DEF Alone, Active
<1>4. /\ end[1] = begin /\ end[2] = Len(order) /\ begin \notin freed
      /\ Len(order) <= Capacity(begin) /\ \A i \in 1..Len(order) : heap[begin][i] = order[i]
  BY <1>1, <1>3, RestLemma
<1> DEFINE n == Len(order)
           s == Content(n)
<1>5. DOMAIN s = 1..n /\ \A i \in 1..n : s[i] = order[i]
  <2>1. DOMAIN s = 1..n /\ \A i \in 1..n : s[i] = IF i <= Capacity(begin) THEN heap[begin][i] ELSE Hole
    BY DEF Content
  <2>2. Capacity(begin) \in Nat
    BY <1>1, HeapLemma DEF MemTyped
  <2>3. \A i \in 1..n : i <= Capacity(begin)
    BY <1>1, <1>4, <2>2
  <2> HIDE DEF s
  <2> QED BY <1>4, <2>1, <2>3
<1>6. Hole \notin ToSet(s)
  <2>1. \A i \in 1..n : order[i] \in Message
    BY <1>1 DEF MemTyped
  <2>2. \A i \in 1..n : s[i] # Hole
    BY <1>5, <2>1, MessageLemma
  <2> QED BY <1>5, <2>2 DEF ToSet
<1>7. s \in Seq(Message) /\ Len(s) = n
  BY <1>1, <1>6, ContentLemma
<1>8. ~(begin # end[1] \/ begin \in freed \/ end[2] > measured \/ Hole \in ToSet(Content(end[2])))
  BY <1>1, <1>3, <1>4, <1>6
<1>9. ui' = "idle" /\ drawn' = s /\ size' = Lines * n /\ UNCHANGED process
  <2>1. ui' = "idle" /\ drawn' = Drawn(end[2]) /\ size' = Lines * end[2] /\ UNCHANGED process
    BY <1>8 DEF Copy
  <2> QED BY <1>4, <2>1 DEF Drawn
<1> HIDE DEF s
<1> QED BY <1>2, <1>5, <1>7, <1>9

LEMMA FrameAlone ==
  ASSUME MemInv, FrameInv, Alone, Shown, ~torn, ~torn',
         Drawing \/ Enter \/ Leave \/ \E key \in Keys : Scroll(key)
  PROVE  Alone' /\ Shown'
<1>1. MemTyped /\ Len(order) \in Nat /\ Len(drawn) \in Nat /\ drawn \in Seq(Message)
  BY HeapLemma, LenProperties DEF MemInv, FrameInv
<1>2. Prefix(drawn, order) /\ size = Lines * Len(drawn) /\ (selected < size \/ selected = 0)
  BY DEF Shown
<1>3. CASE Enter \/ Leave \/ \E key \in Keys : Scroll(key)
  <2>1. UNCHANGED <<process, vector, appending, order, ui, measured, drawn, size>>
    BY <1>3 DEF Enter, Leave, Scroll, framing
  <2>2. Alone'
    BY <2>1, AloneStays DEF Alone
  <2>3. selected' < size \/ selected' = 0
    BY <1>2, <1>3, ScrollLemma DEF Enter, Leave
  <2> QED BY <1>2, <2>1, <2>2, <2>3 DEF Shown, Prefix
<1>4. CASE BeginFrame
  <2>1. UNCHANGED <<process, vector, appending, order, measured, drawn, size, selected>> /\ ui' # "copy"
    BY <1>4 DEF BeginFrame
  <2>2. Alone'
    BY <2>1, AloneStays
  <2> QED BY <1>2, <2>1, <2>2 DEF Shown, Prefix
<1>5. CASE Check
  <2>1. /\ UNCHANGED <<process, vector, appending, order, measured, size, selected>>
        /\ ui = "check" /\ ui' # "copy" /\ ~Active("conn")
    BY <1>5 DEF Check, Read
  <2>2. Alone'
    BY <2>1, AloneStays
  <2>3. Rest
    <3>1. ~Active("ui")
      BY <2>1 DEF FrameInv, Active
    <3> QED BY <2>1, <3>1 DEF Alone
  <2>4. ASSUME end = <<begin, 0>> PROVE drawn = <<>>
    <3>1. Len(order) = 0
      BY <2>3, <2>4 DEF Rest
    <3>2. Len(drawn) = 0
      BY <1>1, <1>2, <3>1 DEF Prefix
    <3> QED BY <1>1, <3>2, EmptySeq
  <2>5. drawn' = drawn
    BY <1>5, <2>4 DEF Check
  <2> QED BY <1>2, <2>1, <2>2, <2>5 DEF Shown, Prefix
<1>6. CASE Measure
  <2>1. /\ UNCHANGED <<vector, appending, order, drawn, size, selected>>
        /\ ui = "measure" /\ ~Active("conn")
    BY <1>6 DEF Measure, Read
  <2>2. Rest
    <3>1. ~Active("ui")
      BY <2>1 DEF FrameInv, Active
    <3> QED BY <2>1, <3>1 DEF Alone
  <2>3. end[1] = begin /\ end[2] = Len(order)
    BY <1>1, <2>2, RestLemma
  <2>4. UNCHANGED process /\ measured' = Len(order)
    BY <1>6, <2>3 DEF Measure
  <2>5. Alone'
    BY <2>1, <2>4, AloneStays
  <2> QED BY <1>2, <2>1, <2>5 DEF Shown, Prefix
<1>7. CASE Copy
  <2>1. /\ Len(drawn') = Len(order) /\ \A i \in 1..Len(order) : drawn'[i] = order[i]
        /\ drawn' \in Seq(Message) /\ size' = Lines * Len(order) /\ ui' = "idle"
        /\ UNCHANGED <<process, selected, order>>
    BY <1>7, CopyLemma
  <2>2. UNCHANGED <<vector, appending>>
    BY <1>7 DEF Copy
  <2>3. Alone'
    BY <2>1, <2>2, AloneStays
  <2>4. Prefix(drawn, order)'
    <3>1. DOMAIN drawn' = 1..Len(order)
      BY <2>1, LenProperties
    <3> QED BY <1>1, <2>1, <3>1 DEF Prefix
  <2>5. size <= size'
    <3>1. Len(drawn) <= Len(order)
      BY <1>2 DEF Prefix
    <3> DEFINE a == Len(drawn)
               c == Len(order)
    <3>2. a \in Nat /\ c \in Nat /\ a <= c /\ Lines \in Nat
      BY <1>1, <3>1, ChatViewAssumption
    <3> HIDE DEF a, c
    <3>3. Lines * a <= Lines * c
      BY <3>2
    <3> QED BY <1>2, <2>1, <3>3 DEF a, c
  <2>6. selected' < size' \/ selected' = 0
    <3>1. size \in Nat /\ selected \in Nat
      BY DEF FrameInv
    <3>2. size' \in Nat
      BY <1>1, <2>1, ChatViewAssumption
    <3> QED BY <1>2, <2>1, <2>5, <3>1, <3>2
  <2>7. size' = Lines * Len(drawn')
    BY <2>1
  <2> QED BY <2>3, <2>4, <2>6, <2>7 DEF Shown
<1> QED BY <1>3, <1>4, <1>5, <1>6, <1>7 DEF Drawing

-----------------------------------------------------------------------------
\* The list of the client is sound for any number of messages and any screen.

LEMMA TornStays == ASSUME ViewNext, FrameInv PROVE torn => torn'
<1>1. ASSUME NEW t \in Thread, LoadEnd(t) \/ Appending(t) PROVE torn => torn'
  BY <1>1 DEF LoadEnd, Appending, Put, Move, Free, Publish, PublishEnd, Notify
<1>2. "conn" \in Thread /\ "ui" \in Thread
  BY DEF Thread
<1>3. CASE Conn \/ Appending("ui") \/ Say
  BY <1>1, <1>2, <1>3 DEF Conn, Say
<1>4. CASE Enter \/ Leave \/ \E key \in Keys : Scroll(key)
  BY <1>4 DEF Enter, Leave, Scroll
<1>5. CASE Drawing
  BY <1>5 DEF Drawing, BeginFrame, Check, Measure, Copy, Read
<1> QED BY <1>3, <1>4, <1>5 DEF ViewNext, User

LEMMA StepView == ViewInv /\ [ViewNext]_viewVars => ViewInv'
<1>1. ASSUME ViewInv, ViewNext PROVE ViewInv'
  <2>1. MemInv /\ FrameInv /\ (~torn => Alone /\ Shown)
    BY <1>1 DEF ViewInv
  <2>2. MemInv' /\ FrameInv'
    BY <1>1, <2>1, MemStep, FrameStep
  <2>3. ASSUME ~torn' PROVE Alone' /\ Shown'
    <3>1. ~torn /\ Alone /\ Shown
      BY <1>1, <2>1, <2>3, TornStays
    <3>2. "conn" \in Thread /\ "ui" \in Thread
      BY DEF Thread
    <3>3. CASE Conn
      BY <2>1, <2>3, <3>1, <3>2, <3>3, AppendAlone DEF Conn
    <3>4. CASE Appending("ui") \/ Say
      <4>1. Appending("ui") => append["ui"] # "none"
        BY DEF Appending, Put, Move, Free, Publish, PublishEnd, Notify
      <4>2. ui = "idle"
        BY <2>1, <3>4, <4>1 DEF FrameInv, Say, Idle
      <4> QED BY <2>1, <2>3, <3>1, <3>2, <3>4, <4>2, AppendAlone DEF Say
    <3>5. CASE Drawing \/ Enter \/ Leave \/ \E key \in Keys : Scroll(key)
      BY <2>1, <2>3, <3>1, <3>5, FrameAlone
    <3> QED BY <1>1, <3>3, <3>4, <3>5 DEF ViewNext, User
  <2> QED BY <2>2, <2>3 DEF ViewInv
<1>2. ASSUME ViewInv, UNCHANGED viewVars PROVE ViewInv'
  <2>1. MemInv /\ FrameInv /\ (~torn => Alone /\ Shown)
    BY <1>2 DEF ViewInv
  <2>2. /\ UNCHANGED <<process, vector, appending, event, screen, ui, measured, drawn, size, selected,
                       order, torn>>
        /\ append' = append
    BY <1>2 DEF viewVars, framing, appending
  <2>3. MemInv'
    BY <2>1, <2>2, MemStays
  <2>4. FrameInv'
    BY <2>1, <2>2 DEF FrameInv, NeverTwice
  <2>5. ASSUME ~torn PROVE Alone' /\ Shown'
    <3>1. Alone /\ Shown
      BY <2>1, <2>5
    <3>2. Alone'
      BY <2>2, <3>1, AloneStays DEF Alone
    <3> QED BY <2>2, <3>1, <3>2 DEF Shown, Prefix
  <2> QED BY <2>2, <2>3, <2>4, <2>5 DEF ViewInv
<1> QED BY <1>1, <1>2

LEMMA ViewInvariant == ViewSpec => []ViewInv
<1> QED BY InitView, StepView, PTL DEF ViewSpec

LEMMA SoundLemma == ViewInv => ViewSound
<1> SUFFICES ASSUME ViewInv PROVE ViewSound
  OBVIOUS
<1>1. MemTyped /\ Counted /\ FrameInv /\ (~torn => Alone /\ Shown)
  BY DEF ViewInv, MemInv
<1>2. ViewTypeOK
  <2> DEFINE max == MaxHeard + MaxOwn
             h == Len(heap)
             n == Len(order)
  <2>1. max \in Nat /\ h \in Nat /\ n \in Nat /\ Blocks = 0..max /\ Counts = 0..max /\ DOMAIN heap = 1..h
    BY <1>1, ChatViewAssumption, HeapLemma DEF Blocks, Counts
  <2>2. /\ count["conn"] \in Nat /\ count["ui"] \in Nat
        /\ count["conn"] <= MaxHeard /\ count["ui"] <= MaxOwn /\ count \in [Thread -> Nat]
        /\ \A t \in Thread : t = "conn" \/ t = "ui"
    BY <1>1, MessageLemma DEF MemTyped, Thread
  <2>3. h <= max /\ n <= max
    <3> DEFINE a(t) == One(Active(t))
               m(t) == One(Moving(t))
    <3>1. /\ n + a("conn") + a("ui") = count["conn"] + count["ui"]
          /\ h + m("conn") + m("ui") <= count["conn"] + count["ui"]
      BY <1>1 DEF Counted
    <3>2. /\ a("conn") \in Nat /\ a("ui") \in Nat /\ m("conn") \in Nat /\ m("ui") \in Nat
          /\ MaxHeard \in Nat /\ MaxOwn \in Nat
      BY ChatViewAssumption DEF One
    <3>3. count["conn"] + count["ui"] <= max
      BY <2>2, <3>2
    <3>4. h + m("conn") + m("ui") <= max /\ n + a("conn") + a("ui") <= max
      <4> HIDE DEF a, m, h, n, max
      <4> QED BY <2>1, <2>2, <3>1, <3>2, <3>3
    <3> HIDE DEF a, m, h, n, max
    <3> QED BY <2>1, <3>2, <3>4
  <2>4. \A t \in Thread : count[t] \in Counts
    <3>1. MaxHeard \in Nat /\ MaxOwn \in Nat
      BY ChatViewAssumption
    <3>2. count["conn"] \in 0..max /\ count["ui"] \in 0..max
      BY <2>2, <3>1
    <3> HIDE DEF max
    <3> QED BY <2>1, <2>2, <3>2
  <2> HIDE DEF max
  <2>5. (0..h) \subseteq Blocks /\ (0..n) \subseteq Counts /\ DOMAIN heap \subseteq Blocks
    BY <2>1, <2>3
  <2>6. /\ heap \in Seq(Seq(Message \cup {Hole})) /\ freed \subseteq Blocks
        /\ begin \in Blocks /\ end \in Blocks \X Counts
        /\ append \in [Thread -> Step] /\ at \in [Thread -> Blocks \X Counts]
        /\ target \in [Thread -> Blocks] /\ order \in Seq(Message)
    BY <1>1, <2>5 DEF MemTyped
  <2>7. count \in [Thread -> Counts]
    BY <2>2, <2>4
  <2>8. measured \in Counts
    BY <1>1, <2>5 DEF FrameInv
  <2> QED BY <1>1, <2>6, <2>7, <2>8 DEF ViewTypeOK, FrameInv
<1>3. ListIsOrder
  <2> SUFFICES ASSUME ~torn PROVE Running /\ (~Active("conn") /\ ~Active("ui") => Listed = order)
    BY DEF ListIsOrder
  <2>1. Running
    BY <1>1 DEF Alone
  <2>2. ASSUME ~Active("conn"), ~Active("ui") PROVE Listed = order
    <3>1. Rest
      BY <1>1, <2>2 DEF Alone
    <3>2. /\ end[2] = Len(order) /\ Len(order) <= Capacity(begin)
          /\ \A i \in 1..Len(order) : heap[begin][i] = order[i]
      BY <1>1, <3>1, RestLemma
    <3>3. Len(order) \in Nat /\ Capacity(begin) \in Nat /\ order = [i \in 1..Len(order) |-> order[i]]
      <4>1. Len(order) \in Nat /\ Capacity(begin) \in Nat
        BY <1>1, HeapLemma DEF MemTyped
      <4>2. order \in Seq(Message)
        BY <1>1 DEF MemTyped
      <4> QED BY <4>1, <4>2
    <3>4. \A i \in 1..Len(order) : i <= Capacity(begin)
      BY <3>2, <3>3
    <3> QED BY <3>2, <3>3, <3>4 DEF Listed, Content
  <2> QED BY <2>1, <2>2
<1>4. NeverTwice
  BY <1>1 DEF FrameInv
<1>5. CursorInView
  BY <1>1 DEF Shown, CursorInView
<1> QED BY <1>2, <1>3, <1>4, <1>5 DEF ViewSound

\* What the list of messages shows (client_chat_screen.cpp:362-377): while nothing
\* overlaps, what was appended, in order and through every reallocation, with the
\* cursor on it; and whatever overlaps, no message twice.
THEOREM Views == ViewSpec => []ViewSound
<1> QED BY ViewInvariant, SoundLemma, PTL

\* What is drawn changes by a copy only, and a copy that overlaps with nothing
\* begins with what was drawn before.
LEMMA SteadyStep ==
  ASSUME ViewInv, [ViewNext]_viewVars, selected < size, drawn' # drawn, ~torn'
  PROVE  drawn'[selected' \div Lines + 1] = drawn[selected \div Lines + 1]
<1>1. MemInv /\ MemTyped /\ FrameInv
  BY DEF ViewInv, MemInv
<1>2. ViewNext
  BY DEF viewVars, framing
<1>3. ~torn /\ Alone /\ Shown
  BY <1>1, <1>2, TornStays DEF ViewInv
<1>4. Check \/ Copy
  <2>1. Conn \/ Appending("ui") \/ Say => UNCHANGED drawn
    BY DEF Conn, Say, LoadEnd, Appending, Put, Move, Free, Publish, PublishEnd, Notify, framing
  <2>2. Enter \/ Leave \/ (\E key \in Keys : Scroll(key)) \/ BeginFrame \/ Measure => UNCHANGED drawn
    BY DEF Enter, Leave, Scroll, BeginFrame, Measure, framing
  <2> QED BY <1>2, <2>1, <2>2 DEF ViewNext, User, Drawing
<1> DEFINE a == Len(drawn)
           k == selected \div Lines + 1
<1>5. a \in Nat /\ selected \in Nat /\ Lines \in Nat /\ Lines # 0 /\ size = Lines * a /\ selected < Lines * a
  BY <1>1, <1>3, LenProperties, ChatViewAssumption DEF FrameInv, Shown
<1>6. k \in 1..a
  <2> HIDE DEF a
  <2>1. selected \div Lines \in Int /\ 0 <= selected \div Lines /\ Lines * (selected \div Lines) <= selected
    BY <1>5
  <2> DEFINE d == selected \div Lines
  <2> HIDE DEF d
  <2>2. d \in Int /\ Lines * d < Lines * a /\ 0 <= d
    BY <1>5, <2>1 DEF d
  <2>3. d < a
    BY <1>5, <2>2
  <2> QED BY <1>5, <2>2, <2>3 DEF d
<1>7. CASE Copy
  <2>1. Len(drawn') = Len(order) /\ (\A i \in 1..Len(order) : drawn'[i] = order[i]) /\ selected' = selected
    BY <1>1, <1>3, <1>7, CopyLemma
  <2>2. a <= Len(order) /\ \A i \in 1..a : drawn[i] = order[i]
    <3>1. DOMAIN drawn = 1..a
      BY <1>1, LenProperties DEF FrameInv
    <3> QED BY <1>3, <3>1 DEF Shown, Prefix
  <2>3. k \in 1..Len(order)
    <3>1. Len(order) \in Nat
      BY <1>1, HeapLemma
    <3> HIDE DEF k, a
    <3> QED BY <1>5, <1>6, <2>2, <3>1
  <2> HIDE DEF a
  <2> QED BY <1>6, <2>1, <2>2, <2>3
<1>8. CASE Check
  <2>1. end = <<begin, 0>> /\ append["ui"] = "none" /\ ~Active("conn")
    BY <1>1, <1>8 DEF Check, Read, FrameInv
  <2>2. Rest
    BY <1>3, <2>1 DEF Alone, Active
  <2>3. Len(order) = 0
    BY <2>1, <2>2 DEF Rest
  <2>4. a = 0
    BY <1>3, <1>5, <2>3 DEF Shown, Prefix
  <2> QED BY <1>5, <2>4
<1> QED BY <1>4, <1>7, <1>8

THEOREM Steady == ViewSpec => CursorStays
<1>1. ViewInv /\ [ViewNext]_viewVars =>
        [selected < size /\ drawn' # drawn /\ ~torn'
           => drawn'[selected' \div Lines + 1] = drawn[selected \div Lines + 1]]_viewVars
  BY SteadyStep
<1> QED BY <1>1, ViewInvariant, PTL DEF ViewSpec, CursorStays
=============================================================================
