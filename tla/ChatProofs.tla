----------------------------- MODULE ChatProofs -----------------------------
(***************************************************************************)
(* Theorems about the whole chat, for any users, any recipients and any    *)
(* number of messages: every list of messages is sound, and an answer is   *)
(* never shown before what it answers.                                     *)
(***************************************************************************)
EXTENDS Chat, ChatRoomProofs, DataProofs

-----------------------------------------------------------------------------
(* Numbering.                                                               *)

\* At the positions I, f goes through 1, 2, ... up to their number.
Numbered(I, f) ==
  /\ \A i, j \in I : i < j => f[i] < f[j]
  /\ \A i \in I : f[i] \in 1..Cardinality(I)
  /\ \A k \in 1..Cardinality(I) : \E i \in I : f[i] = k

\* All positions I are up to n, and g is there what f is.
Continues(I, n, f, g) == I \subseteq 1..n /\ \A i \in I : g[i] = f[i]

\* Positions that stay numbered, and one more behind them that bears the next
\* number.
LEMMA NumberedGrows ==
  ASSUME NEW n \in Nat, NEW I, NEW f, NEW g, Continues(I, n, f, g), Numbered(I, f)
  PROVE  /\ Numbered(I, g)
         /\ Cardinality(I) \in Nat
         /\ Cardinality(I \cup {n + 1}) = Cardinality(I) + 1
         /\ g[n + 1] = Cardinality(I) + 1 => Numbered(I \cup {n + 1}, g)
<1> DEFINE k == Cardinality(I)
           J == I \cup {n + 1}
<1>1. Numbered(I, g) /\ I \subseteq 1..n
  BY DEF Numbered, Continues
<1>2. IsFiniteSet(I)
  <2>1. IsFiniteSet(1..n)
    BY FS_Interval
  <2> QED BY <1>1, <2>1, FS_Subset
<1>3. k \in Nat
  BY <1>2, FS_CardinalityType
<1>4. Cardinality(J) = k + 1
  <2>1. n + 1 \notin I
    BY <1>1
  <2> QED BY <1>2, <2>1, FS_AddElement
<1> HIDE DEF k
<1>5. ASSUME g[n + 1] = k + 1 PROVE Numbered(J, g)
  <2>1. /\ \A i, j \in I : i < j => g[i] < g[j]
        /\ \A i \in I : g[i] \in 1..k
        /\ \A m \in 1..k : \E i \in I : g[i] = m
    BY <1>1 DEF Numbered, k
  <2>2. \A i, j \in J : i < j => g[i] < g[j]
    <3>1. \A i \in I : i < n + 1 /\ g[i] < k + 1
      BY <1>1, <1>3, <2>1
    <3>2. \A i \in J, j \in I : i < j => i \in I
      BY <1>1
    <3> QED BY <1>5, <2>1, <3>1, <3>2
  <2>3. \A i \in J : g[i] \in 1..k + 1
    BY <1>3, <1>5, <2>1
  <2>4. \A m \in 1..k + 1 : \E i \in J : g[i] = m
    <3> SUFFICES ASSUME NEW m \in 1..k + 1 PROVE \E i \in J : g[i] = m
      OBVIOUS
    <3>1. CASE m = k + 1
      BY <1>5, <3>1
    <3>2. CASE m \in 1..k
      BY <2>1, <3>2
    <3> QED BY <1>3, <3>1, <3>2
  <2> QED BY <1>4, <2>2, <2>3, <2>4 DEF Numbered
<1> QED BY <1>1, <1>3, <1>4, <1>5 DEF k

-----------------------------------------------------------------------------
(* The inductive invariant.                                                 *)

FramesOf(c) == {f \in DOMAIN log : log[f].from = c}
OwnOf(c) == {i \in DOMAIN shown[c] : shown[c][i][1] = "own"}
HeardOf(c) == {i \in DOMAIN shown[c] : shown[c][i][1] # "own"}

Data == [f \in DOMAIN log |-> log[f].data]
Number(c) == [i \in DOMAIN shown[c] |-> shown[c][i][2]]

\* The message that was said at a position of the log.
Entry(f) == <<log[f].from, log[f].data>>

\* The frame that an item of a list was read from.
FrameAt(c, i) == inbox[c][shown[c][i][2]]

\* The server passes on the messages of everyone in order, none missing.
LogNumbered == \A c \in Conn : Numbered(FramesOf(c), Data)

\* Everyone shows what it says, and what it hears, in order and none missing.
ListNumbered(c) == Numbered(OwnOf(c), Number(c)) /\ Numbered(HeardOf(c), Number(c))

ListsTyped ==
  /\ \A c \in Conn :
       /\ shown[c] \in Seq({"own", "text", "error"} \X (1..MaxSaid))
       /\ sent[c] \in Relayed(c)..Said(c)
       /\ Heard(c) <= Len(inbox[c])
  /\ DOMAIN past = {m \in Conn \X (1..MaxSaid) : m[2] <= Said(m[1])}

PastBounded == IsFiniteSet(DOMAIN past) /\ Cardinality(DOMAIN past) <= MaxSaid

\* What its author saw when saying m: only what it still shows; its own messages
\* before m, and of the others' only what the server has passed on.
PastSeen ==
  \A m \in DOMAIN past :
    /\ past[m] \subseteq ToSet(Messages(m[1]))
    /\ \A l \in past[m] : IF l[1] = m[1] THEN l[2] < m[2]
                          ELSE \E f \in DOMAIN log : l = Entry(f)

\* The server passes on nothing before what it answers.
LogCausal == \A f, g \in DOMAIN log : Entry(f) \in past[Entry(g)] => f < g

ListInv ==
  /\ shown \in [Conn -> Seq({"own", "text", "error"} \X (1..MaxSaid))]
  /\ DOMAIN sent = Conn
  /\ ListsTyped
  /\ PastBounded
  /\ LogNumbered
  /\ \A c \in Conn : ListNumbered(c)
  /\ PastSeen
  /\ LogCausal
  /\ CausalOrder

StatesTyped ==
  /\ state \in [Conn -> {"away", "connected", "mixed", "lost", "gone"}]
  /\ secret \in [Conn -> {"none", "locked", "unlocked"}]

ChatInv == IInv /\ StatesTyped /\ ListInv

-----------------------------------------------------------------------------
(* What the invariant says.                                                 *)

\* ChatClient brings its own copy of FiniteSets.
LEMMA Counts ==
  ASSUME NEW c \in Conn
  PROVE  /\ Said(c) = Cardinality(OwnOf(c)) /\ Said(c)' = Cardinality(OwnOf(c)')
         /\ Heard(c) = Cardinality(HeardOf(c)) /\ Heard(c)' = Cardinality(HeardOf(c)')
         /\ Relayed(c) = Cardinality(FramesOf(c)) /\ Relayed(c)' = Cardinality(FramesOf(c)')
<1>1. Said(c) = Cardinality(OwnOf(c)) /\ Said(c)' = Cardinality(OwnOf(c)')
  BY DEF Said, C!Said, C!Cardinality, Cardinality, OwnOf
<1>2. Heard(c) = Cardinality(HeardOf(c)) /\ Heard(c)' = Cardinality(HeardOf(c)')
  BY DEF Heard, C!HeardCount, C!Cardinality, Cardinality, HeardOf
<1>3. Relayed(c) = Cardinality(FramesOf(c)) /\ Relayed(c)' = Cardinality(FramesOf(c)')
  BY DEF Relayed, IsFrom, FramesOf
<1> QED BY <1>1, <1>2, <1>3

\* The log numbers everyone's messages, so that a message is in it once.
LEMMA LogLemma ==
  ASSUME IInv, LogNumbered
  PROVE  /\ Len(log) \in Nat /\ DOMAIN log = 1..Len(log)
         /\ \A c \in Conn : Relayed(c) \in Nat /\ FramesOf(c) \subseteq 1..Len(log)
         /\ \A f \in DOMAIN log : log[f].from \in Conn /\ log[f].data \in 1..Relayed(log[f].from)
         /\ \A f, g \in DOMAIN log : log[f].from = log[g].from /\ f < g => log[f].data < log[g].data
         /\ \A c \in Conn : \A n \in 1..Relayed(c) : \E f \in DOMAIN log : Entry(f) = <<c, n>>
         /\ \A f, g \in DOMAIN log : Entry(f) = Entry(g) => f = g
<1>1. log \in Seq([from: Conn, data: Payload])
  BY DEF IInv, TypeOK
<1> DEFINE n == Len(log)
<1>2. n \in Nat /\ DOMAIN log = 1..n /\ \A f \in 1..n : log[f] \in [from: Conn, data: Payload]
  <2>1. n \in Nat /\ DOMAIN log = 1..n /\ log \in [1..n -> [from: Conn, data: Payload]]
    BY <1>1, LenProperties
  <2> QED BY <2>1
<1> HIDE DEF n
<1>3. \A f \in DOMAIN log : log[f].from \in Conn /\ f \in FramesOf(log[f].from)
  BY <1>2 DEF FramesOf
<1>4. ASSUME NEW c \in Conn
      PROVE  /\ FramesOf(c) \subseteq 1..n
             /\ Relayed(c) \in Nat
             /\ \A f \in FramesOf(c) : log[f].data \in 1..Relayed(c)
             /\ \A f, g \in FramesOf(c) : f < g => log[f].data < log[g].data
             /\ \A k \in 1..Relayed(c) : \E f \in FramesOf(c) : log[f].data = k
  <2>1. FramesOf(c) \subseteq 1..n /\ \A f \in FramesOf(c) : Data[f] = log[f].data
    BY <1>2 DEF FramesOf, Data
  <2>2. Numbered(FramesOf(c), Data) /\ Relayed(c) = Cardinality(FramesOf(c))
    BY Counts DEF LogNumbered
  <2>3. Cardinality(FramesOf(c)) \in Nat
    BY <1>2, <2>1, <2>2, NumberedGrows DEF Continues
  <2> QED BY <2>1, <2>2, <2>3 DEF Numbered
<1>5. \A f \in DOMAIN log : log[f].data \in 1..Relayed(log[f].from)
  BY <1>3, <1>4
<1>6. \A f, g \in DOMAIN log : log[f].from = log[g].from /\ f < g => log[f].data < log[g].data
  BY <1>3, <1>4
<1>7. \A c \in Conn : \A k \in 1..Relayed(c) : \E f \in DOMAIN log : Entry(f) = <<c, k>>
  BY <1>4 DEF FramesOf, Entry
<1>8. ASSUME NEW f \in DOMAIN log, NEW g \in DOMAIN log, Entry(f) = Entry(g) PROVE f = g
  <2>1. log[f].from = log[g].from /\ log[f].data = log[g].data
    BY <1>8 DEF Entry
  <2>2. log[f].data \in Int
    BY <1>3, <1>4
  <2>3. ~(f < g) /\ ~(g < f)
    BY <1>6, <2>1, <2>2
  <2>4. f \in Int /\ g \in Int
    BY <1>2
  <2> QED BY <2>3, <2>4
<1> QED BY <1>2, <1>3, <1>4, <1>5, <1>6, <1>7, <1>8 DEF n

\* What somebody was told is in the log, and is not its own.
LEMMA InboxLemma ==
  ASSUME IInv, NEW c \in Conn
  PROVE  /\ Len(inbox[c]) \in Nat /\ DOMAIN inbox[c] = 1..Len(inbox[c])
         /\ \A k \in DOMAIN inbox[c] : inbox[c][k] \in DOMAIN log /\ log[inbox[c][k]].from # c
         /\ \A j, k \in DOMAIN inbox[c] : j < k => inbox[c][j] < inbox[c][k]
<1>1. inbox[c] \in Seq(Nat) /\ log \in Seq([from: Conn, data: Payload])
  BY DEF IInv, TypeOK
<1>2. Len(inbox[c]) \in Nat /\ DOMAIN inbox[c] = 1..Len(inbox[c])
  BY <1>1
<1>3. \A j, k \in DOMAIN inbox[c] : j < k => inbox[c][j] < inbox[c][k]
  BY DEF IInv, HearsInOrder
<1>4. ASSUME NEW k \in DOMAIN inbox[c]
      PROVE  inbox[c][k] \in DOMAIN log /\ log[inbox[c][k]].from # c
  <2> DEFINE f == inbox[c][k]
             n == Len(log)
  <2>1. {inbox[c][i] : i \in DOMAIN inbox[c]} = IF joined[c] = -1 THEN {} ELSE Audible(c)
    BY DEF IInv, HearsExactlyTheOthers
  <2>2. joined[c] # -1 /\ f \in Audible(c)
    BY <2>1
  <2>3. joined[c] \in Nat /\ left[c] \in Int /\ left[c] <= n /\ n \in Nat /\ DOMAIN log = 1..n
    BY <1>1, <2>2 DEF IInv, TypeOK, Bounded
  <2>4. f \in joined[c] + 1 .. Until(c) /\ log[f].from # c /\ Until(c) \in {n, left[c]}
    BY <2>2 DEF Audible, Until
  <2> HIDE DEF f, n
  <2>5. f \in DOMAIN log
    BY <2>3, <2>4
  <2> QED BY <2>4, <2>5 DEF f
<1> QED BY <1>2, <1>3, <1>4

\* The items of a list and the messages they stand for.
LEMMA ItemLemma ==
  ASSUME IInv, ListInv, NEW c \in Conn
  PROVE  /\ Len(shown[c]) \in Nat /\ DOMAIN shown[c] = 1..Len(shown[c])
         /\ DOMAIN Messages(c) = DOMAIN shown[c]
         /\ OwnOf(c) \subseteq DOMAIN shown[c] /\ HeardOf(c) = DOMAIN shown[c] \ OwnOf(c)
         /\ Said(c) \in 0..MaxSaid /\ Heard(c) \in Nat
         /\ \A i \in OwnOf(c) : shown[c][i][2] \in 1..Said(c) /\ Messages(c)[i] = <<c, shown[c][i][2]>>
         /\ \A i \in HeardOf(c) :
              /\ shown[c][i][2] \in 1..Heard(c) /\ shown[c][i][2] \in DOMAIN inbox[c]
              /\ FrameAt(c, i) \in DOMAIN log
              /\ log[FrameAt(c, i)].from # c
              /\ Messages(c)[i] = Entry(FrameAt(c, i))
<1> DEFINE s == shown[c]
           n == Len(s)
           T == {"own", "text", "error"} \X (1..MaxSaid)
<1>1. s \in Seq(T)
  BY DEF ListInv
<1>2. n \in Nat /\ DOMAIN s = 1..n /\ \A i \in 1..n : s[i] \in T
  BY <1>1
<1> HIDE DEF n
<1>3. DOMAIN Messages(c) = DOMAIN s
  BY DEF Messages
<1>4. OwnOf(c) \subseteq 1..n /\ HeardOf(c) = DOMAIN s \ OwnOf(c) /\ HeardOf(c) \subseteq 1..n
  BY <1>2 DEF OwnOf, HeardOf
<1>5. Numbered(OwnOf(c), Number(c)) /\ Numbered(HeardOf(c), Number(c))
  BY DEF ListInv, ListNumbered
<1>6. Said(c) \in Nat /\ Heard(c) \in Nat
      /\ Said(c) = Cardinality(OwnOf(c)) /\ Heard(c) = Cardinality(HeardOf(c))
  BY <1>2, <1>4, <1>5, Counts, NumberedGrows DEF Continues
<1>7. \A i \in DOMAIN s : Number(c)[i] = s[i][2] /\ s[i][2] \in 1..MaxSaid
  BY <1>2 DEF Number
<1> HIDE DEF s
<1>8. /\ \A i \in OwnOf(c) : s[i][2] \in 1..Said(c)
      /\ \A i \in HeardOf(c) : s[i][2] \in 1..Heard(c)
      /\ \A k \in 1..Said(c) : \E i \in OwnOf(c) : s[i][2] = k
  <2>1. /\ \A i \in OwnOf(c) : Number(c)[i] = s[i][2]
        /\ \A i \in HeardOf(c) : Number(c)[i] = s[i][2]
    BY <1>2, <1>4, <1>7
  <2>2. /\ \A i \in OwnOf(c) : Number(c)[i] \in 1..Said(c)
        /\ \A i \in HeardOf(c) : Number(c)[i] \in 1..Heard(c)
        /\ \A k \in 1..Said(c) : \E i \in OwnOf(c) : Number(c)[i] = k
    BY <1>5, <1>6 DEF Numbered
  <2> QED BY <2>1, <2>2
<1>9. Said(c) \in 0..MaxSaid
  <2>1. MaxSaid \in Nat
    BY ChatAssumption
  <2>2. CASE Said(c) > 0
    <3>1. PICK i \in OwnOf(c) : s[i][2] = Said(c)
      BY <1>6, <1>8, <2>2
    <3>2. Said(c) \in 1..MaxSaid
      BY <1>2, <1>4, <1>7, <3>1
    <3> QED BY <2>1, <3>2
  <2> QED BY <1>6, <2>1, <2>2
<1>10. ASSUME NEW i \in OwnOf(c) PROVE Messages(c)[i] = <<c, s[i][2]>>
  BY DEF Messages, MessageOf, OwnOf, s
<1>11. ASSUME NEW i \in HeardOf(c)
       PROVE  /\ s[i][2] \in DOMAIN inbox[c]
              /\ FrameAt(c, i) \in DOMAIN log /\ log[FrameAt(c, i)].from # c
              /\ Messages(c)[i] = Entry(FrameAt(c, i))
  <2>1. s[i][2] \in DOMAIN inbox[c]
    <3>1. Heard(c) <= Len(inbox[c]) /\ Len(inbox[c]) \in Nat /\ DOMAIN inbox[c] = 1..Len(inbox[c])
      BY InboxLemma DEF ListInv, ListsTyped
    <3> DEFINE m == Len(inbox[c])
               k == s[i][2]
    <3>2. k \in 1..Heard(c)
      BY <1>8
    <3> HIDE DEF m, k
    <3>3. k \in 1..m
      BY <1>6, <3>1, <3>2 DEF m
    <3> QED BY <3>1, <3>3 DEF m, k
  <2>2. FrameAt(c, i) \in DOMAIN log /\ log[FrameAt(c, i)].from # c
    BY <2>1, InboxLemma DEF FrameAt, s
  <2>3. Messages(c)[i] = Entry(FrameAt(c, i))
    BY DEF Messages, MessageOf, HeardOf, FrameAt, Entry
  <2> QED BY <2>1, <2>2, <2>3
<1> QED BY <1>2, <1>3, <1>4, <1>6, <1>8, <1>9, <1>10, <1>11 DEF s, n

\* What is shown somewhere was said.
LEMMA Known ==
  ASSUME IInv, ListInv
  PROVE  /\ \A f \in DOMAIN log : Entry(f) \in DOMAIN past
         /\ \A c \in Conn : ToSet(Messages(c)) \subseteq DOMAIN past
<1>1. DOMAIN past = {m \in Conn \X (1..MaxSaid) : m[2] <= Said(m[1])}
  BY DEF ListInv, ListsTyped
<1>2. ASSUME NEW c \in Conn, NEW k \in 1..Said(c) PROVE <<c, k>> \in DOMAIN past
  <2>1. Said(c) \in 0..MaxSaid /\ MaxSaid \in Nat
    BY ItemLemma, ChatAssumption
  <2>2. k \in 1..MaxSaid /\ k <= Said(c)
    BY <2>1
  <2> QED BY <1>1, <2>2
<1>3. ASSUME NEW f \in DOMAIN log PROVE Entry(f) \in DOMAIN past
  <2> DEFINE c == log[f].from
             k == log[f].data
  <2>1. c \in Conn /\ k \in 1..Relayed(c) /\ Relayed(c) \in Nat
    BY LogLemma DEF ListInv
  <2> HIDE DEF c, k
  <2>2. sent[c] \in Relayed(c)..Said(c) /\ Said(c) \in 0..MaxSaid
    BY <2>1, ItemLemma DEF ListInv, ListsTyped
  <2>3. k \in 1..Said(c)
    BY <2>1, <2>2
  <2>4. <<c, k>> \in DOMAIN past
    BY <1>2, <2>1, <2>3
  <2> QED BY <2>4 DEF Entry, c, k
<1>4. ASSUME NEW c \in Conn, NEW i \in DOMAIN Messages(c) PROVE Messages(c)[i] \in DOMAIN past
  <2>1. CASE i \in OwnOf(c)
    <3> DEFINE k == shown[c][i][2]
    <3>1. k \in 1..Said(c) /\ Messages(c)[i] = <<c, k>>
      BY <2>1, ItemLemma
    <3> HIDE DEF k
    <3> QED BY <1>2, <3>1
  <2>2. CASE i \notin OwnOf(c)
    <3>1. i \in HeardOf(c)
      BY <1>4, <2>2, ItemLemma
    <3> QED BY <1>3, <3>1, ItemLemma
  <2> QED BY <2>1, <2>2
<1> QED BY <1>3, <1>4 DEF ToSet

\* All that is said fits the bound, and so does what is passed on and told.
LEMMA Fits ==
  ASSUME IInv, ListInv, NEW c \in Conn
  PROVE  /\ Len(inbox[c]) <= MaxSaid
         /\ Said(c) <= Cardinality(DOMAIN past)
         /\ Cardinality(DOMAIN past) \in Nat
<1> DEFINE n == Len(log)
           m == Len(inbox[c])
           p == Cardinality(DOMAIN past)
<1>1. IsFiniteSet(DOMAIN past) /\ p <= MaxSaid /\ p \in Nat
  BY FS_CardinalityType DEF ListInv, PastBounded
<1>2. n \in Nat /\ DOMAIN log = 1..n /\ m \in Nat /\ DOMAIN inbox[c] = 1..m
  BY LogLemma, InboxLemma DEF ListInv
<1>3. \A k \in Nat : IsFiniteSet(1..k) /\ Cardinality(1..k) = k
  BY FS_Interval
<1> HIDE DEF n, m, p
<1>4. n <= p
  <2> DEFINE e == [f \in 1..n |-> Entry(f)]
  <2>1. e \in [1..n -> DOMAIN past]
    BY <1>2, Known
  <2>2. \A f, g \in 1..n : e[f] = e[g] => f = g
    BY <1>2, LogLemma DEF ListInv
  <2> HIDE DEF e
  <2>3. e \in Injection(1..n, DOMAIN past)
    BY <2>1, <2>2 DEF Injection, IsInjective
  <2>4. Cardinality(1..n) <= Cardinality(DOMAIN past)
    BY <1>1, <2>3, FS_Injection
  <2> QED BY <1>2, <1>3, <2>4 DEF p
<1>5. m <= n
  <2> DEFINE b == inbox[c]
  <2>1. b \in Seq(Nat)
    BY DEF IInv, TypeOK
  <2>2. b \in [1..m -> 1..n]
    <3>1. \A k \in 1..m : b[k] \in 1..n
      BY <1>2, InboxLemma
    <3>2. b = [k \in 1..m |-> b[k]]
      BY <2>1 DEF m
    <3> HIDE DEF b
    <3> QED BY <3>1, <3>2
  <2>3. \A j, k \in 1..m : j < k => b[j] < b[k]
    BY <1>2, InboxLemma
  <2> HIDE DEF b
  <2>4. \A j, k \in 1..m : b[j] = b[k] => j = k
    <3> SUFFICES ASSUME NEW j \in 1..m, NEW k \in 1..m, b[j] = b[k] PROVE j = k
      OBVIOUS
    <3>1. b[j] \in Int /\ ~(j < k) /\ ~(k < j)
      BY <2>2, <2>3
    <3> QED BY <3>1
  <2>5. b \in Injection(1..m, 1..n)
    BY <2>2, <2>4 DEF Injection, IsInjective
  <2>6. Cardinality(1..m) <= Cardinality(1..n)
    BY <1>2, <1>3, <2>5, FS_Injection
  <2> QED BY <1>2, <1>3, <2>6
<1>6. Said(c) <= p
  <2> DEFINE k == Said(c)
             e == [i \in 1..k |-> <<c, i>>]
  <2>1. k \in Nat /\ k <= MaxSaid /\ MaxSaid \in Nat
    <3>1. k \in 0..MaxSaid /\ MaxSaid \in Nat
      BY ItemLemma, ChatAssumption
    <3> HIDE DEF k
    <3> QED BY <3>1
  <2>2. \A i \in 1..k : <<c, i>> \in DOMAIN past
    <3>1. DOMAIN past = {l \in Conn \X (1..MaxSaid) : l[2] <= Said(l[1])}
      BY DEF ListInv, ListsTyped
    <3> SUFFICES ASSUME NEW i \in 1..k PROVE <<c, i>> \in DOMAIN past
      OBVIOUS
    <3>2. i \in 1..MaxSaid /\ i <= Said(c)
      BY <2>1
    <3> QED BY <3>1, <3>2
  <2> HIDE DEF k
  <2>3. e \in Injection(1..k, DOMAIN past)
    BY <2>2 DEF Injection, IsInjective
  <2>4. Cardinality(1..k) <= Cardinality(DOMAIN past)
    BY <1>1, <2>3, FS_Injection
  <2> QED BY <1>3, <2>1, <2>4 DEF k, p
<1> QED
  <2>1. m <= MaxSaid
    BY <1>1, <1>2, <1>4, <1>5, ChatAssumption
  <2> QED BY <1>1, <1>6, <2>1 DEF m, p

\* Items that were heard lie in a list in the order of the log.
LEMMA FramesInOrder ==
  ASSUME IInv, ListInv, NEW c \in Conn, NEW i \in HeardOf(c), NEW j \in HeardOf(c)
  PROVE  /\ i < j <=> FrameAt(c, i) < FrameAt(c, j)
         /\ i < j <=> shown[c][i][2] < shown[c][j][2]
<1> DEFINE s == shown[c]
           b == inbox[c]
<1>1. /\ \A k, l \in HeardOf(c) : k < l => s[k][2] < s[l][2]
      /\ HeardOf(c) \subseteq Int /\ \A k \in HeardOf(c) : s[k][2] \in Int /\ s[k][2] \in DOMAIN b
  <2>1. \A k, l \in HeardOf(c) : k < l => Number(c)[k] < Number(c)[l]
    BY DEF ListInv, ListNumbered, Numbered
  <2>2. HeardOf(c) \subseteq DOMAIN s /\ DOMAIN s = 1..Len(s)
    BY ItemLemma
  <2>3. \A k \in HeardOf(c) : Number(c)[k] = s[k][2]
    BY <2>2 DEF Number
  <2>4. \A k \in HeardOf(c) : s[k][2] \in Int /\ s[k][2] \in DOMAIN b
    BY ItemLemma
  <2> QED BY <2>1, <2>2, <2>3, <2>4
<1>2. \A k, l \in DOMAIN b : (k < l => b[k] < b[l]) /\ b[k] \in Int
  BY InboxLemma, LogLemma DEF ListInv
<1>3. FrameAt(c, i) = b[s[i][2]] /\ FrameAt(c, j) = b[s[j][2]]
  BY DEF FrameAt
<1> HIDE DEF s, b
<1>4. i < j \/ j < i \/ i = j
  BY <1>1
<1>5. ASSUME NEW k \in HeardOf(c), NEW l \in HeardOf(c), k < l
      PROVE  s[k][2] < s[l][2] /\ b[s[k][2]] < b[s[l][2]]
  BY <1>1, <1>2, <1>5
<1>6. s[i][2] \in Int /\ s[j][2] \in Int /\ b[s[i][2]] \in Int /\ b[s[j][2]] \in Int
  BY <1>1, <1>2
<1>7. (i < j <=> s[i][2] < s[j][2]) /\ (i < j <=> b[s[i][2]] < b[s[j][2]])
  BY <1>1, <1>4, <1>5, <1>6
<1> QED BY <1>3, <1>7 DEF s

\* No number is missing in a list.
LEMMA NumbersThere ==
  ASSUME IInv, ListInv, NEW c \in Conn
  PROVE  /\ \A k \in 1..Said(c) : \E i \in OwnOf(c) : shown[c][i][2] = k
         /\ \A k \in 1..Heard(c) : \E i \in HeardOf(c) : shown[c][i][2] = k
         /\ \A i, j \in OwnOf(c) : shown[c][i][2] = shown[c][j][2] => i = j
<1>1. OwnOf(c) \subseteq DOMAIN shown[c] /\ HeardOf(c) \subseteq DOMAIN shown[c]
      /\ DOMAIN shown[c] = 1..Len(shown[c])
  BY ItemLemma
<1>2. \A i \in DOMAIN shown[c] : Number(c)[i] = shown[c][i][2]
  BY DEF Number
<1>3. /\ \A k \in 1..Said(c) : \E i \in OwnOf(c) : Number(c)[i] = k
      /\ \A k \in 1..Heard(c) : \E i \in HeardOf(c) : Number(c)[i] = k
      /\ \A i, j \in OwnOf(c) : i < j => Number(c)[i] < Number(c)[j]
  BY Counts DEF ListInv, ListNumbered, Numbered
<1>4. /\ \A k \in 1..Said(c) : \E i \in OwnOf(c) : shown[c][i][2] = k
      /\ \A k \in 1..Heard(c) : \E i \in HeardOf(c) : shown[c][i][2] = k
  BY <1>1, <1>2, <1>3
<1>5. ASSUME NEW i \in OwnOf(c), NEW j \in OwnOf(c), shown[c][i][2] = shown[c][j][2] PROVE i = j
  <2>1. Number(c)[i] = Number(c)[j] /\ Number(c)[i] \in 1..Said(c)
    <3>1. shown[c][i][2] \in 1..Said(c)
      BY ItemLemma
    <3> QED BY <1>1, <1>2, <1>5, <3>1
  <2>2. ~(i < j) /\ ~(j < i)
    BY <1>3, <2>1
  <2> QED BY <1>1, <2>2
<1> QED BY <1>4, <1>5

\* No message is in a list twice.
LEMMA OnceEach ==
  ASSUME IInv, ListInv, NEW c \in Conn, NEW i \in DOMAIN Messages(c), NEW j \in DOMAIN Messages(c),
         Messages(c)[i] = Messages(c)[j]
  PROVE  i = j
<1>1. /\ i \in OwnOf(c) \cup HeardOf(c) /\ j \in OwnOf(c) \cup HeardOf(c)
      /\ i \in Int /\ j \in Int
  BY ItemLemma
<1>2. ASSUME NEW k \in OwnOf(c), NEW l \in HeardOf(c) PROVE Messages(c)[k] # Messages(c)[l]
  BY ItemLemma DEF Entry
<1>3. CASE i \in OwnOf(c) /\ j \in OwnOf(c)
  <2>1. shown[c][i][2] = shown[c][j][2]
    BY <1>3, ItemLemma
  <2> QED BY <1>3, <2>1, NumbersThere
<1>4. CASE i \in HeardOf(c) /\ j \in HeardOf(c)
  <2>1. /\ FrameAt(c, i) \in DOMAIN log /\ FrameAt(c, j) \in DOMAIN log
        /\ Entry(FrameAt(c, i)) = Entry(FrameAt(c, j))
    BY <1>4, ItemLemma
  <2>2. FrameAt(c, i) = FrameAt(c, j) /\ FrameAt(c, i) \in Int
    BY <2>1, LogLemma DEF ListInv
  <2>3. ~(i < j) /\ ~(j < i)
    BY <1>4, <2>2, FramesInOrder
  <2> QED BY <1>1, <2>3
<1> QED BY <1>1, <1>2, <1>3, <1>4

\* Whoever shows a frame shows all that were due before it.
LEMMA NoneMissing ==
  ASSUME IInv, ListInv, NEW c \in Conn, NEW j \in HeardOf(c), NEW h \in DueBefore(c, FrameAt(c, j))
  PROVE  Entry(h) \in ToSet(Messages(c))
<1> DEFINE g == FrameAt(c, j)
           b == inbox[c]
           r == shown[c][j][2]
<1>1. g \in DOMAIN log /\ r \in DOMAIN b /\ r \in 1..Heard(c) /\ Heard(c) \in Nat
  BY ItemLemma
<1>2. b[r] = g
  BY DEF FrameAt
<1>3. joined[c] \in Int /\ Until(c) \in Int /\ g \in Int
  <2>1. joined[c] \in Int /\ left[c] \in Int
    BY DEF IInv, TypeOK
  <2>2. Len(log) \in Int /\ DOMAIN log = 1..Len(log)
    BY LogLemma DEF ListInv
  <2> QED BY <1>1, <2>1, <2>2 DEF Until
<1>4. h \in joined[c] + 1 .. g /\ log[h].from # c
  BY DEF DueBefore, IsFrom
<1>5. h \in {b[k] : k \in DOMAIN b}
  <2>1. {b[k] : k \in DOMAIN b} = IF joined[c] = -1 THEN {} ELSE Audible(c)
    BY DEF IInv, HearsExactlyTheOthers
  <2>2. joined[c] # -1 /\ g \in joined[c] + 1 .. Until(c)
    BY <1>1, <1>2, <2>1 DEF Audible
  <2> HIDE DEF g, b
  <2>3. h \in joined[c] + 1 .. Until(c)
    BY <1>3, <1>4, <2>2
  <2> QED BY <1>4, <2>1, <2>2, <2>3 DEF Audible
<1>6. PICK k \in DOMAIN b : b[k] = h
  BY <1>5
<1>7. k \in 1..Heard(c)
  <2>1. /\ \A x, y \in DOMAIN b : x < y => b[x] < b[y]
        /\ DOMAIN b = 1..Len(b) /\ Len(b) \in Nat
    BY InboxLemma
  <2> HIDE DEF b, r, g
  <2>2. h <= g /\ h \in Int
    BY <1>3, <1>4
  <2>3. ~(r < k)
    BY <1>1, <1>2, <1>3, <1>6, <2>1, <2>2
  <2>4. k \in Nat /\ k >= 1 /\ r \in Nat
    BY <1>1, <1>6, <2>1
  <2> QED BY <1>1, <2>3, <2>4
<1>8. PICK l \in HeardOf(c) : shown[c][l][2] = k
  BY <1>7, NumbersThere
<1>9. Messages(c)[l] = Entry(h) /\ l \in DOMAIN Messages(c)
  BY <1>6, <1>8, ItemLemma DEF FrameAt
<1> QED BY <1>9 DEF ToSet

\* The invariant makes every list sound.
LEMMA InvSound == ChatInv => ListsSound
<1> SUFFICES ASSUME ChatInv PROVE ListsSound
  OBVIOUS
<1>1. ChatTypeOK
  BY DEF ChatInv, StatesTyped, ListInv, ListsTyped, ChatTypeOK
<1>2. NoneTwiceNoneMissing
  <2> SUFFICES ASSUME NEW c \in Conn
               PROVE  /\ IsInjective(Messages(c))
                      /\ \A i \in DOMAIN Messages(c) : shown[c][i][1] # "own" =>
                           \A h \in DueBefore(c, FrameAt(c, i)) : Entry(h) \in ToSet(Messages(c))
    BY DEF NoneTwiceNoneMissing, FrameAt, Entry
  <2>1. IsInjective(Messages(c))
    BY OnceEach DEF ChatInv, IsInjective
  <2>2. ASSUME NEW i \in DOMAIN Messages(c), shown[c][i][1] # "own",
               NEW h \in DueBefore(c, FrameAt(c, i))
        PROVE  Entry(h) \in ToSet(Messages(c))
    <3>1. i \in HeardOf(c)
      BY <2>2, ItemLemma DEF ChatInv, HeardOf
    <3> QED BY <2>2, <3>1, NoneMissing DEF ChatInv
  <2> QED BY <2>1, <2>2
<1> QED BY <1>1, <1>2 DEF ListsSound

-----------------------------------------------------------------------------
(* The steps.                                                               *)

\* Nothing was said yet.
LEMMA InitChat == ChatInit => ChatInv
<1> SUFFICES ASSUME ChatInit PROVE ChatInv
  OBVIOUS
<1>1. IInv /\ log = <<>> /\ \A c \in Conn : inbox[c] = <<>>
  BY InitIInv DEF ChatInit, Init
<1>2. StatesTyped
  BY DEF ChatInit, StatesTyped
<1>3. \A c \in Conn : shown[c] = <<>> /\ sent[c] = 0
  BY DEF ChatInit
<1>4. \A c \in Conn : FramesOf(c) = {} /\ OwnOf(c) = {} /\ HeardOf(c) = {}
  <2>1. DOMAIN log = {} /\ \A c \in Conn : DOMAIN shown[c] = {}
    BY <1>1, <1>3
  <2> QED BY <2>1 DEF FramesOf, OwnOf, HeardOf
<1>5. Cardinality({}) = 0 /\ IsFiniteSet({})
  BY FS_EmptySet
<1>6. \A c \in Conn : Said(c) = 0 /\ Heard(c) = 0 /\ Relayed(c) = 0
  BY <1>4, <1>5, Counts
<1>7. DOMAIN past = {}
  BY DEF ChatInit
<1>8. \A f : Numbered({}, f)
  BY <1>5 DEF Numbered
<1>9. ListsTyped
  <2>1. ASSUME NEW c \in Conn
        PROVE  /\ shown[c] \in Seq({"own", "text", "error"} \X (1..MaxSaid))
               /\ sent[c] \in Relayed(c)..Said(c)
               /\ Heard(c) <= Len(inbox[c])
    <3>1. shown[c] \in Seq({"own", "text", "error"} \X (1..MaxSaid))
      BY <1>3, EmptySeq
    <3>2. Len(inbox[c]) = 0
      BY <1>1
    <3> QED BY <1>3, <1>6, <3>1, <3>2
  <2>2. {m \in Conn \X (1..MaxSaid) : m[2] <= Said(m[1])} = {}
    <3> SUFFICES ASSUME NEW m \in Conn \X (1..MaxSaid), m[2] <= Said(m[1]) PROVE FALSE
      OBVIOUS
    <3> DEFINE a == m[1]
               n == m[2]
    <3>1. a \in Conn /\ n \in 1..MaxSaid /\ n <= Said(a)
      OBVIOUS
    <3> HIDE DEF a, n
    <3> QED BY <1>6, <3>1
  <2> QED BY <1>7, <2>1, <2>2 DEF ListsTyped
<1>10. PastBounded
  BY <1>5, <1>7, ChatAssumption DEF PastBounded
<1>11. LogNumbered /\ \A c \in Conn : ListNumbered(c)
  BY <1>4, <1>8 DEF LogNumbered, ListNumbered
<1>12. PastSeen /\ LogCausal /\ CausalOrder
  <2>1. \A c \in Conn : DOMAIN Messages(c) = {}
    <3>1. ASSUME NEW c \in Conn PROVE DOMAIN shown[c] = {}
      BY <1>3
    <3> QED BY <3>1 DEF Messages
  <2>2. DOMAIN log = {}
    BY <1>1
  <2> QED BY <1>7, <2>1, <2>2 DEF PastSeen, LogCausal, CausalOrder
<1>13. shown \in [Conn -> Seq({"own", "text", "error"} \X (1..MaxSaid))] /\ DOMAIN sent = Conn
  BY <1>3, EmptySeq DEF ChatInit
<1> QED BY <1>1, <1>2, <1>9, <1>10, <1>11, <1>12, <1>13 DEF ChatInv, ListInv

\* What leaves the lists, the log and what was told alone; a message more may be
\* written, if it was said.
LEMMA ListsStay ==
  ASSUME ListInv, UNCHANGED <<shown, past, log, inbox>>,
         DOMAIN sent' = Conn, \A c \in Conn : sent'[c] \in Relayed(c)..Said(c)
  PROVE  ListInv'
<1>1. \A c \in Conn : /\ OwnOf(c)' = OwnOf(c) /\ HeardOf(c)' = HeardOf(c) /\ FramesOf(c)' = FramesOf(c)
                      /\ Messages(c)' = Messages(c) /\ Number(c)' = Number(c)
  BY DEF OwnOf, HeardOf, FramesOf, Messages, MessageOf, Number
<1>2. \A c \in Conn : Said(c)' = Said(c) /\ Heard(c)' = Heard(c) /\ Relayed(c)' = Relayed(c)
  BY <1>1, Counts
<1>3. Data' = Data /\ \A f : Entry(f)' = Entry(f)
  BY DEF Data, Entry
<1>4. ListsTyped'
  <2>1. {m \in Conn \X (1..MaxSaid) : m[2] <= Said(m[1])'} = {m \in Conn \X (1..MaxSaid) : m[2] <= Said(m[1])}
    BY <1>2
  <2> QED BY <1>2, <2>1 DEF ListInv, ListsTyped
<1>5. PastBounded' /\ LogNumbered' /\ \A c \in Conn : ListNumbered(c)'
  BY <1>1, <1>3 DEF ListInv, PastBounded, LogNumbered, ListNumbered
<1>6. PastSeen' /\ LogCausal' /\ CausalOrder'
  <2>1. \A m \in DOMAIN past : m[1] \in Conn
    BY DEF ListInv, ListsTyped
  <2>2. PastSeen'
    BY <1>1, <1>3, <2>1 DEF ListInv, PastSeen
  <2>3. LogCausal'
    BY <1>3 DEF ListInv, LogCausal
  <2>4. CausalOrder'
    BY <1>1 DEF ListInv, CausalOrder
  <2> QED BY <2>2, <2>3, <2>4
<1> QED BY <1>4, <1>5, <1>6 DEF ListInv

\* A message that is written is one of the user's.
LEMMA SendStep ==
  ASSUME IInv, ListInv, NEW c \in Conn, Send(c)
  PROVE  ListInv'
<1>1. UNCHANGED <<shown, past, log, inbox>>
  BY DEF Send, room
<1>2. ASSUME NEW d \in Conn PROVE sent'[d] \in Relayed(d)..Said(d)
  <2>1. sent[d] \in Relayed(d)..Said(d) /\ Relayed(d) \in Nat /\ Said(d) \in 0..MaxSaid
    BY ItemLemma, LogLemma DEF ListInv, ListsTyped
  <2>2. sent'[d] = IF d = c THEN sent[c] + 1 ELSE sent[d]
    BY DEF Send, ListInv
  <2>3. sent[c] < Said(c)
    BY DEF Send
  <2> QED BY <2>1, <2>2, <2>3, ChatAssumption
<1>3. DOMAIN sent' = Conn
  BY DEF Send, ListInv
<1> QED BY <1>1, <1>2, <1>3, ListsStay

\* A list that grows by one item.
LEMMA ListGrows ==
  ASSUME IInv, ListInv, NEW c \in Conn,
         NEW item \in {"own", "text", "error"} \X (1..MaxSaid),
         UNCHANGED <<log, inbox, sent>>,
         shown' = [shown EXCEPT ![c] = Append(@, item)]
  PROVE  /\ shown' \in [Conn -> Seq({"own", "text", "error"} \X (1..MaxSaid))]
         /\ \A d \in Conn \ {c} : /\ Messages(d)' = Messages(d) /\ ListNumbered(d)'
                                  /\ Said(d)' = Said(d) /\ Heard(d)' = Heard(d)
         /\ DOMAIN Messages(c) = 1..Len(shown[c]) /\ Len(shown[c]) \in Nat
         /\ DOMAIN Messages(c)' = 1..Len(shown[c]) + 1
         /\ \A i \in 1..Len(shown[c]) : Messages(c)'[i] = Messages(c)[i]
         /\ Messages(c)'[Len(shown[c]) + 1] = MessageOf(c, item)
         /\ ToSet(Messages(c)) \subseteq ToSet(Messages(c)')
         /\ item[1] = "own" /\ item[2] = Said(c) + 1 =>
              Said(c)' = Said(c) + 1 /\ Heard(c)' = Heard(c) /\ ListNumbered(c)'
         /\ item[1] # "own" /\ item[2] = Heard(c) + 1 =>
              Said(c)' = Said(c) /\ Heard(c)' = Heard(c) + 1 /\ ListNumbered(c)'
<1> DEFINE T == {"own", "text", "error"} \X (1..MaxSaid)
           s == shown[c]
           t == shown'[c]
           n == Len(s)
<1>1. s \in Seq(T) /\ t = Append(s, item) /\ shown' = [d \in Conn |-> IF d = c THEN t ELSE shown[d]]
  BY DEF ListInv
<1>2. /\ n \in Nat /\ DOMAIN s = 1..n /\ t \in Seq(T) /\ DOMAIN t = 1..n + 1
      /\ \A i \in 1..n : t[i] = s[i]
      /\ t[n + 1] = item
  BY <1>1, AppendProperties, LenProperties
<1>3. shown' \in [Conn -> Seq(T)]
  BY <1>1, <1>2 DEF ListInv
<1>4. ASSUME NEW d \in Conn \ {c}
      PROVE  Messages(d)' = Messages(d) /\ ListNumbered(d)' /\ Said(d)' = Said(d) /\ Heard(d)' = Heard(d)
  <2>1. shown'[d] = shown[d]
    BY <1>1
  <2>2. OwnOf(d)' = OwnOf(d) /\ HeardOf(d)' = HeardOf(d) /\ Number(d)' = Number(d)
    BY <2>1 DEF OwnOf, HeardOf, Number
  <2>3. Messages(d)' = Messages(d)
    BY <2>1 DEF Messages, MessageOf
  <2>4. ListNumbered(d)'
    BY <2>2 DEF ListInv, ListNumbered
  <2> QED BY <2>2, <2>3, <2>4, Counts
<1>5. /\ DOMAIN Messages(c) = 1..n /\ DOMAIN Messages(c)' = 1..n + 1
      /\ \A i \in 1..n : Messages(c)'[i] = Messages(c)[i]
      /\ Messages(c)'[n + 1] = MessageOf(c, item)
  <2>1. DOMAIN Messages(c) = 1..n /\ DOMAIN Messages(c)' = 1..n + 1
    BY <1>2 DEF Messages
  <2>2. \A i \in 1..n : Messages(c)[i] = MessageOf(c, s[i])
    BY <1>2 DEF Messages
  <2>3. Messages(c)' = [i \in DOMAIN t |-> MessageOf(c, t[i])]
    <3>1. log' = log /\ inbox' = inbox
      OBVIOUS
    <3> HIDE DEF t
    <3> QED BY <3>1 DEF Messages, MessageOf, t
  <2>4. \A i \in 1..n + 1 : Messages(c)'[i] = MessageOf(c, t[i])
    <3> HIDE DEF t
    <3> QED BY <1>2, <2>3
  <2> HIDE DEF s, t, n
  <2> QED BY <1>2, <2>1, <2>2, <2>4
<1>6. ToSet(Messages(c)) \subseteq ToSet(Messages(c)')
  <2> HIDE DEF n
  <2> QED BY <1>2, <1>5 DEF ToSet
<1>7. /\ OwnOf(c) \subseteq 1..n /\ HeardOf(c) \subseteq 1..n
      /\ \A i \in 1..n : Number(c)'[i] = Number(c)[i]
      /\ Number(c)'[n + 1] = item[2]
  BY <1>2 DEF OwnOf, HeardOf, Number
<1>8. /\ item[1] = "own" => OwnOf(c)' = OwnOf(c) \cup {n + 1} /\ HeardOf(c)' = HeardOf(c)
      /\ item[1] # "own" => OwnOf(c)' = OwnOf(c) /\ HeardOf(c)' = HeardOf(c) \cup {n + 1}
  <2>1. /\ OwnOf(c) = {i \in 1..n : s[i][1] = "own"} /\ OwnOf(c)' = {i \in 1..n + 1 : t[i][1] = "own"}
        /\ HeardOf(c) = {i \in 1..n : s[i][1] # "own"} /\ HeardOf(c)' = {i \in 1..n + 1 : t[i][1] # "own"}
    BY <1>2 DEF OwnOf, HeardOf
  <2>2. 1..n + 1 = 1..n \cup {n + 1} /\ n + 1 \notin 1..n
    BY <1>2
  <2> HIDE DEF s, t, n
  <2> QED BY <1>2, <2>1, <2>2
<1>9. Numbered(OwnOf(c), Number(c)) /\ Numbered(HeardOf(c), Number(c))
  BY DEF ListInv, ListNumbered
<1> HIDE DEF s, t, n
<1>10. /\ \A i \in OwnOf(c) : Number(c)'[i] = Number(c)[i]
       /\ \A i \in HeardOf(c) : Number(c)'[i] = Number(c)[i]
  BY <1>7
<1>11. /\ Numbered(OwnOf(c), Number(c)')
       /\ Cardinality(OwnOf(c) \cup {n + 1}) = Cardinality(OwnOf(c)) + 1
       /\ item[2] = Cardinality(OwnOf(c)) + 1 => Numbered(OwnOf(c) \cup {n + 1}, Number(c)')
  <2> DEFINE I == OwnOf(c)
             f == Number(c)
             g == Number(c)'
  <2>1. n \in Nat /\ Continues(I, n, f, g) /\ Numbered(I, f) /\ g[n + 1] = item[2]
    BY <1>2, <1>7, <1>9, <1>10 DEF Continues
  <2> HIDE DEF I, f, g
  <2>2. Numbered(I, g) /\ Cardinality(I \cup {n + 1}) = Cardinality(I) + 1
        /\ (g[n + 1] = Cardinality(I) + 1 => Numbered(I \cup {n + 1}, g))
    BY <2>1, NumberedGrows
  <2> QED BY <2>1, <2>2 DEF I, g
<1>12. /\ Numbered(HeardOf(c), Number(c)')
       /\ Cardinality(HeardOf(c) \cup {n + 1}) = Cardinality(HeardOf(c)) + 1
       /\ item[2] = Cardinality(HeardOf(c)) + 1 => Numbered(HeardOf(c) \cup {n + 1}, Number(c)')
  <2> DEFINE I == HeardOf(c)
             f == Number(c)
             g == Number(c)'
  <2>1. n \in Nat /\ Continues(I, n, f, g) /\ Numbered(I, f) /\ g[n + 1] = item[2]
    BY <1>2, <1>7, <1>9, <1>10 DEF Continues
  <2> HIDE DEF I, f, g
  <2>2. Numbered(I, g) /\ Cardinality(I \cup {n + 1}) = Cardinality(I) + 1
        /\ (g[n + 1] = Cardinality(I) + 1 => Numbered(I \cup {n + 1}, g))
    BY <2>1, NumberedGrows
  <2> QED BY <2>1, <2>2 DEF I, g
<1>13. /\ item[1] = "own" /\ item[2] = Said(c) + 1 =>
            Said(c)' = Said(c) + 1 /\ Heard(c)' = Heard(c) /\ ListNumbered(c)'
       /\ item[1] # "own" /\ item[2] = Heard(c) + 1 =>
            Said(c)' = Said(c) /\ Heard(c)' = Heard(c) + 1 /\ ListNumbered(c)'
  BY <1>8, <1>11, <1>12, Counts DEF ListNumbered
<1> QED BY <1>2, <1>3, <1>4, <1>5, <1>6, <1>13 DEF n, s

\* ENTER in the chat: the new message answers all that its author saw, and nobody
\* saw it yet.
LEMMA SaysStep ==
  ASSUME IInv, ListInv, NEW c \in Conn, UserSays(c)
  PROVE  ListInv'
<1> DEFINE k == Said(c) + 1
           m == <<c, k>>
           item == <<"own", k>>
           n == Len(shown[c])
           list == Messages(c)
           list1 == Messages(c)'
<1>1. /\ UNCHANGED <<log, inbox, sent>>
      /\ shown' = [shown EXCEPT ![c] = Append(@, item)]
      /\ past' = [l \in DOMAIN past \cup {m} |-> IF l = m THEN ToSet(list) ELSE past[l]]
      /\ Cardinality(DOMAIN past) < MaxSaid
  BY DEF UserSays, room
<1>2. k \in 1..MaxSaid /\ Said(c) \in Nat /\ Said(c) < k
  <2>1. Said(c) \in 0..MaxSaid /\ Said(c) <= Cardinality(DOMAIN past)
        /\ Cardinality(DOMAIN past) \in Nat /\ MaxSaid \in Nat
    BY ItemLemma, Fits, ChatAssumption
  <2> QED BY <1>1, <2>1
<1>3. item \in {"own", "text", "error"} \X (1..MaxSaid) /\ item[1] = "own" /\ item[2] = k
  BY <1>2
<1>4. DOMAIN past = {l \in Conn \X (1..MaxSaid) : l[2] <= Said(l[1])}
  BY DEF ListInv, ListsTyped
<1>5. m \notin DOMAIN past
  BY <1>2, <1>4
<1>6. /\ shown' \in [Conn -> Seq({"own", "text", "error"} \X (1..MaxSaid))]
      /\ \A d \in Conn \ {c} : /\ Messages(d)' = Messages(d) /\ ListNumbered(d)'
                               /\ Said(d)' = Said(d) /\ Heard(d)' = Heard(d)
      /\ DOMAIN list = 1..n /\ n \in Nat
      /\ DOMAIN list1 = 1..n + 1
      /\ \A i \in 1..n : list1[i] = list[i]
      /\ list1[n + 1] = MessageOf(c, item)
      /\ ToSet(list) \subseteq ToSet(list1)
      /\ Said(c)' = k /\ Heard(c)' = Heard(c) /\ ListNumbered(c)'
  <2> HIDE DEF item
  <2>1. item[1] = "own" /\ item[2] = Said(c) + 1
    BY <1>3
  <2> QED BY <1>1, <1>3, <2>1, ListGrows
<1>7. list1[n + 1] = m
  BY <1>6 DEF MessageOf
<1>8. \A f : Entry(f)' = Entry(f)
  BY <1>1 DEF Entry
<1>9. DOMAIN past' = DOMAIN past \cup {m} /\ past'[m] = ToSet(list)
      /\ \A l \in DOMAIN past : past'[l] = past[l]
  BY <1>1, <1>5
<1>10. Data' = Data /\ \A d \in Conn : FramesOf(d)' = FramesOf(d) /\ Relayed(d)' = Relayed(d)
  <2>1. log' = log
    BY <1>1
  <2>2. Data' = Data
    BY <2>1 DEF Data
  <2>3. \A d \in Conn : FramesOf(d)' = FramesOf(d)
    BY <2>1 DEF FramesOf
  <2> QED BY <2>2, <2>3, Counts
<1>11. \A d \in Conn : ToSet(Messages(d)) \subseteq DOMAIN past
  BY Known
<1>12. \A f \in DOMAIN log : Entry(f) \in DOMAIN past
  BY Known
<1> HIDE DEF item, n, list, list1
<1>13. ListsTyped'
  <2>1. ASSUME NEW d \in Conn
        PROVE  /\ sent[d] \in Relayed(d)..Said(d)'
               /\ Heard(d)' <= Len(inbox[d])
    <3>1. sent[d] \in Relayed(d)..Said(d) /\ Heard(d) <= Len(inbox[d]) /\ Said(d) \in 0..MaxSaid
          /\ Relayed(d) \in Nat /\ MaxSaid \in Nat
      BY ItemLemma, LogLemma, ChatAssumption DEF ListInv, ListsTyped
    <3>2. Heard(d)' = Heard(d) /\ Said(d)' \in {Said(d), Said(d) + 1}
      BY <1>6
    <3> QED BY <3>1, <3>2
  <2>2. DOMAIN past' = {l \in Conn \X (1..MaxSaid) : l[2] <= Said(l[1])'}
    <3> SUFFICES ASSUME NEW a \in Conn, NEW i \in 1..MaxSaid
                 PROVE  i <= Said(a)' <=> (<<a, i>> \in DOMAIN past \/ <<a, i>> = m)
      BY <1>2, <1>4, <1>9
    <3>1. <<a, i>> \in DOMAIN past <=> i <= Said(a)
      BY <1>4
    <3>2. CASE a = c
      BY <1>2, <1>6, <3>1, <3>2
    <3>3. CASE a # c
      BY <1>6, <3>1, <3>3
    <3> QED BY <3>2, <3>3
  <2>3. \A d \in Conn : shown'[d] \in Seq({"own", "text", "error"} \X (1..MaxSaid))
    BY <1>6
  <2> QED BY <1>1, <1>10, <2>1, <2>2, <2>3 DEF ListsTyped
<1>14. PastBounded'
  <2>1. IsFiniteSet(DOMAIN past) /\ Cardinality(DOMAIN past) \in Nat
    BY Fits DEF ListInv, PastBounded
  <2>2. IsFiniteSet(DOMAIN past \cup {m}) /\ Cardinality(DOMAIN past \cup {m}) = Cardinality(DOMAIN past) + 1
    BY <1>5, <2>1, FS_AddElement
  <2> QED BY <1>1, <1>9, <2>1, <2>2, ChatAssumption DEF PastBounded
<1>15. LogNumbered' /\ \A d \in Conn : ListNumbered(d)'
  BY <1>6, <1>10 DEF ListInv, LogNumbered
<1>16. \A d \in Conn : ToSet(Messages(d)) \subseteq ToSet(Messages(d)')
  BY <1>6 DEF list, list1
<1>17. PastSeen'
  <2>1. ASSUME NEW l \in DOMAIN past
        PROVE  /\ past'[l] \subseteq ToSet(Messages(l[1])')
               /\ \A x \in past'[l] : IF x[1] = l[1] THEN x[2] < l[2] ELSE \E f \in DOMAIN log : x = Entry(f)
    <3>1. l[1] \in Conn
      BY <1>4
    <3> QED BY <1>9, <1>16, <3>1 DEF ListInv, PastSeen
  <2>2. ASSUME NEW x \in ToSet(list)
        PROVE  IF x[1] = c THEN x[2] < k ELSE \E f \in DOMAIN log : x = Entry(f)
    <3>1. PICK i \in DOMAIN list : x = list[i]
      BY DEF ToSet
    <3>2. CASE i \in OwnOf(c)
      <4>1. x = <<c, shown[c][i][2]>> /\ shown[c][i][2] \in 1..Said(c)
        BY <3>1, <3>2, ItemLemma DEF list
      <4> DEFINE j == shown[c][i][2]
      <4> HIDE DEF j
      <4>2. x = <<c, j>> /\ j \in 1..Said(c)
        BY <4>1 DEF j
      <4> QED BY <1>2, <4>2
    <3>3. CASE i \in HeardOf(c)
      <4>1. x = Entry(FrameAt(c, i)) /\ FrameAt(c, i) \in DOMAIN log /\ log[FrameAt(c, i)].from # c
        BY <3>1, <3>3, ItemLemma DEF list
      <4> QED BY <4>1 DEF Entry
    <3>4. i \in OwnOf(c) \cup HeardOf(c)
      BY <3>1, ItemLemma DEF list
    <3> QED BY <3>2, <3>3, <3>4
  <2>3. /\ past'[m] \subseteq ToSet(Messages(m[1])')
        /\ \A x \in past'[m] : IF x[1] = m[1] THEN x[2] < m[2] ELSE \E f \in DOMAIN log : x = Entry(f)
    BY <1>6, <1>9, <2>2 DEF list1
  <2>4. DOMAIN log' = DOMAIN log
    BY <1>1
  <2> QED BY <1>8, <1>9, <2>1, <2>3, <2>4 DEF PastSeen
<1>18. LogCausal'
  <2>1. DOMAIN log' = DOMAIN log
    BY <1>1
  <2> QED BY <1>8, <1>9, <1>12, <2>1 DEF ListInv, LogCausal
<1>19. CausalOrder'
  <2> SUFFICES ASSUME NEW d \in Conn, NEW i \in DOMAIN Messages(d)', NEW j \in DOMAIN Messages(d)',
                      Messages(d)'[i] \in past'[Messages(d)'[j]]
               PROVE  i < j
    BY DEF CausalOrder
  <2>1. \A e \in Conn : \A x, y \in DOMAIN Messages(e) :
          Messages(e)[y] \in DOMAIN past /\ (Messages(e)[x] \in past[Messages(e)[y]] => x < y)
    BY <1>11 DEF ListInv, CausalOrder, ToSet
  <2>2. CASE d # c
    BY <1>6, <1>9, <2>1, <2>2
  <2>3. CASE d = c
    <3>1. i \in 1..n + 1 /\ j \in 1..n + 1 /\ list1[i] \in past'[list1[j]]
      BY <1>6, <2>3 DEF list1
    <3>2. CASE j \in 1..n
      <4>1. list[j] \in DOMAIN past /\ list1[j] = list[j] /\ past'[list1[j]] = past[list[j]]
        BY <1>6, <1>9, <2>1, <3>2 DEF list
      <4>2. past[list[j]] \subseteq DOMAIN past
        <5>1. list[j][1] \in Conn
          BY <1>4, <4>1
        <5> QED BY <1>11, <4>1, <5>1 DEF ListInv, PastSeen
      <4>3. i \in 1..n
        <5>1. list1[i] \in DOMAIN past
          BY <3>1, <4>1, <4>2
        <5>2. i # n + 1
          BY <1>5, <1>7, <5>1
        <5> QED BY <1>6, <3>1, <5>2
      <4> QED BY <1>6, <2>1, <3>1, <3>2, <4>1, <4>3 DEF list
    <3>3. CASE j = n + 1
      <4>1. list1[i] \in DOMAIN past
        BY <1>7, <1>9, <1>11, <3>1, <3>3 DEF list
      <4>2. i # n + 1
        BY <1>5, <1>7, <4>1
      <4> QED BY <1>6, <3>1, <3>3, <4>2
    <3> QED BY <1>6, <3>1, <3>2, <3>3
  <2> QED BY <2>2, <2>3
<1> QED BY <1>1, <1>6, <1>13, <1>14, <1>15, <1>17, <1>18, <1>19 DEF ListInv

\* The next frame that is read was passed on after all that its author saw, and
\* nothing that is shown already answers it.
LEMMA HearStep ==
  ASSUME IInv, ListInv, NEW c \in Conn, Hear(c)
  PROVE  ListInv'
<1> DEFINE k == Heard(c) + 1
           g == inbox[c][k]
           m == Entry(g)
           item == <<Decrypted(c, log[g].from), k>>
           n == Len(shown[c])
           list == Messages(c)
           list1 == Messages(c)'
<1>1. UNCHANGED <<log, inbox, sent, past>> /\ Heard(c) < Len(inbox[c])
  BY DEF Hear, room
<1>2. \A d \in Conn : sent[d] \in Relayed(d)..Said(d)
  BY DEF ListInv, ListsTyped
<1>3. CASE UNCHANGED shown
  BY <1>1, <1>2, <1>3, ListsStay DEF ListInv
<1>4. CASE shown' = [shown EXCEPT ![c] = Append(@, item)]
  <2>1. k \in Nat /\ k \in 1..MaxSaid /\ k \in DOMAIN inbox[c] /\ Heard(c) \in Nat /\ k <= Len(inbox[c])
    <3> DEFINE b == Len(inbox[c])
    <3>1. Heard(c) \in Nat /\ MaxSaid \in Nat /\ b \in Nat /\ b <= MaxSaid /\ DOMAIN inbox[c] = 1..b
      BY ItemLemma, InboxLemma, Fits, ChatAssumption
    <3> HIDE DEF b
    <3>2. Heard(c) < b
      BY <1>1 DEF b
    <3> QED BY <3>1, <3>2 DEF b
  <2>2. item \in {"own", "text", "error"} \X (1..MaxSaid) /\ item[1] # "own" /\ item[2] = k
    BY <2>1 DEF Decrypted
  <2>3. g \in DOMAIN log /\ log[g].from # c
    BY <2>1, InboxLemma
  <2>4. MessageOf(c, item) = m
    BY <2>2 DEF MessageOf, Entry
  <2>5. /\ shown' \in [Conn -> Seq({"own", "text", "error"} \X (1..MaxSaid))]
        /\ \A d \in Conn \ {c} : /\ Messages(d)' = Messages(d) /\ ListNumbered(d)'
                                 /\ Said(d)' = Said(d) /\ Heard(d)' = Heard(d)
        /\ DOMAIN list = 1..n /\ n \in Nat
        /\ DOMAIN list1 = 1..n + 1
        /\ \A i \in 1..n : list1[i] = list[i]
        /\ list1[n + 1] = m
        /\ ToSet(list) \subseteq ToSet(list1)
        /\ Said(c)' = Said(c) /\ Heard(c)' = k /\ ListNumbered(c)'
    <3> HIDE DEF item, g, m
    <3>1. item[1] # "own" /\ item[2] = Heard(c) + 1
      BY <2>2
    <3> QED BY <1>1, <1>4, <2>2, <2>4, <3>1, ListGrows
  <2> HIDE DEF item, n, list, list1, g, m
  <2>6. Data' = Data /\ (\A f : Entry(f)' = Entry(f)) /\ \A d \in Conn : FramesOf(d)' = FramesOf(d) /\ Relayed(d)' = Relayed(d)
    <3>1. log' = log
      BY <1>1
    <3>2. Data' = Data
      BY <3>1 DEF Data
    <3>3. \A d \in Conn : FramesOf(d)' = FramesOf(d)
      BY <3>1 DEF FramesOf
    <3>4. \A f : Entry(f)' = Entry(f)
      BY <3>1 DEF Entry
    <3> QED BY <3>2, <3>3, <3>4, Counts
  <2>7. \A d \in Conn : Said(d)' = Said(d) /\ Heard(d)' <= Len(inbox[d])
    <3>1. \A d \in Conn : Heard(d) <= Len(inbox[d])
      BY DEF ListInv, ListsTyped
    <3> QED BY <2>1, <2>5, <3>1
  <2>8. ListsTyped'
    <3>1. {l \in Conn \X (1..MaxSaid) : l[2] <= Said(l[1])'} = {l \in Conn \X (1..MaxSaid) : l[2] <= Said(l[1])}
      BY <2>7
    <3> QED BY <1>1, <1>2, <2>5, <2>6, <2>7, <3>1 DEF ListInv, ListsTyped
  <2>9. PastBounded' /\ LogNumbered' /\ \A d \in Conn : ListNumbered(d)'
    BY <1>1, <2>5, <2>6 DEF ListInv, PastBounded, LogNumbered
  <2>10. PastSeen' /\ LogCausal'
    <3>1. \A d \in Conn : ToSet(Messages(d)) \subseteq ToSet(Messages(d)')
      BY <2>5 DEF list, list1
    <3>2. \A l \in DOMAIN past : l[1] \in Conn
      BY DEF ListInv, ListsTyped
    <3>3. past' = past /\ DOMAIN log' = DOMAIN log
      BY <1>1
    <3>4. PastSeen'
      BY <2>6, <3>1, <3>2, <3>3 DEF ListInv, PastSeen
    <3>5. LogCausal'
      BY <2>6, <3>3 DEF ListInv, LogCausal
    <3> QED BY <3>4, <3>5
  <2>11. \A j \in 1..n : m \notin past[list[j]]
    <3> SUFFICES ASSUME NEW j \in 1..n, m \in past[list[j]] PROVE FALSE
      OBVIOUS
    <3>1. j \in OwnOf(c) \cup HeardOf(c)
      BY <2>5, ItemLemma DEF list
    <3>2. \A i \in HeardOf(c) : FrameAt(c, i) \in DOMAIN log /\ FrameAt(c, i) < g /\ list[i] = Entry(FrameAt(c, i))
      <4> SUFFICES ASSUME NEW i \in HeardOf(c)
                   PROVE  FrameAt(c, i) \in DOMAIN log /\ FrameAt(c, i) < g /\ list[i] = Entry(FrameAt(c, i))
        OBVIOUS
      <4> DEFINE p == shown[c][i][2]
      <4>1. p \in 1..Heard(c) /\ p \in DOMAIN inbox[c] /\ FrameAt(c, i) \in DOMAIN log
            /\ list[i] = Entry(FrameAt(c, i))
        BY ItemLemma DEF list
      <4>2. FrameAt(c, i) = inbox[c][p]
        BY DEF FrameAt
      <4> HIDE DEF p
      <4>3. p < k
        BY <2>1, <4>1
      <4>4. inbox[c][p] < inbox[c][k]
        BY <2>1, <4>1, <4>3, InboxLemma
      <4> QED BY <4>1, <4>2, <4>4 DEF g
    <3>3. g \in Int
      BY <2>3, LogLemma DEF ListInv
    <3>4. CASE j \in HeardOf(c)
      <4>1. Entry(g) \in past[Entry(FrameAt(c, j))]
        BY <3>2, <3>4 DEF m
      <4>2. g < FrameAt(c, j) /\ FrameAt(c, j) < g /\ FrameAt(c, j) \in Int
        BY <2>3, <3>2, <3>4, <4>1, LogLemma DEF ListInv, LogCausal
      <4> QED BY <3>3, <4>2
    <3>5. CASE j \in OwnOf(c)
      <4>1. list[j] \in DOMAIN past /\ list[j][1] = c
        <5>1. list[j] \in DOMAIN past
          BY <2>5, Known DEF list, ToSet
        <5>2. list[j] = <<c, shown[c][j][2]>>
          BY <3>5, ItemLemma DEF list
        <5> QED BY <5>1, <5>2
      <4>2. m \in ToSet(list)
        BY <4>1 DEF ListInv, PastSeen, list
      <4>3. PICK i \in DOMAIN list : m = list[i]
        BY <4>2 DEF ToSet
      <4>4. i \in OwnOf(c) \cup HeardOf(c)
        BY <4>3, ItemLemma DEF list
      <4>5. i \notin OwnOf(c)
        BY <2>3, <4>3, ItemLemma DEF list, m, Entry
      <4>6. i \in HeardOf(c)
        BY <4>4, <4>5
      <4>7. Entry(g) = Entry(FrameAt(c, i)) /\ FrameAt(c, i) \in DOMAIN log /\ FrameAt(c, i) < g
        BY <3>2, <4>3, <4>6 DEF m
      <4>8. g = FrameAt(c, i)
        BY <2>3, <4>7, LogLemma DEF ListInv
      <4> QED BY <3>3, <4>7, <4>8
    <3> QED BY <3>1, <3>4, <3>5
  <2>12. m \notin past[m]
    <3>1. g \in Int
      BY <2>3, LogLemma DEF ListInv
    <3> QED BY <2>3, <3>1 DEF ListInv, LogCausal, m
  <2>13. CausalOrder'
    <3> SUFFICES ASSUME NEW d \in Conn, NEW i \in DOMAIN Messages(d)', NEW j \in DOMAIN Messages(d)',
                        Messages(d)'[i] \in past'[Messages(d)'[j]]
                 PROVE  i < j
      BY DEF CausalOrder
    <3>1. \A e \in Conn : \A x, y \in DOMAIN Messages(e) : Messages(e)[x] \in past[Messages(e)[y]] => x < y
      BY DEF ListInv, CausalOrder
    <3>2. past' = past
      BY <1>1
    <3>3. CASE d # c
      BY <2>5, <3>1, <3>2, <3>3
    <3>4. CASE d = c
      <4>1. i \in 1..n + 1 /\ j \in 1..n + 1 /\ list1[i] \in past[list1[j]]
        BY <2>5, <3>2, <3>4 DEF list1
      <4>2. CASE i \in 1..n /\ j \in 1..n
        <5>1. list[i] \in past[list[j]]
          BY <2>5, <4>1, <4>2
        <5> QED BY <2>5, <3>1, <4>2, <5>1 DEF list
      <4>3. CASE i \in 1..n /\ j = n + 1
        BY <2>5, <4>3
      <4>4. CASE i = n + 1
        <5>1. list1[i] = m
          BY <2>5, <4>4
        <5>2. j \notin 1..n
          BY <2>5, <2>11, <4>1, <5>1
        <5>3. j # n + 1
          BY <2>5, <2>12, <4>1, <5>1
        <5> QED BY <2>5, <4>1, <5>2, <5>3
      <4> QED BY <2>5, <4>1, <4>2, <4>3, <4>4
    <3> QED BY <3>3, <3>4
  <2> QED BY <1>1, <2>5, <2>8, <2>9, <2>10, <2>13 DEF ListInv
<1> QED
  <2>1. UNCHANGED shown \/ shown' = [shown EXCEPT ![c] = Append(@, item)]
    BY DEF Hear, NextFrame
  <2> QED BY <1>3, <1>4, <2>1

\* What the server passes on next, it has not passed on yet, and nobody's message
\* in the log answers it.
LEMMA PassStep ==
  ASSUME IInv, ListInv, NEW c \in Conn, Pass(c)
  PROVE  ListInv'
<1> DEFINE k == Relayed(c) + 1
           e == [from |-> c, data |-> k]
           n == Len(log)
           m == <<c, k>>
<1>1. UNCHANGED <<shown, sent, past>> /\ log' = Append(log, e) /\ Relayed(c) < sent[c]
  BY DEF Pass, UnderWay, clients
<1>2. log \in Seq([from: Conn, data: Payload]) /\ e \in [from: Conn, data: Payload]
  <2>1. log'[Len(log')].data \in Payload /\ log \in Seq([from: Conn, data: Payload])
    BY DEF Pass, Say, IInv, TypeOK
  <2> HIDE DEF e
  <2>2. Len(log') = Len(log) + 1 /\ Len(log) \in Nat
    BY <2>1 DEF Say, Pass
  <2>3. log'[Len(log')] = e
    BY <1>1, <2>1, <2>2
  <2> QED BY <2>1, <2>3 DEF e
<1> HIDE DEF e
<1>3. /\ n \in Nat /\ DOMAIN log = 1..n /\ DOMAIN log' = 1..n + 1
      /\ \A f \in 1..n : log'[f] = log[f]
      /\ log'[n + 1] = e
  BY <1>1, <1>2, AppendProperties, LenProperties
<1>4. e.from = c /\ e.data = k
  BY DEF e
<1> HIDE DEF n
<1>5. (\A f \in 1..n : Entry(f)' = Entry(f)) /\ (\A f \in {n + 1} : Entry(f)' = m)
  <2>1. \A f \in 1..n : Entry(f)' = Entry(f)
    BY <1>3 DEF Entry
  <2>2. log'[n + 1].from = c /\ log'[n + 1].data = k
    BY <1>3, <1>4
  <2> QED BY <2>1, <2>2 DEF Entry
<1>6. ASSUME NEW d \in Conn
      PROVE  /\ OwnOf(d)' = OwnOf(d) /\ HeardOf(d)' = HeardOf(d) /\ Number(d)' = Number(d)
             /\ Said(d)' = Said(d) /\ Heard(d)' = Heard(d)
  <2>1. shown' = shown
    BY <1>1
  <2>2. OwnOf(d)' = OwnOf(d) /\ HeardOf(d)' = HeardOf(d) /\ Number(d)' = Number(d)
    BY <2>1 DEF OwnOf, HeardOf, Number
  <2>3. /\ Said(d) = Cardinality(OwnOf(d)) /\ Said(d)' = Cardinality(OwnOf(d)')
        /\ Heard(d) = Cardinality(HeardOf(d)) /\ Heard(d)' = Cardinality(HeardOf(d)')
    BY Counts
  <2> QED BY <2>2, <2>3
<1>7. ASSUME NEW d \in Conn
      PROVE  /\ FramesOf(d) \subseteq 1..n
             /\ d = c => FramesOf(d)' = FramesOf(d) \cup {n + 1}
             /\ d # c => FramesOf(d)' = FramesOf(d)
  <2>1. FramesOf(d) = {f \in 1..n : log[f].from = d} /\ FramesOf(d)' = {f \in 1..n + 1 : log'[f].from = d}
    BY <1>3 DEF FramesOf
  <2>2. 1..n + 1 = 1..n \cup {n + 1} /\ n + 1 \notin 1..n
    BY <1>3
  <2> QED BY <1>3, <1>4, <2>1, <2>2
<1>8. ASSUME NEW d \in Conn
      PROVE  /\ Numbered(FramesOf(d)', Data')
             /\ d = c => Relayed(d)' = k
             /\ d # c => Relayed(d)' = Relayed(d)
  <2> DEFINE I == FramesOf(d)
  <2>1. Continues(I, n, Data, Data') /\ Data'[n + 1] = k
    BY <1>3, <1>4, <1>7 DEF Continues, Data
  <2>2. Numbered(I, Data) /\ Relayed(d) = Cardinality(I) /\ Relayed(d)' = Cardinality(I')
    BY Counts DEF ListInv, LogNumbered
  <2>3. /\ Numbered(I, Data')
        /\ Cardinality(I \cup {n + 1}) = Cardinality(I) + 1
        /\ Data'[n + 1] = Cardinality(I) + 1 => Numbered(I \cup {n + 1}, Data')
    <3> DEFINE g == Data'
    <3> HIDE DEF I, g
    <3>1. Continues(I, n, Data, g) /\ Numbered(I, Data) /\ n \in Nat
      BY <1>3, <2>1, <2>2 DEF g
    <3>2. /\ Numbered(I, g)
          /\ Cardinality(I \cup {n + 1}) = Cardinality(I) + 1
          /\ g[n + 1] = Cardinality(I) + 1 => Numbered(I \cup {n + 1}, g)
      BY <3>1, NumberedGrows
    <3> QED BY <3>2 DEF g
  <2>4. CASE d = c
    BY <1>7, <2>1, <2>2, <2>3, <2>4
  <2>5. CASE d # c
    BY <1>7, <2>2, <2>3, <2>5
  <2> QED BY <2>4, <2>5
<1>9. ASSUME NEW d \in Conn
      PROVE  /\ Len(inbox[d]) \in Nat /\ Len(inbox'[d]) \in Nat /\ Len(inbox[d]) <= Len(inbox'[d])
             /\ \A i \in DOMAIN inbox[d] : inbox'[d][i] = inbox[d][i]
  <2>1. inbox[d] \in Seq(Nat) /\ n + 1 \in Nat
    BY <1>3 DEF IInv, TypeOK
  <2>2. inbox'[d] = Append(inbox[d], n + 1) \/ inbox'[d] = inbox[d]
    BY DEF Pass, Say, n
  <2>3. /\ Len(Append(inbox[d], n + 1)) = Len(inbox[d]) + 1 /\ Len(inbox[d]) \in Nat
        /\ DOMAIN inbox[d] = 1..Len(inbox[d])
        /\ \A i \in 1..Len(inbox[d]) : Append(inbox[d], n + 1)[i] = inbox[d][i]
    BY <2>1, AppendProperties, LenProperties
  <2> DEFINE b == Len(inbox[d])
  <2> HIDE DEF b
  <2>4. Len(inbox'[d]) \in {b, b + 1} /\ b \in Nat /\ b = Len(inbox[d])
    BY <2>2, <2>3 DEF b
  <2>5. \A i \in DOMAIN inbox[d] : inbox'[d][i] = inbox[d][i]
    BY <2>2, <2>3
  <2> QED BY <2>4, <2>5
<1>10. ASSUME NEW d \in Conn PROVE Messages(d)' = Messages(d)
  <2>1. DOMAIN Messages(d)' = DOMAIN shown[d] /\ DOMAIN Messages(d) = DOMAIN shown[d]
    BY <1>1 DEF Messages
  <2>2. ASSUME NEW i \in DOMAIN shown[d] PROVE Messages(d)'[i] = Messages(d)[i]
    <3>1. CASE i \in OwnOf(d)
      BY <1>1, <3>1 DEF Messages, MessageOf, OwnOf
    <3>2. CASE i \in HeardOf(d)
      <4>1. /\ shown[d][i][2] \in DOMAIN inbox[d] /\ FrameAt(d, i) \in DOMAIN log
            /\ Messages(d)[i] = Entry(FrameAt(d, i))
        BY <3>2, ItemLemma
      <4>2. Messages(d)'[i] = Entry(FrameAt(d, i))'
        BY <1>1, <3>2 DEF Messages, MessageOf, HeardOf, FrameAt, Entry
      <4>3. FrameAt(d, i)' = FrameAt(d, i)
        BY <1>1, <1>9, <4>1 DEF FrameAt
      <4>4. Entry(FrameAt(d, i))' = Entry(FrameAt(d, i))
        BY <1>3, <4>1, <4>3 DEF Entry
      <4> QED BY <4>1, <4>2, <4>4
    <3>3. i \in OwnOf(d) \cup HeardOf(d)
      BY <2>2, ItemLemma
    <3> QED BY <3>1, <3>2, <3>3
  <2>3. Messages(d)' = [i \in DOMAIN shown[d] |-> Messages(d)'[i]]
    BY <1>1 DEF Messages
  <2>4. Messages(d) = [i \in DOMAIN shown[d] |-> Messages(d)[i]]
    BY DEF Messages
  <2> QED BY <2>2, <2>3, <2>4
<1>11. k \in Nat /\ Relayed(c) \in Nat /\ k <= sent[c] /\ sent[c] \in Nat /\ sent[c] <= Said(c) /\ Said(c) \in 0..MaxSaid
       /\ MaxSaid \in Nat
  <2>1. sent[c] \in Relayed(c)..Said(c) /\ Relayed(c) \in Nat /\ Said(c) \in 0..MaxSaid /\ MaxSaid \in Nat
    BY ItemLemma, LogLemma, ChatAssumption DEF ListInv, ListsTyped
  <2> QED BY <1>1, <2>1
<1>12. m \in DOMAIN past
  <2>1. DOMAIN past = {l \in Conn \X (1..MaxSaid) : l[2] <= Said(l[1])}
    BY DEF ListInv, ListsTyped
  <2>2. k \in 1..MaxSaid /\ k <= Said(c)
    BY <1>11
  <2> QED BY <2>1, <2>2
<1>13. ListsTyped'
  <2>1. ASSUME NEW d \in Conn PROVE sent'[d] \in Relayed(d)'..Said(d)' /\ Heard(d)' <= Len(inbox'[d])
    <3>1. sent[d] \in Relayed(d)..Said(d) /\ Heard(d) <= Len(inbox[d]) /\ Heard(d) \in Nat
          /\ Relayed(d) \in Nat /\ Said(d) \in 0..MaxSaid
      BY ItemLemma, LogLemma DEF ListInv, ListsTyped
    <3>2. Heard(d)' <= Len(inbox'[d])
      BY <1>6, <1>9, <3>1
    <3>3. sent[d] \in Relayed(d)'..Said(d)
      BY <1>8, <1>11, <3>1
    <3> QED BY <1>1, <1>6, <3>2, <3>3
  <2>2. {l \in Conn \X (1..MaxSaid) : l[2] <= Said(l[1])'} = {l \in Conn \X (1..MaxSaid) : l[2] <= Said(l[1])}
    BY <1>6
  <2> QED BY <1>1, <2>1, <2>2 DEF ListInv, ListsTyped
<1>14. PastBounded' /\ LogNumbered' /\ \A d \in Conn : ListNumbered(d)'
  BY <1>1, <1>6, <1>8 DEF ListInv, PastBounded, LogNumbered, ListNumbered
<1>15. PastSeen'
  <2>1. \A l \in DOMAIN past : l[1] \in Conn
    BY DEF ListInv, ListsTyped
  <2>2. \A x : (\E f \in DOMAIN log : x = Entry(f)) => \E f \in DOMAIN log' : x = Entry(f)'
    <3> SUFFICES ASSUME NEW f \in DOMAIN log PROVE f \in DOMAIN log' /\ Entry(f)' = Entry(f)
      OBVIOUS
    <3> QED BY <1>3, <1>5
  <2>3. past' = past
    BY <1>1
  <2> QED BY <1>10, <2>1, <2>2, <2>3 DEF ListInv, PastSeen
<1>16. LogCausal'
  <2> SUFFICES ASSUME NEW f \in 1..n + 1, NEW g \in 1..n + 1, Entry(f)' \in past[Entry(g)'] PROVE f < g
    BY <1>1, <1>3 DEF LogCausal
  <2>1. CASE f \in 1..n /\ g \in 1..n
    BY <1>3, <1>5, <2>1 DEF ListInv, LogCausal
  <2>2. CASE f \in 1..n /\ g = n + 1
    BY <1>3, <2>2
  <2>3. CASE f = n + 1
    <3>1. PICK p : p = Entry(g)' /\ m \in past[p]
      <4>1. Entry(f)' = m
        BY <1>5, <2>3
      <4> QED BY <4>1
    <3>2. p \in DOMAIN past
      <4>1. CASE g = n + 1
        BY <1>5, <1>12, <3>1, <4>1
      <4>2. CASE g \in 1..n
        <5>1. p = Entry(g)
          BY <1>5, <3>1, <4>2
        <5> QED BY <1>3, <4>2, <5>1, Known
      <4> QED BY <1>3, <4>1, <4>2
    <3>3. IF m[1] = p[1] THEN m[2] < p[2] ELSE \E h \in DOMAIN log : m = Entry(h)
      BY <3>1, <3>2 DEF ListInv, PastSeen
    <3>4. ~(\E h \in DOMAIN log : m = Entry(h))
      <4> SUFFICES ASSUME NEW h \in DOMAIN log, m = Entry(h) PROVE FALSE
        OBVIOUS
      <4>1. log[h].from = c /\ log[h].data = k
        BY DEF Entry
      <4>2. k \in 1..Relayed(c)
        BY <4>1, LogLemma DEF ListInv
      <4> QED BY <1>11, <4>2
    <3>5. p[1] = c /\ k < p[2]
      BY <3>3, <3>4
    <3>6. CASE g = n + 1
      <4>1. p = m
        BY <1>5, <3>1, <3>6
      <4> QED BY <1>11, <3>5, <4>1
    <3>7. CASE g \in 1..n
      <4>1. log[g].from = c /\ log[g].data = p[2]
        BY <1>5, <3>1, <3>5, <3>7 DEF Entry
      <4>2. p[2] \in 1..Relayed(c)
        BY <1>3, <3>7, <4>1, LogLemma DEF ListInv
      <4> QED BY <1>11, <3>5, <4>2
    <3> QED BY <1>3, <3>6, <3>7
  <2> QED BY <1>3, <2>1, <2>2, <2>3
<1>17. CausalOrder'
  BY <1>1, <1>10 DEF ListInv, CausalOrder
<1> QED BY <1>1, <1>13, <1>14, <1>15, <1>16, <1>17 DEF ListInv

\* The room of the chat is the room of ChatRoom, and the rest of the chat leaves it
\* alone.
LEMMA RoomStep == ChatNext => [Next]_vars
BY DEF ChatNext, User, Connection, Server, LogIn, Unlock, UserSays, Quit, Connect, Lose, Mix,
       Break, Send, Hear, Accept, Pass, Notice, Next, room, vars

LEMMA StatesStep == StatesTyped /\ ChatNext => StatesTyped'
BY DEF StatesTyped, ChatNext, User, Connection, Server, LogIn, Unlock, UserSays, Quit, Connect,
       Lose, Mix, Break, Send, Hear, Accept, Pass, Notice, clients

LEMMA StepChat == ChatInv /\ [ChatNext]_<<room, clients>> => ChatInv'
<1> SUFFICES ASSUME ChatInv, [ChatNext]_<<room, clients>> PROVE ChatInv'
  OBVIOUS
<1>1. IInv /\ ListInv /\ StatesTyped
  BY DEF ChatInv
<1>2. \A d \in Conn : sent[d] \in Relayed(d)..Said(d)
  BY <1>1 DEF ListInv, ListsTyped
<1>3. CASE UNCHANGED <<room, clients>>
  <2>1. UNCHANGED vars /\ UNCHANGED <<state, secret>> /\ UNCHANGED <<shown, sent, past, log, inbox>>
    BY <1>3 DEF room, clients, vars
  <2>2. IInv'
    BY <1>1, <2>1, StepIInv
  <2>3. ListInv'
    BY <1>1, <1>2, <2>1, ListsStay DEF ListInv
  <2> QED BY <1>1, <2>1, <2>2, <2>3 DEF ChatInv, StatesTyped
<1>4. CASE ChatNext
  <2>1. IInv' /\ StatesTyped'
    BY <1>1, <1>4, RoomStep, StepIInv, StatesStep
  <2>2. PICK c \in Conn : User(c) \/ Connection(c) \/ Server(c)
    BY <1>4 DEF ChatNext
  <2>3. ASSUME UserSays(c) PROVE ListInv'
    BY <1>1, <2>3, SaysStep
  <2>4. ASSUME Send(c) PROVE ListInv'
    BY <1>1, <2>4, SendStep
  <2>5. ASSUME Hear(c) PROVE ListInv'
    BY <1>1, <2>5, HearStep
  <2>6. ASSUME Pass(c) PROVE ListInv'
    BY <1>1, <2>6, PassStep
  <2>7. ASSUME \/ LogIn(c) \/ Unlock(c) \/ Quit(c) \/ Connect(c) \/ Lose(c)
               \/ Mix(c) \/ Break(c) \/ Accept(c) \/ Notice(c)
        PROVE  ListInv'
    <3>1. UNCHANGED <<shown, sent, past, log, inbox>>
      BY <2>7 DEF LogIn, Unlock, Quit, Connect, Lose, Mix, Break, Accept, Notice, Enter, Leave, room, clients
    <3> QED BY <1>1, <1>2, <3>1, ListsStay DEF ListInv
  <2>8. ListInv'
    BY <2>2, <2>3, <2>4, <2>5, <2>6, <2>7 DEF User, Connection, Server
  <2> QED BY <2>1, <2>8 DEF ChatInv
<1> QED BY <1>3, <1>4

\* The invariant holds of every state the chat can reach.
LEMMA ChatInvariance == ChatSpec => []ChatInv
BY InitChat, StepChat, PTL DEF ChatSpec

\* Whoever shows a message and an answer to it shows the message first, for any
\* users and recipients: the server hands everyone the one order in which it read
\* (server_config.cpp:95-106), a message is shown before it is posted
\* (client_chat_screen.cpp:237-267), and a list is only appended to.
THEOREM Causal == ChatSpec => []CausalOrder
<1>1. ChatInv => CausalOrder
  BY DEF ChatInv, ListInv
<1> QED BY <1>1, ChatInvariance, PTL

\* In every list each message is once, the author's own among them, and whoever
\* shows a message of another shows all that the others said before it, in the
\* order of the server, since he came.
THEOREM Lists == ChatSpec => []ListsSound
BY InvSound, ChatInvariance, PTL
=============================================================================
