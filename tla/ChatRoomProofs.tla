--------------------------- MODULE ChatRoomProofs ---------------------------
(***************************************************************************)
(* The promise of the chat room, for any number of members.                *)
(***************************************************************************)
EXTENDS ChatRoom, SequenceTheorems, TLAPS

\* Who is in has entered, and nothing is remembered from the future.
Bounded ==
  \A c \in Conn : /\ c \in members => joined[c] # -1
                  /\ joined[c] <= Len(log)
                  /\ left[c] <= Len(log)
                  /\ \A i \in DOMAIN inbox[c] : inbox[c][i] <= Len(log)

IInv == TypeOK /\ Bounded /\ HearsExactlyTheOthers /\ HearsInOrder

\* An empty room with nothing said.
LEMMA InitIInv == Init => IInv
<1> SUFFICES ASSUME Init PROVE IInv
  OBVIOUS
<1>1. TypeOK
  BY EmptySeq DEF Init, TypeOK
<1>2. Bounded
  <2>1. Len(log) = 0 /\ \A c \in Conn : DOMAIN inbox[c] = {}
    BY DEF Init
  <2>2. \A c \in Conn : joined[c] = -1 /\ left[c] = -1 /\ c \notin members
    BY DEF Init
  <2>3. SUFFICES ASSUME NEW c \in Conn
                 PROVE  /\ c \in members => joined[c] # -1
                        /\ joined[c] <= Len(log)
                        /\ left[c] <= Len(log)
                        /\ \A i \in DOMAIN inbox[c] : inbox[c][i] <= Len(log)
    BY Zenon DEF Bounded
  <2>4. joined[c] = -1 /\ left[c] = -1 /\ c \notin members /\ DOMAIN inbox[c] = {}
    BY <2>1, <2>2
  <2>5. QED
    BY <2>1, <2>4
<1>3. HearsExactlyTheOthers /\ HearsInOrder
  BY DEF Init, HearsExactlyTheOthers, HearsInOrder
<1>4. QED
  BY <1>1, <1>2, <1>3 DEF IInv

\* Saying something adds one position to the inbox of every other member, and
\* it is above all that are there.
LEMMA SayIInv ==
  ASSUME IInv, NEW c \in Conn, Say(c)
  PROVE  IInv'
<1> DEFINE n == Len(log)
<1>1. PICK d \in Payload : log' = Append(log, [from |-> c, data |-> d])
  BY DEF Say
<1>2. /\ log' \in Seq([from: Conn, data: Payload])
      /\ n \in Nat
      /\ Len(log') = n + 1
      /\ \A f \in 1..n : log'[f] = log[f]
      /\ log'[n + 1].from = c
  <2>1. [from |-> c, data |-> d] \in [from: Conn, data: Payload]
    OBVIOUS
  <2>2. QED
    BY <1>1, <2>1, AppendProperties DEF IInv, TypeOK
<1>3. ASSUME NEW x \in Conn
      PROVE  /\ x \in members \ {c} =>
                  /\ DOMAIN inbox'[x] = 1..Len(inbox[x]) + 1
                  /\ Len(inbox'[x]) = Len(inbox[x]) + 1
                  /\ \A i \in 1..Len(inbox[x]) : inbox'[x][i] = inbox[x][i]
                  /\ inbox'[x][Len(inbox[x]) + 1] = n + 1
             /\ x \notin members \ {c} => inbox'[x] = inbox[x]
             /\ inbox[x] \in Seq(Nat)
             /\ inbox'[x] \in Seq(Nat)
             /\ Len(inbox[x]) \in Nat
             /\ DOMAIN inbox[x] = 1..Len(inbox[x])
  <2>1. inbox[x] \in Seq(Nat) /\ n + 1 \in Nat
    BY <1>2 DEF IInv, TypeOK
  <2>2. inbox'[x] = IF x \in members \ {c} THEN Append(inbox[x], n + 1) ELSE inbox[x]
    BY DEF Say
  <2>3. /\ Append(inbox[x], n + 1) \in Seq(Nat)
        /\ Len(Append(inbox[x], n + 1)) = Len(inbox[x]) + 1
        /\ \A i \in 1..Len(inbox[x]) : Append(inbox[x], n + 1)[i] = inbox[x][i]
        /\ Append(inbox[x], n + 1)[Len(inbox[x]) + 1] = n + 1
    BY <2>1, AppendProperties
  <2>4. DOMAIN Append(inbox[x], n + 1) = 1..Len(inbox[x]) + 1
    BY <2>1, <2>3, LenProperties
  <2>5. QED
    BY <2>1, <2>2, <2>3, <2>4
<1>4. TypeOK'
  <2>1. \A x \in Conn : inbox'[x] \in Seq(Nat)
    BY <1>3
  <2>2. inbox' = [x \in Conn |-> inbox'[x]]
    BY DEF Say
  <2>3. QED
    BY <1>2, <2>1, <2>2 DEF IInv, TypeOK, Say
<1> HIDE DEF n
<1>5. Bounded'
  <2> SUFFICES ASSUME NEW x \in Conn
               PROVE  /\ x \in members => joined[x] # -1
                      /\ joined[x] <= n + 1
                      /\ left[x] <= n + 1
                      /\ \A i \in DOMAIN inbox'[x] : inbox'[x][i] <= n + 1
    BY <1>2 DEF Say, Bounded
  <2>1. /\ x \in members => joined[x] # -1
        /\ joined[x] <= n /\ joined[x] \in Int
        /\ left[x] <= n /\ left[x] \in Int
        /\ \A i \in 1..Len(inbox[x]) : inbox[x][i] <= n /\ inbox[x][i] \in Nat
    BY <1>3 DEF IInv, Bounded, TypeOK, n
  <2>2. ASSUME NEW i \in DOMAIN inbox'[x] PROVE inbox'[x][i] <= n + 1
    <3>1. CASE x \in members \ {c}
      <4>1. i \in 1..Len(inbox[x]) \/ i = Len(inbox[x]) + 1
        BY <1>3, <3>1
      <4>2. i \in 1..Len(inbox[x]) => inbox'[x][i] = inbox[x][i]
        BY <1>3, <3>1
      <4>3. inbox'[x][Len(inbox[x]) + 1] = n + 1
        BY <1>3, <3>1
      <4>4. QED
        BY <1>2, <2>1, <4>1, <4>2, <4>3
    <3>2. CASE x \notin members \ {c}
      <4>1. inbox'[x] = inbox[x] /\ i \in 1..Len(inbox[x])
        BY <1>3, <3>2
      <4>2. QED
        BY <1>2, <2>1, <4>1
    <3>3. QED
      BY <3>1, <3>2
  <2>3. QED
    BY <1>2, <2>1, <2>2
<1>6. HearsInOrder'
  <2> SUFFICES ASSUME NEW x \in Conn, NEW i \in DOMAIN inbox'[x], NEW j \in DOMAIN inbox'[x],
                      i < j
               PROVE  inbox'[x][i] < inbox'[x][j]
    BY DEF HearsInOrder
  <2>1. \A k \in 1..Len(inbox[x]) : inbox[x][k] <= n /\ inbox[x][k] \in Nat
    <3>1. inbox[x] \in Seq(Nat) /\ DOMAIN inbox[x] = 1..Len(inbox[x])
      BY <1>3
    <3>2. \A k \in 1..Len(inbox[x]) : inbox[x][k] <= n
      BY <3>1 DEF IInv, Bounded, n
    <3> QED BY <3>1, <3>2
  <2>2. \A k, l \in 1..Len(inbox[x]) : k < l => inbox[x][k] < inbox[x][l]
    BY <1>3 DEF IInv, HearsInOrder
  <2>3. CASE x \in members \ {c}
    <3>1. i \in 1..Len(inbox[x]) /\ (j \in 1..Len(inbox[x]) \/ j = Len(inbox[x]) + 1)
      <4>1. DOMAIN inbox'[x] = 1..Len(inbox[x]) + 1 /\ Len(inbox[x]) \in Nat
        BY <1>3, <2>3
      <4>2. QED
        BY <4>1
    <3>2. \A k \in 1..Len(inbox[x]) : inbox'[x][k] = inbox[x][k]
      BY <1>3, <2>3
    <3>3. inbox'[x][Len(inbox[x]) + 1] = n + 1
      BY <1>3, <2>3
    <3>4. QED
      BY <1>2, <2>1, <2>2, <3>1, <3>2, <3>3
  <2>4. CASE x \notin members \ {c}
    BY <1>3, <2>2, <2>4
  <2>5. QED
    BY <2>3, <2>4
<1>7. HearsExactlyTheOthers'
  <2> SUFFICES ASSUME NEW x \in Conn
               PROVE  {inbox'[x][i] : i \in DOMAIN inbox'[x]} =
                        IF joined[x] = -1 THEN {} ELSE Audible(x)'
    BY DEF HearsExactlyTheOthers, Say
  <2>1. {inbox[x][i] : i \in DOMAIN inbox[x]} = IF joined[x] = -1 THEN {} ELSE Audible(x)
    BY DEF IInv, HearsExactlyTheOthers
  <2>2. /\ joined[x] \in Nat \cup {-1}
        /\ joined[x] <= n
        /\ left[x] \in Nat \cup {-1}
        /\ left[x] <= n
        /\ x \in members => joined[x] # -1
    BY DEF IInv, TypeOK, Bounded, n
  <2>3. Audible(x)' = {f \in joined[x] + 1 .. IF x \in members THEN n + 1 ELSE left[x] : log'[f].from # x}
    BY <1>2 DEF Audible, Until, Say
  <2>4. Audible(x) = {f \in joined[x] + 1 .. IF x \in members THEN n ELSE left[x] : log[f].from # x}
    BY DEF Audible, Until, n
  <2>5. CASE x \notin members
    <3>1. joined[x] # -1 => Audible(x)' = Audible(x)
      BY <1>2, <2>2, <2>3, <2>4, <2>5
    <3>2. inbox'[x] = inbox[x]
      BY <1>3, <2>5
    <3>3. QED
      BY <2>1, <3>1, <3>2
  <2>6. CASE x \in members /\ x # c
    <3>1. joined[x] \in Nat
      BY <2>2, <2>6
    <3>2. joined[x] <= n
      BY <2>2
    <3>3. Audible(x)' = Audible(x) \cup {n + 1}
      BY <1>2, <2>3, <2>4, <2>6, <3>1, <3>2
    <3>4. {inbox'[x][i] : i \in DOMAIN inbox'[x]} =
             {inbox[x][i] : i \in DOMAIN inbox[x]} \cup {n + 1}
      <4>1. /\ DOMAIN inbox[x] = 1..Len(inbox[x])
            /\ DOMAIN inbox'[x] = 1..Len(inbox[x]) + 1
            /\ \A i \in 1..Len(inbox[x]) : inbox'[x][i] = inbox[x][i]
            /\ inbox'[x][Len(inbox[x]) + 1] = n + 1
            /\ Len(inbox[x]) \in Nat
        BY <1>3, <2>6
      <4>2. 1..Len(inbox[x]) + 1 = 1..Len(inbox[x]) \cup {Len(inbox[x]) + 1}
        BY <4>1
      <4>3. QED
        BY <4>1, <4>2
    <3>5. QED
      BY <2>1, <3>1, <3>3, <3>4
  <2>7. CASE x = c
    <3>1. joined[x] \in Nat /\ x \in members
      BY <2>2, <2>7 DEF Say
    <3>2. Audible(x)' = Audible(x)
      BY <1>2, <2>3, <2>4, <2>7, <3>1
    <3>3. inbox'[x] = inbox[x]
      BY <1>3, <2>7
    <3>4. QED
      BY <2>1, <3>2, <3>3
  <2>8. QED
    BY <2>5, <2>6, <2>7
<1>8. QED
  BY <1>4, <1>5, <1>6, <1>7 DEF IInv

\* Entering, leaving and saying keep the invariant.
LEMMA StepIInv == IInv /\ [Next]_vars => IInv'
<1> SUFFICES ASSUME IInv, [Next]_vars PROVE IInv'
  OBVIOUS
<1> USE DEF IInv
<1>0. Len(log) \in Nat
  BY DEF TypeOK
<1>1. ASSUME NEW c \in Conn, Enter(c) PROVE IInv'
  <2>1. TypeOK'
    BY <1>0, <1>1 DEF TypeOK, Enter
  <2>2. Bounded'
    BY <1>0, <1>1 DEF Bounded, TypeOK, Enter
  <2>3. HearsInOrder'
    BY <1>1 DEF HearsInOrder, Enter
  <2>4. HearsExactlyTheOthers'
    <3> SUFFICES ASSUME NEW x \in Conn
                 PROVE  {inbox[x][i] : i \in DOMAIN inbox[x]} =
                          IF joined'[x] = -1 THEN {} ELSE Audible(x)'
      BY <1>1 DEF HearsExactlyTheOthers, Enter
    <3>1. {inbox[x][i] : i \in DOMAIN inbox[x]} = IF joined[x] = -1 THEN {} ELSE Audible(x)
      BY DEF HearsExactlyTheOthers
    <3>2. CASE x = c
      <4>1. Audible(x)' = {} /\ joined[x] = -1
        BY <1>0, <1>1, <3>2 DEF Audible, Until, Enter, TypeOK
      <4>2. QED
        BY <3>1, <4>1
    <3>3. CASE x # c
      <4>1. joined'[x] = joined[x] /\ (x \in members' <=> x \in members)
        BY <1>1, <3>3 DEF Enter, TypeOK
      <4>2. Audible(x)' = Audible(x)
        BY <1>1, <4>1 DEF Audible, Until, Enter
      <4>3. QED
        BY <3>1, <4>1, <4>2
    <3>4. QED
      BY <3>2, <3>3
  <2>5. QED
    BY <2>1, <2>2, <2>3, <2>4
<1>2. ASSUME NEW c \in Conn, Leave(c) PROVE IInv'
  <2>1. TypeOK'
    BY <1>0, <1>2 DEF TypeOK, Leave
  <2>2. Bounded'
    BY <1>0, <1>2 DEF Bounded, TypeOK, Leave
  <2>3. HearsInOrder'
    BY <1>2 DEF HearsInOrder, Leave
  <2>4. HearsExactlyTheOthers'
    <3>1. \A x \in Conn : Until(x)' = Until(x)
      BY <1>2 DEF Until, Leave, TypeOK
    <3>2. \A x \in Conn : Audible(x)' = Audible(x)
      BY <1>2, <3>1 DEF Audible, Leave
    <3>3. QED
      BY <1>2, <3>2 DEF HearsExactlyTheOthers, Leave
  <2>5. QED
    BY <2>1, <2>2, <2>3, <2>4
<1>3. ASSUME NEW c \in Conn, Say(c) PROVE IInv'
  BY <1>3, SayIInv
<1>4. CASE UNCHANGED vars
  BY <1>4 DEF vars, TypeOK, Bounded, HearsExactlyTheOthers, HearsInOrder, Audible, Until
<1>5. QED
  BY <1>1, <1>2, <1>3, <1>4 DEF Next

\* Nobody in the room misses anything, hears itself, or hears what was said
\* while it was out.
THEOREM HearsAll == Spec => []HearsExactlyTheOthers
<1>1. IInv => HearsExactlyTheOthers
  BY DEF IInv
<1>2. QED
  BY InitIInv, StepIInv, <1>1, PTL DEF Spec

\* Everyone hears things in the order in which they were said, each once.
THEOREM SameOrder == Spec => []HearsInOrder
<1>1. IInv => HearsInOrder
  BY DEF IInv
<1>2. QED
  BY InitIInv, StepIInv, <1>1, PTL DEF Spec
=============================================================================
