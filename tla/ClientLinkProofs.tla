-------------------------- MODULE ClientLinkProofs --------------------------
(***************************************************************************)
(* Theorems about ClientLink, for any conversation and any limits: the     *)
(* list of messages and what is written are in order, and the two threads  *)
(* together implement ChatClient.                                          *)
(***************************************************************************)
EXTENDS ClientLink, DataProofs

-----------------------------------------------------------------------------
(* Counting the items of a list.                                            *)

OwnOf(s) == {i \in DOMAIN s : s[i][1] = "own"}
HeardOf(s) == {i \in DOMAIN s : s[i][1] # "own"}
UpTo(S, i) == {j \in S : j <= i}

HeardInOrder(s) == \A i \in HeardOf(s) : s[i][2] = Cardinality(UpTo(HeardOf(s), i))

LEMMA CountsAreFinite ==
  ASSUME NEW s \in Seq(Message)
  PROVE  /\ IsFiniteSet(OwnOf(s)) /\ Cardinality(OwnOf(s)) \in Nat
         /\ IsFiniteSet(HeardOf(s)) /\ Cardinality(HeardOf(s)) \in Nat
<1>1. IsFiniteSet(1..Len(s))
  BY FS_Interval
<1>2. OwnOf(s) \subseteq 1..Len(s) /\ HeardOf(s) \subseteq 1..Len(s)
  BY DEF OwnOf, HeardOf
<1> QED BY <1>1, <1>2, FS_Subset, FS_CardinalityType

\* An item of the user's changes only how many of those there are.
LEMMA AppendOwn ==
  ASSUME NEW s \in Seq(Message), NEW e \in Message, e[1] = "own"
  PROVE  /\ Cardinality(OwnOf(Append(s, e))) = Cardinality(OwnOf(s)) + 1
         /\ HeardOf(Append(s, e)) = HeardOf(s)
         /\ HeardInOrder(s) => HeardInOrder(Append(s, e))
<1> DEFINE t == Append(s, e)
<1>1. DOMAIN t = 1..Len(s) + 1 /\ t[Len(s) + 1] = e /\ \A i \in 1..Len(s) : t[i] = s[i]
  BY AppendProperties
<1>2. DOMAIN s = 1..Len(s) /\ Len(s) \in Nat
  OBVIOUS
<1> HIDE DEF t
<1>3. OwnOf(t) = OwnOf(s) \cup {Len(s) + 1} /\ Len(s) + 1 \notin OwnOf(s)
  BY <1>1, <1>2 DEF OwnOf
<1>4. HeardOf(t) = HeardOf(s)
  BY <1>1, <1>2 DEF HeardOf
<1>5. Cardinality(OwnOf(t)) = Cardinality(OwnOf(s)) + 1
  BY <1>3, CountsAreFinite, FS_AddElement
<1>6. \A i \in HeardOf(s) : t[i] = s[i]
  BY <1>1, <1>2 DEF HeardOf
<1>7. HeardInOrder(s) => HeardInOrder(t)
  BY <1>4, <1>6 DEF HeardInOrder
<1> QED BY <1>4, <1>5, <1>7 DEF t

\* An item that was heard keeps the order if it bears the next number.
LEMMA AppendHeard ==
  ASSUME NEW s \in Seq(Message), NEW e \in Message, e[1] # "own"
  PROVE  /\ Cardinality(HeardOf(Append(s, e))) = Cardinality(HeardOf(s)) + 1
         /\ OwnOf(Append(s, e)) = OwnOf(s)
         /\ HeardInOrder(s) /\ e[2] = Cardinality(HeardOf(s)) + 1 => HeardInOrder(Append(s, e))
<1> DEFINE t == Append(s, e)
           n == Len(s) + 1
<1>1. DOMAIN t = 1..n /\ t[n] = e /\ \A i \in 1..Len(s) : t[i] = s[i]
  BY AppendProperties
<1>2. DOMAIN s = 1..Len(s) /\ Len(s) \in Nat
  OBVIOUS
<1> HIDE DEF t
<1>3. HeardOf(t) = HeardOf(s) \cup {n} /\ n \notin HeardOf(s)
  BY <1>1, <1>2 DEF HeardOf
<1>4. OwnOf(t) = OwnOf(s)
  BY <1>1, <1>2 DEF OwnOf
<1>5. Cardinality(HeardOf(t)) = Cardinality(HeardOf(s)) + 1
  BY <1>3, CountsAreFinite, FS_AddElement
<1>6. ASSUME HeardInOrder(s), e[2] = Cardinality(HeardOf(s)) + 1 PROVE HeardInOrder(t)
  <2>1. ASSUME NEW i \in HeardOf(s) PROVE t[i][2] = Cardinality(UpTo(HeardOf(t), i))
    <3>1. i \in 1..Len(s) /\ t[i] = s[i]
      BY <1>1, <1>2 DEF HeardOf
    <3>2. UpTo(HeardOf(t), i) = UpTo(HeardOf(s), i)
      BY <1>2, <1>3, <3>1 DEF UpTo
    <3> QED BY <1>6, <3>1, <3>2 DEF HeardInOrder
  <2>2. UpTo(HeardOf(t), n) = HeardOf(t)
    BY <1>1, <1>2 DEF UpTo, HeardOf
  <2> QED BY <1>1, <1>3, <1>5, <1>6, <2>1, <2>2 DEF HeardInOrder
<1> QED BY <1>4, <1>5, <1>6 DEF t

-----------------------------------------------------------------------------
(* The inductive invariant.                                                 *)

\* Where the read chain is, it has read an even or an odd number of cells; it
\* does not start before there is a connection.
InStep ==
  /\ sock \in {"unopened", "connecting"} => taken = 0 /\ rd = "none"
  /\ rd \in {"hdr", "posted", "decrypt"} => taken % 2 = 0
  /\ rd = "body" => taken % 2 = 1

\* Until the socket is closed, what is posted follows what is written, and both
\* together are what the user said.
PostsFollow ==
  Running /\ sock # "closed" =>
    /\ Cardinality(Own) = Len(written) + Len(posted)
    /\ \A i \in DOMAIN posted : posted[i] = Len(written) + i

ThreadOpens == thread = "starting" <=> sock = "unopened"

LinkInv ==
  /\ TypeOK
  /\ InStep
  /\ ShownInOrder
  /\ WrittenInOrder
  /\ PostsFollow
  /\ ThreadOpens

LEMMA InitLink == Init => LinkInv
<1> SUFFICES ASSUME Init PROVE LinkInv
  OBVIOUS
<1>1. q \in WriteQueue(DOMAIN Texts)
  BY EmptySeq DEF Init, NoWrites, WriteQueue
<1>2. posted \in Seq(DOMAIN Texts) /\ written \in Seq(DOMAIN Texts) /\ messages \in Seq(Message)
  BY EmptySeq DEF Init
<1>3. arrived \in 0..2 * Len(Heard) /\ taken \in 0..arrived
  <2>1. Len(Heard) \in Nat
    BY ClientLinkAssumption, LenProperties DEF ClientLinkAssumption
  <2> QED BY <2>1 DEF Init
<1>4. TypeOK
  BY <1>1, <1>2, <1>3 DEF TypeOK, Init
<1>5. Own = {} /\ HeardItems = {}
  BY DEF Init, Own, HeardItems
<1>6. Cardinality({}) = 0
  BY FS_EmptySet
<1>7. InStep /\ WrittenInOrder /\ ThreadOpens
  BY DEF Init, InStep, WrittenInOrder, ThreadOpens
<1>8. ShownInOrder /\ PostsFollow
  BY <1>5, <1>6 DEF Init, ShownInOrder, PostsFollow
<1> QED BY <1>4, <1>7, <1>8 DEF LinkInv

\* The list as ShownInOrder and PostsFollow speak of it.
LEMMA ListLemma ==
  /\ Own = OwnOf(messages)
  /\ HeardItems = HeardOf(messages)
  /\ (\A i \in HeardItems : messages[i][2] = Cardinality({j \in HeardItems : j <= i}))
       <=> HeardInOrder(messages)
BY DEF Own, HeardItems, OwnOf, HeardOf, HeardInOrder, UpTo

\* What leaves the list and the frames read alone, keeps them in step.
LEMMA ListUntouched ==
  ASSUME LinkInv, UNCHANGED <<messages, taken>>,
         Running' => Running /\ (rd' = "decrypt" <=> rd = "decrypt")
  PROVE  ShownInOrder'
BY DEF LinkInv, ShownInOrder, HeardItems, Frame

\* What leaves the user's messages alone, keeps their order.
LEMMA PostsUntouched ==
  ASSUME LinkInv, UNCHANGED <<messages, posted, written>>,
         Running' => Running, sock = "closed" => sock' = "closed"
  PROVE  WrittenInOrder' /\ PostsFollow'
BY DEF LinkInv, WrittenInOrder, PostsFollow, Own

\* The handler: the item it appends bears the number of the frame it decrypted.
LEMMA HandleLemma ==
  ASSUME LinkInv, Handle PROVE LinkInv'
<1> USE DEF vars, reading, writing, user
<1>1. CASE UNCHANGED messages
  <2>1. process' = "aborted" /\ UNCHANGED rd
    <3>1. ASSUME NEW kind, messages' = Append(messages, <<kind, Frame>>) PROVE FALSE
      <4>1. Len(messages') = Len(messages) + 1 /\ Len(messages) \in Nat
        BY <3>1, AppendProperties DEF LinkInv, TypeOK
      <4> QED BY <1>1, <4>1
    <3> QED BY <3>1 DEF Handle, Shown
  <2>2. TypeOK' /\ InStep' /\ ThreadOpens'
    BY <1>1, <2>1 DEF Handle, LinkInv, TypeOK, InStep, ThreadOpens
  <2>3. ShownInOrder'
    BY <1>1, <2>1, ListUntouched DEF Handle, Running
  <2>4. WrittenInOrder' /\ PostsFollow'
    BY <1>1, <2>1, PostsUntouched DEF Handle, Running
  <2> QED BY <2>2, <2>3, <2>4 DEF LinkInv
<1>2. ASSUME NEW kind \in {"text", "error"}, messages' = Append(messages, <<kind, Frame>>),
             rd' = AfterBody, UNCHANGED process
      PROVE  LinkInv'
  <2> DEFINE e == <<kind, Frame>>
  <2>1. taken \in Nat /\ taken % 2 = 0 /\ Frame = taken \div 2 /\ Frame \in Nat
    BY DEF LinkInv, TypeOK, InStep, Handle, Frame
  <2>2. messages \in Seq(Message) /\ e \in Message /\ e[1] # "own" /\ e[2] = Frame
    BY <2>1 DEF LinkInv, TypeOK, Message
  <2>3. messages' \in Seq(Message)
    BY <1>2, <2>2, AppendProperties
  <2>4. rd' \in {"none", "posted"}
    BY <1>2 DEF AfterBody
  <2>5. TypeOK'
    BY <1>2, <2>3, <2>4 DEF Handle, LinkInv, TypeOK
  <2>6. InStep' /\ ThreadOpens'
    BY <1>2, <2>1, <2>4 DEF Handle, LinkInv, InStep, ThreadOpens
  <2>60. messages' = Append(messages, e)
    BY <1>2
  <2> HIDE DEF e
  <2>7. Cardinality(HeardOf(messages)) = Frame - 1 /\ HeardInOrder(messages)
    BY ListLemma DEF LinkInv, ShownInOrder, Handle
  <2>8. /\ Cardinality(HeardOf(messages')) = Frame
        /\ HeardInOrder(messages')
        /\ OwnOf(messages') = OwnOf(messages)
    <3>1. /\ Cardinality(HeardOf(messages')) = Cardinality(HeardOf(messages)) + 1
          /\ OwnOf(messages') = OwnOf(messages)
          /\ e[2] = Cardinality(HeardOf(messages)) + 1 => HeardInOrder(messages')
      BY <2>60, <2>2, <2>7, AppendHeard
    <3> QED BY <3>1, <2>1, <2>2, <2>7
  <2>9. /\ Own' = OwnOf(messages') /\ HeardItems' = HeardOf(messages')
        /\ (\A i \in HeardItems' : messages'[i][2] = Cardinality({j \in HeardItems' : j <= i}))
             <=> HeardInOrder(messages')
    BY DEF Own, HeardItems, OwnOf, HeardOf, HeardInOrder, UpTo
  <2>10. ShownInOrder'
    BY <2>1, <2>4, <2>8, <2>9 DEF ShownInOrder, Handle
  <2>11. WrittenInOrder' /\ PostsFollow'
    BY <1>2, <2>8, <2>9, ListLemma
       DEF Handle, LinkInv, WrittenInOrder, PostsFollow, Running
  <2> QED BY <2>5, <2>6, <2>10, <2>11 DEF LinkInv
<1>3. PICK kind \in Decrypted(Heard[Frame]) :
        IF kind = "abort"
        THEN process' = "aborted" /\ UNCHANGED <<messages, rd>>
        ELSE messages' = Append(messages, <<kind, Frame>>) /\ rd' = AfterBody /\ UNCHANGED process
  BY DEF Handle, Shown
<1>4. kind \in {"abort", "error", "text"}
  BY <1>3 DEF Decrypted
<1> QED BY <1>1, <1>2, <1>3, <1>4

\* ENTER: the message shown and the message posted bear the same number.
LEMMA SayLemma ==
  ASSUME LinkInv, Say PROVE LinkInv'
<1> USE DEF vars, reading, writing, user
<1> DEFINE n == Cardinality(Own) + 1
           e == <<"own", n>>
<1>1. n \in DOMAIN Texts /\ messages' = Append(messages, e) /\ posted' = Append(posted, n)
  BY DEF Say, Posted
<1>2. messages \in Seq(Message) /\ posted \in Seq(DOMAIN Texts) /\ written \in Seq(DOMAIN Texts)
  BY DEF LinkInv, TypeOK
<1>3. Cardinality(Own) \in Nat /\ Own = OwnOf(messages)
  BY <1>2, CountsAreFinite, ListLemma
<1>4. e \in Message /\ e[1] = "own"
  BY <1>3 DEF Message
<1>5. messages' \in Seq(Message)
  BY <1>1, <1>2, <1>4, AppendProperties
<1>6. posted' \in Seq(DOMAIN Texts)
  BY <1>1, <1>2, AppendProperties
<1> HIDE DEF e
<1>7. /\ Cardinality(OwnOf(messages')) = n
      /\ HeardOf(messages') = HeardOf(messages)
      /\ HeardInOrder(messages) => HeardInOrder(messages')
  BY <1>1, <1>2, <1>3, <1>4, AppendOwn
<1>8. Own' = OwnOf(messages') /\ HeardItems' = HeardOf(messages')
  BY DEF Own, HeardItems, OwnOf, HeardOf
<1>9. TypeOK'
  BY <1>5, <1>6 DEF Say, LinkInv, TypeOK
<1>10. InStep' /\ ThreadOpens' /\ WrittenInOrder'
  BY DEF Say, LinkInv, InStep, ThreadOpens, WrittenInOrder
<1>11. ShownInOrder'
  <2>1. HeardInOrder(messages')
    BY <1>7, ListLemma DEF LinkInv, ShownInOrder
  <2>2. Running' => Cardinality(HeardItems') = IF rd' = "decrypt" THEN Frame' - 1 ELSE taken' \div 2
    BY <1>7, <1>8, ListLemma DEF LinkInv, ShownInOrder, Say, Running, Frame
  <2> QED BY <1>8, <2>1, <2>2 DEF ShownInOrder, HeardInOrder, UpTo
<1>12. PostsFollow'
  <2> SUFFICES ASSUME Running', sock' # "closed"
               PROVE  /\ Cardinality(Own') = Len(written') + Len(posted')
                      /\ \A i \in DOMAIN posted' : posted'[i] = Len(written') + i
    BY DEF PostsFollow
  <2>1. /\ Cardinality(Own) = Len(written) + Len(posted)
        /\ \A i \in DOMAIN posted : posted[i] = Len(written) + i
        /\ UNCHANGED written
    BY DEF Say, LinkInv, PostsFollow
  <2>2. /\ Len(posted') = Len(posted) + 1
        /\ \A i \in 1..Len(posted) : posted'[i] = posted[i]
        /\ posted'[Len(posted) + 1] = n
    BY <1>1, <1>2, AppendProperties
  <2>3. Cardinality(Own') = n
    BY <1>7, <1>8
  <2>4. Len(posted) \in Nat /\ Len(written) \in Nat
    BY <1>2
  <2>5. DOMAIN posted' = 1..Len(posted) + 1 /\ DOMAIN posted = 1..Len(posted)
    BY <1>2, <1>6, <2>2
  <2> HIDE DEF n
  <2>6. n = Len(written) + Len(posted) + 1
    BY <2>1 DEF n
  <2>7. Cardinality(Own') = Len(written') + Len(posted')
    BY <2>1, <2>2, <2>3, <2>4, <2>6
  <2>8. ASSUME NEW i \in DOMAIN posted'
        PROVE  posted'[i] = Len(written') + i
    <3>1. i \in 1..Len(posted) \/ i = Len(posted) + 1
      BY <2>4, <2>5
    <3>2. CASE i \in 1..Len(posted)
      BY <2>1, <2>2, <2>5, <3>2
    <3>3. CASE i = Len(posted) + 1
      BY <2>1, <2>2, <2>4, <2>6, <3>3
    <3> QED BY <3>1, <3>2, <3>3
  <2> QED BY <2>7, <2>8
<1> QED BY <1>9, <1>10, <1>11, <1>12 DEF LinkInv
\* client::write in the connection thread: the head of the posts is the next
\* number to write.
LEMMA RunPostedLemma ==
  ASSUME LinkInv, RunPosted PROVE LinkInv'
<1> USE DEF vars, reading, writing, user
<1> DEFINE n == Head(posted)
<1>1. posted # <<>> /\ posted \in Seq(DOMAIN Texts) /\ written \in Seq(DOMAIN Texts)
  BY DEF LinkInv, TypeOK, RunPosted
<1>2. /\ n \in DOMAIN Texts /\ posted' = Tail(posted) /\ posted' \in Seq(DOMAIN Texts)
      /\ n = posted[1] /\ Len(posted') = Len(posted) - 1 /\ Len(posted) \in Nat /\ Len(posted) > 0
      /\ \A i \in 1..Len(posted') : posted'[i] = posted[i + 1]
  BY <1>1, HeadTailProperties DEF RunPosted
<1>3. UNCHANGED <<messages, taken, rd, sock, thread>> /\ Running
  BY DEF RunPosted, Polling
<1>4. Texts[n] + 1 \in Nat
  <2>1. Texts[n] \in Nat \ {0}
    BY <1>2, ClientLinkAssumption, ElementOfSeq DEF ClientLinkAssumption
  <2> QED BY <2>1
<1>5. sock # "closed" <=> is_open
  BY DEF RunPosted, Polling, LinkInv, TypeOK, ThreadOpens, is_open
<1>6. \/ process' = "aborted" /\ UNCHANGED <<q, written>>
      \/ /\ UNCHANGED process
         /\ q' = IF is_open THEN StartWrite(q, n, Texts[n] + 1) ELSE q
         /\ written' = IF is_open THEN Append(written, n) ELSE written
  BY DEF RunPosted
<1> HIDE DEF n
<1>7. q' \in WriteQueue(DOMAIN Texts)
  <2>1. q \in WriteQueue(DOMAIN Texts)
    BY DEF LinkInv, TypeOK
  <2>2. StartWrite(q, n, Texts[n] + 1) \in WriteQueue(DOMAIN Texts)
    BY <2>1, <1>2, <1>4, QueueLemma
  <2> QED BY <1>6, <2>1, <2>2
<1>8. written' \in Seq(DOMAIN Texts)
  <2>1. Append(written, n) \in Seq(DOMAIN Texts)
    BY <1>1, <1>2, AppendProperties
  <2> QED BY <1>1, <1>6, <2>1
<1>9. TypeOK'
  BY <1>2, <1>6, <1>7, <1>8 DEF RunPosted, LinkInv, TypeOK
<1>10. InStep' /\ ThreadOpens' /\ ShownInOrder'
  <2>1. InStep' /\ ThreadOpens'
    BY <1>3 DEF LinkInv, InStep, ThreadOpens
  <2> QED BY <2>1, <1>3, ListUntouched
<1>11. CASE UNCHANGED written /\ (process' = "aborted" \/ sock = "closed")
  <2>1. WrittenInOrder' /\ PostsFollow'
    BY <1>3, <1>11 DEF LinkInv, WrittenInOrder, PostsFollow, Running
  <2> QED BY <1>9, <1>10, <2>1 DEF LinkInv
<1>12. CASE written' = Append(written, n) /\ is_open
  <2>1. /\ Len(written') = Len(written) + 1 /\ Len(written) \in Nat
        /\ \A i \in 1..Len(written) : written'[i] = written[i]
        /\ written'[Len(written) + 1] = n
        /\ DOMAIN written = 1..Len(written) /\ DOMAIN written' = 1..Len(written) + 1
    BY <1>1, <1>2, <1>8, <1>12, AppendProperties
  <2>2. /\ Cardinality(Own) = Len(written) + Len(posted)
        /\ \A i \in DOMAIN posted : posted[i] = Len(written) + i
    BY <1>3, <1>5, <1>12 DEF LinkInv, PostsFollow
  <2>3. DOMAIN posted = 1..Len(posted) /\ DOMAIN posted' = 1..Len(posted')
    BY <1>1, <1>2
  <2>4. n = Len(written) + 1
    BY <1>2, <2>2, <2>3
  <2>5. WrittenInOrder'
    BY <2>1, <2>4 DEF LinkInv, WrittenInOrder
  <2>6. Cardinality(Own') = Len(written') + Len(posted')
    <3>1. Own' = Own
      BY <1>3 DEF Own
    <3>2. Len(written') + Len(posted') = Len(written) + Len(posted)
      BY <1>2, <2>1
    <3>3. Cardinality(Own') = Cardinality(Own)
      BY <3>1
    <3> QED BY <2>2, <3>2, <3>3
  <2>7. ASSUME NEW i \in DOMAIN posted' PROVE posted'[i] = Len(written') + i
    <3>1. i \in 1..Len(posted') /\ i + 1 \in DOMAIN posted
      BY <1>2, <2>3
    <3>2. posted'[i] = posted[i + 1]
      BY <1>2, <3>1
    <3> QED BY <2>1, <2>2, <3>1, <3>2
  <2>8. PostsFollow'
    BY <2>6, <2>7 DEF PostsFollow
  <2> QED BY <1>9, <1>10, <2>5, <2>8 DEF LinkInv
<1> QED BY <1>5, <1>6, <1>11, <1>12

\* Every other step leaves the list and the posts alone.
LEMMA StepLink == LinkInv /\ [Next]_vars => LinkInv'
<1> SUFFICES ASSUME LinkInv, [Next]_vars PROVE LinkInv'
  OBVIOUS
<1> USE DEF vars, reading, writing, user
<1>1. q \in WriteQueue(DOMAIN Texts) /\ MaxTransfer \in Nat
  BY ClientLinkAssumption DEF LinkInv, TypeOK, ClientLinkAssumption
<1>2. AbortWrites(q) \in WriteQueue(DOMAIN Texts)
  BY <1>1, QueueLemma
<1>3. ASSUME UNCHANGED <<messages, posted, written>>,
             Running' => Running, sock = "closed" => sock' = "closed",
             TypeOK', InStep', ShownInOrder', ThreadOpens'
      PROVE  LinkInv'
  BY <1>3, PostsUntouched DEF LinkInv
<1>4. ASSUME UNCHANGED <<messages, posted, written, taken, rd, sock, thread>>,
             Running' => Running, TypeOK'
      PROVE  LinkInv'
  <2>1. InStep' /\ ThreadOpens'
    BY <1>4 DEF LinkInv, InStep, ThreadOpens
  <2> QED BY <1>3, <1>4, <2>1, ListUntouched
<1>5. CASE Start
  <2>1. TypeOK' /\ InStep' /\ ThreadOpens' /\ sock # "closed"
    BY <1>5 DEF Start, LinkInv, TypeOK, InStep, ThreadOpens
  <2>2. ShownInOrder'
    BY <1>5, ListUntouched DEF Start, Running
  <2> QED BY <1>3, <1>5, <2>1, <2>2 DEF Start, Running
<1>6. CASE Connected
  <2>1. TypeOK' /\ InStep' /\ ThreadOpens'
    BY <1>6 DEF Connected, Polling, LinkInv, TypeOK, InStep, ThreadOpens
  <2>2. ShownInOrder'
    BY <1>6, ListUntouched DEF Connected, Polling, Running
  <2> QED BY <1>3, <1>6, <2>1, <2>2 DEF Connected, Polling, Running
<1>7. CASE ConnectFails
  <2>1. TypeOK' /\ InStep' /\ ThreadOpens'
    BY <1>7 DEF ConnectFails, Polling, LinkInv, TypeOK, InStep, ThreadOpens
  <2>2. ShownInOrder'
    BY <1>7, ListUntouched DEF ConnectFails, Polling, Running
  <2> QED BY <1>3, <1>7, <2>1, <2>2 DEF ConnectFails, Polling, Running
<1>8. CASE ReadHeader \/ ReadBody
  <2>1. taken \in Nat /\ arrived \in Nat /\ taken' = taken + 1 /\ taken' \in 0..arrived'
    BY <1>8 DEF ReadHeader, ReadBody, LinkInv, TypeOK
  <2>2. TypeOK'
    BY <1>2, <1>8, <2>1 DEF ReadHeader, ReadBody, CloseAndStop, LinkInv, TypeOK
  <2>3. InStep' /\ ThreadOpens'
    BY <1>8, <2>1 DEF ReadHeader, ReadBody, CloseAndStop, LinkInv, InStep, ThreadOpens
  <2>4. /\ taken % 2 = 0 => taken' \div 2 = taken \div 2
        /\ taken % 2 = 1 => (taken' + 1) \div 2 - 1 = taken \div 2
    BY <2>1
  <2>5. ShownInOrder'
    <3>1. HeardItems' = HeardItems /\ UNCHANGED messages
      BY <1>8 DEF ReadHeader, ReadBody, HeardItems
    <3>2. \/ taken % 2 = 0 /\ rd' # "decrypt"
          \/ taken % 2 = 1 /\ rd' = "decrypt"
      BY <1>8 DEF ReadHeader, ReadBody, CloseAndStop, LinkInv, InStep
    <3>3. rd # "decrypt" /\ Running
      BY <1>8 DEF ReadHeader, ReadBody, Polling
    <3>4. Cardinality(HeardItems) = taken \div 2
      BY <3>3 DEF LinkInv, ShownInOrder
    <3>5. Cardinality(HeardItems') = IF rd' = "decrypt" THEN Frame' - 1 ELSE taken' \div 2
      BY <2>4, <3>1, <3>2, <3>4 DEF Frame
    <3> QED BY <3>1, <3>5 DEF LinkInv, ShownInOrder
  <2> QED BY <1>3, <1>8, <2>2, <2>3, <2>5 DEF ReadHeader, ReadBody, CloseAndStop, Polling, Running
<1>9. CASE Handle
  BY <1>9, HandleLemma
<1>10. CASE Repost
  <2>1. TypeOK' /\ InStep' /\ ThreadOpens'
    BY <1>10 DEF Repost, LinkInv, TypeOK, InStep, ThreadOpens
  <2>2. ShownInOrder'
    BY <1>10, ListUntouched DEF Repost, Running
  <2> QED BY <1>3, <1>10, <2>1, <2>2 DEF Repost, Running
<1>11. CASE ReadError
  <2>1. TypeOK' /\ InStep' /\ ThreadOpens'
    BY <1>2, <1>11 DEF ReadError, CloseAndStop, LinkInv, TypeOK, InStep, ThreadOpens
  <2>2. ShownInOrder'
    BY <1>11, ListUntouched DEF ReadError, CloseAndStop, Polling, Running
  <2> QED BY <1>3, <1>11, <2>1, <2>2 DEF ReadError, CloseAndStop, Running
<1>12. CASE RunPosted
  BY <1>12, RunPostedLemma
<1>13. CASE Transfer
  <2>1. q' \in WriteQueue(DOMAIN Texts)
    BY <1>1, <1>13, QueueLemma DEF Transfer
  <2>2. TypeOK'
    BY <1>13, <2>1 DEF Transfer, LinkInv, TypeOK
  <2> QED BY <1>4, <1>13, <2>2 DEF Transfer, Running
<1>14. CASE Resume
  <2>1. q' \in WriteQueue(DOMAIN Texts)
    BY <1>1, <1>14, QueueLemma DEF Resume
  <2>2. TypeOK'
    BY <1>14, <2>1 DEF Resume, LinkInv, TypeOK
  <2> QED BY <1>4, <1>14, <2>2 DEF Resume, Running
<1>15. CASE WriteError
  <2>1. q' \in WriteQueue(DOMAIN Texts)
    BY <1>1, <1>15, QueueLemma DEF WriteError
  <2>2. TypeOK'
    BY <1>15, <2>1 DEF WriteError, LinkInv, TypeOK
  <2> QED BY <1>4, <1>15, <2>2 DEF WriteError, Running
<1>16. CASE ThreadEnds
  <2>1. TypeOK' /\ InStep' /\ ThreadOpens'
    BY <1>16 DEF ThreadEnds, LinkInv, TypeOK, InStep, ThreadOpens
  <2>2. ShownInOrder'
    BY <1>16, ListUntouched DEF ThreadEnds, Running
  <2> QED BY <1>3, <1>16, <2>1, <2>2 DEF ThreadEnds, Running
<1>17. CASE LogIn \/ Type \/ EnterChat \/ Leave
  <2>1. TypeOK'
    BY <1>17 DEF LogIn, Type, EnterChat, Leave, LinkInv, TypeOK
  <2> QED BY <1>4, <1>17, <2>1 DEF LogIn, Type, EnterChat, Leave, Running
<1>18. CASE Say
  BY <1>18, SayLemma
<1>19. CASE Escape
  <2>1. TypeOK'
    BY <1>2, <1>19 DEF Escape, LinkInv, TypeOK
  <2>2. InStep' /\ ThreadOpens'
    BY <1>19 DEF Escape, shutdown_throws, LinkInv, TypeOK, InStep, ThreadOpens
  <2>3. ShownInOrder'
    BY <1>19, ListUntouched DEF Escape, Running
  <2> QED BY <1>3, <1>19, <2>1, <2>2, <2>3 DEF Escape, Running
<1>20. CASE Exit
  <2>1. TypeOK'
    BY <1>20 DEF Exit, LinkInv, TypeOK
  <2> QED BY <1>4, <1>20, <2>1 DEF Exit, Running
<1>21. CASE Arrive \/ ServerLeaves
  <2>1. arrived' \in 0..2 * Len(Heard) /\ taken' \in 0..arrived'
    <3>1. Len(Heard) \in Nat
      BY ClientLinkAssumption, LenProperties DEF ClientLinkAssumption
    <3> QED BY <1>21, <3>1 DEF Arrive, ServerLeaves, LinkInv, TypeOK
  <2>2. TypeOK'
    BY <1>21, <2>1 DEF Arrive, ServerLeaves, LinkInv, TypeOK
  <2> QED BY <1>4, <1>21, <2>2 DEF Arrive, ServerLeaves, Running
<1>22. CASE UNCHANGED vars
  <2>1. TypeOK'
    BY <1>22 DEF LinkInv, TypeOK
  <2> QED BY <1>4, <1>22, <2>1 DEF Running
<1> QED
  BY <1>5, <1>6, <1>7, <1>8, <1>9, <1>10, <1>11, <1>12, <1>13, <1>14, <1>15, <1>16, <1>17,
     <1>18, <1>19, <1>20, <1>21, <1>22 DEF Next, IoThread, UIThread

LEMMA LinkInvariant == Spec => []LinkInv
<1>1. Init => LinkInv
  BY InitLink
<1>2. LinkInv /\ [Next]_vars => LinkInv'
  BY StepLink
<1> QED BY <1>1, <1>2, PTL DEF Spec

-----------------------------------------------------------------------------
(* The theorems.                                                            *)

\* The connection thread and the UI thread keep every part of the client's state
\* in its type.
THEOREM Typed == Spec => []TypeOK
BY LinkInvariant, PTL DEF LinkInv

\* Whatever the user does meanwhile, the list shows every frame that was read, once
\* and in the order in which it was read.
THEOREM Shows == Spec => []ShownInOrder
BY LinkInvariant, PTL DEF LinkInv

\* What the user says is written in the order in which it was said, without a gap.
THEOREM WritesOrdered == Spec => []WrittenInOrder
BY LinkInvariant, PTL DEF LinkInv

\* All of it together, for any conversation and whatever the user does meanwhile.
THEOREM Orders == Spec => []OrderKept
BY Typed, Shows, WritesOrdered, PTL DEF OrderKept

-----------------------------------------------------------------------------
(* What is on the wire.                                                     *)

WireInv == WritesInv(q, written, Lens, Alive)

\* A sequence is one over a larger set too.
LEMMA SeqWider ==
  ASSUME NEW S, NEW T, S \subseteq T, NEW s \in Seq(S)
  PROVE  s \in Seq(T)
<1>1. Len(s) \in Nat /\ s \in [1..Len(s) -> T]
  OBVIOUS
<1> QED BY <1>1

LEMMA QueueWider ==
  ASSUME LinkInv PROVE q \in WriteQueue(Nat) /\ written \in Seq(Nat) /\ DOMAIN Texts \subseteq Nat
<1>1. DOMAIN Texts \subseteq Nat
  BY ClientLinkAssumption DEF ClientLinkAssumption
<1>2. Op(DOMAIN Texts) \subseteq Op(Nat)
  BY <1>1 DEF Op
<1> DEFINE A == (DOMAIN Texts) \X Nat
           B == Nat \X Nat
<1>3. A \subseteq B
  BY <1>1
<1>a. q \in WriteQueue(DOMAIN Texts)
  BY DEF LinkInv, TypeOK
<1>b. /\ q.ready \in Seq(Op(DOMAIN Texts)) /\ q.resume \in Seq(Op(DOMAIN Texts))
      /\ q.wire \in Seq(A) /\ q.overlapped \in BOOLEAN
  BY <1>a, QueueParts
<1>c. q = [ready |-> q.ready, resume |-> q.resume, wire |-> q.wire, overlapped |-> q.overlapped]
  BY <1>a DEF WriteQueue
<1>4. /\ q.ready \in Seq(Op(DOMAIN Texts)) /\ q.resume \in Seq(Op(DOMAIN Texts))
      /\ q.wire \in Seq(A) /\ q.overlapped \in BOOLEAN
      /\ q = [ready |-> q.ready, resume |-> q.resume, wire |-> q.wire, overlapped |-> q.overlapped]
  BY <1>b, <1>c
<1> HIDE DEF A, B
<1>5. q.ready \in Seq(Op(Nat)) /\ q.resume \in Seq(Op(Nat))
  BY <1>2, <1>4, SeqWider
<1>6. q.wire \in Seq(B)
  BY <1>3, <1>4, SeqWider DEF A, B
<1>7. written \in Seq(Nat)
  BY <1>1, SeqWider DEF LinkInv, TypeOK
<1> QED BY <1>1, <1>4, <1>5, <1>6, <1>7 DEF WriteQueue, B

\* Nothing was written yet.
LEMMA InitWire == Init => WireInv
<1> SUFFICES ASSUME Init PROVE WireInv
  OBVIOUS
<1>1. q = NoWrites /\ written = <<>> /\ Alive \in BOOLEAN
  BY DEF Init, Alive
<1> QED BY <1>1, InitInv DEF WireInv

\* client::write starts a write for the next message.
LEMMA RunPostedWire ==
  ASSUME LinkInv, WireInv, RunPosted PROVE WireInv'
<1> DEFINE n == Head(posted)
           l == Texts[n] + 1
<1>1. posted # <<>> /\ posted \in Seq(DOMAIN Texts)
  BY DEF LinkInv, TypeOK, RunPosted
<1>2. n \in DOMAIN Texts /\ n = posted[1] /\ 1 \in DOMAIN posted
  BY <1>1, TailLemma
<1>3. Alive' = Alive /\ Alive \in BOOLEAN
  BY DEF RunPosted, Alive
<1>4. q \in WriteQueue(Nat) /\ written \in Seq(Nat) /\ n \in Nat
  BY <1>2, QueueWider
<1>5. l = Lens[n] /\ l \in Nat /\ l > 0
  <2>1. Texts[n] \in Nat \ {0}
    BY <1>2, ClientLinkAssumption, ElementOfSeq DEF ClientLinkAssumption
  <2>2. Lens[n] = l
    BY <1>2 DEF Lens
  <2> QED BY <2>1, <2>2
<1>6. CASE UNCHANGED <<q, written>>
  BY <1>3, <1>6 DEF WireInv
<1>7. CASE q' = StartWrite(q, n, l) /\ written' = Append(written, n) /\ is_open
  <2>1. n = Len(written) + 1
    <3>1. \A i \in DOMAIN posted : posted[i] = Len(written) + i
      BY <1>7 DEF LinkInv, PostsFollow, RunPosted, Polling, is_open
    <3> QED BY <1>2, <3>1
  <2>2. \A g \in ToSet(written) : g < n
    <3> SUFFICES ASSUME NEW i \in DOMAIN written PROVE written[i] < n
      BY DEF ToSet
    <3>1. written[i] = i
      BY DEF LinkInv, WrittenInOrder
    <3>2. i \in 1..Len(written) /\ Len(written) \in Nat
      BY <1>4
    <3> HIDE DEF n
    <3> QED BY <2>1, <3>1, <3>2
  <2>3. WritesInv(q, written, Lens, Alive)
    BY DEF WireInv
  <2> HIDE DEF n, l
  <2>4. WritesInv(StartWrite(q, n, l), Append(written, n), Lens, Alive)
    BY <1>3, <1>4, <1>5, <2>2, <2>3, StartInv
  <2> QED BY <1>3, <1>7, <2>4 DEF WireInv
<1>8. \/ UNCHANGED <<q, written>>
      \/ q' = StartWrite(q, n, l) /\ written' = Append(written, n) /\ is_open
  BY DEF RunPosted
<1> QED BY <1>6, <1>7, <1>8

\* A step that starts and transfers nothing.
LEMMA QuietWire ==
  ASSUME LinkInv, WireInv, UNCHANGED written, q' = q \/ (q' = AbortWrites(q) /\ ~Alive'),
         Alive' => Alive
  PROVE  WireInv'
<1>1. q \in WriteQueue(Nat) /\ Alive \in BOOLEAN /\ Alive' \in BOOLEAN
  BY QueueWider DEF Alive
<1>2. WritesInv(q, written, Lens, Alive)
  BY DEF WireInv
<1>3. WritesInv(q, written, Lens, FALSE) /\ WritesInv(AbortWrites(q), written, Lens, FALSE)
  BY <1>1, <1>2, DeadInv
<1>4. Alive' = FALSE \/ (Alive' = Alive /\ q' = q)
  BY <1>1
<1>5. CASE Alive' = FALSE
  BY <1>3, <1>5 DEF WireInv
<1>6. CASE Alive' = Alive /\ q' = q
  BY <1>2, <1>6 DEF WireInv
<1> QED BY <1>4, <1>5, <1>6

\* Every step keeps the wire as it should be.
LEMMA StepWire == LinkInv /\ WireInv /\ [Next]_vars => WireInv'
<1> SUFFICES ASSUME LinkInv, WireInv, [Next]_vars PROVE WireInv'
  OBVIOUS
<1> USE DEF vars, reading, writing, user
<1>1. /\ q \in WriteQueue(Nat) /\ written \in Seq(Nat)
      /\ Alive \in BOOLEAN /\ Alive' \in BOOLEAN /\ MaxTransfer \in Nat
      /\ WritesInv(q, written, Lens, Alive)
  BY QueueWider, ClientLinkAssumption DEF Alive, WireInv, ClientLinkAssumption
<1>2. CASE RunPosted
  BY <1>2, RunPostedWire
<1>3. CASE Transfer
  <2>1. PICK k \in Transfers(q, MaxTransfer) : q' = TransferSome(q, k)
    BY <1>3 DEF Transfer
  <2>2. Alive = TRUE /\ Alive' = TRUE /\ written' = written
    BY <1>3 DEF Transfer, Alive
  <2>3. WritesInv(q, written, Lens, TRUE)
    BY <1>1, <2>2
  <2>4. WritesInv(TransferSome(q, k), written, Lens, TRUE)
    BY <1>1, <2>3, TransferInv
  <2> QED BY <2>1, <2>2, <2>4 DEF WireInv
<1>4. CASE Resume
  <2>1. Alive' = Alive /\ written' = written /\ q.resume # <<>>
    BY <1>4 DEF Resume, Alive
  <2>2. CASE is_open
    BY <1>1, <1>4, <2>1, <2>2, ResumeInv DEF Resume, WireInv
  <2>3. CASE ~is_open
    <3>1. Alive = FALSE
      BY <1>4, <2>3 DEF Resume, Polling, LinkInv, TypeOK, ThreadOpens, is_open, Alive
    <3> QED BY <1>1, <1>4, <2>1, <2>3, <3>1, DeadInv DEF Resume, WireInv
  <2> QED BY <2>2, <2>3
<1>5. CASE WriteError
  <2>1. Alive' = FALSE /\ written' = written /\ q.ready # <<>> /\ q' = FailWrite(q)
    BY <1>5 DEF WriteError, Alive
  <2> QED BY <1>1, <2>1, DeadInv DEF WireInv
<1>6. CASE Start \/ Connected \/ ConnectFails
  BY <1>6, QuietWire DEF Start, Connected, ConnectFails, Polling, LinkInv, ThreadOpens, Alive
<1>7. CASE ReadHeader \/ ReadError \/ Escape
  BY <1>7, QuietWire DEF ReadHeader, ReadError, Escape, CloseAndStop, Alive
<1>8. CASE ReadBody \/ Handle \/ Repost \/ ThreadEnds
  BY <1>8, QuietWire DEF ReadBody, Handle, Repost, ThreadEnds, Alive
<1>9. CASE LogIn \/ Type \/ EnterChat \/ Say \/ Leave \/ Exit
  BY <1>9, QuietWire DEF LogIn, Type, EnterChat, Say, Leave, Exit, Alive
<1>10. CASE Arrive \/ ServerLeaves \/ UNCHANGED vars
  BY <1>10, QuietWire DEF Arrive, ServerLeaves, Alive
<1> QED
  BY <1>2, <1>3, <1>4, <1>5, <1>6, <1>7, <1>8, <1>9, <1>10 DEF Next, IoThread, UIThread

\* What reaches the server is the user's messages, each whole and in the order said, as
\* long as no two writes overlap; if they do, each byte all the same once and in the
\* order of its message, whatever the sizes of the transfers.
THEOREM WiresMessages == Spec => []WireIsMessages
<1>1. Init => WireInv
  BY InitWire
<1>2. LinkInv /\ WireInv /\ [Next]_vars => WireInv'
  BY StepWire
<1>3. WireInv => WireIsMessages
  BY DEF WireInv, WritesInv, OneAtATime, WireIsMessages
<1> QED BY <1>1, <1>2, <1>3, LinkInvariant, PTL DEF Spec

-----------------------------------------------------------------------------
(* Refinement.                                                              *)

\* ChatClient brings its own copy of FiniteSets.
LEMMA SameCardinality ==
  ASSUME NEW S PROVE Client!Cardinality(S) = Cardinality(S)
BY DEF Cardinality, Client!Cardinality

LEMMA SameCounts ==
  /\ Client!Said(messages) = Cardinality(Own)
  /\ Client!HeardCount(messages) = Cardinality(HeardItems)
BY SameCardinality DEF Client!Said, Client!HeardCount, Own, HeardItems

\* Handle appends the next item heard, or ends the process.
LEMMA HandleHears ==
  ASSUME LinkInv, Handle PROVE Client!Hear \/ UNCHANGED Client!vars
<1>1. PICK kind \in Decrypted(Heard[Frame]) :
        IF kind = "abort"
        THEN process' = "aborted" /\ UNCHANGED <<messages, rd>>
        ELSE messages' = Append(messages, <<kind, Frame>>) /\ rd' = AfterBody /\ UNCHANGED process
  BY DEF Handle, Shown
<1>2. kind \in {"abort", "error", "text"}
  BY <1>1 DEF Decrypted
<1>3. Cardinality(HeardItems) = Frame - 1 /\ Frame \in Int
  BY DEF LinkInv, TypeOK, ShownInOrder, Handle, Frame
<1>4. UNCHANGED written
  BY DEF Handle, writing
<1> QED BY <1>1, <1>2, <1>3, <1>4, SameCounts DEF Client!Hear, Client!vars

\* A post that is written is the next message the user said.
LEMMA PostedSends ==
  ASSUME LinkInv, RunPosted PROVE Client!Send \/ UNCHANGED Client!vars
<1>1. CASE UNCHANGED written
  BY <1>1 DEF RunPosted, Client!vars
<1>2. ASSUME written' # written PROVE Client!Send
  <2>1. written' = Append(written, Head(posted)) /\ is_open /\ UNCHANGED messages
    BY <1>2 DEF RunPosted, writing
  <2>2. /\ Cardinality(Own) = Len(written) + Len(posted)
        /\ \A i \in DOMAIN posted : posted[i] = Len(written) + i
    BY <2>1 DEF LinkInv, PostsFollow, RunPosted, Polling, is_open
  <2>3. posted # <<>> /\ posted \in Seq(DOMAIN Texts) /\ written \in Seq(DOMAIN Texts)
    BY DEF LinkInv, TypeOK, RunPosted
  <2>4. /\ Head(posted) = posted[1] /\ 1 \in DOMAIN posted
        /\ Len(posted) \in Nat /\ Len(posted) > 0 /\ Len(written) \in Nat
    BY <2>3
  <2> QED BY <2>1, <2>2, <2>4, SameCounts DEF Client!Send
<1> QED BY <1>1, <1>2

LEMMA RefinesInit == Init => Client!Init
BY DEF Init, Client!Init

LEMMA RefinesStep == LinkInv /\ [Next]_vars => [Client!Next]_(Client!vars)
<1> SUFFICES ASSUME LinkInv, [Next]_vars PROVE [Client!Next]_(Client!vars)
  OBVIOUS
<1> USE DEF vars, reading, writing, user
<1>1. CASE Handle
  BY <1>1, HandleHears DEF Client!Next
<1>2. CASE RunPosted
  BY <1>2, PostedSends DEF Client!Next
<1>3. CASE Say
  BY <1>3, SameCounts DEF Say, Client!Next, Client!Say
<1>4. ASSUME [Next]_vars, ~Handle, ~RunPosted, ~Say PROVE UNCHANGED <<messages, written>>
  BY <1>4 DEF Next, IoThread, UIThread, Start, Connected, ConnectFails, ReadHeader, ReadBody,
              Repost, ReadError, Transfer, Resume, WriteError, ThreadEnds, LogIn, Type,
              EnterChat, Escape, Leave, Exit, Arrive, ServerLeaves
<1> QED BY <1>1, <1>2, <1>3, <1>4 DEF Client!vars

\* The two threads, the socket and the loop together do what ChatClient says: the
\* list grows by what is heard and what is said, and what is said is sent in order.
THEOREM Implements == Spec => ImplementsClient
BY LinkInvariant, RefinesInit, RefinesStep, PTL DEF Spec, ImplementsClient, Client!Spec
=============================================================================
