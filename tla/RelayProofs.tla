---------------------------- MODULE RelayProofs ----------------------------
(***************************************************************************)
(* Theorems about Relay, for any set of connections, any scripts and any   *)
(* limits.                                                                 *)
(***************************************************************************)
EXTENDS Relay, DataProofs

-----------------------------------------------------------------------------
(* The inductive invariant.                                                 *)

\* Before anybody connects: an empty registry, no socket and no read chain.
LEMMA InitIInv == Init => IInv
<1> SUFFICES ASSUME Init PROVE IInv
  OBVIOUS
<1>1. TypeOK
  <2>1. NoWrites \in WriteQueue(Nat)
    BY EmptySeq DEF NoWrites, WriteQueue
  <2>2. \A c \in Conn : /\ sent[c] \in Seq(Nat)
                        /\ Len(sent[c]) = Len(Script[c])
    <3>1. SUFFICES ASSUME NEW c \in Conn, NEW n \in Nat, n = Len(Script[c])
                   PROVE  /\ [k \in 1..n |-> 0] \in Seq(Nat)
                          /\ Len([k \in 1..n |-> 0]) = n
      BY RelayAssumption DEF Init, RelayAssumption
    <3>2. QED
      OBVIOUS
  <2>3. sent \in [Conn -> Seq(Nat)]
    BY <2>2 DEF Init
  <2>4. /\ up \in [Conn -> Seq(Cell)]
        /\ started \in [Conn -> Seq(Nat)]
        /\ sockets \in Seq(Conn)
        /\ relayed \in Seq([from: Conn, data: Payload])
    BY EmptySeq DEF Init
  <2>5. /\ conn \in [Conn -> {"none", "backlog", "open", "destroyed"}]
        /\ peer \in [Conn -> {"up", "gone", "reset"}]
        /\ acc \in {"posted", "pending", "failed"}
        /\ rd \in [Conn -> Reading \cup {"idle", "done"}]
        /\ crashed \in BOOLEAN
    BY DEF Init
  <2>6. /\ need \in [Conn -> 0..MaxMsg]
        /\ joined \in [Conn -> Nat \cup {-1}]
        /\ left \in [Conn -> Nat \cup {-1}]
        /\ q \in [Conn -> WriteQueue(Nat)]
    BY <2>1, RelayAssumption DEF Init, RelayAssumption
  <2>7. QED
    BY <2>2, <2>3, <2>4, <2>5, <2>6 DEF TypeOK
<1>2. RegistryConsistent
  BY DEF Init, RegistryConsistent, IsInjective, ToSet, Reading
<1>3. BodyHasSize /\ NotYetJoined
  BY DEF Init, BodyHasSize, NotYetJoined
<1>4. QED
  BY <1>1, <1>2, <1>3 DEF IInv

\* Dropping a connection keeps registry, socket and read chain in agreement:
\* the four find/erase paths of read_loop.
LEMMA DropLemma ==
  ASSUME IInv, NEW c \in Conn, conn[c] = "open", Drop(c)
  PROVE  IInv'
<1>1. c \in ToSet(sockets)
  BY DEF IInv, RegistryConsistent
<1>2. /\ sockets' \in Seq(Conn)
      /\ IsInjective(sockets')
      /\ ToSet(sockets') = ToSet(sockets) \ {c}
  BY <1>1, RemoveFirstLemma DEF IInv, TypeOK, RegistryConsistent, Drop, Erase
<1>3. TypeOK'
  <2>1. AbortWrites(q[c]) \in WriteQueue(Nat)
    BY QueueLemma DEF IInv, TypeOK
  <2>2. Len(relayed) \in Nat
    BY DEF IInv, TypeOK
  <2>3. QED
    BY <1>2, <2>1, <2>2 DEF IInv, TypeOK, Drop, net
<1>4. RegistryConsistent'
  BY <1>2 DEF IInv, RegistryConsistent, TypeOK, Drop, Reading
<1>5. BodyHasSize' /\ NotYetJoined'
  BY DEF IInv, TypeOK, BodyHasSize, NotYetJoined, Drop
<1>6. QED
  BY <1>3, <1>4, <1>5 DEF IInv

\* A new connection enters registry and read chain at once.
LEMMA AcceptLemma ==
  ASSUME IInv, NEW c \in Conn, Accept(c)
  PROVE  IInv'
<1>1. c \notin ToSet(sockets)
  BY DEF IInv, RegistryConsistent, Accept
<1>2. /\ sockets' \in Seq(Conn)
      /\ IsInjective(sockets')
      /\ ToSet(sockets') = ToSet(sockets) \cup {c}
  <2>1. /\ sockets' \in Seq(Conn)
        /\ Len(sockets') = Len(sockets) + 1
        /\ \A i \in 1..Len(sockets) : sockets'[i] = sockets[i]
        /\ sockets'[Len(sockets) + 1] = c
    BY AppendProperties DEF IInv, TypeOK, Accept
  <2>2. Len(sockets) \in Nat /\ DOMAIN sockets = 1..Len(sockets)
    BY DEF IInv, TypeOK
  <2>3. DOMAIN sockets' = 1..Len(sockets) + 1
    BY <2>1, <2>2
  <2>4. QED
    BY <1>1, <2>1, <2>2, <2>3 DEF IInv, RegistryConsistent, IsInjective, ToSet
<1>3. TypeOK'
  <2>1. Len(relayed) \in Nat
    BY DEF IInv, TypeOK
  <2>2. QED
    BY <1>2, <2>1 DEF IInv, TypeOK, Accept, Accepted, net, Reading
<1>4. RegistryConsistent'
  BY <1>2 DEF IInv, RegistryConsistent, TypeOK, Accept, Reading
<1>5. BodyHasSize' /\ NotYetJoined'
  BY DEF IInv, TypeOK, BodyHasSize, NotYetJoined, Accept
<1>6. QED
  BY <1>3, <1>4, <1>5 DEF IInv

\* The announced size is the size of the frame or, out of step, any legal one.
LEMMA ReadHeaderLemma ==
  ASSUME IInv, NEW c \in Conn, NEW n \in Decoded(c), ReadHeader(c, n)
  PROVE  IInv'
<1>1. up[c] # <<>> /\ Head(up[c]) \in Cell /\ Tail(up[c]) \in Seq(Cell)
  BY HeadTailProperties DEF IInv, TypeOK, Decoded
<1>2. n \in Nat
  <2> DEFINE cell == Head(up[c])
  <2>1. Script[cell[1]][cell[2]] \in Nat
    <3>1. cell[1] \in Conn /\ cell[2] \in 1..Len(Script[cell[1]])
      BY <1>1 DEF Cell
    <3>2. Script[cell[1]] \in Seq(Nat)
      BY <3>1, RelayAssumption DEF RelayAssumption
    <3> HIDE DEF cell
    <3>3. QED
      BY <3>1, <3>2, ElementOfSeq
  <2>2. QED
    BY <1>1, <2>1, RelayAssumption DEF Decoded, RelayAssumption
<1>3. n \in 1..MaxMsg
  BY <1>2, RelayAssumption DEF ReadHeader, ValidSize, RelayAssumption
<1>4. TypeOK'
  BY <1>1, <1>3, RelayAssumption DEF IInv, TypeOK, ReadHeader, net, history, Reading, RelayAssumption
<1>5. RegistryConsistent'
  BY DEF IInv, RegistryConsistent, TypeOK, ReadHeader, Reading
<1>6. BodyHasSize' /\ NotYetJoined'
  BY <1>3 DEF IInv, TypeOK, BodyHasSize, NotYetJoined, ReadHeader, history
<1>7. QED
  BY <1>4, <1>5, <1>6 DEF IInv

\* What a body read hands to the broadcast is a legal payload.
LEMMA BodyLemma ==
  ASSUME IInv, NEW c \in Conn, ReadBody(c)
  PROVE  /\ SubSeq(up[c], 1, need[c]) \in Payload
         /\ Len(relayed) + 1 \in Nat
         /\ need[c] + 1 \in Nat
<1>1. /\ need[c] \in 1..MaxMsg
      /\ up[c] \in Seq(Cell)
      /\ need[c] <= Len(up[c])
  BY RelayAssumption DEF IInv, TypeOK, BodyHasSize, ReadBody, RelayAssumption
<1>2. \A i \in 1..need[c] : up[c][i] \in Cell
  BY <1>1
<1>3. /\ SubSeq(up[c], 1, need[c]) \in Seq(Cell)
      /\ Len(SubSeq(up[c], 1, need[c])) = need[c]
  BY <1>1, <1>2, SubSeqProperties
<1>4. QED
  BY <1>1, <1>3, RelayAssumption DEF Payload, IInv, TypeOK, RelayAssumption

\* Broadcasting a frame starts well-typed writes and leaves registry, sockets
\* and read chains in agreement (server_config.cpp:61-80, 95-106).
LEMMA ReadBodyLemma ==
  ASSUME IInv, NEW c \in Conn, ReadBody(c)
  PROVE  IInv'
<1> DEFINE f == Len(relayed) + 1
           data == SubSeq(up[c], 1, need[c])
<1>1. relayed' \in Seq([from: Conn, data: Payload])
  <2>1. [from |-> c, data |-> data] \in [from: Conn, data: Payload]
    BY BodyLemma
  <2>2. QED
    BY <2>1, AppendProperties DEF IInv, TypeOK, ReadBody
<1>2. up' \in [Conn -> Seq(Cell)]
  <2>1. \A i \in need[c] + 1..Len(up[c]) : up[c][i] \in Cell
    BY RelayAssumption DEF IInv, TypeOK, RelayAssumption
  <2>2. need[c] + 1 \in Int /\ Len(up[c]) \in Int
    BY RelayAssumption DEF IInv, TypeOK, RelayAssumption
  <2>3. SubSeq(up[c], need[c] + 1, Len(up[c])) \in Seq(Cell)
    BY <2>1, <2>2, SubSeqProperties
  <2>4. QED
    BY <2>3 DEF IInv, TypeOK, ReadBody
<1>3. q' \in [Conn -> WriteQueue(Nat)]
  <2>1. \A d \in Conn : StartWrite(q[d], f, need[c] + 1) \in WriteQueue(Nat)
    BY BodyLemma, QueueLemma DEF IInv, TypeOK
  <2>2. QED
    BY <2>1 DEF IInv, TypeOK, ReadBody
<1>4. started' \in [Conn -> Seq(Nat)]
  <2>1. \A d \in Conn : Append(started[d], f) \in Seq(Nat)
    BY BodyLemma, AppendProperties DEF IInv, TypeOK
  <2>2. QED
    BY <2>1 DEF IInv, TypeOK, ReadBody
<1>5. TypeOK'
  BY <1>1, <1>2, <1>3, <1>4 DEF IInv, TypeOK, ReadBody, AfterBody, net, Reading
<1>6. RegistryConsistent'
  BY DEF IInv, RegistryConsistent, TypeOK, ReadBody, AfterBody, Reading
<1>7. BodyHasSize' /\ NotYetJoined'
  BY DEF IInv, TypeOK, BodyHasSize, NotYetJoined, ReadBody, AfterBody
<1>8. QED
  BY <1>5, <1>6, <1>7 DEF IInv

\* Only the cells under way and the count of what was sent change.
LEMMA SendCellLemma ==
  ASSUME IInv, NEW c \in Conn, NEW k \in 1..Len(Script[c]), SendCell(c, k)
  PROVE  IInv'
<1>1. sent[c] \in Seq(Nat) /\ k \in 1..Len(sent[c]) /\ sent[c][k] \in Nat
  BY DEF IInv, TypeOK
<1>2. Append(up[c], <<c, k, sent[c][k]>>) \in Seq(Cell)
  <2>1. <<c, k, sent[c][k]>> \in Cell
    BY <1>1 DEF Cell
  <2>2. QED
    BY <2>1, AppendProperties DEF IInv, TypeOK
<1>3. /\ [sent[c] EXCEPT ![k] = @ + 1] \in Seq(Nat)
      /\ Len([sent[c] EXCEPT ![k] = @ + 1]) = Len(sent[c])
  BY <1>1, ExceptSeq
<1>4. sent' = [sent EXCEPT ![c] = [sent[c] EXCEPT ![k] = @ + 1]]
  BY DEF SendCell
<1>5. TypeOK'
  <2>1. sent' \in [Conn -> Seq(Nat)] /\ \A d \in Conn : Len(sent'[d]) = Len(Script[d])
    BY <1>3, <1>4 DEF IInv, TypeOK
  <2>2. up' \in [Conn -> Seq(Cell)]
    BY <1>2 DEF IInv, TypeOK, SendCell
  <2>3. QED
    BY <2>1, <2>2 DEF IInv, TypeOK, SendCell, history
<1>6. QED
  BY <1>5 DEF IInv, SendCell, RegistryConsistent, BodyHasSize, NotYetJoined, history

\* A step on the writes of one connection changes nothing else.
LEMMA WriteLemma ==
  ASSUME IInv, NEW c \in Conn, NEW w \in WriteQueue(Nat),
         q' = [q EXCEPT ![c] = w],
         crashed' \in BOOLEAN,
         UNCHANGED <<conn, net, up, acc, sockets, rd, need, history>>
  PROVE  IInv'
<1>1. TypeOK'
  BY DEF IInv, TypeOK, net, history
<1>2. QED
  BY <1>1 DEF IInv, RegistryConsistent, BodyHasSize, NotYetJoined, history

\* The invariant is inductive: no handler, client or network step breaks it.
THEOREM StepIInv == IInv /\ [Next]_vars => IInv'
<1> SUFFICES ASSUME IInv, [Next]_vars PROVE IInv'
  OBVIOUS
<1> USE DEF IInv
<1>1. CASE AcceptFail
  BY <1>1 DEF AcceptFail, TypeOK, RegistryConsistent, BodyHasSize, NotYetJoined, net, history
<1>2. CASE ReArm
  BY <1>2 DEF ReArm, TypeOK, RegistryConsistent, BodyHasSize, NotYetJoined, net, history
<1>3. ASSUME NEW c \in Conn, Accept(c) PROVE IInv'
  BY <1>3, AcceptLemma
<1>4. ASSUME NEW c \in Conn, Reader(c) PROVE IInv'
  <2>1. ASSUME NEW n \in Decoded(c), ReadHeader(c, n) PROVE IInv'
    BY <2>1, ReadHeaderLemma
  <2>2. ASSUME NEW n \in Decoded(c), RefuseHeader(c, n) PROVE IInv'
    <3>1. conn[c] = "open" /\ Drop(c)
      BY <2>2 DEF RefuseHeader, RegistryConsistent, Reading
    <3>2. QED
      BY <3>1, DropLemma
  <2>3. CASE ReadBody(c)
    BY <2>3, ReadBodyLemma
  <2>4. CASE Repost(c)
    <3>1. TypeOK'
      BY <2>4 DEF Repost, TypeOK, net, history, Reading
    <3>2. RegistryConsistent' /\ BodyHasSize' /\ NotYetJoined'
      BY <2>4 DEF Repost, TypeOK, RegistryConsistent, BodyHasSize, NotYetJoined, history, Reading
    <3>3. QED
      BY <3>1, <3>2
  <2>5. CASE ReadError(c)
    <3>1. conn[c] = "open" /\ Drop(c)
      BY <2>5 DEF ReadError, RegistryConsistent, Reading
    <3>2. QED
      BY <3>1, DropLemma
  <2>6. QED
    BY <1>4, <2>1, <2>2, <2>3, <2>4, <2>5 DEF Reader
<1>5. ASSUME NEW c \in Conn, Writer(c) PROVE IInv'
  <2>1. q[c] \in WriteQueue(Nat)
    BY DEF TypeOK
  <2>2. ASSUME NEW k \in 1..MaxTransfer, Transfer(c, k) PROVE IInv'
    <3>1. TransferSome(q[c], k) \in WriteQueue(Nat)
      BY <2>1, <2>2, QueueLemma, RelayAssumption DEF Transfer, RelayAssumption
    <3>2. QED
      BY <2>2, <3>1, WriteLemma DEF Transfer, TypeOK
  <2>3. CASE Resume(c)
    <3>1. ResumeWrite(q[c]) \in WriteQueue(Nat)
      BY <2>1, <2>3, QueueLemma DEF Resume
    <3>2. QED
      BY <2>3, <3>1, WriteLemma DEF Resume, TypeOK
  <2>4. CASE WriteError(c)
    <3>1. FailWrite(q[c]) \in WriteQueue(Nat)
      BY <2>1, <2>4, QueueLemma DEF WriteError
    <3>2. QED
      BY <2>4, <3>1, WriteLemma DEF WriteError, TypeOK
  <2>5. CASE ResumeFreed(c)
    <3>1. DropResumed(q[c]) \in WriteQueue(Nat)
      BY <2>1, <2>5, QueueLemma DEF ResumeFreed
    <3>2. QED
      BY <2>5, <3>1, WriteLemma DEF ResumeFreed, TypeOK
  <2>6. QED
    BY <1>5, <2>2, <2>3, <2>4, <2>5 DEF Writer
<1>6. ASSUME NEW c \in Conn, Client(c) PROVE IInv'
  <2>1. CASE Connect(c)
    <3>1. TypeOK'
      BY <2>1 DEF Connect, TypeOK, net, history
    <3>2. RegistryConsistent' /\ BodyHasSize' /\ NotYetJoined'
      BY <2>1 DEF Connect, TypeOK, RegistryConsistent, BodyHasSize, NotYetJoined, history
    <3>3. QED
      BY <3>1, <3>2
  <2>2. ASSUME NEW k \in 1..Len(Script[c]), SendCell(c, k) PROVE IInv'
    BY <2>2, SendCellLemma
  <2>3. ASSUME NEW how \in {"gone", "reset"}, HangUp(c, how) PROVE IInv'
    <3>1. TypeOK'
      BY <2>3 DEF HangUp, TypeOK, history
    <3>2. RegistryConsistent' /\ BodyHasSize' /\ NotYetJoined'
      BY <2>3 DEF HangUp, RegistryConsistent, BodyHasSize, NotYetJoined, history
    <3>3. QED
      BY <3>1, <3>2
  <2>4. QED
    BY <1>6, <2>1, <2>2, <2>3 DEF Client
<1>7. CASE UNCHANGED vars
  BY <1>7 DEF vars, TypeOK, RegistryConsistent, BodyHasSize, NotYetJoined, net, history
<1>8. QED
  BY <1>1, <1>2, <1>3, <1>4, <1>5, <1>6, <1>7 DEF Next

\* The invariant holds of every state the relay can reach.
THEOREM Invariance == Spec => []IInv
BY InitIInv, StepIInv, PTL DEF Spec

\* Every variable keeps its type; in particular no frame of illegal size is ever
\* broadcast (server_config.cpp:51-59).
THEOREM TypeCorrect == Spec => []TypeOK
<1>1. IInv => TypeOK
  BY DEF IInv
<1>2. QED
  BY Invariance, <1>1, PTL

\* Registry, sockets and read chains agree after every handler, for any number
\* of connections and any order of the completions.
THEOREM Consistent == Spec => []RegistryConsistent
<1>1. IInv => RegistryConsistent
  BY DEF IInv
<1>2. QED
  BY Invariance, <1>1, PTL

-----------------------------------------------------------------------------
(* What is on the wires.                                                    *)

\* Why the wires are sound: every broadcast a write was started for is in the log,
\* every socket keeps its own invariant, and only a half-written frame kills.
WiresInv ==
  /\ \A c \in Conn : ToSet(started[c]) \subseteq DOMAIN relayed
  /\ \A c \in Conn : WritesInv(q[c], started[c], FrameLens, Alive(c))
  /\ DiesOnlyOfHalfWrittenFrame

\* Nothing was written to anybody yet.
LEMMA InitWires == Init => WiresInv
<1> SUFFICES ASSUME Init PROVE WiresInv
  OBVIOUS
<1>1. \A c \in Conn : ToSet(started[c]) \subseteq DOMAIN relayed
  BY DEF Init, ToSet
<1>2. ASSUME NEW c \in Conn PROVE WritesInv(q[c], started[c], FrameLens, Alive(c))
  <2>1. q[c] = NoWrites /\ started[c] = <<>>
    BY DEF Init
  <2>2. Alive(c) \in BOOLEAN
    BY DEF Alive
  <2> QED BY <2>1, <2>2, InitInv
<1>3. DiesOnlyOfHalfWrittenFrame
  BY DEF Init, DiesOnlyOfHalfWrittenFrame
<1> QED BY <1>1, <1>2, <1>3 DEF WiresInv

\* A step that starts no write and transfers nothing: connections may only die.
LEMMA QuietWires ==
  ASSUME IInv, WiresInv, UNCHANGED <<q, started, relayed>>, crashed' = crashed,
         \A c \in Conn : conn[c] = "destroyed" => conn'[c] = "destroyed",
         \A c \in Conn : Alive(c)' => Alive(c)
  PROVE  WiresInv'
<1>1. FrameLens' = FrameLens /\ \A f : FrameLen(f)' = FrameLen(f)
  BY DEF FrameLens, FrameLen
<1>2. ASSUME NEW c \in Conn PROVE WritesInv(q[c], started[c], FrameLens, Alive(c)')
  <2>1. q[c] \in WriteQueue(Nat)
    BY DEF IInv, TypeOK
  <2>2. WritesInv(q[c], started[c], FrameLens, Alive(c))
    BY DEF WiresInv
  <2>3. Alive(c) \in BOOLEAN /\ Alive(c)' \in BOOLEAN
    BY DEF Alive
  <2>4. WritesInv(q[c], started[c], FrameLens, FALSE)
    BY <2>1, <2>2, <2>3, DeadInv
  <2>5. Alive(c)' = Alive(c) \/ Alive(c)' = FALSE
    BY <2>3
  <2> QED BY <2>2, <2>4, <2>5
<1>3. \A c \in Conn : WritesInv(q[c], started[c], FrameLens, Alive(c))'
  BY <1>1, <1>2
<1>4. DiesOnlyOfHalfWrittenFrame'
  BY <1>1 DEF WiresInv, DiesOnlyOfHalfWrittenFrame
<1> QED BY <1>3, <1>4 DEF WiresInv

\* A step on the writes of one connection that does not kill.
LEMMA OneWire ==
  ASSUME WiresInv, IInv, NEW c \in Conn, NEW w, q' = [q EXCEPT ![c] = w], ~crashed',
         UNCHANGED <<started, relayed>>,
         \A d \in Conn \ {c} : conn'[d] = conn[d] /\ peer'[d] = peer[d],
         WritesInv(w, started[c], FrameLens, Alive(c)')
  PROVE  WiresInv'
<1>1. FrameLens' = FrameLens
  BY DEF FrameLens, FrameLen
<1>2. ASSUME NEW d \in Conn PROVE WritesInv(q[d], started[d], FrameLens, Alive(d))'
  <2>1. CASE d = c
    BY <1>1, <2>1 DEF IInv, TypeOK
  <2>2. CASE d # c
    <3>1. q'[d] = q[d] /\ started'[d] = started[d]
      BY <2>2 DEF IInv, TypeOK
    <3>2. Alive(d)' = Alive(d)
      BY <2>2 DEF Alive
    <3>3. WritesInv(q[d], started[d], FrameLens, Alive(d))
      BY DEF WiresInv
    <3> QED BY <1>1, <3>1, <3>2, <3>3
  <2> QED BY <2>1, <2>2
<1>3. DiesOnlyOfHalfWrittenFrame'
  BY DEF DiesOnlyOfHalfWrittenFrame
<1> QED BY <1>2, <1>3 DEF WiresInv

\* A dropped connection loses the writes that wait at the reactor.
LEMMA DropWires ==
  ASSUME IInv, WiresInv, NEW c \in Conn, ~crashed, Drop(c)
  PROVE  WiresInv'
<1>1. q[c] \in WriteQueue(Nat) /\ Alive(c) \in BOOLEAN
  BY DEF IInv, TypeOK, Alive
<1>2. WritesInv(q[c], started[c], FrameLens, Alive(c))
  BY DEF WiresInv
<1>3. WritesInv(AbortWrites(q[c]), started[c], FrameLens, FALSE)
  BY <1>1, <1>2, DeadInv
<1>4. Alive(c)' = FALSE
  BY DEF Drop, Alive, IInv, TypeOK
<1>5. \A d \in Conn \ {c} : conn'[d] = conn[d] /\ peer'[d] = peer[d]
  BY DEF Drop, net, IInv, TypeOK
<1>6. q' = [q EXCEPT ![c] = AbortWrites(q[c])] /\ ~crashed' /\ UNCHANGED <<started, relayed>>
  BY DEF Drop
<1>7. WritesInv(AbortWrites(q[c]), started[c], FrameLens, Alive(c)')
  BY <1>3, <1>4
<1> QED BY <1>5, <1>6, <1>7, OneWire

\* The broadcast starts a write for a frame that is behind all others.
LEMMA ReadBodyWires ==
  ASSUME IInv, WiresInv, NEW c \in Conn, ReadBody(c)
  PROVE  WiresInv'
<1> DEFINE f == Len(relayed) + 1
           data == SubSeq(up[c], 1, need[c])
           e == [from |-> c, data |-> data]
           l == need[c] + 1
<1>1. /\ relayed \in Seq([from: Conn, data: Payload]) /\ e \in [from: Conn, data: Payload]
      /\ relayed' = Append(relayed, e)
  BY BodyLemma DEF IInv, TypeOK, ReadBody
<1>2. Len(data) = need[c] /\ need[c] \in Nat
  <2>1. /\ need[c] \in 1..MaxMsg
        /\ up[c] \in Seq(Cell)
        /\ need[c] <= Len(up[c])
    BY RelayAssumption DEF IInv, TypeOK, BodyHasSize, ReadBody, RelayAssumption
  <2>2. \A i \in 1..need[c] : up[c][i] \in Cell
    BY <2>1
  <2> QED BY <2>1, <2>2, SubSeqProperties
<1>3. e.data = data
  OBVIOUS
<1>q. \A d \in Conn : IF d \in Recipients(c)
                      THEN q'[d] = StartWrite(q[d], f, l) /\ started'[d] = Append(started[d], f)
                      ELSE q'[d] = q[d] /\ started'[d] = started[d]
  BY DEF ReadBody
<1> HIDE DEF e, data
<1>4. /\ Len(relayed) \in Nat /\ DOMAIN relayed = 1..Len(relayed) /\ DOMAIN relayed' = 1..Len(relayed) + 1
      /\ \A i \in 1..Len(relayed) : relayed'[i] = relayed[i]
      /\ relayed'[Len(relayed) + 1] = e
  BY <1>1, AppendLemma
<1>5. /\ f \in Nat /\ l \in Nat /\ l > 0
      /\ DOMAIN relayed' = DOMAIN relayed \cup {f}
      /\ \A g \in DOMAIN relayed : g \in Nat /\ g < f
  BY <1>2, <1>4
<1>6. /\ FrameLens'[f] = l
      /\ \A g \in DOMAIN relayed : FrameLens'[g] = FrameLens[g]
  BY <1>2, <1>3, <1>4, <1>5 DEF FrameLens, FrameLen
<1> HIDE DEF f, l
<1>7. \A d \in Conn : Alive(d)' = Alive(d)
  BY DEF ReadBody, net, Alive
<1>8. ASSUME NEW d \in Conn
      PROVE  /\ ToSet(started[d])' \subseteq DOMAIN relayed'
             /\ WritesInv(q[d], started[d], FrameLens, Alive(d))'
  <2>1. q[d] \in WriteQueue(Nat) /\ started[d] \in Seq(Nat) /\ Alive(d) \in BOOLEAN
    BY DEF IInv, TypeOK, Alive
  <2>2. ToSet(started[d]) \subseteq DOMAIN relayed
    BY DEF WiresInv
  <2>3. WritesInv(q[d], started[d], FrameLens, Alive(d))
    BY DEF WiresInv
  <2>4. WritesInv(q[d], started[d], FrameLens', Alive(d))
    BY <1>6, <2>1, <2>2, <2>3, SameLens
  <2>5. CASE d \in Recipients(c)
    <3>1. q'[d] = StartWrite(q[d], f, l) /\ started'[d] = Append(started[d], f)
      BY <1>q, <2>5
    <3>2. \A g \in ToSet(started[d]) : g < f
      BY <1>5, <2>2
    <3>3. WritesInv(StartWrite(q[d], f, l), Append(started[d], f), FrameLens', Alive(d))
      BY <1>5, <1>6, <2>1, <2>4, <3>2, StartInv
    <3>4. ToSet(started'[d]) = ToSet(started[d]) \cup {f}
      BY <1>5, <2>1, <3>1, AppendLemma
    <3> QED BY <1>5, <1>7, <2>2, <3>1, <3>3, <3>4
  <2>6. CASE d \notin Recipients(c)
    <3>1. q'[d] = q[d] /\ started'[d] = started[d]
      BY <1>q, <2>6
    <3> QED BY <1>5, <1>7, <2>2, <2>4, <3>1
  <2> QED BY <2>5, <2>6
<1>9. DiesOnlyOfHalfWrittenFrame'
  BY DEF ReadBody, DiesOnlyOfHalfWrittenFrame
<1> QED BY <1>8, <1>9 DEF WiresInv

\* A write that resumes on freed memory was half done, and ends.
LEMMA FreedWires ==
  ASSUME IInv, WiresInv, NEW c \in Conn, ResumeFreed(c)
  PROVE  WiresInv'
<1> DEFINE w == q[c]
           op == Head(w.resume)
<1>1. w \in WriteQueue(Nat) /\ w.resume # <<>> /\ WritesInv(w, started[c], FrameLens, Alive(c))
      /\ Alive(c) = FALSE /\ Alive(c)' = FALSE /\ conn'[c] = "destroyed"
  BY DEF IInv, TypeOK, WiresInv, ResumeFreed, Alive
<1>2. q' = [q EXCEPT ![c] = DropResumed(w)] /\ UNCHANGED <<started, relayed, conn, peer>>
  BY DEF ResumeFreed, net, history
<1>3. WritesInv(DropResumed(w), started[c], FrameLens, FALSE)
  BY <1>1, DeadInv
<1>4. FrameLens' = FrameLens /\ \A f : FrameLen(f)' = FrameLen(f)
  BY <1>2 DEF FrameLens, FrameLen
<1>5. ASSUME NEW d \in Conn PROVE WritesInv(q[d], started[d], FrameLens, Alive(d))'
  <2>1. CASE d = c
    BY <1>1, <1>2, <1>3, <1>4, <2>1 DEF IInv, TypeOK
  <2>2. CASE d # c
    <3>1. q'[d] = q[d] /\ started'[d] = started[d] /\ Alive(d)' = Alive(d)
      BY <1>2, <2>2 DEF IInv, TypeOK, Alive
    <3>2. WritesInv(q[d], started[d], FrameLens, Alive(d))
      BY DEF WiresInv
    <3> QED BY <1>4, <3>1, <3>2
  <2> QED BY <2>1, <2>2
<1>6. /\ op \in Writes(w) /\ op \in Op(Nat) /\ op.sent > 0
      /\ q'[c].wire = w.wire
  <2>1. w.resume \in Seq(Op(Nat))
    BY <1>1, QueueParts
  <2>2. op \in Op(Nat) /\ 1 \in DOMAIN w.resume /\ op = w.resume[1]
    BY <1>1, <2>1, TailLemma
  <2>3. op.sent > 0
    BY <1>1, <2>2 DEF WritesInv, UnsentInOrder
  <2>4. q'[c] = DropResumed(w)
    BY <1>2 DEF IInv, TypeOK
  <2>5. DropResumed(w).wire = w.wire
    BY <1>1 DEF DropResumed, WriteQueue
  <2> QED BY <2>2, <2>3, <2>4, <2>5 DEF Writes, ToSet
<1>7. DiesOnlyOfHalfWrittenFrame'
  <2> HIDE DEF w, op
  <2>1. /\ op.frame \in ToSet(started[c]) /\ op.len = FrameLens[op.frame] /\ op.sent < op.len
        /\ OnWire(w, op.frame) = 0..op.sent - 1
    BY <1>1, <1>6 DEF WritesInv, WritesKnown
  <2>2. op.len = FrameLen(op.frame)
    BY <2>1 DEF WiresInv, FrameLens
  <2>3. op.sent \in 1..FrameLen(op.frame) - 1
    BY <1>6, <2>1, <2>2, OpParts
  <2>4. OnWire(q'[c], op.frame) = 0..op.sent - 1
    BY <1>6, <2>1, SameWire
  <2> QED BY <1>1, <1>2, <1>4, <2>1, <2>3, <2>4 DEF DiesOnlyOfHalfWrittenFrame
<1> QED BY <1>2, <1>5, <1>7 DEF WiresInv

\* Every step keeps the wires as they should be.
THEOREM StepWires == IInv /\ WiresInv /\ [Next]_vars => WiresInv'
<1> SUFFICES ASSUME IInv, WiresInv, [Next]_vars PROVE WiresInv'
  OBVIOUS
<1>1. CASE AcceptFail
  BY <1>1, QuietWires DEF AcceptFail, Alive, net, history
<1>2. CASE ReArm
  BY <1>2, QuietWires DEF ReArm, Alive, net, history
<1>3. ASSUME NEW c \in Conn, Accept(c) PROVE WiresInv'
  BY <1>3, QuietWires DEF Accept, Alive, net, IInv, TypeOK
<1>4. ASSUME NEW c \in Conn, Reader(c) PROVE WiresInv'
  <2>1. ASSUME NEW n \in Decoded(c), ReadHeader(c, n) PROVE WiresInv'
    BY <2>1, QuietWires DEF ReadHeader, Alive, net, history
  <2>2. ASSUME NEW n \in Decoded(c), RefuseHeader(c, n) PROVE WiresInv'
    BY <2>2, DropWires DEF RefuseHeader
  <2>3. CASE ReadBody(c)
    BY <2>3, ReadBodyWires
  <2>4. CASE Repost(c)
    BY <2>4, QuietWires DEF Repost, Alive, net, history
  <2>5. CASE ReadError(c)
    BY <2>5, DropWires DEF ReadError
  <2> QED BY <1>4, <2>1, <2>2, <2>3, <2>4, <2>5 DEF Reader
<1>5. ASSUME NEW c \in Conn, Writer(c) PROVE WiresInv'
  <2>1. /\ q[c] \in WriteQueue(Nat) /\ started[c] \in Seq(Nat) /\ Alive(c) \in BOOLEAN
        /\ WritesInv(q[c], started[c], FrameLens, Alive(c))
    BY DEF IInv, TypeOK, WiresInv, Alive
  <2>2. ASSUME NEW k \in 1..MaxTransfer, Transfer(c, k) PROVE WiresInv'
    <3>1. Alive(c) = TRUE /\ Alive(c)' = Alive(c) /\ MaxTransfer \in Nat
      BY <2>2, RelayAssumption DEF Transfer, Alive, net, RelayAssumption
    <3>2. k \in Transfers(q[c], MaxTransfer)
      BY <2>2 DEF Transfer
    <3>3. WritesInv(TransferSome(q[c], k), started[c], FrameLens, Alive(c)')
      BY <2>1, <3>1, <3>2, TransferInv
    <3> QED BY <2>2, <3>3, OneWire DEF Transfer, net, history
  <2>3. CASE Resume(c)
    <3>1. Alive(c)' = Alive(c) /\ q[c].resume # <<>>
      BY <2>3 DEF Resume, Alive, net
    <3>2. WritesInv(ResumeWrite(q[c]), started[c], FrameLens, Alive(c)')
      BY <2>1, <3>1, ResumeInv
    <3> QED BY <2>3, <3>2, OneWire DEF Resume, net, history
  <2>4. CASE WriteError(c)
    <3>1. Alive(c)' = FALSE /\ q[c].ready # <<>>
      BY <2>4 DEF WriteError, Alive, net
    <3>2. WritesInv(FailWrite(q[c]), started[c], FrameLens, Alive(c)')
      BY <2>1, <3>1, DeadInv
    <3> QED BY <2>4, <3>2, OneWire DEF WriteError, net, history
  <2>5. CASE ResumeFreed(c)
    BY <2>5, FreedWires
  <2> QED BY <1>5, <2>2, <2>3, <2>4, <2>5 DEF Writer
<1>6. ASSUME NEW c \in Conn, Client(c) PROVE WiresInv'
  <2>1. CASE Connect(c)
    BY <2>1, QuietWires DEF Connect, Alive, net, history, IInv, TypeOK
  <2>2. ASSUME NEW k \in 1..Len(Script[c]), SendCell(c, k) PROVE WiresInv'
    BY <2>2, QuietWires DEF SendCell, Alive, history
  <2>3. ASSUME NEW how \in {"gone", "reset"}, HangUp(c, how) PROVE WiresInv'
    BY <2>3, QuietWires DEF HangUp, Alive, history, IInv, TypeOK
  <2> QED BY <1>6, <2>1, <2>2, <2>3 DEF Client
<1>7. CASE UNCHANGED vars
  BY <1>7, QuietWires DEF vars, Alive, net, history
<1> QED BY <1>1, <1>2, <1>3, <1>4, <1>5, <1>6, <1>7 DEF Next

\* The wires are sound in every state the relay can reach.
THEOREM Wires == Spec => []WiresInv
BY InitIInv, StepIInv, InitWires, StepWires, PTL DEF Spec

\* A client no writes overlapped for can parse what it received, whatever the
\* sizes of the transfers.
THEOREM WireSound == Spec => []WireIntegrity
<1>1. WiresInv => WireIntegrity
  BY DEF WiresInv, WritesInv, OneAtATime, WireIntegrity
<1> QED BY Wires, <1>1, PTL

\* With any overlap and any sizes, each frame reaches the wire in order, once and
\* in the end whole, and the headers come in the order of the broadcasts.
THEOREM WireComplete == Spec => []NothingLostOrReordered
<1>1. WiresInv => NothingLostOrReordered
  BY DEF WiresInv, WritesInv, NothingLostOrReordered, NoByteLost, HeardInOrder
<1> QED BY Wires, <1>1, PTL

\* The use after free needs a frame half written to a client that is dropped.
THEOREM DeathExplained == Spec => []DiesOnlyOfHalfWrittenFrame
<1>1. WiresInv => DiesOnlyOfHalfWrittenFrame
  BY DEF WiresInv
<1> QED BY Wires, <1>1, PTL

-----------------------------------------------------------------------------
(* What the clients send is what is relayed.                               *)

\* The message of c that is read now or next, and the first cell of it not read.
Turn(c) == Cardinality(Said(c)) + 1
Offset(c) == IF rd[c] = "body" THEN 1 ELSE 0

\* The counts say: all messages before the k-th were sent, and o cells of that.
SentUpTo(c, counts, k, o) ==
  \A j \in 1..Len(Script[c]) :
    counts[j] = IF j < k THEN Script[c][j] + 1 ELSE IF j = k THEN o ELSE 0

\* The cells go on from cell o of the k-th message of c up to what was sent, cell by
\* cell and message by message.
GoesOn(c, cells, counts, k, o) ==
  /\ \A i \in DOMAIN cells : cells[i][1] = c /\ cells[i][3] <= Script[c][cells[i][2]]
  /\ \A i, j \in DOMAIN cells :
       LET m == cells[i][2]
           p == cells[i][3] + (j - i)
       IN i < j => /\ p <= Script[c][m] => cells[j] = <<c, m, p>>
                   /\ p = Script[c][m] + 1 => cells[j] = <<c, m + 1, 0>>
  /\ IF cells = <<>>
     THEN SentUpTo(c, counts, k, o)
     ELSE /\ cells[1] = <<c, k, o>>
          /\ SentUpTo(c, counts, cells[Len(cells)][2], cells[Len(cells)][3] + 1)

\* Why the relay is exact: what is under way goes on from what was read.
InStep(c) ==
  /\ rd[c] = "body" => Turn(c) \in 1..Len(Script[c]) /\ need[c] = Script[c][Turn(c)]
  /\ GoesOn(c, up[c], sent[c], Turn(c), Offset(c))

StreamInv ==
  ~ClientOverlaps => \A c \in Conn : conn[c] # "destroyed" => InStep(c)

\* A cell of the script.
LEMMA CellLemma ==
  ASSUME NEW x \in Cell
  PROVE  /\ x[1] \in Conn /\ x[2] \in Nat /\ x[3] \in Nat
         /\ x = <<x[1], x[2], x[3]>>
         /\ x[2] \in 1..Len(Script[x[1]])
         /\ Script[x[1]][x[2]] \in Nat
<1>1. /\ x \in Conn \X Nat \X Nat /\ x[2] \in 1..Len(Script[x[1]])
  BY DEF Cell
<1>2. Script[x[1]] \in Seq(Nat)
  BY <1>1, RelayAssumption DEF RelayAssumption
<1>3. Script[x[1]][x[2]] \in Nat
  BY <1>1, <1>2, ElementOfSeq
<1> QED BY <1>1, <1>3

\* All of a message and none of the next.
LEMMA NextMessage ==
  ASSUME NEW c \in Conn, NEW counts, NEW k \in Nat, SentUpTo(c, counts, k, Script[c][k] + 1)
  PROVE  SentUpTo(c, counts, k + 1, 0)
<1> SUFFICES ASSUME NEW j \in 1..Len(Script[c])
             PROVE  counts[j] = IF j < k + 1 THEN Script[c][j] + 1 ELSE IF j = k + 1 THEN 0 ELSE 0
  BY DEF SentUpTo
<1>1. counts[j] = IF j < k THEN Script[c][j] + 1 ELSE IF j = k THEN Script[c][k] + 1 ELSE 0
  BY DEF SentUpTo
<1>2. j \in Nat
  BY RelayAssumption DEF RelayAssumption
<1>3. CASE j < k
  BY <1>1, <1>2, <1>3
<1>4. CASE j = k
  BY <1>1, <1>2, <1>4
<1>5. CASE j > k
  BY <1>1, <1>2, <1>5
<1> QED BY <1>2, <1>3, <1>4, <1>5

\* The first m cells of s are taken and r is left.
Leaves(s, m, r) ==
  /\ r \in Seq(Cell) /\ m \in Nat /\ m > 0 /\ m <= Len(s)
  /\ Len(r) = Len(s) - m
  /\ \A i \in 1..Len(r) : r[i] = s[i + m]

\* The first m cells of s are taken, and r is left.
Takes(c, s, counts, k, o, m, r) ==
  /\ s \in Seq(Cell) /\ k \in Nat /\ o \in Nat /\ m \in Nat
  /\ GoesOn(c, s, counts, k, o)
  /\ Leaves(s, m, r)

\* Reading takes cells from the front: what is left goes on from there.
LEMMA TakeLemma ==
  ASSUME NEW c \in Conn, NEW s, NEW counts, NEW k, NEW o, NEW m, NEW r,
         Takes(c, s, counts, k, o, m, r)
  PROVE  /\ k \in 1..Len(Script[c]) /\ Script[c][k] \in Nat
         /\ \A j \in 1..m : o + (j - 1) <= Script[c][k] => s[j] = <<c, k, o + (j - 1)>>
         /\ o + m <= Script[c][k] => GoesOn(c, r, counts, k, o + m)
         /\ o + m = Script[c][k] + 1 => GoesOn(c, r, counts, k + 1, 0)
<1> DEFINE n == Len(s)
           size == Script[c][k]
<1>t. /\ s \in Seq(Cell) /\ k \in Nat /\ o \in Nat /\ m \in Nat
      /\ GoesOn(c, s, counts, k, o) /\ Leaves(s, m, r)
  BY DEF Takes
<1> USE <1>t
<1>0. /\ r \in Seq(Cell) /\ m \in Nat /\ m > 0 /\ m <= Len(s)
      /\ Len(r) = Len(s) - m
      /\ \A i \in 1..Len(r) : r[i] = s[i + m]
  BY DEF Leaves
<1>1. n \in Nat /\ DOMAIN s = 1..n /\ Len(r) \in Nat /\ DOMAIN r = 1..n - m
  BY <1>0
<1>2. s # <<>> /\ s[1] = <<c, k, o>> /\ s[1] \in Cell /\ 1 \in 1..n
  BY <1>0, <1>1 DEF GoesOn
<1>3. k \in 1..Len(Script[c]) /\ size \in Nat
  <2>1. s[1][1] = c /\ s[1][2] = k
    BY <1>2
  <2> QED BY <1>2, <2>1, CellLemma
<1>e. \A i \in 1..n - m : r[i] = s[i + m] /\ i + m \in 1..n
  BY <1>0, <1>1
<1>i. Len(r) = n - m /\ m <= n /\ m \in Nat /\ m > 0
  BY <1>0
<1>l. SentUpTo(c, counts, s[n][2], s[n][3] + 1)
  BY <1>2 DEF GoesOn
<1> HIDE DEF n, size
<1>4. \A j \in 1..n : /\ o + (j - 1) <= size => s[j] = <<c, k, o + (j - 1)>>
                      /\ o + (j - 1) = size + 1 => s[j] = <<c, k + 1, 0>>
  <2> SUFFICES ASSUME NEW j \in 1..n
               PROVE  /\ o + (j - 1) <= size => s[j] = <<c, k, o + (j - 1)>>
                      /\ o + (j - 1) = size + 1 => s[j] = <<c, k + 1, 0>>
    OBVIOUS
  <2>1. CASE j = 1
    <3>1. o <= size
      BY <1>1, <1>2 DEF GoesOn, size
    <3>2. o + (j - 1) = o
      BY <2>1
    <3> QED BY <1>2, <1>3, <2>1, <3>1, <3>2
  <2>2. CASE j # 1
    <3>1. 1 \in DOMAIN s /\ j \in DOMAIN s /\ 1 < j
      BY <1>1, <1>2, <2>2
    <3>2. s[1][2] = k /\ s[1][3] = o
      BY <1>2
    <3> QED BY <3>1, <3>2 DEF GoesOn, size
  <2> QED BY <2>1, <2>2
<1>5. /\ \A i \in DOMAIN r : r[i][1] = c /\ r[i][3] <= Script[c][r[i][2]]
      /\ \A i, j \in DOMAIN r :
           LET x == r[i][2]
               p == r[i][3] + (j - i)
           IN i < j => /\ p <= Script[c][x] => r[j] = <<c, x, p>>
                       /\ p = Script[c][x] + 1 => r[j] = <<c, x + 1, 0>>
  <2>1. ASSUME NEW i \in DOMAIN r PROVE r[i][1] = c /\ r[i][3] <= Script[c][r[i][2]]
    <3>1. r[i] = s[i + m] /\ i + m \in DOMAIN s
      BY <1>1, <1>e
    <3> QED BY <3>1 DEF GoesOn
  <2>2. ASSUME NEW i \in DOMAIN r, NEW j \in DOMAIN r, i < j
        PROVE  /\ r[i][3] + (j - i) <= Script[c][r[i][2]] => r[j] = <<c, r[i][2], r[i][3] + (j - i)>>
               /\ r[i][3] + (j - i) = Script[c][r[i][2]] + 1 => r[j] = <<c, r[i][2] + 1, 0>>
    <3>1. i \in 1..n - m /\ j \in 1..n - m
      BY <1>1
    <3>2. /\ i + m \in DOMAIN s /\ j + m \in DOMAIN s /\ i + m < j + m /\ (j + m) - (i + m) = j - i
          /\ r[i] = s[i + m] /\ r[j] = s[j + m]
      BY <1>1, <1>e, <2>2, <3>1
    <3> QED BY <3>2 DEF GoesOn
  <2> QED BY <2>1, <2>2
<1>6. CASE r = <<>>
  <2>1. n = m /\ m \in 1..n
    BY <1>1, <1>6, <1>i
  <2>2. ASSUME o + m <= size PROVE GoesOn(c, r, counts, k, o + m)
    <3>1. s[n] = <<c, k, o + (m - 1)>> /\ (o + (m - 1)) + 1 = o + m
      BY <1>3, <1>4, <2>1, <2>2
    <3>2. SentUpTo(c, counts, k, o + m)
      BY <1>l, <3>1
    <3> QED BY <1>5, <1>6, <3>2 DEF GoesOn
  <2>3. ASSUME o + m = size + 1 PROVE GoesOn(c, r, counts, k + 1, 0)
    <3>1. s[n] = <<c, k, o + (m - 1)>> /\ (o + (m - 1)) + 1 = size + 1
      BY <1>3, <1>4, <2>1, <2>3
    <3>2. SentUpTo(c, counts, k, size + 1)
      BY <1>l, <3>1
    <3>3. SentUpTo(c, counts, k + 1, 0)
      BY <3>2, NextMessage DEF size
    <3> QED BY <1>5, <1>6, <3>3 DEF GoesOn
  <2> QED BY <1>3, <1>4, <2>1, <2>2, <2>3 DEF size
<1>7. CASE r # <<>>
  <2>1. Len(r) > 0 /\ n > m
    BY <1>1, <1>7, <1>i
  <2>2. r[1] = s[m + 1] /\ r[n - m] = s[n] /\ 1 \in 1..n - m /\ m + 1 \in 1..n
    <3>1. 1 \in 1..n - m /\ n - m \in 1..n - m /\ 1 + m = m + 1 /\ (n - m) + m = n /\ m + 1 \in 1..n
      BY <1>1, <2>1
    <3> QED BY <1>e, <3>1
  <2>3. SentUpTo(c, counts, r[Len(r)][2], r[Len(r)][3] + 1)
    BY <1>l, <1>i, <2>2
  <2>4. o + ((m + 1) - 1) = o + m
    OBVIOUS
  <2>5. ASSUME o + m <= size PROVE GoesOn(c, r, counts, k, o + m)
    <3>1. r[1] = <<c, k, o + m>>
      BY <1>4, <2>2, <2>4, <2>5
    <3> QED BY <1>5, <1>7, <2>3, <3>1 DEF GoesOn
  <2>6. ASSUME o + m = size + 1 PROVE GoesOn(c, r, counts, k + 1, 0)
    <3>1. r[1] = <<c, k + 1, 0>>
      BY <1>4, <2>2, <2>4, <2>6
    <3> QED BY <1>5, <1>7, <2>3, <3>1 DEF GoesOn
  <2>7. \A j \in 1..m : j \in 1..n
    BY <1>1, <1>i
  <2> QED BY <1>3, <1>4, <2>5, <2>6, <2>7 DEF size
<1> QED BY <1>6, <1>7

\* s opens with the m bytes of the k-th message of c.
OpensWith(c, s, k, m) == \A j \in 1..m : s[j] = <<c, k, j>>

\* Reading a whole body, from its first byte, takes the message.
LEMMA TakeWhole ==
  ASSUME NEW c \in Conn, NEW s, NEW counts, NEW k, NEW m, NEW r,
         Takes(c, s, counts, k, 1, m, r), m = Script[c][k]
  PROVE  OpensWith(c, s, k, m) /\ GoesOn(c, r, counts, k + 1, 0)
<1>1. m \in Nat
  BY DEF Takes
<1>2. \A j \in 1..m : 1 + (j - 1) <= Script[c][k] => s[j] = <<c, k, 1 + (j - 1)>>
  BY TakeLemma
<1>3. 1 + m = Script[c][k] + 1 => GoesOn(c, r, counts, k + 1, 0)
  BY TakeLemma
<1>4. ASSUME NEW j \in 1..m PROVE s[j] = <<c, k, j>>
  <2>1. 1 + (j - 1) <= Script[c][k] /\ 1 + (j - 1) = j
    BY <1>1
  <2> QED BY <1>2, <2>1
<1>5. 1 + m = Script[c][k] + 1
  BY <1>1
<1> QED BY <1>3, <1>4, <1>5 DEF OpensWith

\* The next cell of the m-th message of c is sent, all before that being sent.
Sends(c, counts, after, m) ==
  /\ m \in 1..Len(Script[c])
  /\ counts[m] <= Script[c][m]
  /\ \A j \in 1..m - 1 : counts[j] > Script[c][j]
  /\ \A j \in 1..Len(Script[c]) : after[j] = IF j = m THEN counts[m] + 1 ELSE counts[j]

\* A client whose writes do not overlap may send the next cell only.
LEMMA MayLemma ==
  ASSUME NEW c \in Conn, NEW counts, NEW after, NEW k \in Nat, NEW o \in Nat,
         SentUpTo(c, counts, k, o), k > 0,
         k \in 1..Len(Script[c]) => o <= Script[c][k] + 1,
         NEW m, Sends(c, counts, after, m)
  PROVE  /\ k \in 1..Len(Script[c])
         /\ o <= Script[c][k] => m = k
         /\ o = Script[c][k] + 1 => m = k + 1
         /\ counts[m] = IF m = k THEN o ELSE 0
         /\ SentUpTo(c, after, m, counts[m] + 1)
<1>1. Script[c] \in Seq(Nat)
  BY RelayAssumption DEF RelayAssumption
<1> DEFINE n == Len(Script[c])
<1>2. n \in Nat /\ \A j \in 1..n : Script[c][j] \in Nat
  BY <1>1
<1>3. \A j \in 1..n : counts[j] = IF j < k THEN Script[c][j] + 1 ELSE IF j = k THEN o ELSE 0
  BY DEF SentUpTo
<1>m. m \in 1..n
  BY DEF Sends
<1>s. /\ counts[m] <= Script[c][m]
      /\ \A j \in 1..m - 1 : counts[j] > Script[c][j]
      /\ \A j \in 1..n : after[j] = IF j = m THEN counts[m] + 1 ELSE counts[j]
  BY DEF Sends
<1>k. k \in 1..n => o <= Script[c][k] + 1
  OBVIOUS
<1> HIDE DEF n
<1>4. ~(m < k)
  BY <1>2, <1>3, <1>m, <1>s
<1>5. k \in 1..n
  BY <1>2, <1>4, <1>m
<1>6. ASSUME o <= Script[c][k] PROVE m = k
  <2>1. ASSUME m > k PROVE FALSE
    <3>1. k \in 1..m - 1
      BY <1>5, <1>m, <2>1
    <3>2. counts[k] = o
      BY <1>3, <1>5
    <3>3. o > Script[c][k]
      BY <1>s, <3>1, <3>2
    <3> QED BY <1>2, <1>5, <1>6, <3>3
  <2> QED BY <1>4, <1>m, <2>1
<1>7. ASSUME o = Script[c][k] + 1 PROVE m = k + 1
  <2>1. m # k
    BY <1>2, <1>3, <1>5, <1>7, <1>s, <1>m
  <2>2. ASSUME m > k + 1 PROVE FALSE
    <3>1. k + 1 \in 1..m - 1 /\ k + 1 \in 1..n
      BY <1>2, <1>5, <1>m, <2>2
    <3>2. counts[k + 1] = 0
      BY <1>3, <3>1
    <3>3. counts[k + 1] > Script[c][k + 1] /\ Script[c][k + 1] \in Nat
      BY <1>2, <1>s, <3>1
    <3> QED BY <3>2, <3>3
  <2> QED BY <1>4, <1>m, <2>1, <2>2
<1>8. counts[m] = IF m = k THEN o ELSE 0
  BY <1>3, <1>4, <1>m
<1>9. SentUpTo(c, after, m, counts[m] + 1)
  <2> SUFFICES ASSUME NEW j \in 1..n
               PROVE  after[j] = IF j < m THEN Script[c][j] + 1 ELSE IF j = m THEN counts[m] + 1 ELSE 0
    BY DEF SentUpTo, n
  <2>1. j \in Int /\ m \in Int /\ k \in Int
    BY <1>2, <1>m
  <2>2. after[j] = IF j = m THEN counts[m] + 1 ELSE counts[j]
    BY <1>s
  <2>3. o <= Script[c][k] \/ o = Script[c][k] + 1
    BY <1>2, <1>5, <1>k
  <2>4. m = k \/ (m = k + 1 /\ o = Script[c][k] + 1)
    BY <1>6, <1>7, <2>3
  <2>5. CASE j = m
    BY <2>1, <2>2, <2>5
  <2>6. CASE j < m
    <3>1. after[j] = counts[j] /\ (j < k \/ (j = k /\ o = Script[c][k] + 1))
      BY <2>1, <2>2, <2>4, <2>6
    <3>2. counts[j] = Script[c][j] + 1
      BY <1>3, <2>1, <3>1
    <3> QED BY <2>6, <3>1, <3>2
  <2>7. CASE j > m
    <3>1. after[j] = counts[j] /\ ~(j < k) /\ j # k
      BY <2>1, <2>2, <2>4, <2>7
    <3>2. counts[j] = 0
      BY <1>3, <3>1
    <3> QED BY <2>1, <2>7, <3>1, <3>2
  <2> QED BY <2>1, <2>5, <2>6, <2>7
<1> QED BY <1>5, <1>6, <1>7, <1>8, <1>9 DEF n

\* What the client sends goes on from what it sent before.
LEMMA SendLemma ==
  ASSUME NEW c \in Conn, NEW s \in Seq(Cell), NEW counts \in Seq(Nat), Len(counts) = Len(Script[c]),
         NEW k \in Nat, k > 0, NEW o \in Nat, GoesOn(c, s, counts, k, o),
         k \in 1..Len(Script[c]) => o <= Script[c][k],
         NEW m \in 1..Len(Script[c]), counts[m] <= Script[c][m],
         \A j \in 1..m - 1 : counts[j] > Script[c][j]
  PROVE  GoesOn(c, Append(s, <<c, m, counts[m]>>), [counts EXCEPT ![m] = @ + 1], k, o)
<1> DEFINE x == <<c, m, counts[m]>>
           t == Append(s, x)
           n == Len(s)
           after == [counts EXCEPT ![m] = @ + 1]
<1>1. counts[m] \in Nat /\ x \in Cell /\ x[1] = c /\ x[2] = m /\ x[3] = counts[m] /\ m \in Nat
  <2>1. m \in Nat /\ counts[m] \in Nat
    BY RelayAssumption DEF RelayAssumption
  <2> QED BY <2>1 DEF Cell
<1>x. x = <<c, m, counts[m]>>
  OBVIOUS
<1>s. Sends(c, counts, after, m)
  BY DEF Sends
<1> SUFFICES GoesOn(c, t, after, k, o)
  OBVIOUS
<1> HIDE DEF x
<1>2. /\ n \in Nat /\ Len(t) = n + 1 /\ t \in Seq(Cell)
      /\ DOMAIN s = 1..n /\ DOMAIN t = 1..n + 1
      /\ \A i \in 1..n : t[i] = s[i]
      /\ t[n + 1] = x
  BY <1>1, AppendLemma
<1> HIDE DEF n, t, after
<1>3. t # <<>>
  BY <1>2
<1>4. CASE s = <<>>
  <2>1. SentUpTo(c, counts, k, o) /\ n = 0
    BY <1>4 DEF GoesOn, n
  <2>2. /\ m = k /\ counts[m] = o
        /\ SentUpTo(c, after, m, counts[m] + 1)
    <3>1. k \in 1..Len(Script[c]) => o <= Script[c][k] + 1
      <4> SUFFICES ASSUME k \in 1..Len(Script[c]) PROVE o <= Script[c][k] + 1
        OBVIOUS
      <4>1. Script[c][k] \in Nat
        BY RelayAssumption, ElementOfSeq DEF RelayAssumption
      <4> QED BY <4>1
    <3>2. /\ k \in 1..Len(Script[c])
          /\ o <= Script[c][k] => m = k
          /\ counts[m] = IF m = k THEN o ELSE 0
          /\ SentUpTo(c, after, m, counts[m] + 1)
      BY <1>s, <2>1, <3>1, MayLemma
    <3> QED BY <3>2
  <2>3. t[1] = <<c, k, o>> /\ t[Len(t)] = x
    BY <1>2, <1>x, <2>1, <2>2
  <2>4. \A i \in DOMAIN t : t[i][1] = c /\ t[i][3] <= Script[c][t[i][2]]
    BY <1>1, <1>2, <2>1
  <2>5. \A i, j \in DOMAIN t : ~(i < j)
    BY <1>2, <2>1
  <2>6. SentUpTo(c, after, t[Len(t)][2], t[Len(t)][3] + 1)
    BY <1>1, <2>2, <2>3
  <2> QED BY <1>3, <2>3, <2>4, <2>5, <2>6 DEF GoesOn
<1>5. CASE s # <<>>
  <2> DEFINE y == s[n]
             kk == y[2]
             oo == y[3]
             size == Script[c][kk]
  <2>1. n > 0 /\ n \in DOMAIN s /\ 1 \in DOMAIN s
    BY <1>2, <1>5 DEF n
  <2>2. y \in Cell /\ y[1] = c /\ oo <= size /\ SentUpTo(c, counts, kk, oo + 1) /\ s[1] = <<c, k, o>>
    BY <1>5, <2>1 DEF GoesOn, n
  <2> HIDE DEF y
  <2>c. y[2] \in Nat /\ y[3] \in Nat /\ y = <<y[1], y[2], y[3]>> /\ y[2] \in 1..Len(Script[y[1]]) /\ Script[y[1]][y[2]] \in Nat
    BY <2>2, CellLemma
  <2>3. y = <<c, kk, oo>> /\ kk \in Nat /\ kk > 0 /\ oo \in Nat /\ size \in Nat
    BY <2>2, <2>c
  <2>d. size = Script[c][kk]
    OBVIOUS
  <2> HIDE DEF kk, oo, size
  <2>4. /\ oo + 1 <= size => m = kk
        /\ oo + 1 = size + 1 => m = kk + 1
        /\ counts[m] = IF m = kk THEN oo + 1 ELSE 0
        /\ SentUpTo(c, after, m, counts[m] + 1)
    <3>1. oo + 1 \in Nat /\ oo + 1 <= size + 1
      BY <2>2, <2>3
    <3>2. kk \in 1..Len(Script[c]) => oo + 1 <= Script[c][kk] + 1
      BY <2>d, <3>1
    <3> DEFINE next == oo + 1
    <3>a. next \in Nat /\ SentUpTo(c, counts, kk, next) /\ (kk \in 1..Len(Script[c]) => next <= Script[c][kk] + 1)
      BY <2>2, <3>1, <3>2
    <3> HIDE DEF next
    <3>3. /\ next <= Script[c][kk] => m = kk
          /\ next = Script[c][kk] + 1 => m = kk + 1
          /\ counts[m] = IF m = kk THEN next ELSE 0
          /\ SentUpTo(c, after, m, counts[m] + 1)
      BY <1>s, <2>3, <3>a, MayLemma
    <3> QED BY <2>d, <3>3 DEF next
  <2>5. /\ oo + 1 <= size => x = <<c, kk, oo + 1>>
        /\ oo = size => x = <<c, kk + 1, 0>>
    <3>1. ASSUME oo + 1 <= size PROVE x = <<c, kk, oo + 1>>
      BY <1>x, <2>4, <3>1
    <3>2. ASSUME oo = size PROVE x = <<c, kk + 1, 0>>
      <4>1. m = kk + 1
        BY <2>4, <3>2
      <4>2. m # kk
        BY <2>3, <4>1
      <4> QED BY <1>x, <2>4, <4>1, <4>2
    <3> QED BY <3>1, <3>2
  <2>6. \A i \in DOMAIN t : t[i][1] = c /\ t[i][3] <= Script[c][t[i][2]]
    <3> SUFFICES ASSUME NEW i \in DOMAIN t PROVE t[i][1] = c /\ t[i][3] <= Script[c][t[i][2]]
      OBVIOUS
    <3>1. CASE i \in 1..n
      BY <1>2, <3>1 DEF GoesOn
    <3>2. CASE i = n + 1
      BY <1>1, <1>2, <3>2
    <3> QED BY <1>2, <3>1, <3>2
  <2>7. ASSUME NEW i \in DOMAIN t, NEW j \in DOMAIN t, i < j
        PROVE  /\ t[i][3] + (j - i) <= Script[c][t[i][2]] => t[j] = <<c, t[i][2], t[i][3] + (j - i)>>
               /\ t[i][3] + (j - i) = Script[c][t[i][2]] + 1 => t[j] = <<c, t[i][2] + 1, 0>>
    <3>1. i \in 1..n /\ t[i] = s[i] /\ i \in DOMAIN s
      BY <1>2, <2>7
    <3>2. CASE j \in 1..n
      <4>1. t[j] = s[j] /\ j \in DOMAIN s
        BY <1>2, <3>2
      <4> QED BY <2>7, <3>1, <4>1 DEF GoesOn
    <3>3. CASE j = n + 1
      <4> DEFINE z == s[i]
                 p == z[3] + (j - i)
                 lim == Script[c][z[2]]
      <4>1. z \in Cell /\ z[3] \in Nat /\ z[2] \in Nat /\ z[1] = c /\ lim \in Nat
        <5>1. z \in Cell /\ z[1] = c
          BY <3>1 DEF GoesOn
        <5> QED BY <5>1, CellLemma
      <4>2. p \in Int /\ t[j] = x
        <5>1. i \in Int /\ j \in Int /\ t[j] = x
          BY <1>2, <3>1, <3>3
        <5> HIDE DEF z
        <5> QED BY <4>1, <5>1
      <4>3. ASSUME p <= lim + 1
            PROVE  y = <<c, z[2], p - 1>>
        <5>1. CASE i = n
          <6>1. p = z[3] + 1 /\ z = y
            BY <1>2, <3>3, <4>1, <5>1 DEF y
          <6> QED BY <2>3, <4>1, <6>1 DEF oo, kk
        <5>2. CASE i # n
          <6>1. i < n /\ z[3] + (n - i) = p - 1 /\ p - 1 <= lim
            <7>0. i \in 1..n
              BY <3>1
            <7>a. i \in Int /\ i <= n
              BY <1>2, <7>0
            <7>1. i \in Int /\ i <= n /\ z[3] \in Int /\ lim \in Int
              <8> HIDE DEF z, lim
              <8>1. z[3] \in Int
                BY <4>1
              <8>2. lim \in Int
                BY <4>1
              <8> QED BY <7>a, <8>1, <8>2
            <7>2. z[3] + (n - i) = p - 1
              <8> DEFINE z3 == z[3]
              <8>1. p = z3 + (j - i) /\ z3 \in Int /\ n \in Int /\ i \in Int
                BY <1>2, <7>1
              <8> HIDE DEF z3, p
              <8>2. z3 + (n - i) = p - 1
                BY <3>3, <8>1
              <8> QED BY <8>2 DEF z3
            <7> HIDE DEF z, p, lim
            <7> QED BY <1>2, <4>2, <4>3, <5>2, <7>1, <7>2
          <6>2. z[3] + (n - i) <= lim => y = <<c, z[2], z[3] + (n - i)>>
            BY <2>1, <3>1, <6>1 DEF GoesOn, y
          <6> QED BY <6>1, <6>2
        <5> QED BY <5>1, <5>2
      <4>4. ASSUME p <= lim PROVE x = <<c, z[2], p>>
        <5>0. y = <<c, z[2], p - 1>>
          <6> HIDE DEF p, lim, z
          <6> QED BY <4>1, <4>2, <4>3, <4>4
        <5>1. kk = z[2] /\ oo = p - 1 /\ size = lim
          BY <5>0 DEF kk, oo, size
        <5>2. oo + 1 <= size /\ oo + 1 = p
          <6> HIDE DEF p, lim, z
          <6> QED BY <4>1, <4>2, <4>4, <5>1
        <5> QED BY <2>5, <5>1, <5>2
      <4>5. ASSUME p = lim + 1 PROVE x = <<c, z[2] + 1, 0>>
        <5>0. y = <<c, z[2], p - 1>>
          <6> HIDE DEF p, lim, z
          <6> QED BY <4>1, <4>2, <4>3, <4>5
        <5>1. kk = z[2] /\ oo = p - 1 /\ size = lim
          BY <5>0 DEF kk, oo, size
        <5>2. oo = size
          <6> HIDE DEF p, lim, z
          <6> QED BY <4>1, <4>2, <4>5, <5>1
        <5> QED BY <2>5, <5>1, <5>2
      <4> QED BY <3>1, <4>2, <4>4, <4>5
    <3> QED BY <1>2, <3>2, <3>3
  <2>8. t[1] = <<c, k, o>> /\ t[Len(t)] = x
    BY <1>2, <2>1, <2>2
  <2>9. SentUpTo(c, after, t[Len(t)][2], t[Len(t)][3] + 1)
    BY <1>1, <2>4, <2>8
  <2> QED BY <1>3, <2>6, <2>7, <2>8, <2>9 DEF GoesOn
<1> QED BY <1>4, <1>5

\* The broadcasts of one connection can be counted.
LEMMA SaidLemma ==
  ASSUME IInv, NEW c \in Conn
  PROVE  /\ IsFiniteSet(Said(c)) /\ Cardinality(Said(c)) \in Nat
         /\ Turn(c) \in Nat /\ Turn(c) > 0
<1>0. DOMAIN relayed = 1..Len(relayed) /\ Len(relayed) \in Nat
  BY DEF IInv, TypeOK
<1>1. Said(c) \subseteq 1..Len(relayed) /\ Len(relayed) \in Nat
  BY <1>0 DEF Said
<1>2. IsFiniteSet(1..Len(relayed))
  BY <1>1, FS_Interval
<1>3. IsFiniteSet(Said(c))
  BY <1>1, <1>2, FS_Subset
<1>4. Cardinality(Said(c)) \in Nat
  BY <1>3, FS_CardinalityType
<1> QED BY <1>3, <1>4 DEF Turn

\* A connection whose stream is not touched stays in step.
LEMMA UntouchedStream ==
  ASSUME NEW c \in Conn, InStep(c), Turn(c)' = Turn(c),
         up'[c] = up[c], sent'[c] = sent[c], need'[c] = need[c],
         rd'[c] = "body" <=> rd[c] = "body"
  PROVE  InStep(c)'
<1>1. Offset(c)' = Offset(c)
  BY DEF Offset
<1> QED BY <1>1 DEF InStep

\* Nothing was sent or read yet.
LEMMA InitStream == Init => StreamInv /\ ExactRelay
<1> SUFFICES ASSUME Init PROVE StreamInv /\ ExactRelay
  OBVIOUS
<1>1. ASSUME NEW c \in Conn PROVE Said(c) = {} /\ InStep(c)
  <2>1. Said(c) = {}
    BY DEF Init, Said
  <2>2. Turn(c) = 1
    <3>1. Cardinality({}) = 0
      BY FS_EmptySet
    <3> QED BY <2>1, <3>1 DEF Turn
  <2>3. rd[c] # "body" /\ Offset(c) = 0 /\ up[c] = <<>>
    BY DEF Init, Offset
  <2>4. SentUpTo(c, sent[c], 1, 0)
    <3> SUFFICES ASSUME NEW j \in 1..Len(Script[c])
                 PROVE  sent[c][j] = 0 /\ ~(j < 1)
      BY DEF SentUpTo
    <3>1. Len(Script[c]) \in Nat
      BY RelayAssumption DEF RelayAssumption
    <3> QED BY <3>1 DEF Init
  <2>5. GoesOn(c, up[c], sent[c], 1, 0)
    BY <2>3, <2>4 DEF GoesOn
  <2> QED BY <2>1, <2>2, <2>3, <2>5 DEF InStep
<1> QED BY <1>1 DEF StreamInv, ExactRelay

\* A step that neither sends nor reads.
LEMMA QuietStream ==
  ASSUME IInv, StreamInv, ExactRelay, UNCHANGED <<up, sent, need, relayed>>,
         \A c \in Conn : conn'[c] # "destroyed" =>
           conn[c] # "destroyed" /\ (rd'[c] = "body" <=> rd[c] = "body")
  PROVE  StreamInv' /\ ExactRelay'
<1>1. \A c \in Conn : Turn(c)' = Turn(c)
  BY DEF Turn, Said
<1>2. StreamInv'
  BY <1>1, UntouchedStream DEF StreamInv
<1>3. ExactRelay'
  BY DEF ExactRelay, Said
<1> QED BY <1>2, <1>3

\* Dropping a connection drops its stream and touches no other.
LEMMA DropStream ==
  ASSUME IInv, StreamInv, ExactRelay, NEW c \in Conn, Drop(c)
  PROVE  StreamInv' /\ ExactRelay'
<1>1. \A d \in Conn : Turn(d)' = Turn(d)
  BY DEF Drop, Turn, Said
<1>2. ASSUME NEW d \in Conn, conn'[d] # "destroyed", ~ClientOverlaps PROVE InStep(d)'
  <2>1. d # c /\ conn[d] # "destroyed"
    BY <1>2 DEF Drop, IInv, TypeOK
  <2>2. up'[d] = up[d] /\ sent'[d] = sent[d] /\ need'[d] = need[d] /\ rd'[d] = rd[d]
    BY <2>1 DEF Drop, net, IInv, TypeOK
  <2> QED BY <1>1, <1>2, <2>1, <2>2, UntouchedStream DEF StreamInv
<1>3. ExactRelay'
  BY DEF Drop, ExactRelay, Said
<1> QED BY <1>2, <1>3 DEF StreamInv

\* What a client sends goes on from what it sent before.
LEMMA SendStream ==
  ASSUME IInv, StreamInv, ExactRelay, NEW c \in Conn, NEW k \in 1..Len(Script[c]), SendCell(c, k)
  PROVE  StreamInv' /\ ExactRelay'
<1>1. \A d \in Conn : Turn(d)' = Turn(d)
  BY DEF SendCell, history, Turn, Said
<1>2. ASSUME NEW d \in Conn, conn'[d] # "destroyed", ~ClientOverlaps PROVE InStep(d)'
  <2>1. conn[d] # "destroyed" /\ need'[d] = need[d] /\ rd'[d] = rd[d] /\ InStep(d)
    BY <1>2 DEF SendCell, StreamInv
  <2>2. CASE d # c
    <3>1. up'[d] = up[d] /\ sent'[d] = sent[d]
      BY <2>2 DEF SendCell, IInv, TypeOK
    <3> QED BY <1>1, <2>1, <3>1, UntouchedStream
  <2>3. CASE d = c
    <3> DEFINE s == up[c]
               counts == sent[c]
               after == [counts EXCEPT ![k] = @ + 1]
               t == Turn(c)
               o == Offset(c)
    <3>1. s \in Seq(Cell) /\ counts \in Seq(Nat) /\ Len(counts) = Len(Script[c])
      BY DEF IInv, TypeOK
    <3>2. up'[c] = Append(s, <<c, k, counts[k]>>) /\ sent'[c] = after
      BY DEF SendCell, IInv, TypeOK
    <3>3. t \in Nat /\ t > 0 /\ o \in Nat
      BY SaidLemma DEF Offset
    <3>4. GoesOn(c, s, counts, t, o)
      BY <2>1, <2>3 DEF InStep
    <3>5. t \in 1..Len(Script[c]) => o <= Script[c][t]
      <4>1. ASSUME t \in 1..Len(Script[c]) PROVE Script[c][t] \in Nat
        BY <4>1, RelayAssumption, ElementOfSeq DEF RelayAssumption
      <4>2. CASE rd[c] = "body"
        <5>1. need[c] = Script[c][t] /\ need[c] # 0 /\ o = 1
          BY <2>1, <2>3, <4>2 DEF InStep, IInv, BodyHasSize, Offset
        <5> HIDE DEF t, o
        <5> QED BY <4>1, <5>1
      <4>3. CASE rd[c] # "body"
        <5>1. o = 0
          BY <4>3 DEF Offset
        <5> HIDE DEF t, o
        <5> QED BY <4>1, <5>1
      <4> QED BY <4>2, <4>3
    <3>6. counts[k] <= Script[c][k] /\ \A j \in 1..k - 1 : counts[j] > Script[c][j]
      BY <1>2 DEF SendCell, MaySend
    <3>7. GoesOn(c, Append(s, <<c, k, counts[k]>>), after, t, o)
      <4> HIDE DEF s, counts, t, o
      <4> QED BY <3>1, <3>3, <3>4, <3>5, <3>6, SendLemma
    <3>8. Offset(c)' = o
      BY <2>1, <2>3 DEF Offset
    <3> HIDE DEF s, counts, after, o, t
    <3>9. GoesOn(c, up'[c], sent'[c], t, o)
      BY <3>2, <3>7 DEF after
    <3>10. Turn(c)' = t
      BY <1>1 DEF t
    <3>11. rd'[c] = "body" => t \in 1..Len(Script[c]) /\ need'[c] = Script[c][t]
      BY <2>1, <2>3 DEF InStep, t
    <3> QED BY <2>3, <3>8, <3>9, <3>10, <3>11 DEF InStep
  <2> QED BY <2>2, <2>3
<1>3. ExactRelay'
  BY DEF SendCell, history, ExactRelay, Said
<1> QED BY <1>2, <1>3 DEF StreamInv

\* The announced size is the next message's.
LEMMA DecodedLemma ==
  ASSUME IInv, NEW c \in Conn, InStep(c), rd[c] = "hdr", NEW n \in Decoded(c)
  PROVE  n = Script[c][Turn(c)] /\ Turn(c) \in 1..Len(Script[c]) /\ up[c] # <<>>
<1>1. up[c] # <<>> /\ Head(up[c]) = up[c][1] /\ up[c][1] \in Cell
  BY TailLemma DEF IInv, TypeOK, Decoded
<1>2. up[c][1] = <<c, Turn(c), 0>>
  BY <1>1 DEF InStep, GoesOn, Offset
<1> DEFINE t == Turn(c)
           x == up[c][1]
<1>3. x[1] = c /\ x[2] = t /\ x[3] = 0
  BY <1>2
<1> HIDE DEF t
<1>4. t \in 1..Len(Script[c])
  BY <1>1, <1>3, CellLemma
<1>5. n = Script[c][t]
  <2>1. n \in {Script[x[1]][x[2]]}
    BY <1>1, <1>3 DEF Decoded
  <2> QED BY <1>3, <2>1
<1> QED BY <1>1, <1>4, <1>5 DEF t

\* A header read: the body read that follows waits for the rest of the message.
LEMMA HeaderStream ==
  ASSUME IInv, StreamInv, ExactRelay, NEW c \in Conn, NEW n \in Decoded(c), ReadHeader(c, n)
  PROVE  StreamInv' /\ ExactRelay'
<1>1. \A d \in Conn : Turn(d)' = Turn(d)
  BY DEF ReadHeader, history, Turn, Said
<1>2. ASSUME NEW d \in Conn, conn'[d] # "destroyed", ~ClientOverlaps PROVE InStep(d)'
  <2>1. conn[d] # "destroyed" /\ sent'[d] = sent[d] /\ InStep(d)
    BY <1>2 DEF ReadHeader, net, StreamInv
  <2>2. CASE d # c
    <3>1. up'[d] = up[d] /\ need'[d] = need[d] /\ rd'[d] = rd[d]
      BY <2>2 DEF ReadHeader, IInv, TypeOK
    <3> QED BY <1>1, <2>1, <3>1, UntouchedStream
  <2>3. CASE d = c
    <3> DEFINE s == up[c]
               t == Turn(c)
    <3>1. s \in Seq(Cell) /\ s # <<>> /\ n = Script[c][t] /\ t \in 1..Len(Script[c])
      BY <2>1, <2>3, DecodedLemma DEF IInv, TypeOK, ReadHeader
    <3>2. up'[c] = Tail(s) /\ need'[c] = n /\ rd'[c] = "body" /\ n # 0
      BY DEF ReadHeader, ValidSize, IInv, TypeOK
    <3>3. t \in Nat
      BY SaidLemma
    <3>4. GoesOn(c, s, sent[c], t, 0)
      BY <2>1, <2>3 DEF InStep, ReadHeader, Offset
    <3> HIDE DEF s, t
    <3>5. /\ Tail(s) \in Seq(Cell) /\ Len(Tail(s)) = Len(s) - 1 /\ 1 <= Len(s)
          /\ \A i \in 1..Len(Tail(s)) : Tail(s)[i] = s[i + 1]
      BY <3>1, TailLemma
    <3>6. Script[c][t] \in Nat /\ (0 + 1 <= Script[c][t] => GoesOn(c, Tail(s), sent[c], t, 0 + 1))
      <4>1. Leaves(s, 1, Tail(s))
        BY <3>5 DEF Leaves
      <4>2. Takes(c, s, sent[c], t, 0, 1, Tail(s))
        BY <3>1, <3>3, <3>4, <4>1 DEF Takes
      <4> QED BY <4>2, TakeLemma
    <3>7. GoesOn(c, Tail(s), sent[c], t, 1)
      BY <3>1, <3>2, <3>6
    <3>8. Offset(c)' = 1
      BY <3>2 DEF Offset
    <3>9. Turn(c)' = t
      BY <1>1 DEF t
    <3> QED BY <2>1, <2>3, <3>1, <3>2, <3>7, <3>8, <3>9 DEF InStep
  <2> QED BY <2>2, <2>3
<1>3. ExactRelay'
  BY DEF ReadHeader, history, ExactRelay, Said
<1> QED BY <1>2, <1>3 DEF StreamInv

\* A body read: what is broadcast is the message, and the next header follows.
LEMMA BodyStream ==
  ASSUME IInv, StreamInv, ExactRelay, ~ClientOverlaps, NEW c \in Conn, ReadBody(c)
  PROVE  StreamInv' /\ ExactRelay'
<1> DEFINE s == up[c]
           t == Turn(c)
           n == need[c]
           f == Len(relayed) + 1
           data == SubSeq(s, 1, n)
           r == SubSeq(s, n + 1, Len(s))
           e == [from |-> c, data |-> data]
<1>1. /\ s \in Seq(Cell) /\ rd[c] = "body" /\ conn[c] = "open" /\ InStep(c)
      /\ n \in Nat /\ n > 0 /\ n <= Len(s)
  BY RelayAssumption DEF IInv, TypeOK, RegistryConsistent, BodyHasSize, ReadBody, Reading, StreamInv, RelayAssumption
<1>2. n = Script[c][t] /\ t \in 1..Len(Script[c]) /\ t \in Nat /\ GoesOn(c, s, sent[c], t, 1)
  BY <1>1, SaidLemma DEF InStep, Offset
<1>3. /\ data \in Seq(Cell) /\ Len(data) = n
      /\ \A i \in 1..n : data[i] = s[i]
  <2>1. \A i \in 1..n : s[i] \in Cell
    BY <1>1
  <2> HIDE DEF s, n
  <2>2. \A i \in 1..n : 1 + i - 1 = i
    BY <1>1
  <2> QED BY <1>1, <2>1, <2>2, SubSeqProperties
<1>4. /\ r \in Seq(Cell) /\ Len(r) = Len(s) - n
      /\ \A i \in 1..Len(r) : r[i] = s[i + n]
  <2>1. \A i \in n + 1..Len(s) : s[i] \in Cell
    BY <1>1
  <2> HIDE DEF s, n
  <2>2. /\ r \in Seq(Cell)
        /\ Len(r) = IF n + 1 <= Len(s) THEN Len(s) - (n + 1) + 1 ELSE 0
        /\ \A i \in 1..Len(s) - (n + 1) + 1 : r[i] = s[n + 1 + i - 1]
    BY <1>1, <2>1, SubSeqProperties
  <2>3. Len(s) \in Nat
    BY <1>1
  <2>4. Len(r) = Len(s) - n
    BY <1>1, <2>2, <2>3
  <2>5. ASSUME NEW i \in 1..Len(r) PROVE r[i] = s[i + n]
    <3>1. i \in 1..Len(s) - (n + 1) + 1 /\ n + 1 + i - 1 = i + n
      BY <1>1, <2>3, <2>4
    <3> QED BY <2>2, <3>1
  <2> QED BY <2>2, <2>4, <2>5
<1>5. relayed' = Append(relayed, e) /\ up'[c] = r /\ rd'[c] = "posted" /\ UNCHANGED <<conn, sent, need>>
  BY <1>1 DEF ReadBody, AfterBody, net, IInv, TypeOK
<1>6. relayed \in Seq([from: Conn, data: Payload]) /\ e \in [from: Conn, data: Payload]
  BY BodyLemma DEF IInv, TypeOK
<1>7. e.from = c /\ e.data = data
  OBVIOUS
<1>o. \A d \in Conn \ {c} : up'[d] = up[d] /\ rd'[d] = rd[d]
  BY DEF ReadBody, IInv, TypeOK
<1> HIDE DEF s, t, n, data, r, e
<1>8. /\ \A j \in 1..n : s[j] = <<c, t, j>>
      /\ GoesOn(c, r, sent[c], t + 1, 0)
  <2>1. Leaves(s, n, r)
    BY <1>1, <1>4 DEF Leaves
  <2> DEFINE counts == sent[c]
  <2>2. Takes(c, s, counts, t, 1, n, r) /\ n = Script[c][t]
    BY <1>1, <1>2, <2>1 DEF Takes
  <2> HIDE DEF counts
  <2>3. OpensWith(c, s, t, n)
    BY <2>2, TakeWhole
  <2>4. GoesOn(c, r, counts, t + 1, 0)
    BY <2>2, TakeWhole
  <2> QED BY <2>3, <2>4 DEF counts, OpensWith
<1>9. /\ Len(relayed) \in Nat /\ DOMAIN relayed = 1..Len(relayed) /\ DOMAIN relayed' = 1..Len(relayed) + 1
      /\ \A i \in 1..Len(relayed) : relayed'[i] = relayed[i]
      /\ relayed'[Len(relayed) + 1] = e
  BY <1>5, <1>6, AppendLemma
<1>10. /\ f \in Nat /\ DOMAIN relayed' = DOMAIN relayed \cup {f}
       /\ \A g \in DOMAIN relayed : g \in Nat /\ g < f /\ relayed'[g] = relayed[g]
       /\ relayed'[f] = e
  BY <1>9
<1> HIDE DEF f
<1>11. /\ Said(c)' = Said(c) \cup {f} /\ f \notin Said(c)
       /\ \A d \in Conn \ {c} : Said(d)' = Said(d)
  BY <1>7, <1>10 DEF Said
<1>12. Cardinality(Said(c)') = t /\ Turn(c)' = t + 1
  <2>1. Cardinality(Said(c)') = Cardinality(Said(c)) + 1
    BY <1>11, SaidLemma, FS_AddElement
  <2> QED BY <2>1 DEF Turn, t
<1>13. StreamInv'
  <2> SUFFICES ASSUME NEW d \in Conn, conn'[d] # "destroyed" PROVE InStep(d)'
    BY DEF StreamInv
  <2>1. CASE d = c
    <3>1. Offset(c)' = 0 /\ rd'[c] # "body"
      BY <1>5 DEF Offset
    <3>2. GoesOn(c, up'[c], sent'[c], t + 1, 0)
      BY <1>1, <1>2, <1>5, <1>8
    <3> QED BY <1>12, <2>1, <3>1, <3>2 DEF InStep
  <2>2. CASE d # c
    <3>1. Turn(d)' = Turn(d)
      BY <1>11, <2>2 DEF Turn
    <3>2. InStep(d)
      BY <1>5 DEF StreamInv
    <3> QED BY <1>o, <1>5, <2>2, <3>1, <3>2, UntouchedStream
  <2> QED BY <2>1, <2>2
<1>14. data = Message(c, t)
  <2>1. ASSUME NEW j \in 1..n PROVE data[j] = <<c, t, j>>
    BY <1>3, <1>8
  <2>2. data = [j \in 1..n |-> data[j]]
    BY <1>3
  <2>3. [j \in 1..n |-> data[j]] = [j \in 1..n |-> <<c, t, j>>]
    BY <2>1
  <2> QED BY <1>2, <2>2, <2>3 DEF Message
<1>15. ExactRelay'
  <2> SUFFICES ASSUME NEW d \in Conn, NEW g \in Said(d)'
               PROVE  relayed'[g].data = Message(d, Cardinality({h \in Said(d)' : h <= g}))
    BY DEF ExactRelay, Message
  <2>1. CASE g \in Said(d)
    <3>1. g < f /\ g \in Nat /\ relayed'[g] = relayed[g]
      BY <1>10, <2>1 DEF Said
    <3>2. {h \in Said(d)' : h <= g} = {h \in Said(d) : h <= g}
      <4>1. ~(f <= g)
        BY <1>10, <3>1
      <4> QED BY <1>11, <4>1
    <3>3. relayed[g].data = Message(d, Cardinality({h \in Said(d) : h <= g}))
      BY <2>1 DEF ExactRelay
    <3> QED BY <3>1, <3>2, <3>3
  <2>2. CASE d = c /\ g = f
    <3>1. \A h \in Said(c)' : h <= f
      BY <1>10, <1>11 DEF Said
    <3>2. {h \in Said(c)' : h <= f} = Said(c)'
      BY <3>1
    <3> QED BY <1>7, <1>10, <1>12, <1>14, <2>2, <3>2
  <2> QED BY <1>11, <2>1, <2>2
<1> QED BY <1>13, <1>15

\* Every step keeps every stream in step.
LEMMA StepStream ==
  IInv /\ StreamInv /\ ExactRelay /\ [Next]_vars => StreamInv' /\ ExactRelay'
<1> SUFFICES ASSUME IInv, StreamInv, ExactRelay, [Next]_vars PROVE StreamInv' /\ ExactRelay'
  OBVIOUS
<1>0. CASE ClientOverlaps
  BY <1>0 DEF StreamInv, ExactRelay
<1>1. CASE AcceptFail \/ ReArm \/ UNCHANGED vars
  BY <1>1, QuietStream DEF AcceptFail, ReArm, vars, net, history
<1>3. ASSUME NEW c \in Conn, Accept(c) PROVE StreamInv' /\ ExactRelay'
  <2>1. rd[c] # "body" /\ rd'[c] = "hdr" /\ \A d \in Conn \ {c} : rd'[d] = rd[d] /\ conn'[d] = conn[d]
    BY <1>3 DEF Accept, IInv, TypeOK, RegistryConsistent, Reading
  <2> QED BY <1>3, <2>1, QuietStream DEF Accept, net
<1>4. ASSUME NEW c \in Conn, Reader(c), ~ClientOverlaps PROVE StreamInv' /\ ExactRelay'
  <2>1. ASSUME NEW n \in Decoded(c), ReadHeader(c, n) PROVE StreamInv' /\ ExactRelay'
    BY <2>1, HeaderStream
  <2>2. ASSUME NEW n \in Decoded(c), RefuseHeader(c, n) PROVE StreamInv' /\ ExactRelay'
    BY <2>2, DropStream DEF RefuseHeader
  <2>3. CASE ReadBody(c)
    BY <1>4, <2>3, BodyStream
  <2>4. CASE Repost(c)
    BY <2>4, QuietStream DEF Repost, net, history, IInv, TypeOK
  <2>5. CASE ReadError(c)
    BY <2>5, DropStream DEF ReadError
  <2> QED BY <1>4, <2>1, <2>2, <2>3, <2>4, <2>5 DEF Reader
<1>5. ASSUME NEW c \in Conn, Writer(c) PROVE StreamInv' /\ ExactRelay'
  BY <1>5, QuietStream DEF Writer, Transfer, Resume, WriteError, ResumeFreed, net, history
<1>6. ASSUME NEW c \in Conn, Client(c) PROVE StreamInv' /\ ExactRelay'
  <2>1. CASE Connect(c)
    BY <2>1, QuietStream DEF Connect, net, history, IInv, TypeOK
  <2>2. ASSUME NEW k \in 1..Len(Script[c]), SendCell(c, k) PROVE StreamInv' /\ ExactRelay'
    BY <2>2, SendStream
  <2>3. ASSUME NEW how \in {"gone", "reset"}, HangUp(c, how) PROVE StreamInv' /\ ExactRelay'
    BY <2>3, QuietStream DEF HangUp, history
  <2> QED BY <1>6, <2>1, <2>2, <2>3 DEF Client
<1> QED BY <1>0, <1>1, <1>3, <1>4, <1>5, <1>6 DEF Next

LEMMA Streams == Spec => [](StreamInv /\ ExactRelay)
BY InitIInv, StepIInv, InitStream, StepStream, PTL DEF Spec

\* A client whose writes do not overlap is relayed faithfully, for any script, any
\* number of clients and any order of the completions.
THEOREM RelaysExactly == Spec => []ExactRelay
BY Streams, PTL

\* A client within the limits that stays is not dropped: a size that is decoded is
\* the size it announced, and a read fails only on a connection that ended.
LEMMA StepPatient ==
  ASSUME IInv, StreamInv, [Next]_vars, NEW c \in Conn,
         KeepsToTheLimits(c), peer[c] = "up", conn[c] = "open"
  PROVE  conn'[c] = "open"
<1>1. ASSUME NEW d \in Conn, Drop(d), d # c PROVE conn'[c] = "open"
  BY <1>1 DEF Drop, IInv, TypeOK
<1>2. ASSUME NEW d \in Conn, Reader(d) PROVE conn'[c] = "open"
  <2>1. ASSUME NEW n \in Decoded(d), RefuseHeader(d, n) PROVE conn'[c] = "open"
    <3>1. ASSUME d = c PROVE FALSE
      <4>1. n = Script[c][Turn(c)] /\ Turn(c) \in 1..Len(Script[c])
        BY <2>1, <3>1, DecodedLemma DEF RefuseHeader, StreamInv, KeepsToTheLimits
      <4>2. DOMAIN Script[c] = 1..Len(Script[c])
        BY RelayAssumption DEF RelayAssumption
      <4>3. n \in 1..MaxMsg /\ MaxMsg \in Nat
        BY <4>1, <4>2, RelayAssumption DEF RelayAssumption, KeepsToTheLimits
      <4> QED BY <2>1, <4>3 DEF RefuseHeader, ValidSize
    <3> QED BY <1>1, <2>1, <3>1 DEF RefuseHeader
  <2>2. CASE ReadError(d)
    <3>1. d # c
      BY <2>2 DEF ReadError, ReadFails
    <3> QED BY <1>1, <2>2, <3>1 DEF ReadError
  <2>3. CASE ReadBody(d) \/ Repost(d)
    BY <2>3 DEF ReadBody, Repost
  <2>4. ASSUME NEW n \in Decoded(d), ReadHeader(d, n) PROVE conn'[c] = "open"
    BY <2>4 DEF ReadHeader
  <2> QED BY <1>2, <2>1, <2>2, <2>3, <2>4 DEF Reader
<1>3. ASSUME NEW d \in Conn, Accept(d) \/ Writer(d) \/ Client(d) PROVE conn'[c] = "open"
  BY <1>3 DEF Accept, Writer, Transfer, Resume, WriteError, ResumeFreed,
              Client, Connect, SendCell, HangUp, IInv, TypeOK
<1>4. CASE AcceptFail \/ ReArm \/ UNCHANGED vars
  BY <1>4 DEF AcceptFail, ReArm, vars
<1> QED BY <1>2, <1>3, <1>4 DEF Next

\* However slowly such a client sends, it keeps its place until it hangs up.
THEOREM Patient == Spec => NeverGivesUp
<1>1. IInv /\ StreamInv /\ [Next]_vars =>
        [\A c \in Conn :
           KeepsToTheLimits(c) /\ peer[c] = "up" /\ conn[c] = "open" => conn'[c] = "open"]_vars
  BY StepPatient
<1> QED BY <1>1, Invariance, Streams, PTL DEF Spec, NeverGivesUp

-----------------------------------------------------------------------------
(* The relay implements the chat room.                                      *)

\* The relay starts as an empty room.
LEMMA InitRoom == Init => Room!Init
BY DEF Init, Room!Init

\* A frame from an open connection is something said in the room: the loop over
\* the registry reaches exactly the other members.
LEMMA SayLemma ==
  ASSUME IInv, NEW c \in Conn, ReadBody(c)
  PROVE  Room!Say(c)
<1> DEFINE members == {d \in Conn : conn[d] = "open"}
           data == SubSeq(up[c], 1, need[c])
           e == [from |-> c, data |-> data]
<1>1. c \in members
  BY DEF IInv, RegistryConsistent, ReadBody, Reading
<1>2. Recipients(c) = members \ {c}
  BY DEF IInv, RegistryConsistent, Recipients, ToSet, TypeOK
<1>3. relayed' = Append(relayed, e)
  BY DEF ReadBody
<1>4. /\ Len(relayed') = Len(relayed) + 1
      /\ relayed'[Len(relayed')] = e
  <2>1. e \in [from: Conn, data: Payload]
    BY BodyLemma
  <2>2. QED
    BY <1>3, <2>1, AppendProperties DEF IInv, TypeOK
<1>5. data \in Payload
  BY BodyLemma
<1>6. started' = [d \in Conn |-> IF d \in members \ {c}
                                THEN Append(started[d], Len(relayed) + 1)
                                ELSE started[d]]
  BY <1>2 DEF ReadBody
<1>7. UNCHANGED <<conn, joined, left>>
  BY DEF ReadBody
<1>8. relayed'[Len(relayed')].data = data
  <2>1. e.data = data
    OBVIOUS
  <2> HIDE DEF e
  <2>2. QED
    BY <1>4, <2>1
<1> HIDE DEF data
<1>9. QED
  BY <1>1, <1>3, <1>4, <1>5, <1>6, <1>7, <1>8 DEF Room!Say

\* Dropping a connection is leaving the room.
LEMMA LeaveLemma ==
  ASSUME IInv, NEW c \in Conn, conn[c] = "open", Drop(c)
  PROVE  Room!Leave(c)
BY DEF IInv, TypeOK, Drop, Room!Leave

\* Accepting a connection is entering the room.
LEMMA EnterLemma ==
  ASSUME IInv, NEW c \in Conn, Accept(c)
  PROVE  Room!Enter(c)
BY DEF IInv, TypeOK, NotYetJoined, Accept, Room!Enter

\* Every step of the relay is a step of the room or changes nothing in it.
THEOREM StepRoom == IInv /\ [Next]_vars => [Room!Next]_(Room!vars)
<1> SUFFICES ASSUME IInv, [Next]_vars PROVE [Room!Next]_(Room!vars)
  OBVIOUS
<1>1. ASSUME NEW c \in Conn, Accept(c) PROVE Room!Next
  BY <1>1, EnterLemma DEF Room!Next
<1>2. ASSUME NEW c \in Conn, Reader(c) PROVE [Room!Next]_(Room!vars)
  <2>1. ASSUME NEW n \in Decoded(c), RefuseHeader(c, n) PROVE Room!Next
    <3>1. conn[c] = "open" /\ Drop(c)
      BY <2>1 DEF IInv, RefuseHeader, RegistryConsistent, Reading
    <3>2. QED
      BY <3>1, LeaveLemma DEF Room!Next
  <2>2. CASE ReadError(c)
    <3>1. conn[c] = "open" /\ Drop(c)
      BY <2>2 DEF IInv, ReadError, RegistryConsistent, Reading
    <3>2. QED
      BY <3>1, LeaveLemma DEF Room!Next
  <2>3. CASE ReadBody(c)
    BY <2>3, SayLemma DEF Room!Next
  <2>4. ASSUME NEW n \in Decoded(c), ReadHeader(c, n) PROVE UNCHANGED Room!vars
    BY <2>4 DEF ReadHeader, history, Room!vars
  <2>5. CASE Repost(c)
    BY <2>5 DEF Repost, history, Room!vars
  <2>6. QED
    BY <1>2, <2>1, <2>2, <2>3, <2>4, <2>5 DEF Reader
<1>3. ASSUME NEW c \in Conn, Writer(c) PROVE UNCHANGED Room!vars
  BY <1>3 DEF Writer, Transfer, Resume, WriteError, ResumeFreed, history, Room!vars
<1>4. ASSUME NEW c \in Conn, Client(c) PROVE UNCHANGED Room!vars
  <2>1. CASE Connect(c)
    <3>1. {d \in Conn : conn'[d] = "open"} = {d \in Conn : conn[d] = "open"}
      BY <2>1 DEF Connect, IInv, TypeOK
    <3>2. QED
      BY <2>1, <3>1 DEF Connect, history, Room!vars
  <2>2. ASSUME NEW k \in 1..Len(Script[c]), SendCell(c, k) PROVE UNCHANGED Room!vars
    BY <2>2 DEF SendCell, history, Room!vars
  <2>3. ASSUME NEW how \in {"gone", "reset"}, HangUp(c, how) PROVE UNCHANGED Room!vars
    BY <2>3 DEF HangUp, history, Room!vars
  <2>4. QED
    BY <1>4, <2>1, <2>2, <2>3 DEF Client
<1>5. CASE AcceptFail \/ ReArm \/ UNCHANGED vars
  BY <1>5 DEF AcceptFail, ReArm, vars, history, Room!vars
<1>6. QED
  BY <1>1, <1>2, <1>3, <1>4, <1>5 DEF Next

\* The server keeps the promise of the room whatever clients send or omit and
\* however the completions fall.
THEOREM Refinement == Spec => ImplementsRoom
BY InitRoom, StepRoom, Invariance, PTL DEF Spec, ImplementsRoom, Room!Spec

RoomTheorems == INSTANCE ChatRoomProofs WITH
                  members <- {c \in Conn : conn[c] = "open"},
                  log <- relayed,
                  inbox <- started

\* Every connection is written what the others sent while it was open, all of it
\* and nothing else, however many connections there are.
THEOREM NobodyMissesAnything == Spec => []HearsExactlyTheOthers
<1>1. Room!Init => RoomTheorems!Init
  BY DEF Room!Init, RoomTheorems!Init
<1>2. [Room!Next]_(Room!vars) => [RoomTheorems!Next]_(RoomTheorems!vars)
  BY DEF Room!Next, Room!vars, Room!Enter, Room!Leave, Room!Say,
         RoomTheorems!Next, RoomTheorems!vars, RoomTheorems!Enter, RoomTheorems!Leave,
         RoomTheorems!Say
<1>3. RoomTheorems!HearsExactlyTheOthers => HearsExactlyTheOthers
  BY DEF HearsExactlyTheOthers, Room!HearsExactlyTheOthers, Room!Audible, Room!Until,
         RoomTheorems!HearsExactlyTheOthers, RoomTheorems!Audible, RoomTheorems!Until
<1>4. QED
  BY <1>1, <1>2, <1>3, InitRoom, StepRoom, Invariance, RoomTheorems!HearsAll, PTL
     DEF Spec, RoomTheorems!Spec
=============================================================================
