------------------------------ MODULE ChatRoom ------------------------------
(***************************************************************************)
(* What the server of src/src/server promises, without sockets or threads: *)
(* a room.  Whoever is in the room hears everything the others say while   *)
(* it is in, exactly once and in the one order in which things were said,  *)
(* and never hears itself.  Relay implements this specification.           *)
(***************************************************************************)
EXTENDS Integers, Sequences

CONSTANTS
  Conn,     \* who may enter, each at most once
  Payload   \* what may be said

VARIABLES
  members,  \* who is in the room
  log,      \* everything said: [from, data], in order
  joined,   \* joined[c]: length of the log when c entered, -1 before
  left,     \* left[c]: length of the log when c left, -1 before
  inbox     \* inbox[c]: positions in the log of what c was told

vars == <<members, log, joined, left, inbox>>

TypeOK ==
  /\ members \subseteq Conn
  /\ log \in Seq([from: Conn, data: Payload])
  /\ joined \in [Conn -> Nat \cup {-1}]
  /\ left \in [Conn -> Nat \cup {-1}]
  /\ inbox \in [Conn -> Seq(Nat)]

Init ==
  /\ members = {}
  /\ log = <<>>
  /\ joined = [c \in Conn |-> -1]
  /\ left = [c \in Conn |-> -1]
  /\ inbox = [c \in Conn |-> <<>>]

Enter(c) ==
  /\ joined[c] = -1
  /\ members' = members \cup {c}
  /\ joined' = [joined EXCEPT ![c] = Len(log)]
  /\ UNCHANGED <<log, left, inbox>>

Leave(c) ==
  /\ c \in members
  /\ members' = members \ {c}
  /\ left' = [left EXCEPT ![c] = Len(log)]
  /\ UNCHANGED <<log, joined, inbox>>

\* c says something: the last entry of the new log, its data not constrained
\* further.
Say(c) ==
  /\ c \in members
  /\ Len(log') = Len(log) + 1
  /\ LET d == log'[Len(log')].data IN
       /\ d \in Payload
       /\ log' = Append(log, [from |-> c, data |-> d])
  /\ inbox' = [x \in Conn |-> IF x \in members \ {c}
                              THEN Append(inbox[x], Len(log) + 1)
                              ELSE inbox[x]]
  /\ UNCHANGED <<members, joined, left>>

Next == \E c \in Conn : Enter(c) \/ Leave(c) \/ Say(c)

Spec == Init /\ [][Next]_vars

-----------------------------------------------------------------------------
\* What c must have heard: what the others said between its entry and its
\* leaving (or now, while it is in).
Until(c) == IF c \in members THEN Len(log) ELSE left[c]

Audible(c) == {f \in joined[c] + 1 .. Until(c) : log[f].from # c}

\* Nobody misses a message of another member, and nobody hears itself, a
\* message from before it came or one from after it left: the recipient loop of
\* the broadcast handler, server_config.cpp:102-105.
HearsExactlyTheOthers ==
  \A c \in Conn : {inbox[c][i] : i \in DOMAIN inbox[c]} =
                    IF joined[c] = -1 THEN {} ELSE Audible(c)

\* Everyone is told in the order of the one log and never twice: handlers run
\* one at a time and start the writes as they go.
HearsInOrder ==
  \A c \in Conn : \A i, j \in DOMAIN inbox[c] : i < j => inbox[c][i] < inbox[c][j]
=============================================================================
