-------------------------------- MODULE Chat --------------------------------
(***************************************************************************)
(* The whole system: users, their clients and the server between them.     *)
(* The server is the room of ChatRoom, which Relay implements; a client    *)
(* behaves as ChatClient, which ClientLink implements.  What is added is   *)
(* what happens between the two: connections that come up and are lost,    *)
(* messages on their way, and who can read what.                           *)
(*                                                                         *)
(* The n-th message of c is <<c, n>> and travels as n, from c.  A client's *)
(* messages are whole and in order on the wire as long as its own writes   *)
(* do not overlap (ClientLink, WireIsMessages); that is assumed here.  Of  *)
(* what the server writes to a client it is not: two broadcasts that are   *)
(* both under way to it may mix (Relay, NoConcurrentWrites), and from      *)
(* there on its list is not followed.                                      *)
(***************************************************************************)
EXTENDS ChatRoom, SequencesExt

CONSTANTS
  Recipients,   \* per client: the keys its user has picked, which may be its own
  MaxSaid,      \* bound: messages of all users together
  Leavers       \* bound: who may quit or lose the connection

ASSUME ChatAssumption ==
  /\ Recipients \in [Conn -> (SUBSET Conn) \ {{}}]
  /\ MaxSaid \in Nat
  /\ Leavers \subseteq Conn

VARIABLES
  state,    \* of a client: "away", "connected", what it hears is "mixed",
            \* connection "lost", process "gone"
  secret,   \* no account ("none"), account chosen ("locked"), passphrase accepted ("unlocked")
  shown,    \* its list of messages, as in ChatClient
  sent,     \* how many of its messages were handed to its connection
  past      \* history: for every message what its author saw when saying it

clients == <<state, secret, shown, sent, past>>
room == <<members, log, joined, left, inbox>>

C(c) == INSTANCE ChatClient WITH shown <- shown[c], sent <- [i \in 1..sent[c] |-> i]

Said(c) == C(c)!Said(shown[c])
Heard(c) == C(c)!HeardCount(shown[c])
IsFrom(c, f) == log[f].from = c

\* How many messages of c the server has passed on.
Relayed(c) == Cardinality({f \in DOMAIN log : IsFrom(c, f)})

\* The message that an entry of c's list stands for.
MessageOf(c, item) ==
  IF item[1] = "own" THEN <<c, item[2]>>
  ELSE LET f == log[inbox[c][item[2]]] IN <<f.from, f.data>>

Messages(c) == [i \in DOMAIN shown[c] |-> MessageOf(c, shown[c][i])]

ChatTypeOK ==
  /\ state \in [Conn -> {"away", "connected", "mixed", "lost", "gone"}]
  /\ secret \in [Conn -> {"none", "locked", "unlocked"}]
  /\ \A c \in Conn :
       /\ shown[c] \in Seq({"own", "text", "error"} \X (1..MaxSaid))
       /\ sent[c] \in Relayed(c)..Said(c)
       /\ Heard(c) <= Len(inbox[c])
  /\ DOMAIN past = {m \in Conn \X (1..MaxSaid) : m[2] <= Said(m[1])}

ChatInit ==
  /\ Init
  /\ state = [c \in Conn |-> "away"]
  /\ secret = [c \in Conn |-> "none"]
  /\ shown = [c \in Conn |-> <<>>]
  /\ sent = [c \in Conn |-> 0]
  /\ past = << >>

Alive(c) == state[c] # "gone"

-----------------------------------------------------------------------------
(* The user of c.                                                           *)

LogIn(c) ==
  /\ Alive(c) /\ secret[c] = "none"
  /\ secret' = [secret EXCEPT ![c] = "locked"]
  /\ UNCHANGED <<room, state, shown, sent, past>>

Unlock(c) ==
  /\ Alive(c) /\ secret[c] = "locked"
  /\ secret' = [secret EXCEPT ![c] = "unlocked"]
  /\ UNCHANGED <<room, state, shown, sent, past>>

\* ENTER in the chat: shown at once, whatever the connection.
UserSays(c) ==
  /\ Alive(c) /\ secret[c] = "unlocked"
  /\ Cardinality(DOMAIN past) < MaxSaid
  /\ LET m == <<c, Said(c) + 1>> IN
       /\ shown' = [shown EXCEPT ![c] = Append(@, <<"own", m[2]>>)]
       /\ past' = [l \in DOMAIN past \cup {m} |-> IF l = m THEN ToSet(Messages(c)) ELSE past[l]]
  /\ UNCHANGED <<room, state, secret, sent>>

Quit(c) ==
  /\ c \in Leavers /\ state[c] \in {"connected", "mixed", "lost"}
  /\ state' = [state EXCEPT ![c] = "gone"]
  /\ UNCHANGED <<room, secret, shown, sent, past>>

-----------------------------------------------------------------------------
(* The connection of c.                                                     *)

Connect(c) ==
  /\ state[c] = "away"
  /\ state' = [state EXCEPT ![c] = "connected"]
  /\ UNCHANGED <<room, secret, shown, sent, past>>

\* The connection breaks; the user is not told.
Lose(c) ==
  /\ c \in Leavers /\ state[c] = "connected"
  /\ state' = [state EXCEPT ![c] = "lost"]
  /\ UNCHANGED <<room, secret, shown, sent, past>>

\* The server started a broadcast to c while another one was outstanding, and the
\* two frames have mixed: both have not been heard yet.
Mix(c) ==
  /\ state[c] = "connected" /\ Heard(c) + 2 <= Len(inbox[c])
  /\ state' = [state EXCEPT ![c] = "mixed"]
  /\ UNCHANGED <<room, secret, shown, sent, past>>

\* What is read out of the mixture is refused as a header, or is no message at all:
\* the client hangs up or ends.  It may also go on.
Break(c) ==
  /\ state[c] = "mixed"
  /\ \E end \in {"lost", "gone"} : state' = [state EXCEPT ![c] = end]
  /\ UNCHANGED <<room, secret, shown, sent, past>>

\* The posted handler writes the message.
Send(c) ==
  /\ state[c] \in {"connected", "mixed"} /\ sent[c] < Said(c)
  /\ sent' = [sent EXCEPT ![c] = @ + 1]
  /\ UNCHANGED <<room, state, secret, shown, past>>

\* Mistakes: of two frames the first is lost; the last frame is read first.
SkipsOne(c) == IF Heard(c) + 2 <= Len(inbox[c]) THEN Heard(c) + 2 ELSE Heard(c) + 1
LastFrame(c) == Len(inbox[c]) - Heard(c)

NextFrame(c) == Heard(c) + 1

\* Mistake: the recipients are the reader's.
DecryptedByOwn(c, from) ==
  IF from \in Recipients[c] /\ secret[c] = "unlocked" THEN "text" ELSE "error"

\* gpg::decrypt: for the recipients' keys only, once the passphrase is there.
Decrypted(c, from) ==
  IF c \in Recipients[from] /\ secret[c] = "unlocked" THEN "text" ELSE "error"

\* A frame that comes before there is an account ends the process.
Hear(c) ==
  /\ state[c] = "connected" /\ Heard(c) < Len(inbox[c])
  /\ LET k == NextFrame(c) IN
       IF secret[c] = "none"
       THEN state' = [state EXCEPT ![c] = "gone"] /\ UNCHANGED shown
       ELSE /\ shown' = [shown EXCEPT ![c] = Append(@, <<Decrypted(c, log[inbox[c][k]].from), k>>)]
            /\ UNCHANGED state
  /\ UNCHANGED <<room, secret, sent, past>>

-----------------------------------------------------------------------------
(* The server.                                                              *)

Accept(c) ==
  /\ state[c] # "away"
  /\ Enter(c)
  /\ UNCHANGED clients

UnderWay(c) == Relayed(c) < sent[c]

\* A message of c has arrived: it may have been on its way when c went.
Pass(c) ==
  /\ UnderWay(c)
  /\ log' = Append(log, [from |-> c, data |-> Relayed(c) + 1])
  /\ Say(c)
  /\ UNCHANGED clients

Notice(c) ==
  /\ state[c] \in {"lost", "gone"}
  /\ Leave(c)
  /\ UNCHANGED clients

-----------------------------------------------------------------------------
User(c) == LogIn(c) \/ Unlock(c) \/ UserSays(c) \/ Quit(c)
Connection(c) == Connect(c) \/ Lose(c) \/ Mix(c) \/ Break(c) \/ Send(c) \/ Hear(c)
Server(c) == Accept(c) \/ Pass(c) \/ Notice(c)

ChatNext == \E c \in Conn : User(c) \/ Connection(c) \/ Server(c)

ChatSpec == ChatInit /\ [][ChatNext]_<<room, clients>>

\* What arrives is read, what is posted is written, what is read is passed on.
ChatFairSpec ==
  /\ ChatSpec
  /\ \A c \in Conn : WF_clients(Send(c)) /\ WF_clients(Hear(c))
  /\ \A c \in Conn : WF_room(Accept(c)) /\ WF_room(Pass(c))

-----------------------------------------------------------------------------
\* An answer is never shown before what it answers: if the author of m saw l when
\* saying m, whoever shows both shows l first, be it a text or an error.
CausalOrder ==
  \A c \in Conn :
    LET list == Messages(c) IN
      \A i, j \in DOMAIN list : list[i] \in past[list[j]] => i < j

\* The positions of the log that c heard, up to the frame f, if it missed nothing:
\* what the others said since it came.
DueBefore(c, f) == {g \in joined[c] + 1 .. f : ~IsFrom(c, g)}

\* Nothing is shown twice, the author's own least of all, and whoever shows a
\* message of another shows all that the server passed on before it: a frame that
\* cannot be read takes its place too.
NoneTwiceNoneMissing ==
  \A c \in Conn :
    LET list == Messages(c) IN
      /\ IsInjective(list)
      /\ \A i \in DOMAIN list : shown[c][i][1] # "own" =>
           \A g \in DueBefore(c, inbox[c][shown[c][i][2]]) :
             <<log[g].from, log[g].data>> \in ToSet(list)

\* The lists of all users are sound.
ListsSound == ChatTypeOK /\ NoneTwiceNoneMissing

Reads(c, m) == \E i \in DOMAIN shown[c] : shown[c][i][1] = "text" /\ Messages(c)[i] = m
Ready(c, d) == {c, d} \subseteq members /\ secret[d] = "unlocked"
BothConnected(c, d) == state[c] = "connected" /\ state[d] = "connected"

\* A recipient who is in the room with the author, and has logged in, reads what is
\* said, unless one of the two goes or loses its connection, or two broadcasts to
\* one of them mix.
RecipientsRead ==
  \A c, d \in Conn :
    c # d /\ d \in Recipients[c] =>
      ((Ready(c, d) /\ Said(c) > sent[c])
         ~> (Reads(d, <<c, Said(c)>>) \/ ~BothConnected(c, d)))
=============================================================================
