----------------------------- MODULE ChatClient -----------------------------
(***************************************************************************)
(* What the client of src/src/client promises to the chat, without threads *)
(* or sockets: it shows what it hears in the order in which it is heard,   *)
(* as a text or as an error, and what the user says in the order in which  *)
(* it is said, in one list; and it sends what the user said, in that order *)
(* and nothing else.  ClientLink implements this specification, and Chat   *)
(* puts several of them into one room.                                     *)
(***************************************************************************)
EXTENDS Integers, Sequences, FiniteSets

VARIABLES
  shown,   \* the list: <<"own" | "text" | "error", n>>, each kind of origin counted
  sent     \* numbers of the user's messages handed to the connection

vars == <<shown, sent>>

Said(list) == Cardinality({i \in DOMAIN list : list[i][1] = "own"})
HeardCount(list) == Cardinality({i \in DOMAIN list : list[i][1] # "own"})

Init == shown = <<>> /\ sent = <<>>

Say ==
  /\ shown' = Append(shown, <<"own", Said(shown) + 1>>)
  /\ UNCHANGED sent

Hear ==
  /\ \E kind \in {"text", "error"} : shown' = Append(shown, <<kind, HeardCount(shown) + 1>>)
  /\ UNCHANGED sent

\* A message is shown before it is sent.
Send ==
  /\ Len(sent) < Said(shown)
  /\ sent' = Append(sent, Len(sent) + 1)
  /\ UNCHANGED shown

Next == Say \/ Hear \/ Send

Spec == Init /\ [][Next]_vars
=============================================================================
