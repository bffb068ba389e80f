------------------------------ MODULE MCRelay ------------------------------
(***************************************************************************)
(* Small rooms for TLC.  The scripts bound everything: each connection is  *)
(* made at most once and the frames sent are those of the script.          *)
(***************************************************************************)
EXTENDS Relay

Ana == "ana"
Bob == "bob"
Cid == "cid"
Pair == {Ana, Bob}
Trio == {Ana, Bob, Cid}

\* Ana sends twice, Bob announces nothing, which is refused, Cid only listens.
TwiceAndNothing == (Ana :> <<1, 1>>) @@ (Bob :> <<0>>) @@ (Cid :> <<>>)

\* A conversation.
Talk == (Ana :> <<2>>) @@ (Bob :> <<1, 1>>)
=============================================================================
