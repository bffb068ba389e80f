---------------------------- MODULE MCClientLink ----------------------------
(***************************************************************************)
(* Short conversations for TLC.  Heard and Texts bound everything: the     *)
(* server sends and the user says no more than that.                       *)
(***************************************************************************)
EXTENDS ClientLink

OneTextOneAlien == <<"text", "alien">>
TextOddBad == <<"text", "odd", "bad">>
TwoGoodOneLong == <<1, 1, 2>>
TwoShort == <<1, 1>>
=============================================================================
