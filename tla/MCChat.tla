------------------------------- MODULE MCChat -------------------------------
(***************************************************************************)
(* Three users.  Ana writes to Bob, Bob to both others, Cid to all: there  *)
(* is someone who cannot read, and someone who reads two others.           *)
(***************************************************************************)
EXTENDS Chat

CONSTANTS ana, bob, cid

Trio == {ana, bob, cid}
Picked == (ana :> {bob}) @@ (bob :> {ana, cid}) @@ (cid :> {ana, bob, cid})
Numbers == 1..MaxSaid
=============================================================================
