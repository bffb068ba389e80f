----------------------------- MODULE MCClientUI -----------------------------
(***************************************************************************)
(* A small keyring for TLC: the user's own key, an expired one of his, and *)
(* one whose encryption subkey has no secret part on this machine.         *)
(***************************************************************************)
EXTENDS ClientUI

Sub(encrypts, secret) == [canEncrypt |-> encrypts, isSecret |-> secret, defects |-> {}]

Ring(primary, secret, defects) ==
  [defects |-> defects, hasSecret |-> primary, canEncrypt |-> defects = {},
   subkeys |-> <<Sub(FALSE, primary), Sub(TRUE, secret)>>]

Own == "own"
Expired == "expired"
Offline == "offline"

KeyFacts ==
  (Own :> Ring(TRUE, TRUE, {})) @@ (Expired :> Ring(TRUE, TRUE, {"expired"})) @@
  (Offline :> Ring(TRUE, FALSE, {}))

AllKeys == <<Offline, Own, Expired>>

ASSUME KeysAreWellFormed == \A k \in DOMAIN KeyFacts : WellFormed(KeyFacts[k])
=============================================================================
