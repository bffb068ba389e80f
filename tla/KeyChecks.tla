----------------------------- MODULE KeyChecks -----------------------------
(***************************************************************************)
(* The checks src/src/client/gpg_config.cpp and gpg_screens.cpp make on a  *)
(* GnuPG key before the client shows it, logs in with it or encrypts to    *)
(* it.  A check either returns true or throws with a message for the user: *)
(* here TRUE or FALSE.                                                     *)
(***************************************************************************)
EXTENDS Integers, Sequences

Defects == {"revoked", "disabled", "expired"}

Subkey == [canEncrypt: BOOLEAN, isSecret: BOOLEAN, defects: SUBSET Defects]

\* What gpgme says of a key.  canEncrypt is the flag of the whole key.
Key == [defects: SUBSET Defects, hasSecret: BOOLEAN, canEncrypt: BOOLEAN, subkeys: Seq(Subkey)]

\* A subkey gpg encrypts to.
Encrypts(subkey) == subkey.canEncrypt /\ subkey.defects = {}

\* gpgme++/key.h:118: canEncrypt is set when the key is not bad and has an
\* encryption subkey; hasSecret when some subkey has its secret part.
WellFormed(key) ==
  /\ key.canEncrypt <=> key.defects = {} /\ \E i \in DOMAIN key.subkeys : Encrypts(key.subkeys[i])
  /\ key.hasSecret <=> \E i \in DOMAIN key.subkeys : key.subkeys[i].isSecret

\* The loops over the subkeys decide on the first that serves, whatever follows.
FirstGood(key, serving) ==
  \E i \in serving : (\A j \in serving : i <= j) /\ key.subkeys[i].defects = {}

Encrypting(key) == {i \in DOMAIN key.subkeys : key.subkeys[i].canEncrypt}
Decrypting(key) == {i \in Encrypting(key) : key.subkeys[i].isSecret}

\* Mistake: the state of the primary key is not looked at.
AnyServing(key) ==
  key.canEncrypt \/ FirstGood(key, Encrypting(key))

can_key_encrypt(key) ==
  /\ key.defects = {}
  /\ key.canEncrypt \/ FirstGood(key, Encrypting(key))

can_key_decrypt(key) ==
  /\ key.defects = {}
  /\ key.hasSecret
  /\ key.canEncrypt \/ FirstGood(key, Decrypting(key))

\* The recipient menu leaves out a key only if it has all the defects at once;
\* the login menu also one without a secret part.
Listed(key) == key.defects # Defects
ListedForLogin(key) == Listed(key) /\ key.hasSecret
=============================================================================
