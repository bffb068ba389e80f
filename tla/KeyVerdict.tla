----------------------------- MODULE KeyVerdict -----------------------------
(***************************************************************************)
(* A key on its way through the menus of the client: it is listed or not,  *)
(* picked, and then taken or refused by the checks of KeyChecks, as a      *)
(* recipient (main.cpp:117-146, gpg_screens.cpp) or as the account to log  *)
(* in with (main.cpp:89-112).                                              *)
(***************************************************************************)
EXTENDS KeyChecks

CONSTANT Keys   \* the keys gpg may hold

ASSUME KeysAssumption == Keys \subseteq {k \in Key : WellFormed(k)}

VARIABLES key, verdict

verdictVars == <<key, verdict>>

Verdicts == {"none", "hidden", "recipient", "noRecipient", "account", "noAccount"}

VerdictTypeOK == key \in Keys /\ verdict \in Verdicts

VerdictInit == key \in Keys /\ verdict = "none"

CheckRecipient ==
  /\ verdict = "none"
  /\ verdict' = IF ~Listed(key) THEN "hidden"
                ELSE IF can_key_encrypt(key) THEN "recipient" ELSE "noRecipient"
  /\ UNCHANGED key

CheckLogin ==
  /\ verdict = "none"
  /\ verdict' = IF ~ListedForLogin(key) THEN "hidden"
                ELSE IF can_key_decrypt(key) THEN "account" ELSE "noAccount"
  /\ UNCHANGED key

VerdictNext == CheckRecipient \/ CheckLogin

VerdictSpec == VerdictInit /\ [][VerdictNext]_verdictVars

-----------------------------------------------------------------------------
Usable(k) == k.defects = {} /\ \E i \in DOMAIN k.subkeys : Encrypts(k.subkeys[i])

\* A key is taken as recipient exactly if gpg can encrypt to it.  The loop over
\* the subkeys (gpg_config.cpp:79-96) stops at the first encryption subkey, and
\* would refuse a key whose first is revoked and second good; the flag of the
\* whole key, tested before (gpg_config.cpp:68), makes that harmless.
RecipientIffUsable ==
  /\ verdict = "recipient" => Usable(key)
  /\ verdict = "noRecipient" => ~Usable(key)

\* A key that logs in has some secret part and can be encrypted to: the
\* passphrase test, which encrypts to it, never fails on the key itself.
AccountIsUsable == verdict = "account" => key.hasSecret /\ Usable(key)

\* Both checks let through what they are meant to, whatever the order of subkeys.
ChecksAreRight == RecipientIffUsable /\ AccountIsUsable
=============================================================================
