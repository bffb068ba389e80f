------------------------------ MODULE ClientUI ------------------------------
(***************************************************************************)
(* The screens of the client, from the choice of an account to the chat:   *)
(* src/src/client/main.cpp, gpg_screens.cpp, message_screens.cpp and the   *)
(* input line of client_chat_screen.cpp.  One thread runs all of it; an    *)
(* action is one event of the user.  Around it, the gpg-agent may hold the *)
(* account's passphrase, and a key that was good when the menus listed it  *)
(* may have gone bad since.  The connection thread decrypts what it hears  *)
(* with the passphrase as typed so far, and so may fill the agent's cache  *)
(* under the user's hands.                                                 *)
(***************************************************************************)
EXTENDS KeyChecks, SequencesExt

CONSTANTS
  Keyring,      \* the keys gpg lists, in its order, once at start-up
  KeyOf,        \* KeyOf[k]: what gpgme said of k then
  NoKey,        \* the null GpgME::Key
  Word,         \* 2^64 of size_t, any number above the length of the keyring
  MaxSaid,      \* bound: messages the user sends
  MaxSel        \* bound: the cursor of an empty menu goes no further down

ASSUME ClientUIAssumption ==
  /\ Keyring \in Seq(DOMAIN KeyOf)
  /\ IsInjective(Keyring)
  /\ NoKey \notin DOMAIN KeyOf
  /\ Word \in Nat /\ Word > Len(Keyring)
  /\ MaxSaid \in Nat
  /\ MaxSel \in Nat /\ MaxSel >= Len(Keyring)

\* The keys of the keyring that are in K, as the loops over it push them back.
KeysIn(K) ==
  LET kept[i \in 0..Len(Keyring)] ==
        IF i = 0 THEN <<>>
        ELSE IF Keyring[i] \in K THEN Append(kept[i - 1], Keyring[i]) ELSE kept[i - 1]
  IN  kept[Len(Keyring)]

LoginKeys == KeysIn({k \in DOMAIN KeyOf : ListedForLogin(KeyOf[k])})
MenuKeys == KeysIn({k \in DOMAIN KeyOf : Listed(KeyOf[k])})

Screens == {"Login", "PassphrasePrompt", "RecipientMenu", "ClientScreen", "ErrorMessage"}

VARIABLES
  currentScreen,  \* of main
  onError,        \* the screen *error_message_handler goes to, "none" if unset,
                  \* "copy" if it sets the chat screen's own variable
  loginSel,       \* login::selected
  menuSel,        \* recipientMenu::selected
  clientAccount,
  passphrase,     \* what is typed: "empty", "wrong" or "right"
  picked,         \* recipientMenu::recipients
  recipientKeys,  \* those the chat encrypts to
  draft,          \* the input line of the chat is not empty
  said,           \* [to]: the messages of the user that were encrypted
  agent,          \* gpg-agent holds the account's passphrase
  hearing,        \* the connection thread: "idle", decrypting with the passphrase
                  \* it copied ("wrong", "right"), or telling the agent to "flush"
  bad,            \* keys that were revoked or expired since the menus were filled
  over,           \* the UI loop has ended
  failedAt,       \* history: the screen the last error arose on
  accepted,       \* history: a passphrase was accepted
  unlocked,       \* history: another program unlocked the account's key in gpg-agent
  lent            \* history: the connection thread did

chat == <<recipientKeys, draft, said>>
world == <<agent, hearing, bad>>
gained == <<accepted, unlocked, lent>>
history == <<failedAt, gained>>
vars == <<currentScreen, onError, loginSel, menuSel, clientAccount, passphrase,
          picked, chat, world, over, history>>

TypeOK ==
  /\ currentScreen \in Screens
  /\ onError \in Screens \cup {"none", "copy"}
  /\ loginSel \in -1..MaxSel /\ menuSel \in -1..MaxSel
  /\ clientAccount \in ToSet(LoginKeys) \cup {NoKey}
  /\ passphrase \in {"empty", "wrong", "right"}
  /\ picked \in Seq(ToSet(MenuKeys)) /\ recipientKeys \in Seq(ToSet(MenuKeys))
  /\ draft \in BOOLEAN /\ said \in Seq(SUBSET ToSet(MenuKeys))
  /\ agent \in BOOLEAN /\ bad \subseteq ToSet(Keyring)
  /\ hearing \in {"idle", "wrong", "right", "flush"}
  /\ over \in BOOLEAN
  /\ failedAt \in Screens \cup {"none"}
  /\ accepted \in BOOLEAN /\ unlocked \in BOOLEAN /\ lent \in BOOLEAN

Init ==
  /\ currentScreen = "Login"
  /\ onError = "none"
  /\ loginSel = 0 /\ menuSel = 0
  /\ clientAccount = NoKey
  /\ passphrase = "empty"
  /\ picked = <<>> /\ recipientKeys = <<>>
  /\ draft = FALSE /\ said = <<>>
  /\ agent = FALSE /\ hearing = "idle" /\ bad = {}
  /\ over = FALSE
  /\ failedAt = "none"
  /\ accepted = FALSE /\ unlocked = FALSE /\ lent = FALSE

On(s) == ~over /\ currentScreen = s

GoTo(s) ==
  /\ currentScreen' = s
  /\ UNCHANGED <<onError, failedAt>>

\* Mistake: the handler is that of an earlier error.
FailAsBefore(back) ==
  /\ currentScreen' = "ErrorMessage"
  /\ onError' = IF onError = "none" THEN back ELSE onError
  /\ failedAt' = currentScreen

\* The error screen, with the handler that leads back.
Fail(back) ==
  /\ currentScreen' = "ErrorMessage"
  /\ onError' = back
  /\ failedAt' = currentScreen

-----------------------------------------------------------------------------
(* Moving in a menu of n keys.                                              *)

Up(sel, n) == IF sel > 0 THEN sel - 1 ELSE n - 1

\* The comparison is unsigned: n - 1 of an empty menu is the largest size_t,
\* and so is a cursor of -1.
Down(sel, n) == IF sel % Word < (n - 1) % Word THEN sel + 1 ELSE 0

MoveLogin ==
  /\ On("Login")
  /\ \E sel \in {Up(loginSel, Len(LoginKeys)), Down(loginSel, Len(LoginKeys))} :
       sel <= MaxSel /\ loginSel' = sel
  /\ UNCHANGED <<currentScreen, onError, menuSel, clientAccount, passphrase, picked,
                 chat, world, over, history>>

MoveMenu ==
  /\ On("RecipientMenu")
  /\ \E sel \in {Up(menuSel, Len(MenuKeys)), Down(menuSel, Len(MenuKeys))} :
       sel <= MaxSel /\ menuSel' = sel
  /\ UNCHANGED <<currentScreen, onError, loginSel, clientAccount, passphrase, picked,
                 chat, world, over, history>>

-----------------------------------------------------------------------------
(* Login and passphrase.                                                    *)

getSelected == IF LoginKeys = <<>> THEN NoKey ELSE LoginKeys[loginSel + 1]

\* ENTER on the login screen; the key is checked as it was when the menu was
\* filled.  An empty menu selects the null key, which changes nothing.
LogIn ==
  /\ On("Login")
  /\ getSelected # NoKey
  /\ clientAccount' = getSelected
  /\ \/ can_key_decrypt(KeyOf[getSelected]) /\ GoTo("PassphrasePrompt")
     \/ ~can_key_decrypt(KeyOf[getSelected]) /\ Fail("Login")
  /\ UNCHANGED <<loginSel, menuSel, passphrase, picked, chat, world, over, gained>>

\* The input of the prompt edits the passphrase in place.
Type ==
  /\ On("PassphrasePrompt")
  /\ passphrase' \in {"empty", "wrong", "right"} \ {passphrase}
  /\ UNCHANGED <<currentScreen, onError, loginSel, menuSel, clientAccount, picked, chat,
                 world, over, history>>

\* gpg::encrypt: the checks of each key as it was listed, then gpg itself.
Encrypted(keys) ==
  /\ keys # {}
  /\ \A k \in keys : can_key_encrypt(KeyOf[k]) /\ k \notin bad

\* gpg can decrypt what it encrypts to k: the secret part of a subkey that encrypts
\* is there.
HoldsSecret(k) ==
  \E i \in DOMAIN KeyOf[k].subkeys : Encrypts(KeyOf[k].subkeys[i]) /\ KeyOf[k].subkeys[i].isSecret

\* Mistake: an empty passphrase leaves the prompt to gpg, others are not tested.
OpensUntested(k, typed) == typed # "empty"

\* gpg::decrypt with a passphrase as typed: gpg asks for it only if the agent does
\* not hold it already.
Opens(k, typed) ==
  /\ typed # "empty"
  /\ can_key_decrypt(KeyOf[k])
  /\ HoldsSecret(k)
  /\ agent \/ typed = "right"

\* is_passphrase_correct: a test message encrypted to the account and decrypted
\* again.  After a success the agent is told to forget; nobody looks whether it
\* did.
SubmitPassphrase ==
  /\ On("PassphrasePrompt")
  /\ \/ /\ Encrypted({clientAccount}) /\ Opens(clientAccount, passphrase)
        /\ GoTo("RecipientMenu")
        /\ agent' \in BOOLEAN
        /\ accepted' = TRUE
     \/ /\ ~(Encrypted({clientAccount}) /\ Opens(clientAccount, passphrase))
        /\ Fail("PassphrasePrompt")
        /\ UNCHANGED <<agent, accepted>>
  /\ UNCHANGED <<loginSel, menuSel, clientAccount, passphrase, picked, chat, hearing, bad,
                 over, unlocked, lent>>

-----------------------------------------------------------------------------
(* Recipients.                                                              *)

InMenu == Len(picked) <= Len(MenuKeys) /\ menuSel \in 0..Len(MenuKeys) - 1

\* Mistake: (T) does not look whether the key is picked already.
PickAgain(k) == Append(picked, k)

WithPicked(k) == IF Contains(picked, k) THEN picked ELSE Append(picked, k)

Pick ==
  /\ On("RecipientMenu")
  /\ InMenu
  /\ picked' = WithPicked(MenuKeys[menuSel + 1])
  /\ UNCHANGED <<currentScreen, onError, loginSel, menuSel, clientAccount, passphrase,
                 chat, world, over, history>>

Unpick ==
  /\ On("RecipientMenu")
  /\ InMenu
  /\ picked' = RemoveFirst(picked, MenuKeys[menuSel + 1])
  /\ UNCHANGED <<currentScreen, onError, loginSel, menuSel, clientAccount, passphrase,
                 chat, world, over, history>>

getRecipientsKeys == IF Len(picked) <= Len(MenuKeys) THEN picked ELSE <<>>

\* Mistake: one good key is enough.
SomeChecked(keys) == \E k \in keys : can_key_encrypt(KeyOf[k])

AllChecked(keys) == \A k \in keys : can_key_encrypt(KeyOf[k])

\* ENTER on the recipient menu: the picked keys become the recipients, checked or
\* not; the chat opens only if all pass.
Confirm ==
  /\ On("RecipientMenu")
  /\ recipientKeys' = getRecipientsKeys
  /\ LET keys == ToSet(getRecipientsKeys) IN
       \/ keys = {} /\ GoTo("RecipientMenu")
       \/ keys # {} /\ AllChecked(keys) /\ GoTo("ClientScreen")
       \/ keys # {} /\ ~AllChecked(keys) /\ Fail("RecipientMenu")
  /\ UNCHANGED <<loginSel, menuSel, clientAccount, passphrase, picked, draft, said, world, over,
                 gained>>

\* Mistake: every error leads back to the start.
ToLogin == "Login"

Back == onError

\* ENTER or the button on the error screen: the handler runs.
Dismiss ==
  /\ On("ErrorMessage")
  /\ onError \in Screens
  /\ currentScreen' = Back
  /\ UNCHANGED <<onError, loginSel, menuSel, clientAccount, passphrase, picked, chat,
                 world, over, history>>

-----------------------------------------------------------------------------
(* The chat.                                                                *)

Write ==
  /\ On("ClientScreen")
  /\ ~draft
  /\ draft' = TRUE
  /\ UNCHANGED <<currentScreen, onError, loginSel, menuSel, clientAccount, passphrase,
                 picked, recipientKeys, said, world, over, history>>

\* Mistake: the chat sets currentScreen of main, as the other screens do.
FailAsOthers ==
  /\ onError' = "ClientScreen"
  /\ failedAt' = "ClientScreen"
  /\ currentScreen' = "ErrorMessage"

\* The chat sets the handler, and a copy of currentScreen of its own
\* (client_chat_screen.cpp:168): the error screen does not come.
FailInChat ==
  /\ onError' = "copy"
  /\ failedAt' = "ClientScreen"
  /\ UNCHANGED currentScreen

\* ENTER with some text: it is encrypted to the recipients and shown, or it stays
\* in the input line.
Say ==
  /\ On("ClientScreen")
  /\ draft /\ recipientKeys # <<>>
  /\ Len(said) < MaxSaid
  /\ LET keys == ToSet(recipientKeys) IN
       \/ /\ Encrypted(keys)
          /\ said' = Append(said, keys) /\ draft' = FALSE
          /\ UNCHANGED <<currentScreen, onError, failedAt>>
       \/ ~Encrypted(keys) /\ FailInChat /\ UNCHANGED <<said, draft>>
  /\ UNCHANGED <<loginSel, menuSel, clientAccount, passphrase, picked, recipientKeys,
                 world, over, gained>>

\* Escape, on the menus and the error screen also Q.
Quit ==
  /\ ~over
  /\ over' = TRUE
  /\ UNCHANGED <<currentScreen, onError, loginSel, menuSel, clientAccount, passphrase,
                 picked, chat, world, history>>

-----------------------------------------------------------------------------
(* The connection thread.  Without an account or a passphrase it decrypts   *)
(* nothing (ClientLink has what becomes of it then).                        *)

\* A message is heard: the passphrase is read as it stands.
Hear ==
  /\ ~over
  /\ hearing = "idle"
  /\ clientAccount # NoKey /\ passphrase # "empty"
  /\ hearing' = passphrase
  /\ UNCHANGED <<currentScreen, onError, loginSel, menuSel, clientAccount, passphrase, picked,
                 chat, agent, bad, over, history>>

\* gpg decrypts, or fails: the message may be for another key, or no message at
\* all.  Once it has opened the key the agent holds it.  An empty text
\* (gpg_config.cpp:245) ends the call before the agent is told to forget.
Decrypt ==
  /\ hearing \in {"wrong", "right"}
  /\ \/ hearing' = "idle" /\ UNCHANGED <<agent, lent>>
     \/ /\ Opens(clientAccount, hearing)
        /\ hearing' \in {"flush", "idle"}
        /\ agent' = TRUE
        /\ lent' = (lent \/ ~agent)
  /\ UNCHANGED <<currentScreen, onError, loginSel, menuSel, clientAccount, passphrase, picked,
                 chat, bad, over, failedAt, accepted, unlocked>>

\* The agent is told to forget; nobody looks whether it did.
Flush ==
  /\ hearing = "flush"
  /\ hearing' = "idle"
  /\ agent' \in {agent, FALSE}
  /\ UNCHANGED <<currentScreen, onError, loginSel, menuSel, clientAccount, passphrase, picked,
                 chat, bad, over, history>>

-----------------------------------------------------------------------------
(* The world outside.                                                       *)

\* Another program unlocks the key, or the agent's cache runs out.
AgentChanges ==
  /\ agent' = ~agent
  /\ unlocked' = (unlocked \/ ~agent)
  /\ UNCHANGED <<currentScreen, onError, loginSel, menuSel, clientAccount, passphrase,
                 picked, chat, hearing, bad, over, failedAt, accepted, lent>>

\* A good key is revoked, disabled or expires; the menus do not notice.
GoBad(k) ==
  /\ KeyOf[k].defects = {} /\ k \notin bad
  /\ bad' = bad \cup {k}
  /\ UNCHANGED <<currentScreen, onError, loginSel, menuSel, clientAccount, passphrase,
                 picked, chat, agent, hearing, over, history>>

-----------------------------------------------------------------------------
User ==
  \/ MoveLogin \/ LogIn
  \/ Type \/ SubmitPassphrase
  \/ MoveMenu \/ Pick \/ Unpick \/ Confirm
  \/ Dismiss
  \/ Write \/ Say
  \/ Quit

ConnectionThread == Hear \/ Decrypt \/ Flush

Next == User \/ ConnectionThread \/ AgentChanges \/ \E k \in ToSet(Keyring) : GoBad(k)

Spec == Init /\ [][Next]_vars

-----------------------------------------------------------------------------
\* The chat is reached only with an account that passed the login check and with
\* recipients that all passed theirs, whatever was tried, refused, picked and
\* unpicked on the way: recipientKeys is assigned before it is checked
\* (main.cpp:120-140) and outlives a refusal.  The account can read what is said to
\* it, although the login check lets keys pass that cannot (gpg_config.cpp:132): the
\* prompt stops them.
ChatOnlyChecked ==
  currentScreen = "ClientScreen" =>
    /\ clientAccount # NoKey /\ can_key_decrypt(KeyOf[clientAccount])
    /\ HoldsSecret(clientAccount)
    /\ recipientKeys # <<>>
    /\ \A k \in ToSet(recipientKeys) : can_key_encrypt(KeyOf[k])

\* keys[selected] stays inside the vector: the arithmetic mixes int and size_t
\* (gpg_screens.cpp:134-150, 304-320), and an empty menu does leave the range.
SelectionInRange ==
  /\ LoginKeys # <<>> => loginSel \in 0..Len(LoginKeys) - 1
  /\ MenuKeys # <<>> => menuSel \in 0..Len(MenuKeys) - 1

\* No key is picked twice, so that the picked keys never outnumber the menu and
\* the guards of (T), (U) and ENTER (gpg_screens.cpp:331, 349, 386) never lock
\* the user out.
PickedOnce == IsInjective(picked) /\ Len(picked) <= Len(MenuKeys)

\* The menus hold together over any sequence of keys: types, cursors and picks.
MenusSound == TypeOK /\ SelectionInRange /\ PickedOnce

\* An error screen that shows leads back to the screen the error arose on; a
\* handler that sets the chat's copy never gets there, where it would do nothing.
ErrorLeadsBack == currentScreen = "ErrorMessage" => onError = failedAt /\ onError # "ErrorMessage"

\* Whoever is in the chat stays in it, errors included: the user learns of no
\* error there (client_chat_screen.cpp:270-283 assign a copy).
ChatIsFinal == [][currentScreen = "ClientScreen" => currentScreen' = "ClientScreen"]_vars

\* Account and passphrase, which the connection thread reads for every message it
\* gets, do not change any more once a passphrase was accepted: no way leads back
\* to the screens that write them (main.cpp:81-83, 132-137).
CredentialsSettled == [][accepted => UNCHANGED <<clientAccount, passphrase>>]_vars

\* Past the prompt the passphrase is the account's, unless gpg-agent held the key,
\* which makes any passphrase do (gpg_config.cpp:226-236), and then it was another
\* program, or the connection thread with the right passphrase, that had it
\* unlocked.  That the agent keeps the passphrase of an earlier success does no
\* harm: nobody is asked again.
PassphraseVerified == accepted /\ ~unlocked /\ ~lent => passphrase = "right"

\* gpg_config.cpp:263, "Passphrase is correct": whatever the process does itself, a
\* passphrase that is accepted is the account's.
AcceptedIsCorrect == accepted /\ ~unlocked => passphrase = "right"

\* A recipient of the chat was revoked or has expired since the menus were filled.
WritesToBadKey == currentScreen = "ClientScreen" /\ ToSet(recipientKeys) \cap bad # {}

\* From then on nothing is said, for no way leads back to the choice of recipients:
\* the keys were listed once (gpg_screens.cpp:213-221), still pass their checks, and
\* only gpg refuses them.
BadKeySilences == [][WritesToBadKey => said' = said /\ WritesToBadKey']_vars

\* No way leads back, neither to the login once a passphrase was accepted nor to the
\* recipients from the chat: for the connection thread, which reads account and
\* passphrase, that is well; for a user whose recipient's key went bad it is not.
NoWayBack == CredentialsSettled /\ BadKeySilences

-----------------------------------------------------------------------------
(* The inductive invariant of ClientUIProofs.                               *)

\* The screen the user is on, or comes back to from the error screen.
Here == IF currentScreen = "ErrorMessage" THEN onError ELSE currentScreen

LoggedIn == clientAccount # NoKey /\ can_key_decrypt(KeyOf[clientAccount])

\* No error leads to the chat, only screens before the prompt's end can be come
\* back to without an accepted passphrase, an account behind the prompt can decrypt,
\* and the agent holds no key before somebody gives it the passphrase.
IInv ==
  /\ currentScreen \in Screens
  /\ currentScreen = "ErrorMessage" =>
       onError = failedAt /\ onError \in {"Login", "PassphrasePrompt", "RecipientMenu"}
  /\ Here # "Login" => LoggedIn
  /\ accepted => Here \in {"RecipientMenu", "ClientScreen"}
  /\ Here \in {"RecipientMenu", "ClientScreen"} => HoldsSecret(clientAccount)
  /\ ~accepted /\ ~unlocked /\ ~lent => ~agent
  /\ agent \in BOOLEAN /\ accepted \in BOOLEAN /\ unlocked \in BOOLEAN /\ lent \in BOOLEAN
  /\ ChatOnlyChecked
  /\ PassphraseVerified
=============================================================================
