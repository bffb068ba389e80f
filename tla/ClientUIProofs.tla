--------------------------- MODULE ClientUIProofs ---------------------------
(***************************************************************************)
(* Theorems about the client's screens, for any keyring, and about the     *)
(* computations behind the screens of both programs, for every key, every  *)
(* message size and every reading of the kernel: the checks of a key, the  *)
(* size prefix, the uptime and the memory.  The numbers are those of the   *)
(* code where the proofs of arithmetic need them.                          *)
(***************************************************************************)
EXTENDS ClientUI, MCKeyChecks, DataProofs

-----------------------------------------------------------------------------
(* What the screens let through.                                            *)

\* The client starts on the login screen, without an account and with nothing
\* accepted (main.cpp:59-71).
LEMMA InitIInv == Init => IInv
BY DEF Init, IInv, Here, Screens, ChatOnlyChecked, PassphraseVerified

\* Recipients that were all checked, and are not none, are what the chat needs.
LEMMA RecipientsLemma ==
  ASSUME NEW keys, ToSet(keys) # {}
  PROVE  keys # <<>>
BY DEF ToSet

\* ENTER on the login screen goes on to the prompt only with a key that passed
\* the check, and comes back to the login screen from the error otherwise.
LEMMA LogInLemma == IInv /\ LogIn => IInv'
BY DEF IInv, LogIn, On, GoTo, Fail, Here, LoggedIn, Screens, ChatOnlyChecked,
       PassphraseVerified, chat, world, gained

\* Behind the prompt the passphrase is the account's, or somebody else gave it to
\* the agent.
LEMMA SubmitLemma == IInv /\ SubmitPassphrase => IInv'
<1> SUFFICES ASSUME IInv, SubmitPassphrase PROVE IInv'
  OBVIOUS
<1> USE DEF IInv, SubmitPassphrase, On, Here, LoggedIn, Screens, ChatOnlyChecked,
            PassphraseVerified, chat
<1>1. CASE Encrypted({clientAccount}) /\ Opens(clientAccount, passphrase) /\ GoTo("RecipientMenu")
           /\ agent' \in BOOLEAN /\ accepted' = TRUE
  <2>1. agent \/ passphrase = "right"
    BY <1>1 DEF Opens
  <2>2. ~accepted
    OBVIOUS
  <2>3. PassphraseVerified'
    BY <2>1, <2>2
  <2>4. HoldsSecret(clientAccount)
    BY <1>1 DEF Opens
  <2>5. QED
    BY <1>1, <2>3, <2>4 DEF GoTo
<1>2. CASE Fail("PassphrasePrompt") /\ UNCHANGED <<agent, accepted>>
  BY <1>2 DEF Fail
<1>3. QED
  BY <1>1, <1>2

\* ENTER on the recipient menu opens the chat only with checked recipients, though
\* it assigns them before.
LEMMA ConfirmLemma == IInv /\ Confirm => IInv'
<1> SUFFICES ASSUME IInv, Confirm PROVE IInv'
  OBVIOUS
<1> DEFINE keys == ToSet(getRecipientsKeys)
<1> USE DEF IInv, On, Here, LoggedIn, Screens, ChatOnlyChecked, PassphraseVerified, world, gained
<1>1. CASE keys = {} /\ GoTo("RecipientMenu")
  BY <1>1 DEF Confirm, GoTo
<1>2. CASE keys # {} /\ AllChecked(keys) /\ GoTo("ClientScreen")
  <2>1. recipientKeys' = getRecipientsKeys
    BY DEF Confirm
  <2>2. recipientKeys' # <<>> /\ \A k \in ToSet(recipientKeys') : can_key_encrypt(KeyOf[k])
    BY <1>2, <2>1, RecipientsLemma DEF AllChecked
  <2>3. UNCHANGED <<clientAccount, passphrase, agent, accepted, unlocked, lent>>
        /\ currentScreen = "RecipientMenu" /\ currentScreen' = "ClientScreen"
    BY <1>2 DEF Confirm, GoTo
  <2>4. ChatOnlyChecked'
    BY <2>2, <2>3
  <2>5. QED
    BY <2>3, <2>4
<1>3. CASE keys # {} /\ ~AllChecked(keys) /\ Fail("RecipientMenu")
  BY <1>3 DEF Confirm, Fail
<1>4. QED
  BY <1>1, <1>2, <1>3 DEF Confirm

\* A message that is said, or cannot be encrypted, leaves the user in the chat.
LEMMA SayLemma == IInv /\ Say => IInv'
<1> SUFFICES ASSUME IInv, Say PROVE IInv'
  OBVIOUS
<1>1. /\ currentScreen = "ClientScreen"
      /\ UNCHANGED <<currentScreen, clientAccount, passphrase, recipientKeys>>
      /\ UNCHANGED <<agent, accepted, unlocked, lent>>
  BY DEF Say, On, FailInChat, world, gained
<1>2. QED
  BY <1>1 DEF IInv, Here, LoggedIn, Screens, ChatOnlyChecked, PassphraseVerified

\* The invariant is inductive: no event of the user, and nothing that gpg-agent
\* or gpg does meanwhile, breaks it.
THEOREM StepIInv == IInv /\ [Next]_vars => IInv'
<1> SUFFICES ASSUME IInv, [Next]_vars PROVE IInv'
  OBVIOUS
<1> USE DEF IInv, On, Here, LoggedIn, Screens, ChatOnlyChecked, PassphraseVerified,
            chat, world, gained, history
<1>1. CASE MoveLogin
  BY <1>1 DEF MoveLogin
<1>2. CASE Type
  BY <1>2 DEF Type
<1>3. CASE MoveMenu
  BY <1>3 DEF MoveMenu
<1>4. CASE Pick
  BY <1>4 DEF Pick
<1>5. CASE Unpick
  BY <1>5 DEF Unpick
<1>6. CASE Dismiss
  BY <1>6 DEF Dismiss, Back
<1>7. CASE Write
  BY <1>7 DEF Write
<1>8. CASE Quit
  BY <1>8 DEF Quit
<1>9. CASE AgentChanges
  BY <1>9 DEF AgentChanges
<1>10. CASE \E k \in ToSet(Keyring) : GoBad(k)
  BY <1>10 DEF GoBad
<1>11. CASE Hear
  BY <1>11 DEF Hear
<1>12. CASE Decrypt
  <2>1. CASE UNCHANGED <<agent, lent>>
    BY <1>12, <2>1 DEF Decrypt
  <2>2. CASE agent' = TRUE /\ lent' = (lent \/ ~agent)
    <3>1. lent' \in BOOLEAN /\ agent' \in BOOLEAN
      BY <2>2
    <3>2. (~accepted' /\ ~unlocked' /\ ~lent' => ~agent') /\ PassphraseVerified'
      BY <1>12, <2>2 DEF Decrypt
    <3> QED BY <1>12, <3>1, <3>2 DEF Decrypt
  <2> QED BY <1>12, <2>1, <2>2 DEF Decrypt
<1>13. CASE Flush
  <2>1. CASE agent' = agent
    BY <1>13, <2>1 DEF Flush
  <2>2. CASE agent' = FALSE
    BY <1>13, <2>2 DEF Flush
  <2> QED BY <1>13, <2>1, <2>2 DEF Flush
<1>14. CASE UNCHANGED vars
  BY <1>14 DEF vars
<1>15. QED
  BY <1>1, <1>2, <1>3, <1>4, <1>5, <1>6, <1>7, <1>8, <1>9, <1>10, <1>11, <1>12, <1>13,
     <1>14, LogInLemma, SubmitLemma, ConfirmLemma, SayLemma DEF Next, User, ConnectionThread

\* The invariant holds of every state the client can reach.
THEOREM Invariance == Spec => []IInv
BY InitIInv, StepIInv, PTL DEF Spec

\* The chat is reached only with an account and recipients that passed their
\* checks, however many were refused on the way (main.cpp:89-148), and with an account
\* that can read, which its check alone does not say.
THEOREM OnlyChecked == Spec => []ChatOnlyChecked
<1>1. IInv => ChatOnlyChecked
  BY DEF IInv
<1>2. QED
  BY Invariance, <1>1, PTL

\* Every error screen leads back to where the error arose (main.cpp:81-83,
\* 104-106, 134-136).
THEOREM LeadsBack == Spec => []ErrorLeadsBack
<1>1. IInv => ErrorLeadsBack
  BY DEF IInv, ErrorLeadsBack
<1>2. QED
  BY Invariance, <1>1, PTL

\* A passphrase that is accepted is the account's, unless another program unlocked
\* the key or the connection thread decrypted with the right passphrase while it
\* was typed (gpg_config.cpp:226-264).
THEOREM Verified == Spec => []PassphraseVerified
<1>1. IInv => PassphraseVerified
  BY DEF IInv
<1>2. QED
  BY Invariance, <1>1, PTL

\* Once a passphrase was accepted nothing writes the account or the passphrase,
\* which the connection thread reads (main.cpp:24).
THEOREM Settled == Spec => CredentialsSettled
<1>1. IInv /\ [Next]_vars => [accepted => UNCHANGED <<clientAccount, passphrase>>]_vars
  <2> SUFFICES ASSUME IInv, Next, accepted PROVE UNCHANGED <<clientAccount, passphrase>>
    OBVIOUS
  <2>1. currentScreen # "Login" /\ currentScreen # "PassphrasePrompt"
    BY DEF IInv, Here
  <2>2. QED
    BY <2>1 DEF Next, User, MoveLogin, LogIn, Type, SubmitPassphrase, MoveMenu, Pick, Unpick,
       Confirm, Dismiss, Write, Say, Quit, ConnectionThread, Hear, Decrypt, Flush, AgentChanges,
       GoBad, On
<1>2. QED
  BY Invariance, <1>1, PTL DEF Spec, CredentialsSettled

\* No event leads out of the chat, an error of encryption least of all: the error
\* screen never shows there (client_chat_screen.cpp:270-283).
THEOREM Final == Spec => ChatIsFinal
<1>1. [Next]_vars => [currentScreen = "ClientScreen" => currentScreen' = "ClientScreen"]_vars
  BY DEF Next, User, MoveLogin, LogIn, Type, SubmitPassphrase, MoveMenu, Pick, Unpick,
     Confirm, Dismiss, Write, Say, FailInChat, Quit, ConnectionThread, Hear, Decrypt, Flush,
     AgentChanges, GoBad, On
<1>2. QED
  BY <1>1, PTL DEF Spec, ChatIsFinal

\* Once a recipient's key has gone bad nothing more is said, to nobody, and the
\* user cannot choose other recipients (gpg_screens.cpp:213-221, main.cpp:137-144).
THEOREM Silences == Spec => BadKeySilences
<1>1. [Next]_vars => [WritesToBadKey => said' = said /\ WritesToBadKey']_vars
  <2> SUFFICES ASSUME Next, WritesToBadKey PROVE said' = said /\ WritesToBadKey'
    OBVIOUS
  <2> USE DEF WritesToBadKey, On
  <2>1. CASE Say
    <3>1. ~Encrypted(ToSet(recipientKeys))
      BY DEF Encrypted
    <3> QED BY <2>1, <3>1 DEF Say, FailInChat, world
  <2>2. CASE Write \/ Quit \/ ConnectionThread \/ AgentChanges
    BY <2>2 DEF Write, Quit, ConnectionThread, Hear, Decrypt, Flush, AgentChanges, chat, world
  <2>3. ASSUME NEW k \in ToSet(Keyring), GoBad(k) PROVE said' = said /\ WritesToBadKey'
    BY <2>3 DEF GoBad, chat
  <2> QED BY <2>1, <2>2, <2>3 DEF Next, User, MoveLogin, LogIn, Type, SubmitPassphrase, MoveMenu,
             Pick, Unpick, Confirm, Dismiss
<1>2. QED
  BY <1>1, PTL DEF Spec, BadKeySilences

\* The screens go one way (main.cpp:81-83, 132-144): both facts together.
THEOREM OneWay == Spec => NoWayBack
BY Settled, Silences, PTL DEF NoWayBack

-----------------------------------------------------------------------------
(* The menus.                                                               *)

\* A loop over the keyring lists keys of the keyring, and no more than there are.
LEMMA KeysInLemma ==
  ASSUME NEW K
  PROVE  KeysIn(K) \in Seq(DOMAIN KeyOf) /\ Len(KeysIn(K)) <= Len(Keyring)
<1> DEFINE S == DOMAIN KeyOf
           n == Len(Keyring)
           A == Seq(S)
           Push(i, r) == IF Keyring[i] \in K THEN Append(r, Keyring[i]) ELSE r
           step == [p \in (1..n) \X A |-> Push(p[1], p[2])]
           f == CHOOSE f : f = [i \in 0..n |-> IF i = 0 THEN <<>> ELSE Push(i, f[i - 1])]
           M == {i \in Nat : i <= n => Len(f[i]) <= i}
<1>1. KeysIn(K) = f[n]
  BY DEF KeysIn
<1>2. n \in Nat /\ (\A i \in 1..n : Keyring[i] \in S) /\ <<>> \in A
  BY ClientUIAssumption
<1>3. ASSUME NEW i \in 1..n, NEW r \in A
      PROVE  Push(i, r) \in A /\ Len(Push(i, r)) <= Len(r) + 1 /\ Len(r) \in Nat /\ Len(Push(i, r)) \in Nat
  <2> DEFINE e == Keyring[i]
  <2>1. e \in S /\ r \in Seq(S)
    BY <1>2, <1>3
  <2>2. Len(r) \in Nat
    BY <2>1, LenProperties
  <2> HIDE DEF e, S
  <2>3. Append(r, e) \in Seq(S) /\ Len(Append(r, e)) = Len(r) + 1
    BY <2>1, AppendProperties
  <2>4. CASE Keyring[i] \in K
    <3>1. Push(i, r) = Append(r, e)
      BY <2>4 DEF e
    <3> HIDE DEF Push
    <3> QED BY <2>2, <2>3, <3>1
  <2>5. CASE Keyring[i] \notin K
    <3>1. Push(i, r) = r
      BY <2>5
    <3> HIDE DEF Push
    <3> QED BY <2>1, <2>2, <3>1
  <2> QED BY <2>4, <2>5
<1> HIDE DEF Push, n, A, S
<1>4. step \in [(1..n) \X A -> A]
  BY <1>3
<1>5. \A i \in 1..n, r \in A : step[<<i, r>>] = Push(i, r)
  OBVIOUS
<1> HIDE DEF step
<1>6. PICK g : GoesUp(g, n, A, <<>>, step)
  BY <1>2, <1>4, Recursion
<1>7. g \in [0..n -> A] /\ g[0] = <<>> /\ \A i \in 1..n : g[i] = step[<<i, g[i - 1]>>]
  BY <1>6 DEF GoesUp
<1>8. ASSUME NEW i \in 1..n PROVE g[i] = Push(i, g[i - 1])
  <2>1. i - 1 \in 0..n
    BY <1>2
  <2>2. g[i - 1] \in A
    BY <1>7, <2>1
  <2> QED BY <1>5, <1>7, <2>2
<1>9. g = [i \in 0..n |-> IF i = 0 THEN <<>> ELSE Push(i, g[i - 1])]
  <2>1. ASSUME NEW i \in 0..n PROVE g[i] = IF i = 0 THEN <<>> ELSE Push(i, g[i - 1])
    <3>1. CASE i = 0
      BY <1>7, <3>1
    <3>2. CASE i # 0
      <4>1. i \in 1..n
        BY <1>2, <3>2
      <4> QED BY <1>8, <3>2, <4>1
    <3> QED BY <3>1, <3>2
  <2>2. g = [i \in 0..n |-> g[i]]
    BY <1>7
  <2> QED BY <2>1, <2>2
<1>10. f = [i \in 0..n |-> IF i = 0 THEN <<>> ELSE Push(i, f[i - 1])]
  BY <1>9
<1> HIDE DEF f
<1>11. f[0] = <<>> /\ \A i \in 1..n : f[i] = Push(i, f[i - 1])
  BY <1>2, <1>10
<1>12. \A i \in 0..n : f[i] \in A
  <2> DEFINE N == {i \in Nat : i <= n => f[i] \in A}
  <2>1. 0 \in N
    BY <1>2, <1>11
  <2>2. ASSUME NEW i \in Nat, i \in N PROVE i + 1 \in N
    <3> SUFFICES ASSUME i + 1 <= n PROVE f[i + 1] \in A
      OBVIOUS
    <3>1. f[i] \in A /\ i + 1 \in 1..n /\ (i + 1) - 1 = i
      BY <1>2, <2>2
    <3> QED BY <1>3, <1>11, <3>1
  <2> HIDE DEF N
  <2>3. \A i \in Nat : i \in N
    BY <2>1, <2>2, Induction
  <2> QED BY <1>2, <2>3 DEF N
<1>13. 0 \in M
  BY <1>11
<1>14. ASSUME NEW i \in Nat, i \in M PROVE i + 1 \in M
  <2> SUFFICES ASSUME i + 1 <= n PROVE Len(f[i + 1]) <= i + 1
    OBVIOUS
  <2>1. f[i] \in A /\ i + 1 \in 1..n /\ (i + 1) - 1 = i /\ Len(f[i]) <= i
    BY <1>2, <1>12, <1>14
  <2> QED BY <1>3, <1>11, <2>1
<1> HIDE DEF M
<1>15. n \in M
  BY <1>2, <1>13, <1>14, Induction
<1>16. f[n] \in A /\ Len(f[n]) <= n
  BY <1>2, <1>12, <1>15 DEF M
<1> QED BY <1>1, <1>16 DEF A, n, S

LEMMA MenuLemma ==
  /\ LoginKeys \in Seq(DOMAIN KeyOf) /\ Len(LoginKeys) <= Len(Keyring)
  /\ MenuKeys \in Seq(DOMAIN KeyOf) /\ Len(MenuKeys) <= Len(Keyring)
BY KeysInLemma DEF LoginKeys, MenuKeys

\* Moving the cursor of a menu of n keys keeps it on a key, and on -1 or above
\* if there is none.
LEMMA MoveLemma ==
  ASSUME NEW n \in Nat, n < Word, NEW sel \in Int, sel >= -1,
         NEW to \in {Up(sel, n), Down(sel, n)}
  PROVE  /\ to \in Int /\ to >= -1
         /\ n > 0 /\ sel \in 0..n - 1 => to \in 0..n - 1
<1>1. Word \in Nat
  BY ClientUIAssumption
<1>2. CASE to = Up(sel, n)
  BY <1>2 DEF Up
<1>3. CASE to = Down(sel, n)
  <2>1. to \in {sel + 1, 0}
    BY <1>3 DEF Down
  <2>2. ASSUME n > 0, sel \in 0..n - 1, to # 0 PROVE to \in 0..n - 1
    <3>1. sel % Word = sel /\ (n - 1) % Word = n - 1
      BY <1>1, <2>2
    <3>2. sel < n - 1 /\ to = sel + 1
      BY <1>3, <2>2, <3>1 DEF Down
    <3> QED BY <2>2, <3>2
  <2> QED BY <2>1, <2>2
<1> QED BY <1>2, <1>3

\* The menus start without picks, the cursors on the first key (gpg_screens.cpp:9-50).
LEMMA InitMenus == Init => MenusSound
<1> SUFFICES ASSUME Init PROVE MenusSound
  OBVIOUS
<1> DEFINE a == Len(LoginKeys)
           b == Len(MenuKeys)
<1>1. /\ a \in Nat /\ (LoginKeys # <<>> => a > 0)
      /\ b \in Nat /\ (MenuKeys # <<>> => b > 0)
  BY MenuLemma
<1>2. TypeOK
  <2>1. 0 \in -1..MaxSel
    BY ClientUIAssumption
  <2>2. /\ loginSel \in -1..MaxSel /\ menuSel \in -1..MaxSel /\ bad \subseteq ToSet(Keyring)
        /\ clientAccount \in ToSet(LoginKeys) \cup {NoKey}
    BY <2>1 DEF Init
  <2>3. /\ currentScreen \in Screens /\ onError \in Screens \cup {"none", "copy"}
        /\ passphrase \in {"empty", "wrong", "right"}
        /\ failedAt \in Screens \cup {"none"}
    BY DEF Init, Screens
  <2>4. /\ picked \in Seq(ToSet(MenuKeys)) /\ recipientKeys \in Seq(ToSet(MenuKeys))
        /\ said \in Seq(SUBSET ToSet(MenuKeys))
    BY EmptySeq DEF Init
  <2>5. draft \in BOOLEAN /\ agent \in BOOLEAN /\ over \in BOOLEAN /\ accepted \in BOOLEAN
        /\ unlocked \in BOOLEAN /\ lent \in BOOLEAN /\ hearing \in {"idle", "wrong", "right", "flush"}
    BY DEF Init
  <2> QED BY <2>2, <2>3, <2>4, <2>5 DEF TypeOK
<1> HIDE DEF a, b
<1>3. SelectionInRange
  BY <1>1 DEF Init, SelectionInRange, a, b
<1>4. IsInjective(picked)
  BY DEF Init, IsInjective
<1>5. Len(picked) <= b
  <2>1. Len(picked) = 0
    BY DEF Init
  <2> QED BY <1>1, <2>1
<1> QED BY <1>2, <1>3, <1>4, <1>5 DEF MenusSound, PickedOnce, b

\* UP and DOWN keep both cursors where they belong.
LEMMA MoveMenus == MenusSound /\ (MoveLogin \/ MoveMenu) => MenusSound'
<1> SUFFICES ASSUME MenusSound, MoveLogin \/ MoveMenu PROVE MenusSound'
  OBVIOUS
<1> DEFINE a == Len(LoginKeys)
           b == Len(MenuKeys)
<1>1. /\ a \in Nat /\ a < Word /\ (LoginKeys # <<>> => a > 0)
      /\ b \in Nat /\ b < Word /\ (MenuKeys # <<>> => b > 0)
  <2>1. Word \in Nat /\ Len(Keyring) \in Nat /\ Len(Keyring) < Word
    BY ClientUIAssumption
  <2>2. a \in Nat /\ a <= Len(Keyring) /\ b \in Nat /\ b <= Len(Keyring)
    BY MenuLemma
  <2>3. (LoginKeys # <<>> => a > 0) /\ (MenuKeys # <<>> => b > 0)
    BY MenuLemma
  <2> DEFINE n == Len(Keyring)
  <2> HIDE DEF a, b, n
  <2>4. a < Word /\ b < Word
    BY <2>1, <2>2 DEF n
  <2> QED BY <2>2, <2>3, <2>4
<1>2. MaxSel \in Nat /\ loginSel \in -1..MaxSel /\ menuSel \in -1..MaxSel
  BY ClientUIAssumption DEF MenusSound, TypeOK
<1>3. PickedOnce'
  BY DEF MenusSound, PickedOnce, MoveLogin, MoveMenu
<1>4. CASE MoveLogin
  <2>1. loginSel' \in {Up(loginSel, a), Down(loginSel, a)} /\ loginSel' <= MaxSel /\ menuSel' = menuSel
    BY <1>4 DEF MoveLogin
  <2>2. LoginKeys # <<>> => loginSel \in 0..a - 1
    BY DEF MenusSound, SelectionInRange
  <2> HIDE DEF a
  <2>3. loginSel' \in Int /\ loginSel' >= -1 /\ (a > 0 /\ loginSel \in 0..a - 1 => loginSel' \in 0..a - 1)
    <3>1. a \in Nat /\ a < Word /\ loginSel \in Int /\ loginSel >= -1
      BY <1>1, <1>2
    <3>2. loginSel' \in {Up(loginSel, a), Down(loginSel, a)}
      BY <2>1
    <3> QED BY <3>1, <3>2, MoveLemma
  <2>4. loginSel' \in -1..MaxSel /\ (LoginKeys # <<>> => loginSel' \in 0..a - 1)
    BY <1>1, <1>2, <2>1, <2>2, <2>3
  <2>5. TypeOK'
    BY <1>4, <2>4 DEF MenusSound, TypeOK, MoveLogin, chat, world, gained, history
  <2>6. SelectionInRange'
    BY <2>1, <2>4 DEF MenusSound, SelectionInRange, a
  <2> QED BY <1>3, <2>5, <2>6 DEF MenusSound
<1>5. CASE MoveMenu
  <2>1. menuSel' \in {Up(menuSel, b), Down(menuSel, b)} /\ menuSel' <= MaxSel /\ loginSel' = loginSel
    BY <1>5 DEF MoveMenu
  <2>2. MenuKeys # <<>> => menuSel \in 0..b - 1
    BY DEF MenusSound, SelectionInRange
  <2> HIDE DEF b
  <2>3. menuSel' \in Int /\ menuSel' >= -1 /\ (b > 0 /\ menuSel \in 0..b - 1 => menuSel' \in 0..b - 1)
    <3>1. b \in Nat /\ b < Word /\ menuSel \in Int /\ menuSel >= -1
      BY <1>1, <1>2
    <3>2. menuSel' \in {Up(menuSel, b), Down(menuSel, b)}
      BY <2>1
    <3> QED BY <3>1, <3>2, MoveLemma
  <2>4. menuSel' \in -1..MaxSel /\ (MenuKeys # <<>> => menuSel' \in 0..b - 1)
    BY <1>1, <1>2, <2>1, <2>2, <2>3
  <2>5. TypeOK'
    BY <1>5, <2>4 DEF MenusSound, TypeOK, MoveMenu, chat, world, gained, history
  <2>6. SelectionInRange'
    BY <2>1, <2>4 DEF MenusSound, SelectionInRange, b
  <2> QED BY <1>3, <2>5, <2>6 DEF MenusSound
<1> QED BY <1>4, <1>5

\* (T) and (U) leave picks of keys of the menu, each at most once.
LEMMA PicksLemma ==
  ASSUME picked \in Seq(ToSet(MenuKeys)), IsInjective(picked), NEW e \in ToSet(MenuKeys)
  PROVE  /\ WithPicked(e) \in Seq(ToSet(MenuKeys)) /\ IsInjective(WithPicked(e))
         /\ RemoveFirst(picked, e) \in Seq(ToSet(MenuKeys)) /\ IsInjective(RemoveFirst(picked, e))
<1> DEFINE T == ToSet(MenuKeys)
<1>1. picked \in Seq(T) /\ e \in T
  OBVIOUS
<1> HIDE DEF T
<1>2. WithPicked(e) \in Seq(T) /\ IsInjective(WithPicked(e))
  <2>1. CASE Contains(picked, e)
    BY <1>1, <2>1 DEF WithPicked
  <2>2. ASSUME ~Contains(picked, e)
        PROVE  Append(picked, e) \in Seq(T) /\ IsInjective(Append(picked, e))
    <3> DEFINE r == Append(picked, e)
               n == Len(picked)
    <3>1. /\ r \in Seq(T) /\ n \in Nat /\ DOMAIN picked = 1..n /\ DOMAIN r = 1..n + 1
          /\ \A i \in 1..n : r[i] = picked[i]
          /\ r[n + 1] = e
      BY <1>1, AppendProperties, LenProperties
    <3>2. \A i \in 1..n : picked[i] # e
      BY <2>2 DEF Contains
    <3>3. \A i, j \in 1..n : picked[i] = picked[j] => i = j
      BY <3>1 DEF IsInjective
    <3> HIDE DEF r, n
    <3>4. IsInjective(r)
      BY <3>1, <3>2, <3>3 DEF IsInjective
    <3> QED BY <3>1, <3>4 DEF r
  <2> QED BY <2>1, <2>2 DEF WithPicked
<1>3. RemoveFirst(picked, e) \in Seq(T) /\ IsInjective(RemoveFirst(picked, e))
  <2>1. CASE e \in ToSet(picked)
    BY <1>1, <2>1, RemoveFirstLemma
  <2>2. CASE e \notin ToSet(picked)
    <3>1. ~(\E i \in 1..Len(picked) : picked[i] = e)
      BY <1>1, <2>2 DEF ToSet
    <3> QED BY <1>1, <3>1 DEF RemoveFirst
  <2> QED BY <2>1, <2>2
<1> QED BY <1>2, <1>3 DEF T

\* Picks of the menu without duplicates never outnumber it, so that (T), (U) and
\* ENTER stay open.
LEMMA PickMenus == MenusSound /\ (Pick \/ Unpick) => MenusSound'
<1> SUFFICES ASSUME MenusSound, Pick \/ Unpick PROVE MenusSound'
  OBVIOUS
<1> DEFINE e == MenuKeys[menuSel + 1]
<1>1. e \in ToSet(MenuKeys)
  <2> DEFINE n == Len(MenuKeys)
  <2>1. n \in Nat /\ DOMAIN MenuKeys = 1..n
    BY MenuLemma
  <2>2. menuSel \in 0..n - 1
    BY DEF Pick, Unpick, InMenu
  <2> HIDE DEF n
  <2>3. menuSel + 1 \in DOMAIN MenuKeys
    BY <2>1, <2>2
  <2> QED BY <2>3 DEF ToSet
<1>2. picked \in Seq(ToSet(MenuKeys)) /\ IsInjective(picked)
  BY DEF MenusSound, TypeOK, PickedOnce
<1>3. picked' \in {WithPicked(e), RemoveFirst(picked, e)}
  BY DEF Pick, Unpick
<1> HIDE DEF e
<1>4. picked' \in Seq(ToSet(MenuKeys)) /\ IsInjective(picked')
  BY <1>1, <1>2, <1>3, PicksLemma
<1>5. Len(picked') <= Len(MenuKeys)
  BY <1>4, MenuLemma, NoMoreThan
<1>6. TypeOK'
  BY <1>4 DEF MenusSound, TypeOK, Pick, Unpick, chat, world, gained, history
<1>7. SelectionInRange'
  BY DEF MenusSound, SelectionInRange, Pick, Unpick
<1> QED BY <1>4, <1>5, <1>6, <1>7 DEF MenusSound, PickedOnce

\* A key that logs in is one of the menu.
LEMMA SelectedLemma ==
  ASSUME SelectionInRange, getSelected # NoKey
  PROVE  getSelected \in ToSet(LoginKeys)
<1> DEFINE n == Len(LoginKeys)
<1>1. n \in Nat /\ DOMAIN LoginKeys = 1..n
  BY MenuLemma
<1>2. LoginKeys # <<>> /\ loginSel \in 0..n - 1
  BY DEF getSelected, SelectionInRange
<1> HIDE DEF n
<1>3. loginSel + 1 \in DOMAIN LoginKeys
  BY <1>1, <1>2
<1> QED BY <1>2, <1>3 DEF getSelected, ToSet

\* The types survive what leaves the cursors and the picks alone.
LEMMA TypesStay ==
  ASSUME MenusSound, Next, UNCHANGED <<loginSel, menuSel, picked>>
  PROVE  TypeOK'
<1> USE DEF MenusSound, TypeOK, chat, world, gained, history
<1>1. CASE LogIn
  <2>1. clientAccount' \in ToSet(LoginKeys)
    BY <1>1, SelectedLemma DEF LogIn
  <2>2. currentScreen' \in Screens /\ onError' \in Screens \cup {"none", "copy"}
        /\ failedAt' \in Screens \cup {"none"}
    BY <1>1 DEF LogIn, GoTo, Fail, Screens
  <2> QED BY <1>1, <2>1, <2>2 DEF LogIn
<1>2. CASE Type
  BY <1>2 DEF Type
<1>3. CASE SubmitPassphrase
  <2>1. currentScreen' \in Screens /\ onError' \in Screens \cup {"none", "copy"}
        /\ failedAt' \in Screens \cup {"none"}
    BY <1>3 DEF SubmitPassphrase, GoTo, Fail, Screens
  <2>2. agent' \in BOOLEAN /\ accepted' \in BOOLEAN
    BY <1>3 DEF SubmitPassphrase
  <2> QED BY <1>3, <2>1, <2>2 DEF SubmitPassphrase
<1>4. CASE Confirm
  <2>1. currentScreen' \in Screens /\ onError' \in Screens \cup {"none", "copy"}
        /\ failedAt' \in Screens \cup {"none"}
    BY <1>4 DEF Confirm, GoTo, Fail, Screens
  <2>2. recipientKeys' \in Seq(ToSet(MenuKeys))
    BY <1>4 DEF Confirm, getRecipientsKeys
  <2> QED BY <1>4, <2>1, <2>2 DEF Confirm
<1>5. CASE Dismiss
  BY <1>5 DEF Dismiss, Back
<1>6. CASE Write
  BY <1>6 DEF Write
<1>7. CASE Say
  <2>1. onError' \in Screens \cup {"none", "copy"} /\ failedAt' \in Screens \cup {"none"}
        /\ draft' \in BOOLEAN
    BY <1>7 DEF Say, FailInChat, Screens
  <2>2. said' \in Seq(SUBSET ToSet(MenuKeys))
    <3>1. ToSet(recipientKeys) \in SUBSET ToSet(MenuKeys)
      BY DEF ToSet
    <3>2. CASE said' = Append(said, ToSet(recipientKeys))
      BY <3>1, <3>2, AppendProperties
    <3> QED BY <1>7, <3>2 DEF Say
  <2>3. UNCHANGED currentScreen
    BY <1>7 DEF Say, FailInChat
  <2> QED BY <1>7, <2>1, <2>2, <2>3 DEF Say
<1>8. CASE Quit
  BY <1>8 DEF Quit
<1>9. CASE AgentChanges
  BY <1>9 DEF AgentChanges
<1>10. ASSUME NEW k \in ToSet(Keyring), GoBad(k) PROVE TypeOK'
  BY <1>10 DEF GoBad
<1>11. CASE MoveLogin
  BY <1>11 DEF MoveLogin
<1>12. CASE MoveMenu
  BY <1>12 DEF MoveMenu
<1>13. CASE Pick
  BY <1>13 DEF Pick
<1>14. CASE Unpick
  BY <1>14 DEF Unpick
<1>15. CASE Hear
  BY <1>15 DEF Hear
<1>16. CASE Decrypt
  <2>1. agent' \in BOOLEAN /\ lent' \in BOOLEAN /\ hearing' \in {"idle", "wrong", "right", "flush"}
    BY <1>16 DEF Decrypt
  <2> QED BY <1>16, <2>1 DEF Decrypt
<1>17. CASE Flush
  <2>1. agent' \in BOOLEAN
    BY <1>17 DEF Flush
  <2> QED BY <1>17, <2>1 DEF Flush
<1> QED BY <1>1, <1>2, <1>3, <1>4, <1>5, <1>6, <1>7, <1>8, <1>9, <1>10, <1>11, <1>12, <1>13,
           <1>14, <1>15, <1>16, <1>17 DEF Next, User, ConnectionThread

LEMMA StepMenus == MenusSound /\ [Next]_vars => MenusSound'
<1> SUFFICES ASSUME MenusSound, [Next]_vars PROVE MenusSound'
  OBVIOUS
<1>1. ASSUME UNCHANGED <<loginSel, menuSel, picked>>
      PROVE  SelectionInRange' /\ PickedOnce'
  BY <1>1 DEF MenusSound, SelectionInRange, PickedOnce
<1>2. CASE Next /\ UNCHANGED <<loginSel, menuSel, picked>>
  BY <1>1, <1>2, TypesStay DEF MenusSound
<1>3. CASE UNCHANGED vars
  <2>1. UNCHANGED <<loginSel, menuSel, picked>>
    BY <1>3 DEF vars
  <2>2. TypeOK'
    BY <1>3 DEF MenusSound, TypeOK, vars, chat, world, gained, history
  <2> QED BY <1>1, <2>1, <2>2 DEF MenusSound
<1>4. Next => MoveLogin \/ MoveMenu \/ Pick \/ Unpick \/ UNCHANGED <<loginSel, menuSel, picked>>
  BY DEF Next, User, LogIn, Type, SubmitPassphrase, Confirm, Dismiss, Write, Say, Quit,
     ConnectionThread, Hear, Decrypt, Flush, AgentChanges, GoBad
<1> QED BY <1>2, <1>3, <1>4, MoveMenus, PickMenus

\* Whatever the keyring and whatever keys are pressed, no cursor leaves a menu
\* that is not empty and no key is picked twice, so that the guards of (T), (U)
\* and ENTER never lock the user out (gpg_screens.cpp:134-150, 304-399).
THEOREM Menus == Spec => []MenusSound
BY InitMenus, StepMenus, PTL DEF Spec

-----------------------------------------------------------------------------
(* The checks of a key.                                                     *)

\* The scan of the subkeys is of no consequence: where the key itself has no
\* defect, it finds a good subkey only if gpg's flag of the key says so too.
LEMMA EncryptIffUsable ==
  ASSUME NEW k \in Key, WellFormed(k)
  PROVE  can_key_encrypt(k) <=> Usable(k)
<1>1. ASSUME k.defects = {}, FirstGood(k, Encrypting(k))
      PROVE  \E i \in DOMAIN k.subkeys : Encrypts(k.subkeys[i])
  BY <1>1 DEF FirstGood, Encrypting, Encrypts
<1> QED BY <1>1 DEF can_key_encrypt, Usable, WellFormed

LEMMA DecryptOnlyIfUsable ==
  ASSUME NEW k \in Key, WellFormed(k), can_key_decrypt(k)
  PROVE  k.hasSecret /\ Usable(k)
<1>1. ASSUME FirstGood(k, Decrypting(k))
      PROVE  \E i \in DOMAIN k.subkeys : Encrypts(k.subkeys[i])
  BY <1>1 DEF FirstGood, Decrypting, Encrypting, Encrypts
<1> QED BY <1>1 DEF can_key_decrypt, Usable, WellFormed

\* The invariant of a key on its way through the menus: the verdict is right.
Judged ==
  /\ VerdictTypeOK
  /\ RecipientIffUsable
  /\ AccountIsUsable

LEMMA InitJudged == VerdictInit => Judged
BY DEF VerdictInit, Judged, VerdictTypeOK, Verdicts, RecipientIffUsable, AccountIsUsable

LEMMA NextJudged == Judged /\ [VerdictNext]_verdictVars => Judged'
<1> SUFFICES ASSUME Judged, [VerdictNext]_verdictVars PROVE Judged'
  OBVIOUS
<1>1. key \in Key /\ WellFormed(key)
  BY KeysAssumption DEF Judged, VerdictTypeOK
<1>2. CASE CheckRecipient
  BY <1>1, <1>2, EncryptIffUsable
     DEF Judged, VerdictTypeOK, Verdicts, RecipientIffUsable, AccountIsUsable, CheckRecipient
<1>3. CASE CheckLogin
  BY <1>1, <1>3, DecryptOnlyIfUsable
     DEF Judged, VerdictTypeOK, Verdicts, RecipientIffUsable, AccountIsUsable, CheckLogin
<1>4. CASE UNCHANGED verdictVars
  BY <1>4 DEF Judged, VerdictTypeOK, RecipientIffUsable, AccountIsUsable, verdictVars
<1> QED BY <1>2, <1>3, <1>4 DEF VerdictNext

\* Whatever keys gpg holds, with any number of subkeys, a key is taken as recipient
\* exactly if gpg can encrypt to it (gpg_config.cpp:46-103).
THEOREM Recipients == VerdictSpec => []RecipientIffUsable
<1>1. Judged => RecipientIffUsable BY DEF Judged
<1> QED BY InitJudged, NextJudged, <1>1, PTL DEF VerdictSpec

\* Whatever keys gpg holds, a key that logs in has a secret part and can be
\* encrypted to (gpg_config.cpp:105-167).
THEOREM Accounts == VerdictSpec => []AccountIsUsable
<1>1. Judged => AccountIsUsable BY DEF Judged
<1> QED BY InitJudged, NextJudged, <1>1, PTL DEF VerdictSpec

\* Both checks are right, for keys with any number of subkeys.
THEOREM Checks == VerdictSpec => []ChecksAreRight
BY Recipients, Accounts, PTL DEF ChecksAreRight

-----------------------------------------------------------------------------
LEMMA IsU32 ==
  ASSUME NEW h
  PROVE  h \in U32 <=> h \in Nat /\ h < Byte * Byte * Byte * Byte
BY CodecAssumption, SMT DEF U32

\* The weights of the bytes, which have 8 bits.
LEMMA Weights ==
  ASSUME Byte = 256
  PROVE  /\ Byte * Byte = 65536
         /\ Byte * Byte * Byte = 16777216
         /\ Byte * Byte * Byte * Byte = 4294967296
<1>1. Byte * Byte = 65536
  BY SMT
<1>2. Byte * Byte * Byte = 65536 * Byte
  BY <1>1
<1> QED BY <1>1, <1>2, SMT

\* What encode_u32 and decode_u32 do to one another.
LEMMA RoundTrip ==
  ASSUME Byte = 256, NEW h \in U32
  PROVE  decode_u32(encode_u32(h)) = h
<1> DEFINE h1 == h \div 256
           h2 == h \div 65536
           h3 == h \div 16777216
<1>1. h \in Nat /\ h < 4294967296
  BY IsU32, Weights, SMT
<1>2. h = h1 * 256 + (h % 256) /\ h1 \in Int /\ h % 256 \in Int
  BY <1>1, SMT
<1>3. h1 = h2 * 256 + (h1 % 256) /\ h2 \in Int /\ h1 % 256 \in Int
  BY <1>1, SMT
<1>4. h2 = h3 * 256 + (h2 % 256) /\ h3 \in Int /\ h2 % 256 \in Int
  BY <1>1, SMT
<1>5. h3 % 256 = h3
  BY <1>1, SMT
<1>6. h \div (Byte * Byte * Byte) = h3 /\ h \div (Byte * Byte) = h2 /\ h \div Byte = h1
  BY Weights, SMT
<1> HIDE DEF h1, h2, h3
<1>7. h = (h3 % 256) * 256 * 256 * 256 + (h2 % 256) * 256 * 256 + (h1 % 256) * 256 + (h % 256)
  BY <1>2, <1>3, <1>4, <1>5, SMT
<1>8. encode_u32(h) = <<h3 % 256, h2 % 256, h1 % 256, h % 256>>
  BY <1>6, SMT DEF encode_u32
<1> QED BY <1>7, <1>8, SMT DEF decode_u32

LEMMA PrefixRoundTrip ==
  ASSUME Byte = 256, NEW p \in Prefix
  PROVE  PrefixSurvives(p)
<1> DEFINE a == p[1]
           b == p[2]
           c == p[3]
           d == p[4]
<1>1. p = <<a, b, c, d>> /\ a \in 0..255 /\ b \in 0..255 /\ c \in 0..255 /\ d \in 0..255
  BY SMT DEF Prefix, U8
<1> HIDE DEF a, b, c, d
<1> DEFINE n == a * 16777216 + b * 65536 + c * 256 + d
<1>2. decode_u32(p) = n
  BY <1>1, SMT DEF decode_u32
<1>3. n \in Nat /\ n < 4294967296
  BY <1>1, SMT
<1>4. n \div 16777216 = a
  BY <1>1, SMT
<1>5. n \div 65536 = a * 256 + b
  BY <1>1, SMT
<1>6. n \div 256 = a * 65536 + b * 256 + c /\ n % 256 = d
  BY <1>1, SMT
<1>7. a % 256 = a /\ (a * 256 + b) % 256 = b /\ (a * 65536 + b * 256 + c) % 256 = c
  BY <1>1, SMT
<1> HIDE DEF n
<1>8. encode_u32(n) = p
  BY <1>1, <1>4, <1>5, <1>6, <1>7, Weights, SMT DEF encode_u32
<1> QED BY <1>2, <1>3, <1>8, IsU32, Weights, SMT DEF PrefixSurvives

\* The inputs of the computations never change.
InputOK == number \in Int /\ prefix \in Prefix

LEMMA InputsStay == MCSpec => []InputOK
<1>1. MCInit => InputOK
  BY MaxNumberAssumption, CodecAssumption, SMT DEF MCInit, InputOK, ZeroPrefix, Prefix, U8
<1>2. InputOK /\ [VerdictNext /\ UNCHANGED input]_<<verdictVars, input>> => InputOK'
  BY DEF InputOK, input
<1> QED BY <1>1, <1>2, PTL DEF MCSpec

\* What a program writes in front of a message of any legal size, the other reads,
\* and the server passes on any prefix as it came (client_config.cpp:31-40, 116-127;
\* server_config.cpp:23-32, 95-104).
THEOREM Sizes == ASSUME Byte = 256 PROVE MCSpec => []SizesSurvive
<1>1. ASSUME NEW size \in Nat PROVE PrefixIsSize(size)
  <2>1. CASE Writable(size)
    <3>1. size < 4294967296
      BY <1>1, <2>1, CodecAssumption, Weights, SMT DEF Writable
    <3>2. size % 4294967296 = size
      BY <1>1, <3>1, SMT
    <3>3. size \in U32 /\ size % (Byte * Byte * Byte * Byte) = size
      BY <1>1, <3>1, <3>2, IsU32, Weights, SMT
    <3>4. decode_u32(WrittenPrefix(size)) = size
      BY <3>3, RoundTrip DEF WrittenPrefix
    <3> QED BY <2>1, <3>4 DEF PrefixIsSize, Writable, Readable
  <2>2. CASE ~Writable(size)
    BY <2>2, SMT DEF PrefixIsSize, Writable, Readable
  <2> QED BY <2>1, <2>2
<1>2. InputOK => SizesSurvive
  BY <1>1, PrefixRoundTrip, SMT DEF SizesSurvive, InputOK
<1> QED BY <1>2, InputsStay, PTL

\* Hours, minutes and seconds of any uptime add up (resources_config.cpp:47-54).
THEOREM Uptime == MCSpec => []UptimeIsShown
<1>1. ASSUME NEW s \in Nat PROVE UptimeAddsUp(s)
  <2>1. s = (s \div 3600) * 3600 + (s % 3600) /\ s % 3600 \in 0..3599 /\ s \div 3600 \in Int
    BY <1>1, SMT
  <2>2. s % 60 = (s % 3600) % 60
    BY <1>1, SMT
  <2>3. s % 3600 = ((s % 3600) \div 60) * 60 + ((s % 3600) % 60)
        /\ (s % 3600) \div 60 \in 0..59 /\ (s % 3600) % 60 \in 0..59
    BY <2>1, SMT
  <2> QED BY <1>1, <2>1, <2>2, <2>3, SMT DEF UptimeAddsUp, getUptime
<1>2. InputOK => UptimeIsShown
  BY <1>1, SMT DEF UptimeIsShown, InputOK
<1> QED BY <1>2, InputsStay, PTL

\* The memory on the dashboard is right below 2 GiB (resources_config.cpp:42-45,
\* ProcessInfo.cpp:164-181).
THEOREM Memory ==
  ASSUME Kilo = 1024, IntMax = 2147483647
  PROVE  MCSpec => []MemoryShownBelowLimit
<1>1. ASSUME NEW kb \in Nat, kb * 1024 <= 2147483647
      PROVE  currentMemory(kb) = {kb \div 1024}
  <2>1. kb * 1024 + 2147483648 \in Nat /\ kb * 1024 + 2147483648 < 4294967296
    BY <1>1, SMT
  <2>2. (kb * 1024 + 2147483648) % 4294967296 = kb * 1024 + 2147483648
    BY <2>1, SMT
  <2>3. ToInt(kb * Kilo) = kb * 1024
    BY <1>1, <2>2, SMT DEF ToInt
  <2>4. (kb * 1024) \div 1048576 = kb \div 1024
    BY <1>1, SMT
  <2>5. Quotient(kb * 1024, Kilo * Kilo) = kb \div 1024
    BY <1>1, <2>4, SMT DEF Quotient
  <2> QED BY <2>3, <2>5 DEF currentMemory, GetMemoryUsage
<1>2. ASSUME NEW kb \in Nat, kb * 1024 > 2147483647
      PROVE  \E m \in currentMemory(kb) : m < kb \div 1024
  <2> DEFINE u == ToInt(kb * Kilo)
  <2>1. u \in Int /\ u <= 2147483647 /\ u >= -2147483648 /\ kb \div 1024 >= 2048
    BY <1>2, SMT DEF ToInt
  <2>2. Quotient(u, Kilo * Kilo) < kb \div 1024
    <3>1. Quotient(u, Kilo * Kilo) \in Int /\ Quotient(u, Kilo * Kilo) < 2048
      BY <2>1, SMT DEF Quotient
    <3> QED BY <2>1, <3>1, <1>2, SMT
  <2>3. Quotient(u, Kilo * Kilo) \in currentMemory(kb)
    BY DEF currentMemory, GetMemoryUsage
  <2> HIDE DEF u
  <2> QED BY <2>2, <2>3, SMT
<1>3. currentMemory(-1) = {0}
  <2>1. ToInt((-1) * Kilo) = -1024 /\ (-1) * Kilo = -1024
    BY SMT DEF ToInt
  <2>2. Quotient(-1024, Kilo * Kilo) = 0
    BY SMT DEF Quotient
  <2> QED BY <2>1, <2>2 DEF currentMemory, GetMemoryUsage
<1>4. InputOK => MemoryShownBelowLimit
  BY <1>1, <1>2, <1>3, SMT DEF MemoryShownBelowLimit, MemoryIsShown, InputOK
<1> QED BY <1>4, InputsStay, PTL

\* Uptime and memory are shown right with an int of 32 bits, for every reading.
THEOREM MetricsShown ==
  ASSUME Kilo = 1024, IntMax = 2147483647
  PROVE  MCSpec => []MetricsAreRight
BY Uptime, Memory, PTL DEF MetricsAreRight
=============================================================================
