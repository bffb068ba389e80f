----------------------------- MODULE ClientLink -----------------------------
(***************************************************************************)
(* The client's two threads and its one socket: the connection thread that *)
(* runs the io_context (main.cpp:16-49 and client_config.cpp of            *)
(* src/src/client), and the UI thread that posts messages to it            *)
(* (client_chat_screen.cpp:236-293) and closes the socket under it when    *)
(* the user quits.  Of the screens only what the connection thread can see *)
(* is left: whether there is an account, and the passphrase as typed so    *)
(* far.                                                                    *)
(*                                                                         *)
(* The server sends the frames Heard[1], Heard[2]...: each is two cells, a *)
(* header and a body.  The n-th message of the user is a frame of          *)
(* Texts[n] + 1 cells.                                                     *)
(***************************************************************************)
EXTENDS AsyncWrite, SequencesExt

CONSTANTS
  Heard,        \* what the server sends: "text" for me, "alien" to my key,
                \* "odd" inside, or of "bad" size
  Texts,        \* sizes of the user's messages once encrypted
  MaxMsg,       \* MAX_MSG, in cells
  MaxTransfer   \* most cells one async_write_some transfers

ASSUME ClientLinkAssumption ==
  /\ Heard \in Seq({"text", "alien", "odd", "bad"})
  /\ Texts \in Seq(Nat \ {0})
  /\ MaxMsg \in Nat \ {0}
  /\ MaxTransfer \in Nat \ {0}

VARIABLES
  process,   \* "running", "exited" from main, or "aborted"
  sock,      \* "unopened", "connecting", "connected", "failed" to, "closed"
  peer,      \* the server's end: "up", "gone" (FIN), "reset"
  arrived,   \* cells that arrived
  taken,     \* cells that were read
  io,        \* the io_context: "running", "stopped"
  thread,    \* the connection thread: "starting", "running", "done"
  rd,        \* read chain: "none", reading "hdr", "body", in the handler
             \* ("decrypt"), read_loop "posted"
  posted,    \* messages posted to the io_context
  q,         \* the writes outstanding on the socket
  account,   \* *clientAccount is a key
  pass,      \* *passphrase: "empty", "wrong", "right"
  ui,        \* "login", "prompt", "chat", socket "closed" by Escape, loop "left"
  messages,  \* the chat: <<"own" | "text" | "error", n>>
  written    \* history: messages a write was started for, in order

reading == <<arrived, taken, rd>>
writing == <<posted, q, written>>
user == <<account, pass, ui>>
vars == <<process, sock, peer, reading, io, thread, writing, user, messages>>

Message == {"own", "text", "error"} \X Nat

TypeOK ==
  /\ process \in {"running", "exited", "aborted"}
  /\ sock \in {"unopened", "connecting", "connected", "failed", "closed"}
  /\ peer \in {"up", "gone", "reset"}
  /\ arrived \in 0..2 * Len(Heard) /\ taken \in 0..arrived
  /\ io \in {"running", "stopped"} /\ thread \in {"starting", "running", "done"}
  /\ rd \in {"none", "hdr", "body", "decrypt", "posted"}
  /\ posted \in Seq(DOMAIN Texts) /\ q \in WriteQueue(DOMAIN Texts)
  /\ account \in BOOLEAN /\ pass \in {"empty", "wrong", "right"}
  /\ ui \in {"login", "prompt", "chat", "closed", "left"}
  /\ messages \in Seq(Message) /\ written \in Seq(DOMAIN Texts)

Init ==
  /\ process = "running"
  /\ sock = "unopened" /\ peer = "up"
  /\ arrived = 0 /\ taken = 0
  /\ io = "running" /\ thread = "starting"
  /\ rd = "none"
  /\ posted = <<>> /\ q = NoWrites
  /\ account = FALSE /\ pass = "empty" /\ ui = "login"
  /\ messages = <<>> /\ written = <<>>

Running == process = "running"

\* The connection thread is in io->run() and not in the middle of a handler.
Polling == Running /\ thread = "running" /\ io = "running" /\ rd # "decrypt"

is_open == sock \in {"connecting", "connected", "failed"}

\* shutdown and close with the errors ignored, then io->stop().
CloseAndStop ==
  /\ sock' = "closed"
  /\ io' = "stopped"
  /\ rd' = "none"
  /\ q' = AbortWrites(q)

-----------------------------------------------------------------------------
(* Network and server.                                                      *)

Arrive ==
  /\ Running /\ sock = "connected" /\ peer = "up"
  /\ arrived < 2 * Len(Heard)
  /\ arrived' = arrived + 1
  /\ UNCHANGED <<process, sock, peer, taken, rd, io, thread, writing, user, messages>>

ServerLeaves ==
  /\ Running /\ sock = "connected" /\ peer = "up"
  /\ peer' \in {"gone", "reset"}
  /\ UNCHANGED <<process, sock, reading, io, thread, writing, user, messages>>

-----------------------------------------------------------------------------
(* The connection thread.                                                   *)

\* The thread starts: async_connect opens the socket.
Start ==
  /\ Running /\ thread = "starting"
  /\ thread' = "running"
  /\ sock' = "connecting"
  /\ UNCHANGED <<process, peer, reading, io, writing, user, messages>>

\* The completion refers to connect's parameter `handler', which is gone
\* (client_config.cpp:109): the call works, or kills the process.
Connected ==
  /\ Polling /\ sock = "connecting"
  /\ sock' = "connected"
  /\ \/ rd' = "hdr" /\ UNCHANGED process
     \/ process' = "aborted" /\ UNCHANGED rd
  /\ UNCHANGED <<peer, arrived, taken, io, thread, writing, user, messages>>

\* Nothing is done about an error.
ConnectFails ==
  /\ Polling /\ sock = "connecting"
  /\ sock' = "failed"
  /\ UNCHANGED <<process, peer, reading, io, thread, writing, user, messages>>

Frame == (taken + 1) \div 2

ReadHeader ==
  /\ Polling /\ sock = "connected"
  /\ rd = "hdr" /\ taken < arrived
  /\ taken' = taken + 1
  /\ IF Heard[taken \div 2 + 1] = "bad"
     THEN CloseAndStop
     ELSE rd' = "body" /\ UNCHANGED <<sock, io, q>>
  /\ UNCHANGED <<process, peer, arrived, thread, posted, written, user, messages>>

ReadBody ==
  /\ Polling /\ sock = "connected"
  /\ rd = "body" /\ taken < arrived
  /\ taken' = taken + 1
  /\ rd' = "decrypt"
  /\ UNCHANGED <<process, sock, peer, arrived, io, thread, writing, user, messages>>

\* Mistake: no read follows.
NoMore == "none"

\* read_loop is posted only if the socket is still open.
AfterBody == IF is_open THEN "posted" ELSE "none"

\* What gpg::decrypt and json::parse make of a frame.  Without an account the
\* fingerprint is a null pointer, and what is not JSON throws no runtime_error:
\* both end the process.  A wrong passphrase will do if gpg-agent holds the key.
Decrypted(kind) ==
  IF ~account THEN {"abort"}
  ELSE {x \in {"error"} : pass # "right" \/ kind = "alien"}
       \cup {x \in {IF kind = "odd" THEN "abort" ELSE "text"} : pass # "empty" /\ kind # "alien"}

Shown(kind) == Append(messages, <<kind, Frame>>)

\* The handler of the read loop: decrypt, show, go on reading.  The UI may quit
\* meanwhile.
Handle ==
  /\ Running /\ thread = "running" /\ rd = "decrypt"
  /\ \E kind \in Decrypted(Heard[Frame]) :
       IF kind = "abort"
       THEN process' = "aborted" /\ UNCHANGED <<messages, rd>>
       ELSE /\ messages' = Shown(kind)
            /\ rd' = AfterBody
            /\ UNCHANGED process
  /\ UNCHANGED <<sock, peer, arrived, taken, io, thread, writing, user>>

Repost ==
  /\ Polling /\ rd = "posted"
  /\ rd' = "hdr"
  /\ UNCHANGED <<process, sock, peer, arrived, taken, io, thread, writing, user, messages>>

\* Mistake: only the header read handles an error.
HeaderFails ==
  rd = "hdr" /\ (peer = "reset" \/ sock = "closed" \/ (peer = "gone" /\ taken = arrived))

\* End of file before the cells are all there, a reset, or a socket that the UI
\* thread closed.
ReadFails ==
  \/ peer = "reset" \/ sock = "closed"
  \/ peer = "gone" /\ taken = arrived

ReadError ==
  /\ Polling /\ rd \in {"hdr", "body"}
  /\ ReadFails
  /\ CloseAndStop
  /\ UNCHANGED <<process, peer, arrived, taken, thread, posted, written, user, messages>>

\* client::write in the connection thread.  It throws for a message above the
\* limit, and nobody catches; on a closed socket the write fails at once.
RunPosted ==
  /\ Polling /\ posted # <<>>
  /\ LET n == Head(posted) IN
       /\ posted' = Tail(posted)
       /\ IF Texts[n] > MaxMsg
          THEN process' = "aborted" /\ UNCHANGED <<q, written>>
          ELSE /\ UNCHANGED process
               /\ q' = IF is_open THEN StartWrite(q, n, Texts[n] + 1) ELSE q
               /\ written' = IF is_open THEN Append(written, n) ELSE written
  /\ UNCHANGED <<sock, peer, reading, io, thread, user, messages>>

Transfer ==
  /\ Polling /\ sock = "connected" /\ peer # "reset"
  /\ \E k \in Transfers(q, MaxTransfer) : q' = TransferSome(q, k)
  /\ UNCHANGED <<process, sock, peer, reading, io, thread, posted, written, user, messages>>

\* A write goes on; on a closed socket it ends.
Resume ==
  /\ Polling /\ q.resume # <<>>
  /\ q' = IF is_open THEN ResumeWrite(q) ELSE DropResumed(q)
  /\ UNCHANGED <<process, sock, peer, reading, io, thread, posted, written, user, messages>>

\* The error is ignored (client_chat_screen.cpp:261-265).
WriteError ==
  /\ Polling /\ q.ready # <<>>
  /\ sock = "failed" \/ (sock = "connected" /\ peer = "reset")
  /\ q' = FailWrite(q)
  /\ UNCHANGED <<process, sock, peer, reading, io, thread, posted, written, user, messages>>

OutOfWork == rd = "none" /\ sock # "connecting" /\ posted = <<>> /\ Outstanding(q) = 0

\* io->run() returns: it was stopped, or nothing is left to wait for.
ThreadEnds ==
  /\ Running /\ thread = "running" /\ rd # "decrypt"
  /\ io = "stopped" \/ OutOfWork
  /\ thread' = "done"
  /\ io' = "stopped"
  /\ UNCHANGED <<process, sock, peer, reading, writing, user, messages>>

-----------------------------------------------------------------------------
(* The UI thread.                                                           *)

LogIn ==
  /\ Running /\ ui = "login"
  /\ account' = TRUE
  /\ ui' = "prompt"
  /\ UNCHANGED <<process, sock, peer, reading, io, thread, writing, pass, messages>>

Type ==
  /\ Running /\ ui = "prompt"
  /\ pass' \in {"empty", "wrong", "right"} \ {pass}
  /\ UNCHANGED <<process, sock, peer, reading, io, thread, writing, account, ui, messages>>

\* The passphrase is accepted and recipients are chosen.
EnterChat ==
  /\ Running /\ ui = "prompt" /\ pass # "empty"
  /\ ui' = "chat"
  /\ UNCHANGED <<process, sock, peer, reading, io, thread, writing, account, pass, messages>>

Own == {i \in DOMAIN messages : messages[i][1] = "own"}

\* Mistake: the newest message goes first.
PostedFirst(n) == <<n>> \o posted

Posted(n) == Append(posted, n)

\* ENTER in the chat: the message is shown and posted, whatever became of the
\* connection.
Say ==
  /\ Running /\ ui = "chat"
  /\ LET n == Cardinality(Own) + 1 IN
       /\ n \in DOMAIN Texts
       /\ messages' = Append(messages, <<"own", n>>)
       /\ posted' = Posted(n)
  /\ UNCHANGED <<process, sock, peer, reading, io, thread, q, written, user>>

\* shutdown() without an error_code throws if there is no connection: nothing
\* catches that (a connection attempt counts as one).
shutdown_throws == ~(sock = "connecting" \/ (sock = "connected" /\ peer # "reset"))

\* Escape: shutdown and close under the connection thread...
Escape ==
  /\ Running /\ ui \in {"login", "prompt", "chat"}
  /\ IF shutdown_throws
     THEN process' = "aborted" /\ UNCHANGED <<sock, q, ui>>
     ELSE /\ sock' = "closed"
          /\ q' = AbortWrites(q)
          /\ ui' = "closed"
          /\ UNCHANGED process
  /\ UNCHANGED <<peer, reading, io, thread, posted, written, account, pass, messages>>

\* ... then io->stop(), and the UI loop ends.
Leave ==
  /\ Running /\ ui = "closed"
  /\ io' = "stopped"
  /\ ui' = "left"
  /\ UNCHANGED <<process, sock, peer, reading, thread, writing, account, pass, messages>>

\* main joins the connection thread and returns.
Exit ==
  /\ Running /\ ui = "left" /\ thread = "done"
  /\ process' = "exited"
  /\ UNCHANGED <<sock, peer, reading, io, thread, writing, user, messages>>

-----------------------------------------------------------------------------
IoThread ==
  \/ Start \/ Connected \/ ConnectFails
  \/ ReadHeader \/ ReadBody \/ Handle \/ Repost \/ ReadError
  \/ RunPosted \/ Transfer \/ Resume \/ WriteError
  \/ ThreadEnds

UIThread == LogIn \/ Type \/ EnterChat \/ Say \/ Escape \/ Leave \/ Exit

Next == IoThread \/ UIThread \/ Arrive \/ ServerLeaves

Spec == Init /\ [][Next]_vars

\* The connection thread runs what is ready (a connection attempt succeeds or
\* fails), and what the UI thread has begun it finishes.  Nothing is assumed of
\* the user and the server: it need not even read what the client writes.
FairSpec ==
  /\ Spec
  /\ WF_vars(Start)
  /\ WF_vars(Connected \/ ConnectFails)
  /\ WF_vars(ReadHeader \/ ReadBody \/ Handle \/ Repost \/ ReadError)
  /\ WF_vars(RunPosted) /\ WF_vars(Resume) /\ WF_vars(WriteError)
  /\ WF_vars(ThreadEnds)
  /\ WF_vars(Leave) /\ WF_vars(Exit)

-----------------------------------------------------------------------------
HeardItems == {i \in DOMAIN messages : messages[i][1] # "own"}

\* The chat shows every frame that was read, as a message or as an error, in the
\* order of arrival and once, whatever the user does meanwhile: header, body,
\* handler and posted read_loop never lose step.
ShownInOrder ==
  /\ \A i \in HeardItems : messages[i][2] = Cardinality({j \in HeardItems : j <= i})
  /\ Running => Cardinality(HeardItems) = IF rd = "decrypt" THEN Frame - 1 ELSE taken \div 2

\* The user's messages are written in the order in which the chat shows them: the
\* io_context keeps the order of the posts (client_chat_screen.cpp:258-266).
WrittenInOrder ==
  \A i \in DOMAIN written : written[i] = i

\* The two threads keep what is heard, said and written in order.
OrderKept == TypeOK /\ ShownInOrder /\ WrittenInOrder

\* The size of each message on the wire, its header included.
Lens == [n \in DOMAIN Texts |-> Texts[n] + 1]

\* Nothing keeps what a write was started for from reaching the server.
Alive == sock \notin {"failed", "closed"} /\ peer # "reset"

\* What the server gets.  As long as no two writes overlap it is the messages, whole
\* and in order.  When a message was said before the last one was out
\* (client_config.cpp:131 looks for none) they may mix, but each one's bytes still come
\* in order and once, the headers come in the order said, and nothing is lost while
\* the connection lives.
WireIsMessages ==
  /\ ~q.overlapped => OneAfterAnother(q, written, Lens)
  /\ InOrderOnWire(q) /\ HeadersInOrder(q)
  /\ BytesKept(q, written, Lens, Alive)

\* The two threads, the sockets and the loop together are a client as ChatClient
\* describes it: nothing else ever changes the list of messages or what is sent.
Client == INSTANCE ChatClient WITH shown <- messages, sent <- written

ImplementsClient == Client!Spec

\* A connection that is lost ends the connection thread: it never waits on a dead
\* socket, or main could not join it.
LostEndsThread == peer # "up" ~> thread = "done" \/ ~Running

\* A whole frame is shown, or the connection is over.
HeardIsShown ==
  \A k \in DOMAIN Heard :
    arrived >= 2 * k ~> Cardinality(HeardItems) >= k \/ ~Running \/ sock = "closed"

\* client_chat_screen.cpp:323, "Esc": "Exit/Quit": in the chat Escape quits, it
\* does not kill the process.
EscapeQuits ==
  [][ui = "chat" /\ thread # "starting" /\ Escape => process' = "running"]_vars
=============================================================================
