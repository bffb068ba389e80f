------------------------------- MODULE Relay -------------------------------
(***************************************************************************)
(* The relay of src/src/server/server_config.cpp: the accept chain, one    *)
(* read chain per connection, and the broadcast that starts a write to     *)
(* every other connection.  One thread runs the io_context (main.cpp:66),  *)
(* so each completion handler is one atomic step; what interleaves is the  *)
(* order of the completions, the clients and the network.                  *)
(*                                                                         *)
(* Client c sends the frames Script[c][1], Script[c][2], ...: a frame is a *)
(* header cell <<c, k, 0>>, which announces Script[c][k] cells, and those  *)
(* data cells <<c, k, 1>>, <<c, k, 2>>, ...                                *)
(***************************************************************************)
EXTENDS AsyncWrite, SequencesExt

CONSTANTS
  Conn,            \* connections a client may make, each at most once
  Script,          \* Script[c]: sizes of the messages c sends, in order
  MaxMsg,          \* MAX_MSG, in cells (server_config.cpp:51)
  MaxTransfer,     \* most cells one async_write_some transfers
  Quitters,        \* clients that may hang up
  Listeners,       \* clients that keep reading what they are sent
  ClientOverlaps,  \* a client's own writes may overlap (client_config.cpp:130)
  AcceptErrors     \* async_accept may fail (EMFILE, ENFILE, ENOMEM...)

ASSUME RelayAssumption ==
  /\ Script \in [Conn -> Seq(Nat)]
  /\ MaxMsg \in Nat \ {0}
  /\ MaxTransfer \in Nat \ {0}
  /\ Quitters \subseteq Conn
  /\ Listeners \subseteq Conn
  /\ ClientOverlaps \in BOOLEAN
  /\ AcceptErrors \in BOOLEAN

VARIABLES
  conn,     \* "none", "backlog" of the kernel, "open", or socket "destroyed"
  peer,     \* the client's end: "up", "gone" (FIN sent), "reset"
  sent,     \* sent[c][k]: cells of its k-th frame c has sent
  up,       \* up[c]: cells on their way from c to the server
  acc,      \* accept chain: acceptor "posted", async_accept "pending", "failed"
  sockets,  \* the registry: std::vector of accepted sockets
  rd,       \* read chain: "idle", reading "hdr", "body", read_loop "posted", "done"
  need,     \* n, the data cells the pending body read waits for
  q,        \* q[c]: the writes outstanding on c's socket
  crashed,  \* the process died of undefined behaviour
  relayed,  \* history: [from, data] of each broadcast
  started,  \* history: the broadcasts a write to c was started for
  joined,   \* history: Len(relayed) when c was accepted, or -1
  left      \* history: Len(relayed) when c was dropped, or -1

net == <<peer, sent>>
history == <<relayed, started, joined, left>>
vars == <<conn, peer, sent, up, acc, sockets, rd, need, q, crashed, history>>

\* Cell <<c, k, i>> of the k-th frame of c.
Cell == {x \in Conn \X Nat \X Nat : x[2] \in 1..Len(Script[x[1]])}

Payload == {d \in Seq(Cell) : Len(d) \in 1..MaxMsg}

Reading == {"hdr", "body", "posted"}

TypeOK ==
  /\ conn \in [Conn -> {"none", "backlog", "open", "destroyed"}]
  /\ peer \in [Conn -> {"up", "gone", "reset"}]
  /\ sent \in [Conn -> Seq(Nat)]
  /\ \A c \in Conn : Len(sent[c]) = Len(Script[c])
  /\ up \in [Conn -> Seq(Cell)]
  /\ acc \in {"posted", "pending", "failed"}
  /\ sockets \in Seq(Conn)
  /\ rd \in [Conn -> Reading \cup {"idle", "done"}]
  /\ need \in [Conn -> 0..MaxMsg]
  /\ q \in [Conn -> WriteQueue(Nat)]
  /\ crashed \in BOOLEAN
  /\ relayed \in Seq([from: Conn, data: Payload])
  /\ started \in [Conn -> Seq(Nat)]
  /\ joined \in [Conn -> Nat \cup {-1}]
  /\ left \in [Conn -> Nat \cup {-1}]

Init ==
  /\ conn = [c \in Conn |-> "none"]
  /\ peer = [c \in Conn |-> "up"]
  /\ sent = [c \in Conn |-> [k \in 1..Len(Script[c]) |-> 0]]
  /\ up = [c \in Conn |-> <<>>]
  /\ acc = "pending"
  /\ sockets = <<>>
  /\ rd = [c \in Conn |-> "idle"]
  /\ need = [c \in Conn |-> 0]
  /\ q = [c \in Conn |-> NoWrites]
  /\ crashed = FALSE
  /\ relayed = <<>>
  /\ started = [c \in Conn |-> <<>>]
  /\ joined = [c \in Conn |-> -1]
  /\ left = [c \in Conn |-> -1]

-----------------------------------------------------------------------------
(* Clients and network.                                                     *)

\* The kernel completes the handshake on its own.
Connect(c) ==
  /\ conn[c] = "none"
  /\ ~crashed
  /\ conn' = [conn EXCEPT ![c] = "backlog"]
  /\ UNCHANGED <<net, up, acc, sockets, rd, need, q, crashed, history>>

\* Frames start in script order; unless its writes overlap, a client finishes
\* one before it starts the next.
MaySend(c, k) ==
  /\ sent[c][k] <= Script[c][k]
  /\ \A j \in 1..k - 1 : sent[c][j] > IF ClientOverlaps THEN 0 ELSE Script[c][j]

SendCell(c, k) ==
  /\ conn[c] \in {"backlog", "open"}
  /\ peer[c] = "up"
  /\ ~crashed
  /\ MaySend(c, k)
  /\ up' = [up EXCEPT ![c] = Append(@, <<c, k, sent[c][k]>>)]
  /\ sent' = [sent EXCEPT ![c][k] = @ + 1]
  /\ UNCHANGED <<conn, peer, acc, sockets, rd, need, q, crashed, history>>

\* A client hangs up: it sends FIN, or the connection is reset.
HangUp(c, how) ==
  /\ ~crashed
  /\ c \in Quitters
  /\ conn[c] \in {"backlog", "open"}
  /\ peer[c] # "reset"
  /\ how # peer[c]
  /\ peer' = [peer EXCEPT ![c] = how]
  /\ UNCHANGED <<conn, sent, up, acc, sockets, rd, need, q, crashed, history>>

-----------------------------------------------------------------------------
(* The accept chain.                                                        *)

\* Mistake: the handler does not post the next acceptor call.
AcceptedLast == "none"

\* asio::post(acceptor), the last thing the accept handler does.
Accepted == "posted"

\* Completion of async_accept without error: the socket joins the registry and
\* its read chain starts; the next acceptor call is posted.
Accept(c) ==
  /\ ~crashed
  /\ acc = "pending"
  /\ conn[c] = "backlog"
  /\ conn' = [conn EXCEPT ![c] = "open"]
  /\ sockets' = Append(sockets, c)
  /\ rd' = [rd EXCEPT ![c] = "hdr"]
  /\ acc' = Accepted
  /\ joined' = [joined EXCEPT ![c] = Len(relayed)]
  /\ UNCHANGED <<net, up, need, q, crashed, relayed, started, left>>

\* Completion with an error: the handler does nothing, so nothing accepts again.
AcceptFail ==
  /\ ~crashed
  /\ AcceptErrors
  /\ acc = "pending"
  /\ \E c \in Conn : conn[c] = "backlog"
  /\ acc' = "failed"
  /\ UNCHANGED <<conn, net, up, sockets, rd, need, q, crashed, history>>

\* The posted acceptor runs: a new socket, a new async_accept.
ReArm ==
  /\ ~crashed
  /\ acc = "posted"
  /\ acc' = "pending"
  /\ UNCHANGED <<conn, net, up, sockets, rd, need, q, crashed, history>>

-----------------------------------------------------------------------------
(* The read chain of one connection.                                        *)

\* Mistake: the socket is closed but stays in the vector.
EraseNothing(c) == sockets

\* std::find and erase
Erase(c) == RemoveFirst(sockets, c)

\* shutdown, close and erase; the chain ends, and with it the last reference to
\* the socket.  Writes in the scheduler still refer to it.
Drop(c) ==
  /\ conn' = [conn EXCEPT ![c] = "destroyed"]
  /\ sockets' = Erase(c)
  /\ rd' = [rd EXCEPT ![c] = "done"]
  /\ q' = [q EXCEPT ![c] = AbortWrites(@)]
  /\ up' = [up EXCEPT ![c] = <<>>]
  /\ left' = [left EXCEPT ![c] = Len(relayed)]
  /\ UNCHANGED <<net, acc, need, crashed, relayed, started, joined>>

\* decode_u32 of the next four bytes: what the client announced, or, once the
\* read chain is out of step with the frames, any number at all (0, a legal
\* size, or one above the limit).
Decoded(c) ==
  LET cell == Head(up[c]) IN
  IF up[c] = <<>> THEN {}
  ELSE IF cell[3] = 0 THEN {Script[cell[1]][cell[2]]} ELSE 0..MaxMsg + 1

\* Mistakes: the limit itself is refused; n > MAX_MSG is not refused.
BelowLimit(n) == n # 0 /\ n < MaxMsg
AnySizeButZero(n) == n # 0

ValidSize(n) == n # 0 /\ n <= MaxMsg

\* The four length bytes have arrived and hold a legal size.
ReadHeader(c, n) ==
  /\ ~crashed
  /\ rd[c] = "hdr"
  /\ n \in Decoded(c)
  /\ ValidSize(n)
  /\ need' = [need EXCEPT ![c] = n]
  /\ up' = [up EXCEPT ![c] = Tail(@)]
  /\ rd' = [rd EXCEPT ![c] = "body"]
  /\ UNCHANGED <<conn, net, acc, sockets, q, crashed, history>>

\* They hold 0 or more than MAX_MSG: the client is dropped.
RefuseHeader(c, n) ==
  /\ ~crashed
  /\ rd[c] = "hdr"
  /\ n \in Decoded(c)
  /\ ~ValidSize(n)
  /\ Drop(c)

\* Mistake: the comparison with the sender is missing.
EveryMember(c) == {d \in ToSet(sockets) : conn[d] = "open"}

\* The sockets the broadcast loop writes to.
Recipients(c) == {d \in ToSet(sockets) : d # c /\ conn[d] = "open"}

\* Mistakes: the next read is a body again; the chain ends with its first frame.
BodyAgain(c) == "body"
NoMore(c) == "done"

\* read_loop is posted only if the socket is still open.
AfterBody(c) == IF conn[c] = "open" THEN "posted" ELSE "done"

\* All n bytes have arrived: handler(data) frames them and starts a write on
\* every other socket; then the chain goes on.
ReadBody(c) ==
  /\ ~crashed
  /\ rd[c] = "body"
  /\ Len(up[c]) >= need[c]
  /\ LET data == SubSeq(up[c], 1, need[c])
         f == Len(relayed) + 1
     IN /\ relayed' = Append(relayed, [from |-> c, data |-> data])
        /\ q' = [d \in Conn |-> IF d \in Recipients(c)
                                THEN StartWrite(q[d], f, need[c] + 1)
                                ELSE q[d]]
        /\ started' = [d \in Conn |-> IF d \in Recipients(c)
                                      THEN Append(started[d], f)
                                      ELSE started[d]]
  /\ up' = [up EXCEPT ![c] = SubSeq(@, need[c] + 1, Len(@))]
  /\ rd' = [rd EXCEPT ![c] = AfterBody(c)]
  /\ UNCHANGED <<conn, net, acc, sockets, need, crashed, joined, left>>

\* The posted read_loop starts the next header read.
Repost(c) ==
  /\ ~crashed
  /\ rd[c] = "posted"
  /\ rd' = [rd EXCEPT ![c] = "hdr"]
  /\ UNCHANGED <<conn, net, up, acc, sockets, need, q, crashed, history>>

\* Mistake: only the header read handles an error.
HeaderFails(c) ==
  rd[c] = "hdr" /\ (peer[c] = "reset" \/ (peer[c] = "gone" /\ up[c] = <<>>))

\* End of file before the bytes are all there, or a reset.
ReadFails(c) ==
  \/ peer[c] = "reset"
  \/ peer[c] = "gone" /\ Len(up[c]) < IF rd[c] = "hdr" THEN 1 ELSE need[c]

\* A read completes with an error.
ReadError(c) ==
  /\ ~crashed
  /\ rd[c] \in {"hdr", "body"}
  /\ ReadFails(c)
  /\ Drop(c)

-----------------------------------------------------------------------------
(* The writes outstanding on one connection.                                *)

Transfer(c, k) ==
  /\ ~crashed
  /\ conn[c] = "open"
  /\ peer[c] # "reset"
  /\ k \in Transfers(q[c], MaxTransfer)
  /\ q' = [q EXCEPT ![c] = TransferSome(@, k)]
  /\ UNCHANGED <<conn, net, up, acc, sockets, rd, need, crashed, history>>

Resume(c) ==
  /\ ~crashed
  /\ conn[c] = "open"
  /\ q[c].resume # <<>>
  /\ q' = [q EXCEPT ![c] = ResumeWrite(@)]
  /\ UNCHANGED <<conn, net, up, acc, sockets, rd, need, crashed, history>>

\* send() on a reset connection fails; the handler ignores the error.
WriteError(c) ==
  /\ ~crashed
  /\ conn[c] = "open"
  /\ peer[c] = "reset"
  /\ q[c].ready # <<>>
  /\ q' = [q EXCEPT ![c] = FailWrite(@)]
  /\ UNCHANGED <<conn, net, up, acc, sockets, rd, need, crashed, history>>

\* A write half done when its socket was dropped resumes on freed memory: it
\* finds no descriptor there and ends, or the process dies.
ResumeFreed(c) ==
  /\ ~crashed
  /\ conn[c] = "destroyed"
  /\ q[c].resume # <<>>
  /\ q' = [q EXCEPT ![c] = DropResumed(@)]
  /\ crashed' \in BOOLEAN
  /\ UNCHANGED <<conn, net, up, acc, sockets, rd, need, history>>

-----------------------------------------------------------------------------
Reader(c) ==
  \/ \E n \in Decoded(c) : ReadHeader(c, n) \/ RefuseHeader(c, n)
  \/ ReadBody(c)
  \/ Repost(c)
  \/ ReadError(c)

Writer(c) ==
  \/ \E k \in 1..MaxTransfer : Transfer(c, k)
  \/ Resume(c)
  \/ WriteError(c)
  \/ ResumeFreed(c)

Client(c) ==
  \/ Connect(c)
  \/ \E k \in 1..Len(Script[c]) : SendCell(c, k)
  \/ \E how \in {"gone", "reset"} : HangUp(c, how)

Next ==
  \/ AcceptFail
  \/ ReArm
  \/ \E c \in Conn : Accept(c) \/ Reader(c) \/ Writer(c) \/ Client(c)

Spec == Init /\ [][Next]_vars

\* The io thread runs every handler that is ready (io_context is a queue), and
\* the kernel keeps taking data for a client that reads.  Nothing is assumed of
\* a client that does not read, nor of what clients send.
Fairness ==
  /\ WF_vars(ReArm)
  /\ WF_vars(\E c \in Conn : Accept(c))
  /\ \A c \in Conn : WF_vars(Reader(c))
  /\ \A c \in Conn : WF_vars(Resume(c) \/ WriteError(c) \/ ResumeFreed(c))
  /\ \A c \in Listeners : WF_vars(\E k \in 1..MaxTransfer : Transfer(c, k))

FairSpec == Spec /\ Fairness

-----------------------------------------------------------------------------
(* Safety.                                                                  *)

\* Three places say whether a connection is alive: the registry, the socket and
\* the read chain.  They agree after every handler, and no socket is listed
\* twice: push_back at server_config.cpp:94 and the four find/erase paths.
RegistryConsistent ==
  /\ IsInjective(sockets)
  /\ \A c \in Conn : (conn[c] = "open") <=> (c \in ToSet(sockets))
  /\ \A c \in Conn : (conn[c] = "open") <=> (rd[c] \in Reading)

\* A body read waits for at least one cell, and nobody is in the history of the
\* room before it was accepted.
BodyHasSize == \A c \in Conn : rd[c] = "body" => need[c] # 0
NotYetJoined == \A c \in Conn : conn[c] \in {"none", "backlog"} => joined[c] = -1

\* The inductive invariant of RelayProofs.
IInv == TypeOK /\ RegistryConsistent /\ BodyHasSize /\ NotYetJoined

\* What the connections have heard is what a chat room promises.
Room == INSTANCE ChatRoom WITH
          members <- {c \in Conn : conn[c] = "open"},
          log <- relayed,
          inbox <- started

\* The server implements the room, step by step, whatever clients send.
ImplementsRoom == Room!Spec

\* The broadcast reaches everyone else who is connected and nobody twice, also
\* with members coming and going between the reads of one frame.
HearsExactlyTheOthers == Room!HearsExactlyTheOthers

FrameLen(f) == Len(relayed[f].data) + 1

FrameLens == [f \in DOMAIN relayed |-> FrameLen(f)]

\* The broadcasts of what c said.
Said(c) == {f \in DOMAIN relayed : relayed[f].from = c}

\* The k-th message of c.
Message(c, k) == [i \in 1..Script[c][k] |-> <<c, k, i>>]

\* A client whose own writes do not overlap is relayed faithfully: the n-th
\* frame relayed from it is its n-th message, whole and with nothing else.  The
\* header read, the body read and the re-posted read_loop never lose step.
ExactRelay ==
  ~ClientOverlaps =>
    \A c \in Conn : \A f \in Said(c) :
      relayed[f].data = Message(c, Cardinality({g \in Said(c) : g <= f}))

\* c sends no message the relay refuses, and sends one at a time.
KeepsToTheLimits(c) ==
  ~ClientOverlaps /\ \A k \in DOMAIN Script[c] : Script[c][k] \in 1..MaxMsg

\* A client that keeps to the limits keeps its place until it hangs up, however
\* slowly it sends, wherever it stops, and whatever the others do: no read of the
\* chain takes a part of a message for something else (server_config.cpp:36-72;
\* there is no timeout, and none of the four ways out is taken by mistake).
NeverGivesUp ==
  [][\A c \in Conn :
       KeepsToTheLimits(c) /\ peer[c] = "up" /\ conn[c] = "open" => conn'[c] = "open"]_vars

\* As long as no write to c was started while another was outstanding, what c
\* receives is the frames broadcast to it one after the other: a reader of
\* length-prefixed frames can parse it.  (Overlapping writes break this: see
\* NoConcurrentWrites.)
WireIntegrity ==
  \A c \in Conn : ~q[c].overlapped => OneAfterAnother(q[c], started[c], FrameLens)

\* All clients hear the broadcasts in one order: on every wire the headers come
\* in the order of the broadcasts, even where frames run into one another.
HeardInOrder == \A c \in Conn : HeadersInOrder(q[c])

\* Nothing keeps what was started for c from reaching it.
Alive(c) == conn[c] # "destroyed" /\ peer[c] # "reset"

\* Whatever the overlap, each frame by itself reaches the wire in order and at
\* most once, and while the connection lives nothing of it is lost: what is not
\* on the wire is still in one outstanding write that knows how far it got.
NoByteLost ==
  \A c \in Conn : /\ InOrderOnWire(q[c])
                  /\ BytesKept(q[c], started[c], FrameLens, Alive(c))

\* What a client hears, however slowly it reads and however writes overlap: nothing
\* is lost, doubled or out of the order of the broadcasts, though frames may mix.
NothingLostOrReordered == NoByteLost /\ HeardInOrder

\* The relay dies only where a frame was half written to a client that then was
\* dropped: the write still refers to the socket, which nothing keeps alive
\* (the handler at server_config.cpp:104 captures the frame only).
DiesOnlyOfHalfWrittenFrame ==
  crashed => \E c \in Conn : /\ conn[c] = "destroyed"
                            /\ \E f \in ToSet(started[c]) : \E n \in 1..FrameLen(f) - 1 :
                                 OnWire(q[c], f) = 0..n - 1

\* asio/write.hpp:765-768: "The program must ensure that the stream performs no
\* other write operations [...] until this operation completes."
NoConcurrentWrites == \A c \in Conn : Outstanding(q[c]) <= 1

-----------------------------------------------------------------------------
(* Liveness.                                                                *)

\* Who connects is served, unless an accept fails: a failure ends the accept chain
\* for good (server_config.cpp:91), and nothing else does.
Served ==
  \A c \in Conn : conn[c] = "backlog" ~> conn[c] # "backlog" \/ acc = "failed" \/ crashed

\* A client that hung up leaves the registry in the end.
GoneIsDropped ==
  \A c \in Conn : peer[c] # "up" /\ conn[c] = "open" ~> conn[c] = "destroyed" \/ crashed

\* A frame that arrived whole is broadcast.
WholeFrameIsRelayed ==
  \A c \in Conn : \A k \in 1..Len(Script[c]) :
    conn[c] = "open" /\ sent[c][k] > Script[c][k] /\ ~ClientOverlaps
      ~> Cardinality(Said(c)) >= k \/ conn[c] = "destroyed" \/ crashed

\* One client that does not read holds up no other: a frame started for a
\* listener is written to the end unless that listener hangs up.
ListenerHearsAll ==
  \A c \in Listeners :
    q[c].ready # <<>> \/ q[c].resume # <<>>
      ~> (\A f \in ToSet(started[c]) : OnWire(q[c], f) = 0..FrameLen(f) - 1)
         \/ peer[c] # "up" \/ crashed
=============================================================================
