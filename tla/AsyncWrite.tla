----------------------------- MODULE AsyncWrite -----------------------------
(***************************************************************************)
(* The asio::async_write operations outstanding on one stream socket.      *)
(*                                                                         *)
(* Each end of a chat connection starts a composed write per frame and     *)
(* keeps no queue of its own (server_config.cpp:102-105,                   *)
(* client_config.cpp:130-134), so any number of them can be in flight.  A  *)
(* write is a loop over async_write_some: what is not yet written is       *)
(* either queued at the reactor (`ready', in the order the operations were *)
(* started) or, between two transfers of one frame, posted to the          *)
(* scheduler (`resume').                                                   *)
(*                                                                         *)
(* A frame of size n is n + 1 cells: cell 0 is the four length bytes, a    *)
(* cell i > 0 is the i-th chunk of the data.  `wire' is everything the     *)
(* socket accepted so far; `overlapped' is a history variable.             *)
(***************************************************************************)
EXTENDS Integers, SequencesExt

Op(Frame) == [frame: Frame, len: Nat, sent: Nat]

WriteQueue(Frame) ==
  [ready: Seq(Op(Frame)), resume: Seq(Op(Frame)),
   wire: Seq(Frame \X Nat), overlapped: BOOLEAN]

NoWrites == [ready |-> <<>>, resume |-> <<>>, wire |-> <<>>, overlapped |-> FALSE]

Outstanding(q) == Len(q.ready) + Len(q.resume)

\* asio::async_write: the operation joins the tail of the reactor's queue,
\* whatever is outstanding on the socket already.
StartWrite(q, f, len) ==
  [q EXCEPT !.ready = Append(@, [frame |-> f, len |-> len, sent |-> 0]),
            !.overlapped = @ \/ Outstanding(q) > 0]

CellsOf(op, k) == [i \in 1..k |-> <<op.frame, op.sent + i - 1>>]

\* How many cells one async_write_some of the head operation may transfer.
Transfers(q, maxTransfer) ==
  {k \in 1..maxTransfer : q.ready # <<>> /\ k <= Head(q.ready).len - Head(q.ready).sent}

\* The operation when k more of its cells are written.
Advanced(op, k) == [op EXCEPT !.sent = @ + k]

\* Mistake: a short write is taken for a whole one.
TransferOnce(q, k) ==
  [q EXCEPT !.ready = Tail(@), !.wire = @ \o CellsOf(Head(q.ready), k)]

\* The reactor performs the head operation: the socket takes k cells.  A write
\* that is not finished goes through the scheduler before it asks for more.
TransferSome(q, k) ==
  LET op == Head(q.ready) IN
  [q EXCEPT !.ready = Tail(@),
            !.wire = @ \o CellsOf(op, k),
            !.resume = IF op.sent + k < op.len
                       THEN Append(@, Advanced(op, k))
                       ELSE @]

\* Mistake: a write that resumes starts over.
ResumeFromStart(q) ==
  [q EXCEPT !.ready = Append(@, [Head(q.resume) EXCEPT !.sent = 0]), !.resume = Tail(@)]

\* The intermediate completion runs: write_op starts its next async_write_some.
ResumeWrite(q) ==
  [q EXCEPT !.ready = Append(@, Head(q.resume)), !.resume = Tail(@)]

\* The intermediate completion finds no descriptor: the write ends.
DropResumed(q) == [q EXCEPT !.resume = Tail(@)]

\* send() fails: the head operation completes with the error.
FailWrite(q) == [q EXCEPT !.ready = Tail(@)]

\* Mistake: close() leaves the queued operations to run later.
AbortNothing(q) == [q EXCEPT !.ready = <<>>, !.resume = @ \o q.ready]

\* close(): every operation queued at the reactor completes with
\* operation_aborted; those in the scheduler are not touched.
AbortWrites(q) == [q EXCEPT !.ready = <<>>]

-----------------------------------------------------------------------------
(* What the wire carries of the frames a write was started for, in the      *)
(* order of the list `frames', when frame f is len[f] cells.                *)

\* The cells of frame f that are on the wire, by their offsets.
OnWire(q, f) == {cell[2] : cell \in {x \in ToSet(q.wire) : x[1] = f}}

Writes(q) == ToSet(q.ready) \cup ToSet(q.resume)

\* The cells of each frame come in order and once.
InOrderOnWire(q) ==
  \A i, j \in DOMAIN q.wire :
    i < j /\ q.wire[i][1] = q.wire[j][1] => q.wire[i][2] < q.wire[j][2]

\* So do the headers of all frames.
HeadersInOrder(q) ==
  \A i, j \in DOMAIN q.wire :
    i < j /\ q.wire[i][2] = 0 /\ q.wire[j][2] = 0 => q.wire[i][1] < q.wire[j][1]

\* The wire has the first n cells of a frame, and while the socket is alive the
\* rest of the frame is with a write that knows how far it got.
BytesKept(q, frames, len, alive) ==
  \A f \in ToSet(frames) : \E n \in 0..len[f] :
    /\ OnWire(q, f) = 0..n - 1
    /\ alive => \/ n = len[f]
                \/ \E op \in Writes(q) : op = [frame |-> f, len |-> len[f], sent |-> n]

\* A cell follows the one before it in its frame, a header the last cell of the
\* frame before: the wire is the frames of the list, whole and one after the other.
OneAfterAnother(q, frames, len) ==
  \A i \in DOMAIN q.wire :
    LET f == q.wire[i][1]
        o == q.wire[i][2]
    IN /\ o < len[f]
       /\ \/ o > 0 /\ i > 1 /\ q.wire[i - 1] = <<f, o - 1>>
          \/ o = 0 /\ i = 1 /\ frames # <<>> /\ f = frames[1]
          \/ /\ o = 0 /\ i > 1
             /\ \E k \in 1..Len(frames) - 1 :
                  f = frames[k + 1] /\ q.wire[i - 1] = <<frames[k], len[frames[k]] - 1>>
=============================================================================
