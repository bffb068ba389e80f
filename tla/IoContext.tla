------------------------------ MODULE IoContext ------------------------------
(***************************************************************************)
(* The io_context both programs run on: asio's scheduler with its epoll    *)
(* reactor (scheduler.ipp, epoll_reactor.ipp under src/lib/asio), as they  *)
(* are used here: one thread calls run(), its handlers post and start      *)
(* reads and writes on a socket, and another thread posts, closes the      *)
(* socket, gives up the work guard or stops the io_context.                *)
(*                                                                         *)
(* A step is what a thread does under one mutex, or to one atomic.  With   *)
(* one thread in run() and the reactor there from the start, the queue     *)
(* always holds the reactor's task when that thread looks at it, so that   *)
(* wakeup_event_ is never waited on and is left out (QueueNeverEmpty).     *)
(***************************************************************************)
EXTENDS Integers, SequencesExt

CONSTANTS
  MaxPosts,   \* bounds the handlers posted,
  MaxOps,     \* the reads and writes started,
  MaxArrived, \* the cells that arrive,
  MaxTaken    \* and the cells that the peer takes; nothing of the kind is explored
              \* once the io_context is stopped, for only run() has to return then

ASSUME IoContextAssumption ==
  /\ MaxPosts \in Nat /\ MaxOps \in Nat /\ MaxArrived \in Nat /\ MaxTaken \in Nat

Dir == {"read", "write"}

VARIABLES
  server,       \* which program it is: the server, or the client
  queue,        \* op_queue_
  private,      \* private_op_queue of the running thread
  work,         \* outstanding_work_
  privateWork,  \* private_outstanding_work
  stopped,      \* stopped_
  interrupted,  \* task_interrupted_
  pc,           \* the thread in run()
  cur,          \* the operation it runs; otherwise Task
  blocking,     \* it is in an epoll_wait that waits for an event
  poke,         \* epoll: the interrupter's registration was renewed,
  edge,         \*        directions of the socket that became ready since asked
  ready,        \* events stored in the descriptor_state, until it runs
  cells,        \* kernel: cells to read, room for cells to write
  nospace,      \* kernel: a write found too little room
  brought,      \* cells that arrived or were taken by the peer so far
  waiting,      \* per direction: operations that wait for the socket
  speculative,  \* try_speculative_
  open,         \* is the socket registered
  other,        \* the other thread: "idle", in a "post" or "close", "leaving", "left"
  aborted,      \* operations it holds, to post them
  guard,        \* is the work guard held
  posts, ops,   \* handlers posted, operations started so far
  ran           \* history: the posted handlers run, in order, and the others

scheduler == <<queue, private, work, privateWork, stopped, interrupted>>
runner == <<pc, cur, blocking>>
kernel == <<poke, edge, cells, nospace, brought>>
socket == <<ready, waiting, speculative, open>>
outside == <<other, aborted, guard>>
counts == <<posts, ops, ran>>
vars == <<server, scheduler, runner, kernel, socket, outside, counts>>

Task == [kind |-> "task"]
Descriptor == [kind |-> "descriptor"]
Post(n) == [kind |-> "post", n |-> n]
Io(n, size) == [kind |-> "io", n |-> n, size |-> size]

IoOps == {Io(n, size) : n \in 1..MaxOps, size \in 1..2}
UserOps == {Post(n) : n \in 1..MaxPosts} \cup IoOps
Operation == UserOps \cup {Task, Descriptor}

TypeOK ==
  /\ server \in BOOLEAN
  /\ queue \in Seq(Operation) /\ private \in Seq(Operation)
  /\ work \in Nat /\ privateWork \in Nat
  /\ stopped \in BOOLEAN /\ interrupted \in BOOLEAN
  /\ pc \in {"call", "noWork", "loop", "locked", "poll", "polled", "perform", "run", "settle",
             "giveUp", "requeue", "returned"}
  /\ cur \in Operation /\ blocking \in BOOLEAN
  /\ poke \in BOOLEAN /\ edge \in SUBSET Dir /\ ready \in SUBSET Dir
  /\ cells \in [Dir -> Nat] /\ nospace \in BOOLEAN /\ brought \in [Dir -> Nat]
  /\ waiting \in [Dir -> Seq(IoOps)] /\ speculative \in [Dir -> BOOLEAN] /\ open \in BOOLEAN
  /\ other \in {"idle", "post", "close", "leaving", "left"} /\ aborted \in Seq(IoOps)
  /\ guard \in BOOLEAN
  /\ posts \in 0..MaxPosts /\ ops \in 0..MaxOps /\ ran \in [posts: Seq(1..MaxPosts), ops: Seq(1..MaxOps)]

\* The socket is connected, and no cell can be read or written for the moment.
\* The server holds a work guard.
Init ==
  /\ server \in BOOLEAN
  /\ queue = <<Task>> /\ private = <<>>
  /\ work = IF server THEN 1 ELSE 0
  /\ privateWork = 0
  /\ stopped = FALSE /\ interrupted = TRUE
  /\ pc = "call" /\ cur = Task /\ blocking = FALSE
  /\ poke = FALSE /\ edge = {} /\ ready = {}
  /\ cells = [d \in Dir |-> 0] /\ nospace = FALSE /\ brought = [d \in Dir |-> 0]
  /\ waiting = [d \in Dir |-> <<>>] /\ speculative = [d \in Dir |-> TRUE] /\ open = TRUE
  /\ other = "idle" /\ aborted = <<>> /\ guard = server
  /\ posts = 0 /\ ops = 0 /\ ran = [posts |-> <<>>, ops |-> <<>>]

\* mutex_ is free.
Unlocked == pc # "locked"

-----------------------------------------------------------------------------
(* What both threads use.                                                   *)

\* wake_one_thread_and_unlock, and the end of stop_all_threads: a reactor that
\* may be blocked is interrupted.
Interrupt ==
  /\ interrupted' = TRUE
  /\ poke' = (poke \/ ~interrupted)

\* Mistake: the reactor is left alone.
PushOnly(s) == queue' = queue \o s /\ UNCHANGED <<interrupted, poke>>

Push(s) == queue' = queue \o s /\ Interrupt

\* Mistake: only a thread that runs handlers will see it.
StopOnly == stopped' = TRUE /\ UNCHANGED <<interrupted, poke>>

Stop == stopped' = TRUE /\ Interrupt

\* The socket is closed: its operations are aborted, its cells and events are lost.
Deregister ==
  /\ open' = FALSE
  /\ edge' = {} /\ nospace' = FALSE
  /\ cells' = [d \in Dir |-> 0]
  /\ waiting' = [d \in Dir |-> <<>>]

AllWaiting == waiting["read"] \o waiting["write"]

-----------------------------------------------------------------------------
(* The thread in run().                                                     *)

\* run(): there is something to wait for, or it gives up at once.
Call ==
  /\ pc = "call" /\ (server \/ ops > 0)
  /\ pc' = IF work = 0 THEN "noWork" ELSE "loop"
  /\ UNCHANGED <<server, scheduler, cur, blocking, kernel, socket, outside, counts>>

GiveUp ==
  /\ pc \in {"noWork", "giveUp"}
  /\ Stop
  /\ pc' = IF pc = "noWork" THEN "returned" ELSE "requeue"
  /\ UNCHANGED <<server, queue, private, work, privateWork, cur, blocking, edge, cells, nospace,
                 brought, socket, outside, counts>>

Return ==
  /\ pc \in {"loop", "locked"} /\ stopped
  /\ pc' = "returned"
  /\ UNCHANGED <<server, scheduler, cur, blocking, kernel, socket, outside, counts>>

\* A handler is run.
Noted(op) == IF op.kind = "post" THEN [ran EXCEPT !.posts = Append(@, op.n)]
                                 ELSE [ran EXCEPT !.ops = Append(@, op.n)]

Looking == pc \in {"loop", "locked"} /\ ~stopped /\ queue # <<>>

\* do_run_one, the reactor's turn: it waits only if there is nothing else to do.
Turn ==
  /\ Looking /\ Head(queue) = Task
  /\ queue' = Tail(queue)
  /\ interrupted' = (queue' # <<>>)
  /\ blocking' = (queue' = <<>>)
  /\ pc' = "poll"
  /\ UNCHANGED <<server, private, work, privateWork, stopped, cur, kernel, socket, outside,
                 counts>>

\* do_run_one, a handler or a descriptor_state.
Take ==
  /\ Looking /\ Head(queue) # Task
  /\ cur' = Head(queue)
  /\ queue' = Tail(queue)
  /\ IF queue' # <<>> THEN Interrupt ELSE UNCHANGED <<interrupted, poke>>
  /\ IF cur' = Descriptor
     THEN pc' = "perform" /\ UNCHANGED ran
     ELSE pc' = "run" /\ ran' = Noted(cur')
  /\ UNCHANGED <<server, private, work, privateWork, stopped, blocking, edge, cells, nospace,
                 brought, socket, outside, posts, ops>>

\* epoll_reactor::run.
Poll ==
  /\ pc = "poll"
  /\ blocking => poke \/ edge # {}
  /\ IF edge = {}
     THEN UNCHANGED <<private, ready>>
     ELSE private' = Append(private, Descriptor) /\ ready' = edge
  /\ edge' = {} /\ poke' = FALSE
  /\ pc' = "polled" /\ blocking' = FALSE
  /\ UNCHANGED <<server, queue, work, privateWork, stopped, interrupted, cur, cells, nospace,
                 brought, waiting, speculative, open, outside, counts>>

TaskLast == queue \o private \o <<Task>>

\* task_cleanup; the mutex is kept until the next operation is taken.
TaskCleanup ==
  /\ pc = "polled"
  /\ work' = work + privateWork /\ privateWork' = 0
  /\ interrupted' = TRUE
  /\ queue' = TaskLast /\ private' = <<>>
  /\ pc' = "locked"
  /\ UNCHANGED <<server, stopped, cur, blocking, kernel, socket, outside, counts>>

-----------------------------------------------------------------------------
(* Reads and writes on the socket.                                          *)

\* perform(), one operation after the other: the cells that are left after each.
\* What the last one transfers may be less than it has.
Left(c, s) ==
  LET left[i \in 0..Len(s)] ==
        IF i = 0 THEN c
        ELSE IF s[i].size <= left[i - 1] THEN left[i - 1] - s[i].size ELSE 0
  IN  left

\* The first operations of s are performed, up to one that finds no cell; a write
\* of fewer cells than it has exhausts the socket.
PerformAll(d, s) ==
  LET left == Left(cells[d], s)
      k == CHOOSE k \in 0..Len(s) : /\ k = Len(s) \/ left[k] = 0
                                   /\ \A i \in 0..k - 1 : left[i] > 0
      exhausted == d = "write" /\ \E i \in 1..k : left[i - 1] < s[i].size
  IN  [cells |-> left[k], done |-> SubSeq(s, 1, k),
       short |-> k < Len(s) \/ exhausted, exhausted |-> exhausted]

\* Mistake: a socket once exhausted is never tried again.
NeverAgain(results) == [d \in Dir |-> speculative[d] /\ ~(d \in ready /\ results[d].exhausted)]

Again(results) ==
  [d \in Dir |-> IF d \in ready THEN ~results[d].exhausted ELSE speculative[d]]

\* Mistake: a descriptor with nothing to complete costs a unit of work.
Uncompensated == privateWork

Compensated == privateWork + 1

Deferred(done) == Tail(done)

\* descriptor_state::do_complete: writes are tried before reads; of the operations
\* completed the first runs now and the others are queued.
PerformIo ==
  /\ pc = "perform"
  /\ LET results == [d \in Dir |-> PerformAll(d, IF d \in ready THEN waiting[d] ELSE <<>>)]
         done == results["write"].done \o results["read"].done
     IN  /\ cells' = [d \in Dir |-> results[d].cells]
         /\ waiting' = [d \in Dir |->
                          SubSeq(waiting[d], Len(results[d].done) + 1, Len(waiting[d]))]
         /\ speculative' = Again(results)
         /\ nospace' = (nospace \/ results["write"].short)
         /\ IF done = <<>>
            THEN /\ privateWork' = Compensated
                 /\ pc' = "settle"
                 /\ UNCHANGED <<queue, interrupted, poke, cur, ran>>
            ELSE /\ cur' = Head(done)
                 /\ ran' = Noted(cur')
                 /\ pc' = "run"
                 /\ IF Len(done) > 1
                    THEN Push(Deferred(done))
                    ELSE UNCHANGED <<queue, interrupted, poke>>
                 /\ UNCHANGED privateWork
  /\ ready' = {}
  /\ UNCHANGED <<server, private, work, stopped, blocking, edge, brought, open, outside, posts,
                 ops>>

\* post_immediate_completion: a continuation of the handler that runs goes to the
\* thread's own queue.
Immediate(op, continuation) ==
  IF continuation /\ pc = "run"
  THEN /\ private' = Append(private, op)
       /\ privateWork' = privateWork + 1
       /\ UNCHANGED <<queue, work, interrupted, poke>>
  ELSE /\ work' = work + 1
       /\ Push(<<op>>)
       /\ UNCHANGED <<private, privateWork>>

\* start_op: an operation is tried at once if none waits before it and the socket
\* is not known to be exhausted; on a closed socket it fails at once.
StartOp(d, size, continuation) ==
  /\ pc \in {"call", "run"} /\ ops < MaxOps /\ ~stopped
  /\ ops' = ops + 1
  /\ LET op == Io(ops + 1, size)
         tries == open /\ waiting[d] = <<>> /\ speculative[d]
         r == PerformAll(d, IF tries THEN <<op>> ELSE <<>>)
     IN  /\ cells' = [cells EXCEPT ![d] = r.cells]
         /\ nospace' = (nospace \/ (d = "write" /\ r.short))
         /\ speculative' = [speculative EXCEPT ![d] = @ /\ ~r.exhausted]
         /\ IF ~open \/ r.done # <<>>
            THEN Immediate(op, continuation) /\ UNCHANGED waiting
            ELSE /\ waiting' = [waiting EXCEPT ![d] = Append(@, op)]
                 /\ work' = work + 1
                 /\ UNCHANGED <<queue, private, privateWork, interrupted, poke>>
  /\ UNCHANGED <<server, stopped, runner, edge, brought, ready, open, outside, posts, ran>>

\* asio::post in a handler; never as a continuation.
HandlerPosts ==
  /\ pc = "run" /\ posts < MaxPosts /\ ~stopped
  /\ posts' = posts + 1
  /\ work' = work + 1
  /\ Push(<<Post(posts + 1)>>)
  /\ UNCHANGED <<server, private, privateWork, stopped, runner, edge, cells, nospace, brought,
                 socket, outside, ops, ran>>

\* A read loop that fails closes the socket, and in the client stops the io_context.
HandlerCloses ==
  /\ pc = "run" /\ open
  /\ Deregister
  /\ IF AllWaiting = <<>> THEN UNCHANGED <<queue, interrupted, poke>> ELSE Push(AllWaiting)
  /\ UNCHANGED <<server, private, work, privateWork, stopped, runner, brought, ready,
                 speculative, outside, counts>>

HandlerStops ==
  /\ pc = "run" /\ ~open /\ ~server
  /\ Stop
  /\ UNCHANGED <<server, queue, private, work, privateWork, runner, edge, cells, nospace,
                 brought, socket, outside, counts>>

HandlerReturns ==
  /\ pc = "run"
  /\ pc' = "settle"
  /\ UNCHANGED <<server, scheduler, cur, blocking, kernel, socket, outside, counts>>

\* work_cleanup: one unit of work less, what the handler started on the thread's
\* own account included.
Settle ==
  /\ pc = "settle"
  /\ work' = work + privateWork - 1
  /\ privateWork' = 0
  /\ pc' = IF privateWork = 0 /\ work' = 0 THEN "giveUp" ELSE "requeue"
  /\ cur' = Task
  /\ UNCHANGED <<server, queue, private, stopped, interrupted, blocking, kernel, socket, outside,
                 counts>>

Requeue ==
  /\ pc = "requeue"
  /\ queue' = queue \o private /\ private' = <<>>
  /\ pc' = IF private = <<>> THEN "loop" ELSE "locked"
  /\ UNCHANGED <<server, work, privateWork, stopped, interrupted, cur, blocking, kernel, socket,
                 outside, counts>>

-----------------------------------------------------------------------------
(* The other thread, in two steps where it takes two locks.  In the client  *)
(* it posts and, when the user quits, closes the socket; in the server it   *)
(* only gives up the guard, if there was an error.  Both then stop the      *)
(* io_context and leave it alone.                                           *)

WorkStarted ==
  /\ ~server /\ other = "idle" /\ posts < MaxPosts /\ ~stopped
  /\ other' = "post"
  /\ work' = work + 1
  /\ UNCHANGED <<server, queue, private, privateWork, stopped, interrupted, runner, kernel,
                 socket, aborted, guard, counts>>

PostQueued ==
  /\ other = "post" /\ Unlocked /\ posts < MaxPosts
  /\ posts' = posts + 1
  /\ Push(<<Post(posts + 1)>>)
  /\ other' = "idle"
  /\ UNCHANGED <<server, private, work, privateWork, stopped, runner, edge, cells, nospace,
                 brought, socket, aborted, guard, ops, ran>>

Close ==
  /\ ~server /\ other = "idle" /\ open
  /\ Deregister
  /\ aborted' = AllWaiting
  /\ other' = "close"
  /\ UNCHANGED <<server, scheduler, runner, poke, brought, ready, speculative, guard, counts>>

AbortedQueued ==
  /\ other = "close" /\ Unlocked
  /\ IF aborted = <<>> THEN UNCHANGED <<queue, interrupted, poke>> ELSE Push(aborted)
  /\ aborted' = <<>>
  /\ other' = "leaving"
  /\ UNCHANGED <<server, private, work, privateWork, stopped, runner, edge, cells, nospace,
                 brought, socket, guard, counts>>

\* work.reset(): work_finished would stop the io_context if nothing is left, as
\* the next step does.
ResetGuard ==
  /\ other = "idle" /\ guard
  /\ guard' = FALSE
  /\ work' = work - 1
  /\ other' = "leaving"
  /\ UNCHANGED <<server, queue, private, privateWork, stopped, interrupted, runner, kernel,
                 socket, aborted, counts>>

\* io->stop().
StopCalled ==
  /\ other \in {"idle", "leaving"} /\ Unlocked
  /\ Stop
  /\ other' = "left"
  /\ UNCHANGED <<server, queue, private, work, privateWork, runner, edge, cells, nospace,
                 brought, socket, aborted, guard, counts>>

-----------------------------------------------------------------------------
(* The kernel: a cell arrives, which epoll always reports; or the peer takes *)
(* one, which it reports if a write had found too little room.               *)

Arrive ==
  /\ open /\ brought["read"] < MaxArrived /\ ~stopped
  /\ brought' = [brought EXCEPT !["read"] = @ + 1]
  /\ cells' = [cells EXCEPT !["read"] = @ + 1]
  /\ edge' = edge \cup {"read"}
  /\ UNCHANGED <<server, scheduler, runner, poke, nospace, socket, outside, counts>>

Drain ==
  /\ open /\ brought["write"] < MaxTaken /\ ~stopped
  /\ brought' = [brought EXCEPT !["write"] = @ + 1]
  /\ cells' = [cells EXCEPT !["write"] = @ + 1]
  /\ edge' = IF nospace THEN edge \cup {"write"} ELSE edge
  /\ nospace' = FALSE
  /\ UNCHANGED <<server, scheduler, runner, poke, socket, outside, counts>>

-----------------------------------------------------------------------------
Run == Call \/ GiveUp \/ Return \/ Turn \/ Take \/ Poll \/ TaskCleanup \/ PerformIo
       \/ HandlerReturns \/ Settle \/ Requeue

Start ==
  \E d \in Dir, continuation \in BOOLEAN :
    \E size \in IF d = "write" THEN 1..2 ELSE {1} : StartOp(d, size, continuation)

Handler == Start \/ HandlerPosts \/ HandlerCloses \/ HandlerStops

Other == WorkStarted \/ PostQueued \/ Close \/ AbortedQueued \/ ResetGuard \/ StopCalled

Next == Run \/ Handler \/ Other \/ Arrive \/ Drain

Spec == Init /\ [][Next]_vars

\* The client's thread connects before it calls run(); both threads run and finish
\* what they began; handlers return.
FairSpec ==
  /\ Spec
  /\ WF_vars(~server /\ pc = "call" /\ Start)
  /\ WF_vars(Run)
  /\ WF_vars(PostQueued \/ AbortedQueued)
  /\ WF_vars(other = "leaving" /\ StopCalled)

-----------------------------------------------------------------------------
IsIn(op, s) == \E i \in DOMAIN s : s[i] = op

\* The thread never sleeps on something to do: if it is blocked in epoll_wait and
\* there is a handler in the queue, or the io_context was stopped, then it has
\* been poked, although nobody ever resets the interrupter.
NoLostWakeup == pc = "poll" /\ blocking /\ (queue # <<>> \/ stopped) => poke

\* The task is in the queue whenever it is not being run, so the thread never finds
\* the queue empty.
QueueNeverEmpty == IsIn(Task, queue) <=> pc \notin {"poll", "polled"}

\* What is in a list, the lists one behind the other.
Enlisted == queue \o private \o AllWaiting \o aborted

\* An operation is a node of an intrusive list (op_queue.hpp:104-117): it is in one
\* list, once, for a second push would cut the list that it is in.
OneList == IsInjective(Enlisted)

\* epoll_reactor.ipp:506-510: "by the time we reach this point, any previously
\* returned descriptor operations have already been dequeued", although nothing is
\* done to dequeue them.
DescriptorDequeued == pc = "poll" => ~IsIn(Descriptor, queue) /\ ~IsIn(Descriptor, private)

\* Edge-triggered events lose nothing: when an operation waits although it could
\* be performed, the event that will perform it is still to come.
NoLostEdge ==
  \A d \in Dir :
    waiting[d] # <<>> /\ cells[d] > 0 =>
      \/ d \in edge
      \/ d \in ready /\ (IsIn(Descriptor, queue) \/ IsIn(Descriptor, private) \/ pc = "perform")

\* Operations begun whose handlers have not run.
Begun == ToSet(Enlisted) \ {Task, Descriptor}

\* The counters of outstanding work, one of which is kept without a lock and only
\* sometimes added to the other, count what is outstanding: run() neither returns
\* while something is expected nor hangs when nothing is.
WorkIsCounted ==
  work + privateWork =
      Cardinality(Begun)
    + (IF guard THEN 1 ELSE 0)
    + (IF other = "post" THEN 1 ELSE 0)
    + (IF pc \in {"run", "settle"} THEN 1 ELSE 0)

\* No handler runs twice, and posted handlers run in the order of the posts.
RunOnceInOrder ==
  /\ \A i, j \in DOMAIN ran.posts : i < j => ran.posts[i] < ran.posts[j]
  /\ \A i, j \in DOMAIN ran.ops : i # j => ran.ops[i] # ran.ops[j]

\* The queues, counters and edges of scheduler and reactor agree with one another.
SchedulerSound ==
  /\ TypeOK
  /\ QueueNeverEmpty
  /\ OneList
  /\ DescriptorDequeued
  /\ NoLostEdge
  /\ WorkIsCounted
  /\ RunOnceInOrder

\* What is posted runs, unless the io_context stops first.
PostedRuns == posts # Len(ran.posts) ~> posts = Len(ran.posts) \/ stopped

\* A read or write that can be performed does not wait forever.
IoCompletes ==
  \A d \in Dir :
    waiting[d] # <<>> /\ cells[d] > 0 ~> waiting[d] = <<>> \/ cells[d] = 0 \/ stopped

\* stop() makes run() return.
StopReturns == stopped /\ pc # "call" ~> pc = "returned"
=============================================================================
