------------------------------ MODULE ChatView ------------------------------
(***************************************************************************)
(* The list of messages of the client and its drawing: the vector          *)
(* `messages` (src/src/client/main.cpp:14), to which the connection thread *)
(* appends what it hears and the UI thread what the user says, and which   *)
(* the UI thread copies for every frame (client_chat_screen.cpp:362-379).  *)
(* No lock protects it, so an append is taken apart: it loads the pointers *)
(* and stores an element in place, or moves everything to a larger block,  *)
(* frees the old one and stores the pointers (libstdc++'s                  *)
(* _M_realloc_append).  A copy measures, allocates and then reads as many  *)
(* elements as there are by then.                                          *)
(*                                                                         *)
(* Where the program's behaviour is undefined (a freed block, a pointer    *)
(* that was moved away, more elements copied than measured, pointers into  *)
(* two blocks) the model ends, in process = "undefined".                   *)
(***************************************************************************)
EXTENDS Scroller, SequencesExt

CONSTANTS
  MaxHeard, MaxOwn,   \* bounds the messages heard and said
  Lines,              \* lines of a message on the screen
  Page                \* height of the list on the screen, less one

ASSUME ChatViewAssumption ==
  /\ MaxHeard \in Nat /\ MaxOwn \in Nat
  /\ Lines \in Nat \ {0} /\ Page \in Int

Thread == {"conn", "ui"}
Bound == [conn |-> MaxHeard, ui |-> MaxOwn]
Message == UNION {{t} \X (1..Bound[t]) : t \in Thread}

\* An element that is not there: never written, or moved away.
Hole == <<"hole", 0>>

VARIABLES
  process,     \* "running" or "undefined"
  heap,        \* the elements of each block allocated, in order of allocation
  freed,       \* blocks that were freed
  begin,       \* the vector: block of the first element
  end,         \* block and offset after the last
  append,      \* per thread: the step of its append, see Step
  at,          \* per thread: the value of `end` that it loaded
  target,      \* per thread: the block it moves the elements to
  count,       \* per thread: messages appended, the one under way included
  event,       \* an event waits for the UI loop
  screen,      \* the user is in the "chat" or on an "other" screen, or has "left"
  ui,          \* UI loop: "idle", or the frame: "check", "measure", "copy"
  measured,    \* elements measured
  drawn,       \* the messages of the last frame
  size,        \* its height
  selected,    \* the cursor
  order,       \* history: the messages whose append is complete, in order
  torn         \* history: two accesses to the vector have overlapped

vector == <<heap, freed, begin, end>>
appending == <<append, at, target, count>>
framing == <<ui, measured, drawn, size>>
viewVars == <<process, vector, appending, event, screen, framing, selected, order, torn>>

Step == {"none", "put", "move", "free", "publish", "publishEnd", "notify"}

Blocks == 0..MaxHeard + MaxOwn
Counts == 0..MaxHeard + MaxOwn

ViewTypeOK ==
  /\ process \in {"running", "undefined"}
  /\ heap \in Seq(Seq(Message \cup {Hole})) /\ freed \subseteq Blocks
  /\ begin \in Blocks /\ end \in Blocks \X Counts
  /\ append \in [Thread -> Step] /\ at \in [Thread -> Blocks \X Counts]
  /\ target \in [Thread -> Blocks] /\ count \in [Thread -> Counts]
  /\ event \in BOOLEAN /\ screen \in {"chat", "other", "left"}
  /\ ui \in {"idle", "check", "measure", "copy"} /\ measured \in Counts
  /\ drawn \in Seq(Message) /\ size \in Nat /\ selected \in Nat
  /\ order \in Seq(Message) /\ torn \in BOOLEAN

ViewInit ==
  /\ process = "running"
  /\ heap = <<>> /\ freed = {} /\ begin = 0 /\ end = <<0, 0>>
  /\ append = [t \in Thread |-> "none"] /\ at = [t \in Thread |-> <<0, 0>>]
  /\ target = [t \in Thread |-> 0] /\ count = [t \in Thread |-> 0]
  /\ event = TRUE /\ screen = "other"
  /\ ui = "idle" /\ measured = 0 /\ drawn = <<>> /\ size = 0 /\ selected = 0
  /\ order = <<>> /\ torn = FALSE

Running == process = "running"

\* Appends that are in the vector's memory.
Active(t) == append[t] \notin {"none", "notify"}

\* Elements that fit the block (none in block 0, which is no memory).
Capacity(b) == IF b = 0 THEN 0 ELSE Len(heap[b])

Usable(b) == b = 0 \/ b \notin freed

-----------------------------------------------------------------------------
(* push_back in thread t.                                                   *)

Said(t) == <<t, count[t]>>

\* Accesses that overlap are noted: another append, or a copy in the making.
LoadEnd(t) ==
  /\ count[t] < Bound[t]
  /\ append[t] = "none"
  /\ count' = [count EXCEPT ![t] = @ + 1]
  /\ at' = [at EXCEPT ![t] = end]
  /\ append' = [append EXCEPT ![t] = IF end[2] # Capacity(end[1]) THEN "put" ELSE "move"]
  /\ torn' = (torn \/ ui = "copy" \/ \E u \in Thread \ {t} : Active(u))
  /\ UNCHANGED <<process, vector, target, event, screen, framing, selected, order>>

Done(t) ==
  /\ append' = [append EXCEPT ![t] = "notify"]
  /\ order' = Append(order, Said(t))

\* The end is stored as it was loaded, plus one, or counted up where it is.
Put(t) ==
  /\ append[t] = "put"
  /\ LET b == at[t][1]  n == at[t][2] IN
       IF b \in freed \/ n >= Capacity(b)
       THEN /\ process' = "undefined"
            /\ UNCHANGED <<heap, end, append, order>>
       ELSE /\ heap' = [heap EXCEPT ![b][n + 1] = Said(t)]
            /\ end' \in {<<b, n + 1>>, <<end[1], end[2] + 1>>}
            /\ Done(t)
            /\ UNCHANGED process
  /\ UNCHANGED <<freed, begin, at, target, count, event, screen, framing, selected, torn>>

Holes(n) == [i \in 1..n |-> Hole]

\* Mistake: the old elements stay behind.
RelocatedNothing(b, n, new) ==
  Append(heap, Holes(n) \o <<new>> \o Holes(IF n = 0 THEN 0 ELSE n - 1))

\* A new block, of twice the size, with the elements and the new one.
Relocated(b, n, new) ==
  LET old == IF b = 0 THEN <<>> ELSE SubSeq(heap[b], 1, n)
      emptied == IF b = 0 THEN heap ELSE [heap EXCEPT ![b] = Holes(Len(@))]
  IN  Append(emptied, old \o <<new>> \o Holes(IF n = 0 THEN 0 ELSE n - 1))

Move(t) ==
  /\ append[t] = "move"
  /\ LET b == at[t][1]  n == at[t][2] IN
       IF begin # b \/ b \in freed
       THEN /\ process' = "undefined"
            /\ UNCHANGED <<heap, append, target>>
       ELSE /\ heap' = Relocated(b, n, Said(t))
            /\ target' = [target EXCEPT ![t] = Len(heap) + 1]
            /\ append' = [append EXCEPT ![t] = IF b = 0 THEN "publish" ELSE "free"]
            /\ UNCHANGED process
  /\ UNCHANGED <<freed, begin, end, at, count, event, screen, framing, selected, order, torn>>

\* Freed twice, if both threads moved the elements.
Free(t) ==
  /\ append[t] = "free"
  /\ IF at[t][1] \in freed
     THEN process' = "undefined" /\ UNCHANGED <<freed, append>>
     ELSE /\ freed' = freed \cup {at[t][1]}
          /\ append' = [append EXCEPT ![t] = "publish"]
          /\ UNCHANGED process
  /\ UNCHANGED <<heap, begin, end, at, target, count, event, screen, framing, selected, order, torn>>

Publish(t) ==
  /\ append[t] = "publish"
  /\ begin' = target[t]
  /\ append' = [append EXCEPT ![t] = "publishEnd"]
  /\ UNCHANGED <<process, heap, freed, end, at, target, count, event, screen, framing, selected,
                 order, torn>>

PublishEnd(t) ==
  /\ append[t] = "publishEnd"
  /\ end' = <<target[t], at[t][2] + 1>>
  /\ Done(t)
  /\ UNCHANGED <<process, heap, freed, begin, at, target, count, event, screen, framing, selected,
                 torn>>

\* Mistake: the UI is not told.
Silent(t) ==
  /\ append[t] = "notify"
  /\ append' = [append EXCEPT ![t] = "none"]
  /\ UNCHANGED <<process, vector, at, target, count, event, screen, framing, selected, order, torn>>

\* PostEvent(Custom) after the append; for the UI thread, the key it handled.
Notify(t) ==
  /\ append[t] = "notify"
  /\ append' = [append EXCEPT ![t] = "none"]
  /\ event' = TRUE
  /\ UNCHANGED <<process, vector, at, target, count, screen, framing, selected, order, torn>>

Appending(t) ==
  Put(t) \/ Move(t) \/ Free(t) \/ Publish(t) \/ PublishEnd(t) \/ Notify(t)

-----------------------------------------------------------------------------
(* The UI loop.                                                             *)

\* Between two events, or about to draw.
Idle == ui = "idle" /\ append["ui"] = "none" /\ screen # "left"

Enter ==
  /\ Idle /\ screen = "other"
  /\ screen' = "chat"
  /\ event' = TRUE
  /\ UNCHANGED <<process, vector, appending, framing, selected, order, torn>>

Leave ==
  /\ Idle
  /\ screen' = "left"
  /\ UNCHANGED <<process, vector, appending, event, framing, selected, order, torn>>

Say == Idle /\ screen = "chat" /\ LoadEnd("ui")

Scroll(key) ==
  /\ Idle /\ screen = "chat"
  /\ selected' = OnEvent(selected, size, Page, key)
  /\ event' = TRUE
  /\ UNCHANGED <<process, vector, appending, screen, framing, order, torn>>

BeginFrame ==
  /\ Idle /\ event
  /\ event' = FALSE
  /\ ui' = IF screen = "chat" THEN "check" ELSE "idle"
  /\ UNCHANGED <<process, vector, appending, screen, measured, drawn, size, selected, order, torn>>

\* Reading while the connection thread appends.
Read == torn' = (torn \/ Active("conn"))

\* An empty list is not drawn, nor its height taken.
Check ==
  /\ ui = "check"
  /\ IF end = <<begin, 0>>
     THEN ui' = "idle" /\ drawn' = <<>>
     ELSE ui' = "measure" /\ UNCHANGED drawn
  /\ Read
  /\ UNCHANGED <<process, vector, appending, event, screen, measured, size, selected, order>>

Measure ==
  /\ ui = "measure"
  /\ IF begin # end[1]
     THEN process' = "undefined" /\ UNCHANGED <<ui, measured>>
     ELSE ui' = "copy" /\ measured' = end[2] /\ UNCHANGED process
  /\ Read
  /\ UNCHANGED <<vector, appending, event, screen, drawn, size, selected, order>>

\* The elements that may be copied, or a Hole where there is none.
Content(n) == [i \in 1..n |-> IF i <= Capacity(begin) THEN heap[begin][i] ELSE Hole]

\* Mistake: the newest message is drawn first.
DrawnUpwards(n) == Reverse(Content(n))

Drawn(n) == Content(n)

\* chat->update(*messages), and the frame is drawn: the scroller takes the height.
Copy ==
  /\ ui = "copy"
  /\ IF begin # end[1] \/ begin \in freed \/ end[2] > measured \/ Hole \in ToSet(Content(end[2]))
     THEN process' = "undefined" /\ UNCHANGED <<ui, drawn, size>>
     ELSE /\ ui' = "idle"
          /\ drawn' = Drawn(end[2])
          /\ size' = Lines * end[2]
          /\ UNCHANGED process
  /\ Read
  /\ UNCHANGED <<vector, appending, event, screen, measured, selected, order>>

Drawing == BeginFrame \/ Check \/ Measure \/ Copy

-----------------------------------------------------------------------------
Conn == LoadEnd("conn") \/ Appending("conn")

User == Enter \/ Leave \/ Say \/ (\E key \in Keys : Scroll(key))

ViewNext == Running /\ (Conn \/ Appending("ui") \/ User \/ Drawing)

ViewSpec == ViewInit /\ [][ViewNext]_viewVars

\* Both threads finish what they have begun; messages come, and the user acts, at will.
ViewFairSpec ==
  /\ ViewSpec
  /\ WF_viewVars(Running /\ Appending("conn"))
  /\ WF_viewVars(Running /\ Appending("ui"))
  /\ WF_viewVars(Running /\ Drawing)

-----------------------------------------------------------------------------
\* The vector as a thread sees it between appends.
Listed == Content(end[2])

\* As long as no two accesses overlapped, the program is sound and the list is
\* the messages of both threads in the order in which they were appended.
ListIsOrder ==
  ~torn =>
    /\ Running
    /\ ~Active("conn") /\ ~Active("ui") => Listed = order

\* What overlaps, if it is survived, may lose messages, and in a block with room for
\* several an append that was late may make two of the other thread change places; but
\* no message is ever shown twice, in whatever order blocks were moved and put into.
NeverTwice == IsInjective(drawn)

\* The cursor is on a line that is drawn: the list never shrinks under it, or no
\* key would be needed to lose it (scroller.cpp:64 clamps when a key comes only).
CursorInView == ~torn => selected < size \/ selected = 0

\* What the user sees is what the threads appended, as far as nothing overlapped.
ViewSound == ViewTypeOK /\ ListIsOrder /\ NeverTwice /\ CursorInView

\* New messages never move what the user reads: the line under the cursor stays
\* the same until the user moves the cursor.
CursorStays ==
  [][selected < size /\ drawn' # drawn /\ ~torn'
       => drawn'[selected' \div Lines + 1] = drawn[selected \div Lines + 1]]_viewVars

\* A message in the list is drawn if the user is in the chat: the event is posted
\* after the append, so that no frame that misses the message is the last.
EveryMessageDrawn ==
  \A m \in Message :
    screen = "chat" /\ m \in ToSet(order) ~> m \in ToSet(drawn) \/ screen = "left" \/ torn
=============================================================================
