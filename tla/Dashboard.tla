------------------------------ MODULE Dashboard ------------------------------
(***************************************************************************)
(* The server's dashboard (src/src/server/server_screens.cpp:69-128) while *)
(* the relay runs: main draws it once for every event, the thread          *)
(* render_interface posts an event a second, and the io thread appends to  *)
(* and erases from the registry that the drawing reads, without a lock.    *)
(*                                                                         *)
(* The registry is a std::vector: begin and end are pointers, here a block *)
(* of memory and an offset, and size() is their difference.  An append to  *)
(* a full vector allocates a block of twice the size and stores the two    *)
(* pointers, the drawing loads them, each in an order of the compiler's.   *)
(***************************************************************************)
EXTENDS ServerMain

CONSTANT MaxJoins   \* bounds the clients that join

ASSUME DashboardAssumption == MaxJoins \in Nat

VARIABLES
  begin,     \* the vector's first element: <<block, 0>>, block 0 before any append
  end,       \* after the last element: <<block, offset>>
  capacity,
  block,     \* the block allocated last
  growing,   \* the pointers that an append has still to store
  joins,     \* appends so far
  event,     \* an event waits for the UI loop
  reading,   \* what the drawing is reading: "users", then "online"; or "none"
  loaded,    \* the pointer it has loaded for that, or "none"
  value,     \* its value
  users,     \* the number it has drawn in this frame
  shown,     \* the last frame
  seen,      \* history: sizes of the registry since the frame was begun
  grew       \* history: was an append moving the registry since then?

registry == <<begin, end, capacity, block, growing, joins>>
drawing == <<reading, loaded, value, users, shown>>
history == <<seen, grew>>
board == <<registry, event, drawing, history>>

Sizes == 0..MaxJoins
Pointers == {"begin", "end"}

\* What size() makes of pointers into two blocks: any number.
Garbage == -1

BoardTypeOK ==
  /\ begin \in Sizes \X {0} /\ end \in Sizes \X Sizes /\ block \in Sizes
  /\ capacity \in 0..2 * MaxJoins
  /\ growing \subseteq Pointers /\ joins \in Sizes
  /\ event \in BOOLEAN
  /\ reading \in {"none", "users", "online"} /\ loaded \in Pointers \cup {"none"}
  /\ value \in Sizes \X Sizes
  /\ users \in Sizes \cup {Garbage}
  /\ shown \in [users: Sizes \cup {Garbage}, online: BOOLEAN]
  /\ seen \subseteq Sizes /\ grew \in BOOLEAN

\* The loop draws a first frame without being asked.
BoardInit ==
  /\ Init
  /\ begin = <<0, 0>> /\ end = <<0, 0>> /\ capacity = 0 /\ block = 0
  /\ growing = {} /\ joins = 0
  /\ event = TRUE
  /\ reading = "none" /\ loaded = "none" /\ value = <<0, 0>> /\ users = 0
  /\ shown = [users |-> 0, online |-> FALSE]
  /\ seen = {0} /\ grew = FALSE

\* A frame in progress sees what happens to the registry.
Observe ==
  /\ seen' = IF reading = "none" THEN seen ELSE seen \cup {end'[2]}
  /\ grew' = (grew \/ (reading # "none" /\ growing' # {}))

-----------------------------------------------------------------------------
(* The io thread: push_back, find and erase on the registry.                *)

Serving == server = "running" /\ io = "running" /\ listening # -1

Join ==
  /\ Serving /\ growing = {}
  /\ joins < MaxJoins
  /\ joins' = joins + 1
  /\ IF end[2] < capacity
     THEN end' = <<end[1], end[2] + 1>> /\ UNCHANGED <<capacity, block, growing>>
     ELSE /\ capacity' = IF capacity = 0 THEN 1 ELSE 2 * capacity
          /\ block' = block + 1
          /\ growing' = Pointers
          /\ UNCHANGED end
  /\ UNCHANGED <<vars, begin, event, drawing>>
  /\ Observe

Store(p) ==
  /\ p \in growing
  /\ growing' = growing \ {p}
  /\ begin' = IF p = "begin" THEN <<block, 0>> ELSE begin
  /\ end' = IF p = "end" THEN <<block, end[2] + 1>> ELSE end
  /\ UNCHANGED <<vars, capacity, block, joins, event, drawing>>
  /\ Observe

Part ==
  /\ Serving /\ growing = {}
  /\ end[2] > 0
  /\ end' = <<end[1], end[2] - 1>>
  /\ UNCHANGED <<vars, begin, capacity, block, growing, joins, event, drawing>>
  /\ Observe

-----------------------------------------------------------------------------
(* The two threads that make the dashboard.                                 *)

\* Mistake: the thread sleeps and posts nothing.
NoTick == render = "running" /\ ~isError /\ UNCHANGED <<vars, board>>

\* render_interface, once a second.
Tick ==
  /\ render = "running" /\ ~isError
  /\ event' = TRUE
  /\ UNCHANGED <<vars, registry, drawing, history>>

\* A key, or the mouse: nothing but another frame.
Key ==
  /\ pc = "show" /\ ~isError
  /\ event' = TRUE
  /\ UNCHANGED <<vars, registry, drawing, history>>

BeginFrame ==
  /\ pc = "show" /\ ~isError
  /\ event /\ reading = "none"
  /\ event' = FALSE
  /\ reading' = "users"
  /\ seen' = {end[2]}
  /\ grew' = (growing # {})
  /\ UNCHANGED <<vars, registry, loaded, value, users, shown>>

Load(p) ==
  /\ reading # "none" /\ loaded = "none"
  /\ loaded' = p
  /\ value' = IF p = "begin" THEN begin ELSE end
  /\ UNCHANGED <<vars, registry, event, reading, users, shown, history>>

\* Mistake: the capacity is taken for the size.
CapacityOf(b, e) == IF b[1] = e[1] THEN capacity ELSE Garbage

SizeOf(b, e) == IF b[1] = e[1] THEN e[2] ELSE Garbage

\* The other pointer is loaded: line 90 draws the number, line 96 the status.
Draw ==
  /\ loaded # "none"
  /\ LET n == IF loaded = "begin" THEN SizeOf(value, end) ELSE SizeOf(begin, value) IN
       \/ /\ reading = "users"
          /\ users' = n
          /\ reading' = "online"
          /\ UNCHANGED shown
       \/ /\ reading = "online"
          /\ \E online \in IF n = Garbage THEN BOOLEAN ELSE {n > 0} :
               shown' = [users |-> users, online |-> online]
          /\ reading' = "none"
          /\ UNCHANGED users
  /\ loaded' = "none"
  /\ UNCHANGED <<vars, registry, event, value, history>>

Frame == BeginFrame \/ (\E p \in Pointers : Load(p)) \/ Draw

-----------------------------------------------------------------------------
\* Main leaves the dashboard between two frames.
Process == (Main \/ (LeaveDashboard /\ reading = "none") \/ ServerEnds \/ RenderEnds)
           /\ UNCHANGED board

Registry == Join \/ (\E p \in Pointers : Store(p)) \/ Part

BoardNext == Process \/ Registry \/ Tick \/ Key \/ Frame

BoardSpec == BoardInit /\ [][BoardNext]_<<vars, board>>

\* Every thread runs; clients join and leave and the user acts as they like.
BoardFairSpec ==
  /\ BoardSpec
  /\ WF_vars(Main) /\ WF_vars(ServerEnds) /\ WF_vars(RenderEnds)
  /\ WF_board(\E p \in Pointers : Store(p))
  /\ WF_board(Tick)
  /\ WF_board(Frame)

-----------------------------------------------------------------------------
\* What a frame shows was true while it was drawn, unless an append moved the
\* registry under it: the number is a size the registry had, and ONLINE, which
\* is read after the number and may not agree with it, was right at some moment.
FrameWasTrue ==
  reading = "none" /\ ~grew =>
    /\ shown.users \in seen
    /\ shown.online => \E n \in seen : n > 0
    /\ ~shown.online => 0 \in seen

\* Once clients neither join nor leave, the dashboard shows how many there are:
\* no torn or stale number stays on the screen, for the next tick redraws it.
DashboardCatchesUp ==
  \A n \in Sizes :
    <>[](pc = "show" /\ ~isError /\ end[2] = n)
      => <>[](shown = [users |-> n, online |-> (n > 0)])

\* Leaving the dashboard ends nothing: the relay serves on, and main waits for a
\* thread that nobody stops (main.cpp:103).
LeftDashboardServesOn ==
  [][pc = "join_server" /\ ~isError => io' = "running" /\ pc' = pc]_<<vars, board>>
=============================================================================
