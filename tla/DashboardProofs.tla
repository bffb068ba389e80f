--------------------------- MODULE DashboardProofs ---------------------------
(***************************************************************************)
(* Proofs about the server's main and its dashboard, for any ports, any    *)
(* width of an int and any number of clients.                              *)
(***************************************************************************)
EXTENDS Dashboard, TLAPS

\* The io_context is stopped only for an error, and its thread ends only then.
EndsForError ==
  /\ io = "stopped" => isError /\ pc \in {"join_server", "join_render", "exited"}
  /\ server = "done" => io = "stopped"

\* The invariant of main.
MainInv == TypeOK /\ EndsForError

LEMMA MainInit == Init => MainInv
BY ServerMainAssumption, SMT DEF Init, MainInv, TypeOK, EndsForError, ThreadState

LEMMA BoundFits ==
  ASSUME port \in Int
  PROVE  Bound(CastPort) \subseteq 0..Word - 1
<1>1. CastPort \in 0..Word - 1
  BY ServerMainAssumption, SMT DEF CastPort
<1> QED BY <1>1, ServerMainAssumption, SMT DEF Bound

LEMMA MainNext == MainInv /\ [Next]_vars => MainInv'
<1> SUFFICES ASSUME MainInv, [Next]_vars PROVE MainInv'
  OBVIOUS
<1> USE DEF MainInv, TypeOK, EndsForError, isError, ThreadState, given
<1>1. CASE CheckArgs
  BY <1>1 DEF CheckArgs
<1>2. CASE Listen
  <2>1. ASSUME Converted PROVE Bound(CastPort) \subseteq 0..Word - 1
    BY <2>1, BoundFits, ServerMainAssumption, SMT DEF Converted
  <2> QED BY <1>2, <2>1, SMT DEF Listen, Die, Refuse
<1>3. CASE StartThreads \/ LeaveDashboard
  BY <1>3 DEF StartThreads, LeaveDashboard
<1>4. CASE PrintError
  BY <1>4 DEF PrintError, Stopped
<1>5. CASE ServerEnds \/ RenderEnds
  BY <1>5 DEF ServerEnds, RenderEnds
<1>6. CASE JoinServer \/ JoinRender
  BY <1>6 DEF JoinServer, JoinRender
<1>7. CASE UNCHANGED vars
  BY <1>7 DEF vars
<1> QED BY <1>1, <1>2, <1>3, <1>4, <1>5, <1>6, <1>7 DEF Next, Main

LEMMA BoardIsMain == BoardNext => [Next]_vars
BY DEF BoardNext, Process, Next, Registry, Tick, Key, Frame, Join, Store, Part, BeginFrame, Load,
       Draw

LEMMA MainAlways == BoardSpec => []MainInv
<1>1. MainInv /\ [BoardNext]_<<vars, board>> => MainInv'
  BY BoardIsMain, MainNext DEF vars
<1>2. BoardInit => MainInv
  BY MainInit DEF BoardInit
<1> QED BY <1>1, <1>2, PTL DEF BoardSpec

\* main's state stays within its types (main.cpp:23-106): in particular the
\* port it listens on is one of 16 bits, whatever number was given.
THEOREM MainTyped == BoardSpec => []TypeOK
<1>1. MainInv => TypeOK BY DEF MainInv
<1> QED BY MainAlways, <1>1, PTL

\* After the user left the dashboard the relay runs on, and main stays in its join
\* for ever (main.cpp:89-103).
THEOREM ServesOn == BoardSpec => LeftDashboardServesOn
<1>1. MainInv /\ MainInv' /\ [BoardNext]_<<vars, board>> =>
        (pc = "join_server" /\ ~isError => io' = "running" /\ pc' = pc)
  <2> SUFFICES ASSUME MainInv, [BoardNext]_<<vars, board>>, pc = "join_server", ~isError
               PROVE  io' = "running" /\ pc' = pc
    OBVIOUS
  <2>1. io = "running" /\ server # "done"
    BY DEF MainInv, TypeOK, EndsForError
  <2>2. [Next]_vars
    BY BoardIsMain DEF vars
  <2>3. CASE Next
    BY <2>1, <2>3 DEF Next, Main, CheckArgs, Listen, StartThreads, PrintError, JoinServer, JoinRender,
       LeaveDashboard, ServerEnds, RenderEnds
  <2>4. CASE UNCHANGED vars
    BY <2>1, <2>4 DEF vars
  <2> QED BY <2>2, <2>3, <2>4
<1> QED BY MainAlways, <1>1, PTL DEF BoardSpec, LeftDashboardServesOn

-----------------------------------------------------------------------------
\* The types the proof needs; the bounds of BoardTypeOK it does not.
BoardShape ==
  /\ end[2] \in Nat
  /\ growing \subseteq Pointers
  /\ reading \in {"none", "users", "online"} /\ loaded \in Pointers \cup {"none"}
  /\ reading = "none" => loaded = "none"
  /\ seen \subseteq Nat /\ grew \in BOOLEAN

\* Pointers that an append has not still to store are in one block: the new one,
\* or if nothing is to be stored the only one.
OneBlock ==
  /\ growing = {} => begin[1] = end[1]
  /\ growing # {} /\ "begin" \notin growing => begin[1] = block
  /\ growing # {} /\ "end" \notin growing => end[1] = block

\* In a frame during which the registry was not moved, every pointer loaded is in
\* the block of the others, and what was drawn of it so far was true.
FrameSoFar ==
  reading # "none" /\ ~grew =>
    /\ growing = {}
    /\ end[2] \in seen
    /\ loaded = "begin" => value = begin
    /\ loaded = "end" => value[1] = begin[1] /\ value[2] \in seen
    /\ reading = "online" => users \in seen

BoardInv == BoardShape /\ OneBlock /\ FrameSoFar /\ FrameWasTrue

LEMMA BoardInvInit == BoardInit => BoardInv
<1> SUFFICES ASSUME BoardInit PROVE BoardInv
  OBVIOUS
<1> USE DEF BoardInit, Pointers
<1>1. BoardShape
  <2>1. end[2] \in Nat /\ seen \subseteq Nat BY SMT
  <2> QED BY <2>1, Zenon DEF BoardShape
<1>2. OneBlock BY SMT DEF OneBlock
<1>3. FrameSoFar BY DEF FrameSoFar
<1>4. FrameWasTrue BY SMT DEF FrameWasTrue
<1> QED BY <1>1, <1>2, <1>3, <1>4 DEF BoardInv

LEMMA BoardInvNext == BoardInv /\ [BoardNext]_<<vars, board>> => BoardInv'
<1> SUFFICES ASSUME BoardInv, [BoardNext]_<<vars, board>> PROVE BoardInv'
  OBVIOUS
<1> USE DEF BoardInv, Pointers
<1>1. CASE Join
  <2> USE <1>1 DEF Join, drawing, Observe
  <2>1. BoardShape' BY SMT DEF BoardShape
  <2>2. OneBlock' BY SMT DEF OneBlock
  <2>3. FrameSoFar'
    <3>1. reading' # "none" /\ ~grew' =>
            ~grew /\ growing' = {} /\ UNCHANGED <<begin, reading, loaded, value, users>>
      BY Zenon
    <3>2. reading' # "none" => seen' = seen \cup {end'[2]}
      BY Zenon
    <3> QED BY <3>1, <3>2 DEF FrameSoFar
  <2>4. FrameWasTrue' BY SMT DEF FrameWasTrue, BoardShape
  <2> QED BY <2>1, <2>2, <2>3, <2>4
<1>2. ASSUME NEW p \in Pointers, Store(p) PROVE BoardInv'
  <2> USE <1>2 DEF Store, drawing, Observe
  <2>1. BoardShape'
    <3>1. end'[2] \in Nat BY SMT DEF BoardShape
    <3>2. seen' \subseteq Nat BY <3>1, Zenon DEF BoardShape
    <3>3. grew' \in BOOLEAN /\ growing' \subseteq Pointers BY Zenon DEF BoardShape
    <3>4. UNCHANGED <<reading, loaded, shown>> OBVIOUS
    <3> QED BY <3>1, <3>2, <3>3, <3>4, Zenon DEF BoardShape
  <2>2. OneBlock' BY SMT DEF OneBlock, BoardShape
  <2>3. FrameSoFar'
    <3>1. reading' # "none" => grew'
      BY SMT DEF FrameSoFar, BoardShape
    <3> QED BY <3>1 DEF FrameSoFar
  <2>4. FrameWasTrue' BY SMT DEF FrameWasTrue, BoardShape
  <2> QED BY <2>1, <2>2, <2>3, <2>4
<1>3. CASE Part
  <2> USE <1>3 DEF Part, drawing, Observe
  <2>1. BoardShape'
    <3>1. end'[2] \in Nat BY SMT DEF BoardShape
    <3>2. seen' \subseteq Nat BY <3>1, Zenon DEF BoardShape
    <3>3. grew' \in BOOLEAN /\ growing' \subseteq Pointers BY Zenon DEF BoardShape
    <3>4. UNCHANGED <<reading, loaded, shown>> OBVIOUS
    <3> QED BY <3>1, <3>2, <3>3, <3>4, Zenon DEF BoardShape
  <2>2. OneBlock' BY SMT DEF OneBlock
  <2>3. FrameSoFar' BY SMT DEF FrameSoFar, BoardShape
  <2>4. FrameWasTrue' BY SMT DEF FrameWasTrue, BoardShape
  <2> QED BY <2>1, <2>2, <2>3, <2>4
<1>4. CASE Tick \/ Key
  BY <1>4 DEF Tick, Key, registry, drawing, history, BoardShape, OneBlock, FrameSoFar, FrameWasTrue
<1>5. CASE BeginFrame
  <2> USE <1>5 DEF BeginFrame, registry
  <2>1. BoardShape' BY Zenon DEF BoardShape
  <2>2. OneBlock' BY DEF OneBlock
  <2>3. FrameSoFar' BY DEF FrameSoFar, BoardShape
  <2>4. FrameWasTrue' BY DEF FrameWasTrue
  <2> QED BY <2>1, <2>2, <2>3, <2>4
<1>6. ASSUME NEW p \in Pointers, Load(p) PROVE BoardInv'
  <2> USE <1>6 DEF Load, registry, history
  <2>1. BoardShape' BY DEF BoardShape
  <2>2. OneBlock' BY DEF OneBlock
  <2>3. FrameSoFar' BY SMT DEF FrameSoFar, OneBlock
  <2>4. FrameWasTrue' BY DEF FrameWasTrue
  <2> QED BY <2>1, <2>2, <2>3, <2>4
<1>7. CASE Draw
  <2> DEFINE n == IF loaded = "begin" THEN SizeOf(value, end) ELSE SizeOf(begin, value)
  <2>1. n = Garbage \/ n = end[2] \/ n = value[2]
    BY DEF SizeOf
  <2>2. ~grew => n \in seen
    BY <1>7, SMT DEF Draw, SizeOf, FrameSoFar, BoardShape, OneBlock
  <2>3. UNCHANGED <<registry, history>> /\ loaded' = "none"
    BY <1>7 DEF Draw
  <2>4. CASE reading = "users"
    <3>1. users' = n /\ reading' = "online" /\ UNCHANGED shown
      BY <1>7, <2>4 DEF Draw
    <3> QED BY <2>2, <2>3, <2>4, <3>1 DEF registry, history, BoardShape, OneBlock, FrameSoFar,
            FrameWasTrue
  <2>5. CASE reading = "online"
    <3>1. PICK online \in IF n = Garbage THEN BOOLEAN ELSE {n > 0} :
            shown' = [users |-> users, online |-> online]
      BY <1>7, <2>5 DEF Draw
    <3>2. reading' = "none" /\ UNCHANGED users
      BY <1>7, <2>5 DEF Draw
    <3>3. shown'.users = users /\ shown'.online = online
      BY <3>1, SMT
    <3> HIDE DEF n
    <3>4. n # Garbage => online = (n > 0)
      BY <3>1, Zenon
    <3>5. ASSUME ~grew
          PROVE  users \in seen /\ (online => \E k \in seen : k > 0) /\ (~online => 0 \in seen)
      <4>1. users \in seen /\ n \in seen /\ n \in Nat
        BY <2>2, <2>5, <3>5 DEF BoardShape, FrameSoFar
      <4>2. online = (n > 0)
        BY <3>4, <4>1, SMT DEF Garbage
      <4>3. ~(n > 0) => n = 0
        BY <4>1, SMT
      <4> QED BY <4>1, <4>2, <4>3
    <3>6. FrameWasTrue'
      BY <2>3, <3>2, <3>3, <3>4, <3>5 DEF FrameWasTrue, history
    <3>7. BoardShape' /\ OneBlock' /\ FrameSoFar'
      BY <2>3, <3>2, <3>3, <3>4 DEF registry, history, BoardShape, OneBlock, FrameSoFar
    <3> QED BY <3>6, <3>7
  <2> QED BY <1>7, <2>4, <2>5 DEF Draw
<1>8. CASE Process \/ UNCHANGED <<vars, board>>
  BY <1>8 DEF Process, board, registry, drawing, history, BoardShape, OneBlock, FrameSoFar,
     FrameWasTrue
<1> QED BY <1>1, <1>2, <1>3, <1>4, <1>5, <1>6, <1>7, <1>8 DEF BoardNext, Registry, Frame

\* However the drawing of the dashboard interleaves with the relay, a frame during
\* which the registry was not moved to a larger block shows a number of clients
\* there was, and a status that was right (server_screens.cpp:90-96).
THEOREM FramesAreTrue == BoardSpec => []FrameWasTrue
<1>1. BoardInv => FrameWasTrue BY DEF BoardInv
<1> QED BY BoardInvInit, BoardInvNext, <1>1, PTL DEF BoardSpec
=============================================================================
