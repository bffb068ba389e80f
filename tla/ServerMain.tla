----------------------------- MODULE ServerMain -----------------------------
(***************************************************************************)
(* Start and end of the server, src/src/server/main.cpp: the arguments,    *)
(* the listening socket, the thread of the io_context, the thread that     *)
(* redraws the dashboard once a second, and main, which joins both.        *)
(***************************************************************************)
EXTENDS Integers

CONSTANTS
  Ports,      \* numbers that may be given as port, negative ones too
  NoNumber,   \* what is given as port if it is no number
  Word,       \* 2^16 of uint16_t, 1 + the largest port
  MaxInt,     \* INT_MAX of std::stoi
  Ephemeral   \* ports that the kernel chooses from

ASSUME ServerMainAssumption ==
  /\ Ports \subseteq Int /\ NoNumber \notin Int
  /\ Word \in Nat \ {0} /\ MaxInt \in Nat
  /\ Ephemeral \subseteq 1..Word - 1

VARIABLES
  argc,
  port,       \* the number given, or NoNumber
  address,    \* "bad", "taken" with the port, or "free"
  pc,         \* where main is
  message,    \* the error to print: "none", "usage", "system", "port"
  listening,  \* the port of the acceptor, 0 before
  io,         \* the io_context: "running" (held by the work guard), "stopped"
  server,     \* the thread run_server: "none", "running", "done"
  render      \* the thread render_interface

given == <<argc, port, address>>
vars == <<given, pc, message, listening, io, server, render>>

ThreadState == {"none", "running", "done"}

TypeOK ==
  /\ argc \in 1..5 /\ port \in Ports \cup {NoNumber} /\ address \in {"bad", "taken", "free"}
  /\ pc \in {"args", "listen", "threads", "show", "join_server", "join_render", "exited", "died"}
  /\ message \in {"none", "usage", "system", "port"}
  /\ listening \in 0..Word - 1
  /\ io \in {"running", "stopped"} /\ server \in ThreadState /\ render \in ThreadState

Init ==
  /\ argc \in 1..5 /\ port \in Ports \cup {NoNumber} /\ address \in {"bad", "taken", "free"}
  /\ pc = "args" /\ message = "none" /\ listening = 0
  /\ io = "running" /\ server = "none" /\ render = "none"

isError == message # "none"

\* A wrong number of arguments is noted, and main goes on.
CheckArgs ==
  /\ pc = "args"
  /\ message' = IF argc # 4 THEN "usage" ELSE "none"
  /\ pc' = "listen"
  /\ UNCHANGED <<given, listening, io, server, render>>

Die ==
  /\ pc' = "died"
  /\ UNCHANGED <<message, listening>>

Refuse(m) ==
  /\ message' = m
  /\ pc' = "threads"
  /\ UNCHANGED listening

\* std::stoi takes a sign, and throws for what is no int.
Converted == argc >= 3 /\ port \in -MaxInt - 1..MaxInt
TooLarge == argc >= 3 /\ port \in Int \ (-MaxInt - 1..MaxInt)

\* static_cast<std::uint16_t>
CastPort == port % Word

\* The kernel chooses in place of port 0.
Bound(p) == IF p = 0 THEN Ephemeral ELSE {p}

\* An argument that is missing is a null pointer, a port that is no number an
\* exception nobody catches.  Address and port are converted in either order.
Listen ==
  /\ pc = "listen"
  /\ \/ (argc < 3 \/ port = NoNumber) /\ Die
     \/ TooLarge /\ Refuse("port")
     \/ argc >= 2 /\ address = "bad" /\ Refuse("system")
     \/ Converted /\ address = "taken" /\ Refuse("system")
     \/ /\ Converted /\ address = "free"
        /\ listening' \in Bound(CastPort)
        /\ pc' = "threads"
        /\ UNCHANGED message
  /\ UNCHANGED <<given, io, server, render>>

StartThreads ==
  /\ pc = "threads"
  /\ server' = "running" /\ render' = "running"
  /\ pc' = "show"
  /\ UNCHANGED <<given, message, listening, io>>

\* Mistake: the relay is stopped with the dashboard.
LeaveAndStop ==
  /\ pc = "show" /\ ~isError
  /\ pc' = "join_server"
  /\ io' = "stopped"
  /\ UNCHANGED <<given, message, listening, server, render>>

\* The dashboard runs until the user interrupts it.
LeaveDashboard ==
  /\ pc = "show" /\ ~isError
  /\ pc' = "join_server"
  /\ UNCHANGED <<given, message, listening, io, server, render>>

\* Mistake: the work guard is kept and the io_context runs on.
KeepRunning == "running"

\* work.reset() and io->stop()
Stopped == "stopped"

PrintError ==
  /\ pc = "show" /\ isError
  /\ io' = Stopped
  /\ pc' = "join_server"
  /\ UNCHANGED <<given, message, listening, server, render>>

\* io->run() returns once the io_context is stopped; the guard keeps it from
\* running out of work.
ServerEnds ==
  /\ server = "running" /\ io = "stopped"
  /\ server' = "done"
  /\ UNCHANGED <<given, pc, message, listening, io, render>>

\* while (!isError)
RenderEnds ==
  /\ render = "running" /\ isError
  /\ render' = "done"
  /\ UNCHANGED <<given, pc, message, listening, io, server>>

JoinServer ==
  /\ pc = "join_server" /\ server = "done"
  /\ pc' = "join_render"
  /\ UNCHANGED <<given, message, listening, io, server, render>>

JoinRender ==
  /\ pc = "join_render" /\ render = "done"
  /\ pc' = "exited"
  /\ UNCHANGED <<given, message, listening, io, server, render>>

Main == CheckArgs \/ Listen \/ StartThreads \/ PrintError \/ JoinServer \/ JoinRender

Next == Main \/ LeaveDashboard \/ ServerEnds \/ RenderEnds

Spec == Init /\ [][Next]_vars

\* Every thread runs; the user need not leave the dashboard.
FairSpec == Spec /\ WF_vars(Main) /\ WF_vars(ServerEnds) /\ WF_vars(RenderEnds)

-----------------------------------------------------------------------------
\* An error that main caught ends the process: both threads come to their end,
\* so that main can join them (main.cpp:93-104).
ErrorEnds == isError ~> pc \in {"exited", "died"}
=============================================================================
