# A formal model of cyber-chat

`src/` holds two C++20 programs: a chat **server** that relays length-prefixed
frames between TCP connections, and a terminal **client** that encrypts what the
user types with GnuPG and decrypts what it hears. This directory holds TLA+
modules that model them, TLC configurations that check the models on small
instances, and proofs that TLAPS checks.

File names without a directory are those of `src/src/server` (part 1) and
`src/src/client` (part 2).

- [1. What the system consists of](#1-what-the-system-consists-of)
- [2. Modules](#2-modules-and-how-they-correspond-to-the-code)
- [3. Runs](#3-runs-bounds-and-what-they-show)
- [4. Fairness](#4-fairness)
- [5. Proofs](#5-proofs)
- [6. Disagreements found](#6-disagreements-found)
- [7. Abstractions and what is not modelled](#7-abstractions-and-what-is-not-modelled)
- [8. Plan](#8-plan)

## 1. What the system consists of

### Server

| component | state | operations | interacts with |
|---|---|---|---|
| accept chain (`server_config.cpp:87-111`) | the acceptor, one socket waiting to be accepted | `acceptor`: async_accept; its handler registers the socket, starts a read chain, posts `acceptor` again | registry, read chains |
| read chain of a connection (`server_config.cpp:34-84`) | the socket, a 4-byte buffer or a body buffer | `read_loop`: header read, body read, handler, post itself; four ways to end: error or bad size in the header, error in the body, socket closed | registry, broadcast |
| registry (`main.cpp:27`) | `std::vector` of sockets | `push_back`, `find`/`erase`, iteration | the dashboard reads its size from another thread |
| broadcast (`server_config.cpp:95-106`) | none of its own | one `async_write` per other open socket | asio's write operations |
| main (`main.cpp:29-107`) | arguments, `isError`, work guard, two threads | start, dashboard loop or error message, joins | io_context |
| dashboard (`server_screens.cpp`) | the frame on the screen | draw when an event asks for it; one thread asks once a second | registry, metrics |
| metrics (`resources_config.cpp`, `cmake/sys_info`) | start time, process counters | uptime, memory, CPU, threads | `/proc` |

Everything in the first four rows runs in one thread (`main.cpp:66`), so a
completion handler is atomic. Hard are the order of the completions of many
connections; writes that overlap, because the broadcast keeps no queue; a
connection that ends between any two steps; the lifetime of a socket that an
operation still refers to; a chain that must go on for ever; and the dashboard,
which reads a vector that another thread moves. The server is correct if
registry, socket and read chain agree; if everyone hears exactly the others, in
one order; if frames stay whole; if who connects is served and who leaves is
dropped; and if the dashboard shows what was true and does not stay wrong.

### Client

| component | state | operations | interacts with |
|---|---|---|---|
| connection thread (`main.cpp:16-49`, `client_config.cpp`) | io_context, socket, read chain | connect, read loop, decrypt and show, run posted writes | messages, account, passphrase, UI (PostEvent) |
| screens (`main.cpp:51-158`, `gpg_screens.cpp`, `message_screens.cpp`) | current screen, the error handler, two menus, account, passphrase, recipients | keys of the user | GPG checks, socket (Escape) |
| chat (`client_chat_screen.cpp`) | input line, messages, a *copy* of the current screen | say: encrypt, show, post the write; draw: copy the messages | connection thread |
| GPG (`gpg_config.cpp`) | none | checks of a key, encrypt, decrypt, test of the passphrase | gpg, gpg-agent |
| scroller (`scroller.cpp`) | cursor, size | scroll | chat |

Two threads share the socket, the io_context, the messages, the account and the
passphrase without a lock. Hard are messages that arrive before the user has
logged in; a connection that is lost, or never made, while the user goes on
chatting; Escape, which closes the socket under the other thread; an error screen
with one shared handler; keys listed once and used later; gpg-agent, which may
know a passphrase that the user does not; and a vector that both threads append to
while one draws it. The client is correct if it shows what it hears, once and in
order; if the server gets what it shows, whole and in order; if the chat is reached
only with checked keys and a verified passphrase; and if the thread ends so that
main can join it.

### Both

| component | state | operations |
|---|---|---|
| size prefix (`encode_u32`, `decode_u32`, the limits) | none | a size to four bytes and back |
| io_context (vendored: `lib/asio/asio/detail/impl/scheduler.ipp`, `epoll_reactor.ipp`) | a queue with the reactor's task in it, two counters of work, flags; per socket the waiting operations and stored events | run, post, stop, start and complete an operation, close |
| async_write (vendored: `lib/asio/asio/impl/write.hpp`) | how far each write got | transfer some, ask for more |

Not part of either program: `emtp.cpp` (included by nothing), `client_info.cpp`
(an empty class), and the vendored libraries under `src/lib` and `src/cmake` as far
as the code does not rest on their order of steps.

## 2. Modules and how they correspond to the code

    the whole system        Chat ------INSTANCE------> ChatClient
                              |                            ^
                           EXTENDS                         | implements
                              v                            |
    the server              ChatRoom <--implements-- Relay | ClientLink      the client
                                                       |   |  |
                                                     AsyncWrite (both)
    ServerMain <- Dashboard                          KeyChecks <- KeyVerdict
    ChatView -> Scroller                             KeyChecks <- ClientUI
    Codec, Metrics                                   IoContext (under both programs)

The `MC...` modules give small constants; MCKeyChecks puts KeyVerdict, Codec and
Metrics, which interact with nothing, into one run. The `...Proofs` modules hold the theorems of
the module they are named after, except for three: **DataProofs** has the lemmas about sequences,
finite sets and outstanding writes that the others cite, **ClientUIProofs** is about KeyVerdict, Codec
and Metrics as well, and **ThreadProofs** about IoContext and ChatView, the two components in which the
steps of two threads interleave.

**ChatRoom**, the abstract specification of the server: members enter, leave and
say something; what one says is told at once to all the others. No sockets, no
frames, no handlers.

**ChatClient**, the abstract specification of the client: one list of what was heard
(as a text or as an error) and said, in order; what was said is sent later, in
order, and nothing else is. No threads, no socket.

**Chat**, the composition: every user with a client as ChatClient says, and the room between
them, plus what happens between the two (connections made and lost, messages on
their way, logging in, recipients). A client to which two broadcasts are under way may get them mixed
(`Mix`), and hangs up, ends or goes on (`Break`). `past` remembers what an author had seen.

**AsyncWrite**, the `async_write` operations outstanding on one socket, as
operators on a record. asio's `write_op` transfers some bytes, goes through the
scheduler and asks for more, so that an operation is either queued at the reactor
(`ready`) or about to continue (`resume`); a second write started meanwhile may
get in between. `wire` is what the socket took; `overlapped` remembers whether two
writes ever were outstanding at once. Relay and ClientLink both use it, and what it says of a wire
(`BytesKept`, `OneAfterAnother`) holds for either program's frames.

**Relay**, the server. `conn`, `sockets` and `rd` are the three places that say
whether a connection lives: the socket, the registry and the read chain. Actions
and code: `Accept`, `AcceptFail`, `ReArm` (the accept handler with and without
error, the posted `acceptor`); `ReadHeader`, `RefuseHeader`, `ReadBody`, `Repost`,
`ReadError` (the two read handlers, their early returns, the posted `read_loop`);
`Transfer`, `Resume`, `WriteError`, `ResumeFreed` (asio's part of the broadcast);
`Connect`, `SendCell`, `HangUp` (clients and network). `Drop` is the code
that three early returns repeat. `relayed`, `started`, `joined` and `left` are
history variables, and the refinement mapping to ChatRoom uses them.

**ServerMain**, `main` of the server: arguments, the conversion of the port (which may be negative, too large for
an int, cut to 16 bits, or 0, for which the kernel chooses one), endpoint, the work guard, both
threads and the joins. **Dashboard** adds to it what the threads do meanwhile: the
io thread's `push_back` (`Join`, and `Store` for the two pointers if the vector
grows) and `erase` (`Part`), the once-a-second `Tick`, keys, and the frame, pointer by
pointer (`BeginFrame`, `Load`, `Draw`). The two pointers of a vector are stored and loaded in
either order, since nothing orders them for another thread.

**KeyChecks**, `can_key_encrypt` and `can_key_decrypt` as predicates over what
gpgme says of a key, and which keys the two menus list; **KeyVerdict** sends a key
through them. **Codec** is the size prefix for any base of the digits (256 in the code),
**Metrics** the uptime and the memory with the width of an int.

**ClientUI**, the screens as a state machine of the UI thread: one action per event
that changes state. Every catch block is there (`Fail`), with the handler it
stores (`onError`); `Dismiss` runs that handler. `Say` can only fail into
`FailInChat`, since the chat assigns its own copy of `currentScreen`. The connection thread is there
as far as it concerns the passphrase: it decrypts what it hears with the passphrase as it is typed so far
(`Hear`, `Decrypt`), which leaves the key with gpg-agent, and then tells the agent to forget (`Flush`).
`agent` and `bad` are the world outside: gpg-agent's cache, which other programs use as well, and keys that
went bad.

**ClientLink**, the connection thread and what the UI thread does to it. The
connection thread's handlers are atomic except for the decryption (`rd =
"decrypt"`), which takes long enough for the user to quit meanwhile; Escape is two steps
(`Escape` closes the socket, `Leave` stops the io_context), as the code does it
without a lock. An uncaught exception is `process = "aborted"`. The screens are
reduced to what the connection thread can see of them.

**ChatView**, the vector of messages that both threads append to and the UI thread
copies: an append loads the end, then puts the element in place or moves everything into a new
block, frees the old one and publishes the pointers (`LoadEnd`, `Put`, `Move`, `Free`,
`Publish`, `PublishEnd`), then posts an event (`Notify`); a frame checks, measures and copies
(`BeginFrame`, `Check`, `Measure`, `Copy`). Where the behaviour is undefined the
model ends. `torn` remembers that two accesses overlapped. **Scroller** is the
arithmetic of the list's cursor (`scroller.cpp`).

**IoContext**, the scheduler and the epoll reactor, a step per mutex held or atomic
touched: the thread in `run()` (`Turn`, `Take`, `Poll`, `TaskCleanup`, `PerformIo`,
`Settle`, `Requeue`, `GiveUp`, `Return`), handlers that post, start operations, close and stop, a
second thread that does the same (`WorkStarted` and `PostQueued` are one `post`, with the
counter before the queue), and a kernel with edge-triggered events. `PerformAll` is the loop over the
operations that wait: how far it comes is read off the cells that each of them would leave (`Left`). `server` says which
program it is: the server holds a work guard, the client connects first.

## 3. Runs, bounds and what they show

| run | module, cfg | checks | states |
|---|---|---|---|
| `relay_safe` | MCRelay, Relay_safe | `TypeOK`, `WireIntegrity`, `NothingLostOrReordered`, `DiesOnlyOfHalfWrittenFrame`, `RegistryConsistent`, `ImplementsRoom` | 624,000 |
| `relay_live` | MCRelay, Relay_live | `ExactRelay`, `NeverGivesUp`, `Served`, `GoneIsDropped`, `WholeFrameIsRelayed`, `ListenerHearsAll` | 54,000 |
| `key_checks` | MCKeyChecks, KeyChecks | `ChecksAreRight`, `SizesSurvive`, `MetricsAreRight` | 47,000 |
| `client_ui` | MCClientUI, ClientUI | `MenusSound`, `ChatOnlyChecked`, `ErrorLeadsBack`, `PassphraseVerified`, `NoWayBack` | 430,000 |
| `client_link` | MCClientLink, ClientLink | `OrderKept`, `WireIsMessages`, `ImplementsClient`, `LostEndsThread`, `HeardIsShown` | 532,000 |
| `chat_view` | MCChatView, ChatView | `ViewSound`, `CursorStays`, `EveryMessageDrawn` | 110,000 |
| `server_main` | MCServerMain, ServerMain | `FrameWasTrue`, `ErrorEnds`, `LeftDashboardServesOn`, `DashboardCatchesUp` | 424,000 |
| `io_context` | IoContext, IoContext | `NoLostWakeup`, `SchedulerSound`, `PostedRuns`, `IoCompletes`, `StopReturns` | 582,000 |
| `chat` | MCChat, Chat | `ListsSound`, `CausalOrder`, `RecipientsRead` | 237,000 |

Some of these are conjunctions whose parts have names and comments of their own:
`NothingLostOrReordered`, `ChecksAreRight`, `MetricsAreRight`, `MenusSound`, `NoWayBack`, `OrderKept`,
`ViewSound`, `ListsSound` and `SchedulerSound` (the
last one of the queue that is never empty, the operation that is in one list only, the
descriptor that is dequeued in time, edges that are not lost, work that is counted right and
handlers that run once and in order). The runs that find a violation are in section 6.

**Relay.** A frame is a header cell and data cells; a transfer moves one or two
cells. `relay_safe`: Ana sends twice, so that the second broadcast may overlap the
first on the wires of the other two; Bob announces a size of nothing and is refused; Cid
listens and may hang up at any moment. Three connections are the least with which two members
hear a third. Clients whose own writes overlap put the read chain out of step, and then
a header decodes to any number (`Decoded`): all properties of this run are checked in
that case too, and with an accept that may fail. The run shows what the overlapping
writes of the broadcast do *not* break: each frame by itself is in order and complete, headers come in
the order of the broadcasts; `WireIntegrity` says that frames are whole wherever no two
writes overlapped. `ImplementsRoom` is the refinement: no step of the server,
whatever clients send, does anything that the room does not allow. `relay_live` has two
clients in a conversation, a frame of two cells of data, so that a write may stop half
way, and accepts that may fail: `Served` then promises nothing to those who connect after the failure, and
all others must be served, relayed and dropped as before. A connection is made once and scripts are finite, so nothing
else needs a bound.

**Computations.** All keys with one or two subkeys: two are enough for the first to
decide wrongly on behalf of the second. All prefixes of bytes of four values with a limit
below their largest number, and all sizes, uptimes and memory sizes up to 7300, which passes two
hours and, with a kilobyte of 4 and an int of six bits, the overflow. The proofs are for the real
numbers.

**Client screens.** Three keys: the user's own, an expired one of his (it is listed, and refused at login and as a
recipient), and one whose encryption subkey has no secret part on this machine (it passes the login check and fails
at the prompt).
Good keys may go bad at any time; messages may be heard at any time; another program may unlock the
account's key in gpg-agent, and the agent may forget it. Keyring and cursor are so small that `Word`, the
modulus of `size_t`, is any number above them. `MaxSaid = 1` bounds the messages said; they may be refused any number of times. `MaxSel` bounds how far the cursor of
an empty menu wanders (`Down` says why it does: an unsigned comparison); with this keyring
no menu is empty, and `MenusSound` excepts an empty one: what reads the key under its cursor looks first.

**Client connection.** Three frames heard (a message, one that is not JSON inside, one
of a bad size; any of them fails to decrypt while no passphrase is typed), three messages
said, of which the last is above the limit: the lists `Heard` and `Texts` bound
everything. Two messages below the limit, each of two cells, are enough for their order
to be wrong and for their writes to get between one another. The connection may fail, end
or be reset, and the user may type, say and quit, between any two steps.

**Message list.** Three messages heard and two said: the vector grows four times and takes
an element in place, each with another append or a copy at any point of it. Messages of two
lines and a page of three, so that a page and a message do not coincide.

**Server main and dashboard.** All argument counts, ports around 0, 2^16 and both limits of
an int (a smaller one, to keep the numbers readable), two ports for the kernel to choose from, addresses that are malformed, taken or
free. Three clients join, so that the vector grows three times under the drawing.

**io_context.** Two posts, two operations, one cell that arrives and two that the peer
takes: an operation that is performed at once, one that has to wait for an event, one that an
event completes in part. Nothing more is explored once the io_context is stopped, when only
`run()` has to return.

**Chat.** Three users; Bob's messages are for both others, Ana's for Bob only (so that Cid
hears what he cannot read), Cid's for everyone. Two messages, the least for an answer and what it
answers, and for two broadcasts that mix on the wire to the third. Bob and Cid may quit or lose their connection. A
message that is missing can be shown with two: the second is heard without the first.

`CHECK_DEADLOCK FALSE` is in every configuration because each system comes to a
proper end: scripts run out, the user quits, a key is checked once.

## 4. Fairness

*Relay*: weak fairness for every handler of the io thread, per connection: the
io_context is a queue and one thread runs it for ever, so that what is ready is
run (`PostedRuns` and `IoCompletes` of IoContext say that it does). `Accept` is fair
as a whole, for the kernel's backlog is a queue but
nothing is said of which connection. A `Transfer` is fair only for the clients in
`Listeners`, who keep reading; nothing is assumed of the others, nor of what any
client sends or when it hangs up.

*ClientLink*: weak fairness for the handlers of the connection thread and for the
steps by which the UI thread finishes what it has begun (`Leave`, `Exit`). No
fairness for the user or for the server, which need not send and need not even read what the client writes
(`Transfer` is not fair).

*Dashboard* (`BoardFairSpec`): weak fairness for main, for the two threads, and for
an append, a tick and a frame that were begun or are due; none for clients that
join and leave, nor for the user. `DashboardCatchesUp` therefore is about what happens
once the registry is left alone.

*ChatView*: both threads finish an append they have begun, and the UI thread draws
when there is an event. Messages come, and the user acts, at will.

*IoContext*: weak fairness for the thread in `run()`, for a `post` or `close` of the other
thread that has begun, and for a `stop` it has decided on. Handlers return. The client's
thread does connect before it calls `run()`. Nothing is assumed of the kernel.

*Chat*: what arrives is read, what is posted is written, connections are accepted and
what was sent is passed on: the liveness that the runs of Relay and ClientLink show
of the parts. Users and the network do what they like.

## 5. Proofs

All theorems hold for every value of the constants that the named assumptions
allow; those that need the numbers of the code say so in their statement (`Byte = 256`,
`Kilo = 1024`, `IntMax = 2147483647`).

**ChatRoomProofs.** `HearsAll`: members hear exactly what the others said while
they were in; `SameOrder`: in one order, none twice. The invariant `IInv` adds the
types, that inboxes hold positions of the log only, and that members have joined
and not left.

**RelayProofs** (`RelayAssumption`: scripts are sequences of numbers, limits are positive).

- `TypeCorrect`: `Spec => []TypeOK`. As `Payload` is the set of data of legal size,
  this includes that no frame of size 0 or above the limit is ever broadcast.
- `Consistent`: `Spec => []RegistryConsistent`. Not inductive as it stands: to erase
  *the* socket from the registry one needs that it is listed once, and types.
- `WireSound`, `WireComplete`, `DeathExplained`: what every client receives
  (`WireIntegrity`, `NothingLostOrReordered`, `DiesOnlyOfHalfWrittenFrame`).
- `RelaysExactly` (`Spec => []ExactRelay`) and `Patient` (`Spec => NeverGivesUp`): a client
  whose own writes do not overlap is relayed word for word, and one that keeps to the limits is never
  dropped, however slowly it sends.
- `Refinement`: `Spec => ImplementsRoom`; every step maps to a step of the room or a
  stutter. A body read maps to `Say`, an accept to `Enter`, a drop to `Leave`, all others to
  stuttering. It needs that a body read waits for at least one cell
  (`BodyHasSize`: otherwise an empty message would be broadcast, which is no `Payload`), that
  who is accepted has not been in the room before (`NotYetJoined`), and that the registry lists
  exactly the open sockets, since the broadcast runs over the registry and the room's
  members are the open ones.
- `NobodyMissesAnything`: `Spec => []HearsExactlyTheOthers`, from `Refinement` and
  `ChatRoomProofs!HearsAll`: what is proved of the room carries over.

There are three inductive invariants, one upon the other. `IInv == TypeOK /\ RegistryConsistent /\
BodyHasSize /\ NotYetJoined`; `StepIInv` has one case per action of `Next`, with a lemma for each
handler that changes more than two variables.

`WiresInv` is about the writes. Frames are started on a socket in the order of the broadcasts, and the
operations of AsyncWrite keep `WritesInv` (in DataProofs), which knows nothing of the relay: every write is for
one of these frames, knows how much of it is on the wire, and is the only one for it; what has not begun
is in order and behind all headers on the wire (`UnsentInOrder`, without which headers could
change places); and as long as nothing overlapped there is at most one write, for the last frame
(`OneAtATime`). From that follow the three wire properties at once, with overlap or without.

`StreamInv` is about the reads: what is under way from a client *goes on* from the cell that the read
chain asks for next, cell by cell and message by message, up to what was sent (`GoesOn`).
`ExactRelay` alone says only what was relayed, and not that the next cell is the right one.

**DataProofs** has what the others need of sequences and finite sets, among them a definition by
recursion as a fact about sets (`Induction`, `Recursion`, `LeastNumber`: stated with sets instead of predicates,
so that no operator has to be instantiated), `RemoveFirstLemma` about the find and erase that all the early
returns of the server share, and the steps of `WritesInv`, which serve the server's broadcast and the
client's writes alike.

**ClientLinkProofs**, for any conversation and any limits:

- `Orders`: `Spec => []OrderKept` (from `Typed`, `Shows` and `WritesOrdered`): the list shows every
  frame that was read, once and in the order of reading, and the user's messages are
  written in the order in which they were said.
- `WiresMessages`: `Spec => []WireIsMessages`: the messages are on the wire one after the other if no two writes
  overlapped; if they did, each byte once and the headers in order. Its invariant `WireInv` is `WritesInv` of the one
  socket.
- `Implements`: `Spec => ImplementsClient`. A handler maps to `Hear`, the user's ENTER to
  `Say`, a posted write to `Send`, everything else to stuttering.

The inductive invariant `LinkInv` adds where the read chain is between header and body
(`InStep`: it has read an even or an odd number of cells), that written and posted messages together are those said,
until the socket is closed (`PostsFollow`), and that no thread starts with an open socket
(`ThreadOpens`).

**ClientUIProofs.** For any keyring, and whatever gpg-agent and the keys do meanwhile:

- `OnlyChecked`: `Spec => []ChatOnlyChecked` (recipients and account passed their checks, and the account can
  decrypt); `LeadsBack`: `Spec => []ErrorLeadsBack`;
  `Verified`: `Spec => []PassphraseVerified` (a wrong passphrase is accepted only if another program or the
  connection thread, with the right one, had the key unlocked); `Settled`, `Final` and `Silences`: the action properties
  `CredentialsSettled`, `ChatIsFinal` (who is in the chat stays in it, errors included) and
  `BadKeySilences` (and says nothing more once a recipient's key has gone bad), the first and the last together
  `OneWay`.
- `Menus`: `Spec => []MenusSound`. Cursors stay in the menus and no key is picked twice, for any
  keyring; inductive as it stands, but for what it needs of `KeysIn`, the recursive function that
  lists the keys (as many entries as keys, none twice).

None but `Menus` and `Final` is inductive alone. What the others need is in `IInv`: an error screen comes back only to
the login, the prompt or the recipients (so that no error is a way into the chat around
`Confirm`); `Here`, the screen the user is on or comes back to, is past the login only with
a checked account, and past the prompt whenever a passphrase was accepted (so that nothing writes
account and passphrase any more); and the agent does not hold the key before somebody
gave it a passphrase: another program (`unlocked`), the connection thread (`lent`), or the prompt that was
accepted.

In the same module, of what the client computes: `Checks`, `VerdictSpec => []ChecksAreRight`, for keys with
any number of subkeys; it rests on `WellFormed`, by which gpg's flag of the whole key agrees with the subkeys,
without which the loop over the subkeys would be wrong. `Sizes`: with bytes of 256 values, encoding and
decoding are inverse on 32 bits and the limit is respected. `MetricsShown`: uptime for every number of
seconds; memory right below 2 GiB, for an int of 32 bits, and not above.

**ChatProofs**, for any users, recipients and number of messages:

- `Lists`: `ChatSpec => []ListsSound`; in everyone's list each message is once, and whoever shows a message of another
  shows all that the others said through the server between his coming and that message.
- `Causal`: `ChatSpec => []CausalOrder`; whoever shows a message and an answer to it shows the message first.

`ChatInv == IInv /\ StatesTyped /\ ListInv`, with `IInv` that of ChatRoomProofs. Neither
property is inductive: `ListsSound` needs that the log and every list are numbered through
(`LogNumbered`, `ListNumbered`), and `CausalOrder` needs to know what an author had seen before his
message is in the log: only what he still shows, and of others only what the server had
passed on (`PastSeen`); hence the log is causal (`LogCausal`), and lists follow it.

**DashboardProofs.** `MainTyped`, for any numbers given as port; `ServesOn`: once the dashboard was left, the io_context runs on and main stays in its
join; `FramesAreTrue`: `BoardSpec => []FrameWasTrue`. The invariant of the first two is `MainInv`, which
`Next` of ServerMain preserves, and every step of the dashboard is one of these or leaves
main alone (`BoardIsMain`). The last needs `BoardInv`: pointers that an append has not still to
store are in one block (`OneBlock`), and a frame during which nothing was moved has loaded
pointers of one block only, of sizes that are in `seen` (`FrameSoFar`).

**ThreadProofs**, of IoContext, for any number of posts, operations and cells:

- `NoWakeupIsLost`: `Spec => []NoLostWakeup`. `WakeInv` is the protocol of
  `task_interrupted_`: a blocked thread with the flag set has been poked, and one without it has nothing
  to do.
- `Scheduled`: `Spec => []SchedulerSound`. None of its parts is inductive. `SchedInv` adds:
  what each list may hold at each point of `run()` (`PlacesInv`: the thread's own list is empty
  whenever it waits, and the descriptor_state is queued only ahead of the task, which is why it is always
  dequeued before the reactor looks again); that lists are in order and have nothing in common
  (`ListsInv`), so that a push never meets an operation that is linked already; that what is
  outstanding has a number of its own that has not run (`NumInv`); that the kernel remembers when
  there was no room, as long as no event is on its way (`EdgeInv`: `speculative` and
  `nospace` together carry the promise of the next write event); and that the thread has nothing on its own
  account between handlers, so that the shared counter alone never falls below the guard's
  unit (`WorkInv`: otherwise `Settle` could make it negative). The operations that `perform`
  completes are the first of those that wait, up to the first that finds no cell (`PerformLemma`).

and of ChatView, for any number of messages, any height of a message and of the screen:

- `Views`: `ViewSpec => []ViewSound`. `ViewInv == MemInv /\ FrameInv /\ (~torn => Alone /\ Shown)`. `MemInv`
  holds whatever overlaps: no message is in memory
  twice or before it was stored, every append adds one message and allocates one block at most (`Counted`). As long as
  nothing overlaps, at most one thread appends and the memory is the messages in order through each
  step of it (`Alone`), and what was drawn are the first of them (`Shown`).
- `Steady`: `ViewSpec => CursorStays`, the action property, from the same invariant.

A message is never drawn twice, even where the threads race (`NeverTwice`, in `ViewSound`). That messages of one
thread are never drawn in the wrong order would be false: a late append into a block with room for several can
make two messages of the *other* thread change places. It takes nine messages, more than the run has; the
attempt to prove it brought it to light.

All the strengthened invariants were checked by TLC on the instances of section 3 before they were proved.

Only model-checked: all liveness (`Served`, `GoneIsDropped`, `WholeFrameIsRelayed`, `ListenerHearsAll`,
`LostEndsThread`, `HeardIsShown`, `EveryMessageDrawn`, `ErrorEnds`, `DashboardCatchesUp`, `PostedRuns`,
`IoCompletes`, `StopReturns`, `RecipientsRead`), for fairness and ENABLED are out of the prover's reach. Every
other property of a passing run is a theorem.


## 6. Disagreements found

Each is a run whose one property states what a text of the repository says, and
which the code violates.

| run | property | what happens |
|---|---|---|
| `relay_overlap` | `NoConcurrentWrites` | the broadcast starts a write while one is outstanding, which asio forbids (`write.hpp:765-768`) |
| `client_agent` | `AcceptedIsCorrect` | a message is heard while the right passphrase is typed; the connection thread opens the key with it, and a wrong one that is submitted then is accepted |
| `client_escape` | `EscapeQuits` | Escape after the connection was lost throws and ends the process abnormally |

Seen while modelling, without a run of their own:

- One failed `async_accept` ends the accept chain for good (`AcceptFail`): whoever connects after it is never
  served, and `Served` therefore ends its promise there.
- A message that arrives before there is an account makes `gpg_config.cpp:218` build a
  string from a null pointer, in the line before the guard; the client ends (`Decrypted` of
  ClientLink, `Hear` of Chat).
- A message said after the connection was lost is posted to an io_context that has
  stopped (`client_chat_screen.cpp:260`) and is never written; the chat labels it " Delivered " all the
  same (`client_chat_screen.cpp:102`). `RecipientsRead` excepts connections that are lost.
- While gpg-agent holds the key for another program, any passphrase that is not empty is found correct
  (`Opens`), as in run `client_agent`.
- A key whose encryption subkey has no secret part passes the login check (`gpg_config.cpp:132`; the loop that looks
  for a secret one, :143-163, is not reached) and fails at the prompt.
- `static_cast<std::uint16_t>` cuts a negative port and one above 65535, and for 0 the kernel chooses
  (`CastPort`, `Bound`, server `main.cpp:48`), though server `main.cpp:61` says that ports are 1-65535.
- When a recipient's key goes bad, the chat can neither be written to any more nor be left for the choice of
  recipients (`BadKeySilences`).
- Fewer than two arguments end the server with an uncaught exception or a null pointer
  (`Die`) before the usage message of server `main.cpp:36` is printed.
- When the user leaves the dashboard, the server's main waits for its threads for ever
  (server `main.cpp:103`; `LeftDashboardServesOn` says that the relay serves on).
- The memory in use is multiplied as an int (`cmake/sys_info/src/ProcessInfo.cpp:179`): from
  2 GiB on that is undefined (`GetMemoryUsage`).
- The registry and the vector of messages are data races: the dashboard may show a number made of two
  pointers of different blocks (`Garbage`), the chat may lose a message or end (`torn`).

## 7. Abstractions and what is not modelled

- *Bytes are cells.* In Relay and ClientLink a size prefix is one cell, so a partial header read
  or write is not distinguished from none; its four bytes are in Codec.
- *Out of step.* When a header is read from data cells its value is any of 0 to one above the limit.
- *Undefined behaviour* is a choice: a write resuming on a freed socket
  (`ResumeFreed`) ends or kills the process, so does the dangling handler of
  `connect` (`Connected`); an int that overflows is computed in 32 or in 64 bits; a vector that is read
  while it is moved gives any combination of old and new pointers. A data race on the socket object that
  both threads of the client use, or on account and passphrase, is not modelled: an operation on them is
  atomic, and the connection thread reads a passphrase as it is typed so far (`CredentialsSettled` bounds the time in
  which that matters).
- *Order of writes.* Relay lets the writes on one socket complete in the order in which the reactor queues
  them; asio promises no order for overlapping ones.
- *Linux semantics of sockets*: `shutdown` fails on a socket that is not connected
  and works on one that is connecting; data may still be read after a FIN, and may or may not after a reset.
- *gpg* either encrypts or decrypts or fails, depending on the key's state and the passphrase;
  what an encrypted message looks like is left out.
- *Chat* assumes that the client's writes do not overlap on the wire (the premise of `WireIsMessages`). The server's
  may: a client whose frames have mixed is `"mixed"`, and what it shows from then on is not followed. It takes
  a connection as lost at once, where Relay and ClientLink distinguish how.
- *User interface*: layout, colours, mouse, buttons that do what ENTER does, the
  sidebar and the text of messages are left out.

Not modelled, and why:

- CPU usage (a quotient of kernel clocks in floating point), process id and thread count (read
  and printed): there is no state to relate them to.
- `emtp.cpp` and `client_info.cpp`: dead code.
- The rest of asio: timers, strands, signals, several threads in `run()` and name resolution,
  of which the programs use none or only at their start; the template layer.
- FTXUI, gpgme, GPGME++, gpg-error, assuan, JSON, fmt: of several only headers and binaries are in the
  repository. Where the code relies on them (an event asks for a frame, a key has subkeys, a parser throws) their
  promise is part of the model. They make up nearly all of the repository's lines: the two programs themselves
  have about 2400. Modelling a parser or a formatter of which the programs call one function would say nothing of
  the chat, so the share of *all* lines that the models stand for is small by design.
- Build files, container, assets: no program logic.

## 8. Plan

Done, in this order, the most important first: ChatRoom and Relay with AsyncWrite
(the server's whole protocol); KeyChecks, ClientUI, ClientLink, ServerMain; Codec and Metrics;
Dashboard; ChatView and Scroller; ChatClient and Chat; IoContext; and the proofs of all their safety
properties and refinements.

Next:

1. The steps that a liveness argument rests on, as far as they are safety: that a fair action
   stays enabled until it is taken, and what each fair step makes smaller (the cells of a frame that
   are not yet written, the operations ahead in the queue).
2. ChatView as a refinement of a list that is one value, as long as nothing overlaps: the list that Chat and
   ClientLink take for granted.
