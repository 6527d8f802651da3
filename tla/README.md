# ZmqProxy in TLA+

A verification development for the proxy in `src/`: a single-threaded program
that passes requests of clients to workers, and answers back, between two
ZeroMQ ROUTER sockets. The modules are written from the code; the line numbers
are in `PROJECT.json` ("map").

## 1. Inventory

| Component | State | Operations |
|---|---|---|
| Proxy loop (`zmq_server.cc`, `Server::Start`) | `pollitems[].revents`, `heartbeat_at`, `running_`, the position in the pass | poll, backend branch (heartbeat, other single frame, answer), frontend branch (refuse, forward), heartbeats, re-arm, CheckWorker |
| Table of workers (`vec_work_`) | identity and expiry of each worker | `MakeNewWorker`, `GetWorker`, `CheckWorker` |
| Clock (`s_clock`) | time of day in milliseconds, whole seconds only, in a `long` | read |
| Multipart messages (`zmq_addon.hpp`) | deque of frames | `recv`, `send`, `push*`, `add*`, `pop*`, `remove`, `clear`, `append`, `prepend`, `clone`, move |
| `message_t` (`zmq.hpp`) | a `zmq_msg_t`, and libzmq's count of references to its contents | construct, move, `rebuild`, `move()`, `copy()`, destroy, `send`, `recv` |
| `context_t`, `socket_t` (`zmq.hpp`) | the libzmq handle each owns, `ctxptr` | construct, move, assign, `close` |
| `monitor_t` (`zmq.hpp`) | `socketPtr`, `monitor_socket`, its thread | `init`, `monitor`, `check_event`, `abort`, destroy |
| Configuration parser (`ini.c`) | the file, split in place | `ini_load`, `ini_get`, `ini_sget`, `ini_free` |
| Program start (`main.cc`, constructor of `Server`) | ports, context, sockets | load, read two ports, bind, set options, start |
| External: libzmq, clients, workers | pipes per peer, live connections | receive, send, come and go |

How they interact. There is one thread. A pass of the loop is
`poll -> backend -> frontend -> heartbeats -> CheckWorker`; every arrow is a
place where clients and workers have sent, left or come back and where the
clock has moved. A worker enters the table by a `HEARTBEAT` frame and stays for
three intervals after the last one that was *handled*; requests go to a random
entry; answers go to the client whose identity they carry. Nothing is stored,
nothing is retried, and the result of `send` is ignored.

What is hard about it:

* `poll()` covers the front socket only while the table is not empty, and the
  `revents` of an item that is not covered keep an older value, on which a
  blocking receive is then entered.
* Expiry, registration and forwarding race: a request may be given to a worker
  that is gone, and a worker may answer after it was removed.
* Identities are pushed and popped by position, for clients with a delimiter
  frame (REQ) and without (DEALER).
* The clock is the time of day, in whole seconds, and every comparison is strict.
* `erase(itor)-1` in a loop that then increments the iterator.
* An error of libzmq, an interrupted call included, is an exception nobody
  catches: the test `rc == -1` after `poll` is unreachable.
* The parser writes zeros over the buffer it reads, with two pointers in it, and
  later tells headers, keys and values apart by their order alone.
* A message goes over a socket frame by frame, and either side may fail between
  two frames, with the peer still there.
* Handles are copied bit by bit when their owner moves, and calls throw after
  they have already given something up.
* A context waits for its sockets, and the thread of a `monitor_t` may be
  anywhere between two frames of an event when it ends.

What makes each correct: the table has one entry per worker, added and kept by
that worker's heartbeats only, and loses exactly the expired ones; a request is
in one place at a time, moves forward only, is lost only for a reason outside
the proxy, and is answered to its own client; a receive does not block on a
fresh `poll()`; expired workers leave, heartbeats go out and clients are read.
Timers keep to their intervals in real time as far as a clock of whole seconds
lets them. The ports that are bound are those of the file. Frames keep their
order and have one owner, messages are received whole; contents are freed once;
each socket is closed by one object, events are handled in order and a context
that is closed does close.

The list of hazards, each at its line with the properties that cover it, is in
`PROJECT.json` ("hazards").

## 2. Modules

| Module | What it is |
|---|---|
| `Multipart` | a message as the sequence of its frames, and the operations that are one step |
| `WorkerPool` | the table as a set of entries; `MakeNewWorker`, `GetWorker`, `CheckWorker` as operators |
| `RouterSocket` | external: pipes per peer, what a ROUTER receive and send do |
| `ZmqServer` | the loop composed with its sockets, clients, workers and clock; the refinement mapping to `RequestLife` |
| `MCZmqServer` | instances of it |
| `RequestLife` | abstract specification: what the proxy promises of a request |
| `WorkerVector` | the loops of `MakeNewWorker` and `CheckWorker` over the vector, one pass through the body per step; implements `WorkerPool` |
| `MCWorkerVector` | an instance of it |
| `LoopTime` | the loop's timers in real time: parts of a second under `s_clock`, passes that take time, a backlog, a clock that wraps; uses `WorkerPool` for the table |
| `Ini` | `ini.c`: the loops that split the file in place and the walk of `ini_get` |
| `IniGrammar` | reference: what a file says, by positions in it, written without the buffer and its loops |
| `Startup` | `main` and the constructor of `Server` around `Ini`, with every error; the properties, which compare `Ini` with `IniGrammar` |
| `MCStartup` | the files it is run on |
| `MultipartOps` | the loops of `append`, `prepend`, `clone`, `send`, `recv`, one turn per step, over a pipe whose peer comes and goes; built from `Multipart` |
| `MessageOwner` | `message_t`: who owns contents, and libzmq's count of references |
| `SocketOwner` | `context_t` and `socket_t`: what they hold of contexts and sockets |
| `Monitor` | `monitor_t` and its thread, composed with `SocketOwner` |
| `WorkerPoolProofs` | lemmas about the table |
| `ZmqServerProofs`, `WorkerVectorProofs`, `LoopTimeProofs`, `StartupProofs`, `MultipartOpsProofs`, `MessageOwnerProofs`, `MonitorProofs` | the invariants of the module each is named for, and their proofs |

`ZmqServer` has every step of a pass and a clock of whole seconds; `LoopTime` has
real time and one worker. They share `WorkerPool`, and what `LoopTime` leaves out
(the front socket) only takes its part of a pass.

### ZmqServer and the code

| Variable | Code |
|---|---|
| `pc` | the position in `Server::Start`; `"dead"` after an uncaught exception |
| `nitems`, `revents` | the second argument of the last `poll`, `pollitems[].revents & ZMQ_POLLIN` |
| `vec_work_`, `heartbeat_at` | as in the code, times in seconds |
| `checked` | history: the clock `CheckWorker` last read |
| `back_q`, `front_q` | per peer, what it sent and the proxy has not received |
| `to_worker`, `to_client` | per peer, what the proxy sent and the peer has not received |
| `workers_up`, `clients_up`, `sent` | connections, and the requests sent so far |

| Action | Lines of `zmq_server.cc` |
|---|---|
| `Poll` | 45-50 |
| `BackIdle`, `BackHeartbeat`, `BackOther`, `BackReply` | 51-73 |
| `FrontIdle`, `FrontRefuse`, `FrontForward` | 74-97 |
| `NotDue`, `SendHeartbeats`, `Rearm` | 99-113; the clock is read twice |
| `Check` | 114-117, 155-167 |
| `Throw` | an error in `poll`, a receive or a send: `main` does not catch it, and the process takes all queues with it |

`running_` is set once and never reset, so it is not a variable. `rand()` is any
choice. A receive of a whole multipart message is one step: libzmq makes a
message readable when all its frames are there. All heartbeats of a round are
one step too: the sends never wait, and what a worker does between two of them
touches none of the others. The pipes hold messages without the identity of
their peer; `RouterRecv` puts it in front and `RouterSend` takes it off.

Clients send each request at most once and may leave for good (a client that
comes back has a new identity, which is another client). Workers may send
heartbeats, other single frames and the answers to what they were given at any
time, registered or not, and may leave and come back under their identity. A
worker answers with the frames it was given.

### The other models and the code

`LoopTime`. A second is `HEARTBEAT_INTERVAL` units of time. `SClock(t)` drops the
part of a second and wraps, as `tv_sec*1000` does in a `long` of 32 bits. `Poll`
returns when the back socket is readable or an interval has passed; the rest of a
pass (`BackIdle`, `Back`, `NotDue`, `SendHeartbeats`, `Rearm`, `Check`) takes
`PassTime` at most, which stands for lines 50-117 without the wait of line 76.
`round_at`, `handled_at` and `fell_at` remember when heartbeats were sent, when
one was handled and when the clock last fell.

`Ini`. `data` is `ini->data`, `p`, `q`, `line_start`, `value_start` and
`current_section` are the code's. `Split*` are the cases of one turn of
`split_data`; `CopyPlain`, `CopyEscape` and `CloseQuote` those of
`unescape_quoted_value`; `Get*` those of `ini_get`. A character is one of the
characters the code tests, or a word, which stands for a run of others.
`Startup` has one action per call of `main` and of the constructor, in their order;
`NoPort`, `LoadFails` and `Throw` are the exits. An `int` that nothing was read
into holds any member of `Garbage`. `Bindable` is what libzmq makes of a port: 16
bits of it, and for `"0"` a port of the system's choice.

`MultipartOps`. `m_parts` per object; `call` is the member function that runs. A
turn of each loop is an action (`AppendOne`, `PrependOne`, `CloneOne`, `SendOne`,
`RecvOne`), and so is each way out of it. `SendFails` and `RecvFails` may happen at
any frame, whatever state the pipe is in: EAGAIN, EINTR or a context that ends.
`before`, `copied`, `sends`, `failed`, `sent`, `came` and `lost` are history; a frame
has a place in them, the message that was given to `send` and its number there. The pipe is that of a PAIR socket, as in `multipart_t::test()`.

`MessageOwner`. `msg[h]` is the `zmq_msg_t` at a place: no message, one that is
valid with its bytes inside, one that refers to contents, one that was closed.
There is an action per member function and per way it ends: `RebuildThrows`,
`SendFails`, `RecvFails`, `ConstructThrows`, `ClosedThrows`. Arguments of the
constructors differ only in whether the contents are on the heap.

`SocketOwner` and `Monitor`. `ctx`, `sock` and `mon` hold the pointers of the
objects; `state`, `open`, `context`, `watch` and `queue` are what libzmq has. The
owner's thread is inside `close()` while `closing` names a `context_t`. The other
thread runs `monitor()`: `Poll*`, `ReadEvent`, `ReadAddress`, `ReadFails`,
`HandlerReturns`, `HandlerAborts` and `Unwind` are the steps of `check_event()`.
A release build is meant: `assert` and `ZMQ_ASSERT` do nothing. So a receive that
fails for another reason than the end of the context goes on with an empty frame
(`EventErrs`, `AddressErrs`), and `poll` may throw at any time (`PollInterrupted`).

## 3. Runs

| Run | Question | Shows |
|---|---|---|
| `table` | two workers, one request | `UniqueIdentity`, `ExpiryWindow`, `OnlyHeartbeatsRefresh`; `AtMostOneCopy`: the request is never in two places; `KeepsPromise`: it implements `RequestLife` |
| `requests` | a REQ and a DEALER client, a clock that may be set to anything | `RightClient`; `FreshReceiveNeverBlocks`, `RefusalMeansStaleFlag` |
| `live` | two requests of one client, fair scheduling | `LossesHaveACause`: a request is lost with a peer, refused, dropped, or lost with the process, and in no other way; `ExpiredLeavesUnlessWaiting`, `DueHeartbeatsSent`, `RequestsAreRead` |
| `expired` | the same without the exception for the wait | violated, see 5 |
| `vector` | three identities, the clock moving between any two steps of the loops | `NoDuplicates`, `NothingSkipped`, `CallsReturn`, `ImplementsPool` |
| `clock` | half seconds, a clock that wraps after nine, four moments to start at | `RoundsApart`, `StaysLifetime`: nothing happens early; `RoundsKeepUp`, `LeavesInTime`: nor late, unless the clock fell; `SteadyStays`: which backlog a living worker survives |
| `startup` | every file with one arbitrary line of up to three characters, in five places | `InBuffer`; `ReadsWhatTheFileSays`: `ini_get` agrees with `IniGrammar`; `StartsOnConfiguredPorts`; `StartupEnds` |
| `multipart` | two objects and a peer that comes and goes, clones | `ConcatenatesInOrder`, `OneOwner`, `CallsReturn` |
| `transfer` | two sends and any number of reads, with errors at any frame | `ReceivesWhole`: what a `recv` returns that is not one whole message is due to an error or a peer that left; `FailedFrameIsGone` |
| `messages` | three `message_t`, a pipe, every way a call ends | `FreedOnce`, `SharedOnlyByCopy`, `ClosedForGood` |
| `lifecycle` | two contexts, two `socket_t`, a monitor and its thread | `OneHolder`, `SameContext` |
| `events` | two contexts, one `socket_t`, two events, a receive that fails | `HandledInOrder`, `ContextCloses` |

Bounds of the proxy's runs. `MaxClock` ends time; it leaves room for a
registration, an expiry and a second registration (`Lifetime` + 1 seconds each
round of strict comparisons). `HWM` is 1, so a pipe is full after one message,
which the default of 1000 is not in ordinary use: the properties that speak of a full
pipe see both sides. Each request is sent once, which keeps
runs finite without a counter; a second request is there where two may meet. The
runs of one question use one worker when a second adds only copies, and two (as
symmetric values, in the run without liveness) where workers could be confused.

Bounds of the others.

* `clock`: a second is two units, so that a reading may lie in the middle of one;
  `Wrap` is 9 seconds where the code has about 50 days; `MaxTime` is long
  enough for a start, a registration, an expiry and the wrap between them, from
  each of the `Starts` (both halves of a second, just after the clock was zero
  and before it wraps). `PassTime` is an assumption, that a pass ends: libzmq's
  calls do not wait, but for the receive that run `expired` is about.
  `BeatTime` and `Backlog` are chosen so that the condition of `SteadyStays`
  holds with equality.
* `startup`: the loops look at one character and the next, and at the place a line
  begins; three characters in a line are one of each kind in every order, and the
  five places put the line before a header, in a section, as a value, at the end
  of the file and inside quotes at the end. Duplicate keys, wrong sections, empty
  keys, open quotes, a backslash at the end and values that are no number are
  among these files.
* `multipart`: three frames, so that an order can be wrong in the middle, and two of
  them cloned, so that copies meet.
* `transfer`: three frames in two messages (`MaxSends`) and a pipe of one: one
  message can be joined to the other, lose its start, or lose a frame inside. The
  number of errors and of reads is not bounded.
* `messages`: three objects and two places in the pipe, so that contents can be
  shared by two and moved past a third.
* `lifecycle` and `events`: two contexts are needed for a `ctxptr` to be wrong, three
  sockets for a forgotten PAIR, two `socket_t` for moves and assignments, two events
  for an order. One receive that fails (`MaxErrors`) is enough to bring the frames
  out of step; a second in the same stream does nothing new. Each run has the
  bounds its own properties need.

Deadlock is checked in all runs: where a process is over (`Gone`, `Over`) or time
is up (`TimeUp`) there is a step that says so.

Fairness. `WF(Server)`: the proxy is one thread that the system runs, and its only
wait is the receive, where `Server` is disabled. `SF` for each worker and for
each client: a ROUTER reads its peers in turn, so one with a message waiting is
read if the socket is read again and again. Nothing is assumed of peers, of the
clock, or of errors; so each liveness property has the dead process as an
exception. `WF(Next)` in `Startup` and `WF(Step)` in `MultipartOps` and
`WorkerVector`: one thread that goes on while it can. In `Monitor`, `WF(Thread)`
for the same reason, without the errors and the steps a handler or the missing PAIR may or may
not take, and `WF` for the return of `zmq_ctx_term`, which libzmq makes when the
last socket of the context is closed.

Every property of a passing run comes with a mutant: a changed definition
(`CoversBoth`, `ForwardedLastFrame`, `CheckEraseAfter`, ...; each stands before the
one it changes) under which TLC finds that property violated.

## 4. Proofs

The theorems hold for all values of the constants. The assumptions are that
interval and liveness are positive (`HeartbeatAssumption`), that a pipe holds at
least one message (`HWMAssumption`, `OpsAssumption`), that requests have owners
that are clients (`ServerAssumption`), that the payload of a request is not one of
the two texts that workers and the proxy send of their own (`PayloadAssumption`, by
which `OneCopy`, `LossesExplained` and `PromiseKept` know a request from a heartbeat;
no step of the model looks at it), that times are natural numbers and the
clock has more than one value (`TimeAssumption`; the code's has four million),
that a file is a sequence of characters (`StartupAssumption`), that there are
finitely many messages and their special values differ (`OwnerAssumption`), and
that the bounds are natural numbers (`OwnersAssumption`, `EventsAssumption`).

The proxy loop (`ZmqServerProofs`).

* `Typed`: `TypeInv` is inductive. `TypeOK` is not: when the proxy hands a request
  of client c to a worker, the envelope is right only if the pipe of c holds
  requests of c, and an answer is typed only if the worker got an envelope. So
  `PipesOK` says that the pipes of a client hold that client's requests, and that
  those of workers hold envelopes of requests that were sent. There is one lemma
  for each kind of step: the loop, errors and time, a client that sends, the
  other peers. `PushThenPop` and `WorkerAddress` are what the identity frames rest on.
* `TypeCorrect`, `AnswersReachTheirClient` (`RightClient`): consequences of `TypeInv`.
* `OneEntryPerWorker`, `RefreshedByHeartbeats`: from the lemmas about `MakeNewWorker`
  and from `TableSteps`, which says that only two steps touch the table.
* `ExpiriesInWindow`: by `TimesInv`, which adds that `checked` is not ahead of the clock.
* `FreshReceivesReturn`, `RefusalsAreStale`: by `FlagsInv`. Peers only add to what the
  sockets have to read and nothing leaves the table between `poll` and the front
  socket, so what `poll` reported still holds when it is used. At `"back"` it must
  already speak of the front socket, which the two properties do not.
* `OneCopy` (`AtMostOneCopy`): by `CopiesInv`, which says it without counting: in
  each of the four sets of pipes one message at most carries request r (`Single`),
  r is in one of the four only (`Apart`), and a request that was not sent is nowhere.
  What a step does is said once and for all in `LifeStep`: one request moves a leg
  on or is dropped and the others stay (`OnlyMoves`), or a peer takes the messages
  of one pipe with it (`ClientEnds`, `WorkerEnds`), or no request moves. Below it are
  lemmas on pipes (`Take`, `Put`, `Clear`) that know nothing of the proxy.
* `LossesExplained` (`LossesHaveACause`) and `PromiseKept` (`KeepsPromise`) are read off
  `LifeStep`: each of its cases is a step of `RequestLife`, or a stutter. With
  `CopiesInv` the place of a request is one tuple (`Place`), where the mapping would
  otherwise have to choose.

The table (`WorkerVectorProofs`). `NoDuplicates` is not inductive: pushing an entry
keeps it only because the search has passed every other one, which `Searched`
says. `EraseProperties` is what `erase` does to positions: what lies behind moves
up by one, and so does the iterator that was stepped back. From the invariant,
`VectorImplementsPool` maps every step: the call that writes and the reading of
the clock are steps of `WorkerPool`, all others leave its table alone.

Time (`LoopTimeProofs`). `ReadingsApart` is the heart of it: if two readings of
`s_clock` differ by more than n seconds, more than n seconds have passed, since
rounding loses less than the second that the strict comparison of whole seconds
gains, and a clock that wraps only falls. The invariant says which moment
`heartbeat_at` and the expiry in the table were computed from.

The upper bounds need where the loop is in a pass. `PassInv` says when the wait
and the pass are over, and `ClockInv` that a clock that has not fallen since a
moment has counted every second since (`CountedSince`). Then `RoundDue` and
`EntryDue` bound what is left to wait in each place of the pass, until
the test that sends the round or removes the worker is made. `SteadyStays` also
needs where the next heartbeat is: `BeatDue` says that one is in the queue and
reached in time, a pass for each message ahead of it (`ReachedInTime`), or that
the worker is still to send one in time.

The parser (`StartupProofs`). `InBuffer` is nearly inductive: with the buffer being
an array that ends in a zero (`Buffer`), each inner loop looks for a character
that is there, if only that zero. `First`, that a set of positions which is not
empty has a smallest, gives the place where such a loop stops and what lies
before it. An escape in `unescape_quoted_value` may read two on because the character
after the backslash is not that zero, and since the write head is behind the read
head, what it writes over is never the zero either.

`ReadsTheFile` (`ReadsWhatTheFileSays`) is the parser's correctness for every file
without zeros, however long and malformed (of one with zeros the grammar says
nothing: C strings end there). `IniGrammar` says by positions where headers
and pairs begin and what they mean, without an order in which to read them, and
the proof is that the order of the code comes to the same. It has no induction
over the file; the invariant `Parsed` carries it, turn by turn:

* while `split_data` runs, `SplitUpTo`: behind its pointer every header and pair has
  its strings at its place and all else is zero (`Done`), ahead of it the buffer is
  the file (`Ahead`), and at it something begins, or only a line's end stands
  there (`Here`). One lemma per case shows that a turn moves this on: `BlankDone`,
  `HeaderDone`, `NothingDone`, `PlainPair`, `QuoteDone`;
* while `unescape_quoted_value` runs, `Unescaping`: no closing quote is behind the
  read head, which is itself not escaped, and behind the write head stand the
  characters the grammar keeps, by rank (`Copied`). In the grammar a backslash
  counts by the parity of those before it, in the code by being read or skipped;
  `EscapedNext` is that this is the same;
* while `ini_get` runs, `AtItem`: it stands at the first cell of a header or a pair,
  or at the end, in the section the grammar says, and has passed no match.
  `NextItem` is why: what lies between two items is zeros. A pair with an empty key has
  one string where there should be two; from there `AtItem` says no more (`Wrong`).

`PortsFromTheFile` (`StartsOnConfiguredPorts`) adds what `main` has done with the values
found (`Given`), and `BindableListens`: what a `bind` takes is the port it was given, or
one of the system's for 0, and never one the first socket has.

Frames (`MultipartOpsProofs`). The invariant has the order of both objects
together in every turn (`Joins`) and that `clone` has copied a prefix. `Regroup` is
the lemma on sequences: a frame taken from one end and given to the facing end
of the other leaves the concatenation as it was.

`OwnersUnique` (`OneOwner`): `Holdings` is what the objects and the pipe hold, and
`OwnerInv` says that a frame that was not cloned is `Alone` there, and one that was
not made yet is nowhere. Every action is one of few changes to `Holdings`
(`OwnerStep`): a new frame at an end, one passed on, some dropped.

`WholeUnlessFailed` (`ReceivesWhole`): the property speaks of what `recv` returns, so
the invariant `StreamInv` must speak of all that it could return, now and later:
what was read, the frames in the pipe and those still to be sent are one stream of
places, and each is one that may come after the one before it (`MayFollow` within
the pipe, `MayEnter` between what was read and the pipe). An error or a peer that
leaves cuts this stream, and leaves the place behind which it was cut in `failed` or
in `lost`; between two sends the pipe is open only where one failed (`AtSender`).

`FailedFrameLost` (`FailedFrameIsGone`) rests on `OwnersUnique`: the frame that `send`
popped was in one place only, so when it fails the frame is nowhere, and no step
makes a frame a second time.

Contents (`MessageOwnerProofs`). The proof counts: a call writes one handle or two,
`CountOne` and its kin say how that changes the number of handles holding each
value, and libzmq's count changes by the same. `FreedOnce` needs `NoneBeforeMade`:
nothing refers to contents nobody has made.

Contexts, sockets and monitors (`MonitorProofs`). `Held` is `OneHolder` said
without counting: pointers lead to open sockets, no two to the same, and every
open socket that was not forgotten has one. It needs `Numbered` and `Made`: a new
socket is one nobody knows of. For `HandledInOrder`, `Aligned` counts frames: those the
thread has taken and those in the PAIR are together the frames of all events
sent so far, or of these and the end of monitoring, kinds in turn. It holds while the
context does not end and no receive has failed otherwise; once the context ends it
goes on ending as long as the PAIR is open (`EndingStays`), and a thread that has lost
a frame to it never reads another.

Only model-checked: liveness (`CallsReturn`, `StartupEnds`, `ContextCloses` and the
properties of run `live`), which is out of the prover's reach. Every other property
of a passing run is stated by a theorem.

## 5. Finding, and facts the properties show

`expired`: `CheckWorker` is to "remove expiry worker" (`zmq_server.cc:114`) at the end
of every pass, but a pass may last for ever. A pass reads a request and removes the
last worker. The next `poll` covers only the back socket, `pollitems[1].revents` still
holds the POLLIN of the request, and the receive at line 76 waits for a client. If
the pass registered a worker first, that worker expires and stays. `live` shows
that this wait and an uncaught error are the only causes.

Behaviour no document of the repository speaks of, stated as the exceptions of
properties that hold:

* The refusal "not have woker!" is only ever sent on such a stale flag
  (`RefusalMeansStaleFlag`); a client that sends while there is no worker usually
  gets no refusal, and its request waits for one.
* The timer of one second makes rounds of heartbeats that are more than one and
  up to three seconds apart, and a lifetime of three seconds lasts up to five, the
  passes of the loop not counted
  (`RoundsApart`, `RoundsKeepUp`, `StaysLifetime`, `LeavesInTime`).
* Where `long` has 32 bits the clock falls every 50 days; heartbeats then stop and
  expired workers stay until it has come back to where it was (`fell_at`).
* A worker that goes on sending heartbeats is removed when enough other messages
  are ahead of them (`SteadyStays`).
* A value that is no number leaves the port what it was before, which is
  uninitialised; two ports of 0 are two that the system chooses; a line with an empty
  key shifts the pairs behind it
  (`StartsOnConfiguredPorts`, `ReadsWhatTheFileSays`).
* A `send` that fails has lost the frame it was at and leaves an open message in the
  pipe, to which the next message, or the rest of this one, is joined; a `recv` that
  fails leaves a tail, which the next one returns as a message (`ReceivesWhole`,
  `FailedFrameIsGone`). An object appended or prepended to itself rotates
  its frames for ever (`CallsReturn`).
* A `rebuild` that throws, and a `copy` of a message to itself, leave a closed message on
  which every call but the destructor and a move throws (`ClosedForGood`).
* Assigning a `socket_t` swaps the sockets and not the contexts, so a `monitor_t`
  initialised on it may listen in the wrong context (`SameContext`); a second
  `monitor_t::init` forgets the first PAIR, and the context then never closes
  (`OneHolder`, `ContextCloses`); a handler that calls `abort()` leaves the thread
  polling file descriptor 0 (`PollAstray`). A receive that fails in `check_event` leaves
  the events one frame out of step (`HandledInOrder`).

## 6. Plan

| Module | Content | Checked | Proved |
|---|---|---|---|
| `ZmqServer` with `Multipart`, `WorkerPool`, `RouterSocket` | the core | yes | all safety |
| `RequestLife` | promise about a request | yes | yes, the refinement, from `CopiesInv` |
| `WorkerVector` | loops over the vector | yes | yes, with the refinement of `WorkerPool` |
| `LoopTime` | finer time, strict comparisons, the wrap | yes | lower and upper bounds, `SteadyStays` |
| `Ini`, `IniGrammar`, `Startup` | parser and start | yes | all safety |
| `MultipartOps` | messages frame by frame | yes | all safety |
| `MessageOwner` | contents and their owners | yes | yes |
| `SocketOwner`, `Monitor` | contexts, sockets, monitors | yes | all safety |

## 7. Not modelled

* `poller_t` (`zmq.hpp`): compiled only with `ZMQ_BUILD_DRAFT_API`, which no build file sets.
* `proxy`, `proxy_steerable`, `version` and the options, `bind`, `connect`, `unbind` and
  `disconnect` of `socket_t`: one call of libzmq and a throw; nothing in the program
  keeps state across them. What the program uses of them (`bind`, the timeouts)
  is in `Startup`.
* The move constructor of `monitor_t`, which hands both pointers on to a new object: `mon` is
  whichever object has them. The readers of `message_t` and `multipart_t` (`data`, `size`,
  `peek`, `str`, `gets`, iterators) change nothing.
* `ini_sget` without a format, which the program does not call.
* Logging (glog) and the scripts for build and deployment.
* libzmq itself, beyond what `RouterSocket` and the pipes of `MultipartOps`,
  `MessageOwner` and `Monitor` say of it.
