# A TLA+ verification of mmdb-ws

mmdb-ws answers questions about IP addresses from a MaxMind database over TCP and WebSocket
(C++17, Boost.Asio and Beast). It has an asynchronous file logger of its own, a modified NanoLog,
and its tests have a connection pool. This directory holds TLA+ models of the parts that carry the
program's own logic, TLC configurations that check them on small instances, and proofs that TLAPS
checks for every instance.

Paths below are relative to the repository; `NanoLog.cpp` is `src/log/NanoLog.cpp`, and so on.

## Inventory

| part | source | state | operations | hard |
| --- | --- | --- | --- | --- |
| log line | `NanoLog.cpp` 113-342 | a buffer in the object or on the heap, how much of it is used | `<<`, move, `stringify` | growth by the size of the argument, moves between them, strings that hold a `'\0'` |
| guaranteed log queue (`QueueBuffer`, `Buffer`) | `NanoLog.cpp` 351-365, 442-580 | a chain of buffers of slots, shared indexes, a spin lock | `push` by any thread, `try_pop` by the writer | lock free: `fetch_add`, publication, the switch to the next buffer, freeing |
| lossy log ring (`RingBuffer`) | `NanoLog.cpp` 351-440 | a ring of slots with a lock each, two indexes | `push`, `try_pop` | producers lap the reader and each other, 32 bit indexes wrap and the size need not divide 2^32 |
| life of the logger (`NanoLogger`, `FileWriter`) | `NanoLog.cpp` 583-713, `tee.h`, `day.h` | state, writer thread, stream, tee, day | construct, `add`, `pop`, `write`, `roll_file`, destruct | order of the shutdown, midnight, flushing, crash and restart |
| TCP session | `server/tcp/session.cpp` | one buffer for the line and for the answer | `doRead`, `doWrite` | a stream cut anywhere, what is left in the buffer |
| TCP server and I/O threads | `server/tcp/server.cpp`, `server/server.cpp` | an acceptor, an `io_context`, threads | `doAccept`, handlers, stop, join | any thread runs any handler, no locks, accept errors |
| WebSocket session | `server/websocket/listener.cpp` 34-135 | coroutine, buffer, response | `loop` | an error after the read falls through to the write |
| WebSocket listener | `listener.cpp` 140-235 | acceptor, socket, coroutine | constructor, `run`, `loop` | errors in the constructor, handlers of its coroutine and of the sessions' on any thread |
| dispatch, `GeoDecoder` | `session.cpp` 60-79, `listener.cpp` 96-116, `decoder.cpp` | the database, read only | `lookup`, `fields`, `location` | text with newlines of its own |
| connection pool | `test/integration/pool.h` | idle connections, two counters, a monitor thread | `acquire`, `release`, `removeExpired` | the cap is looked at outside the mutex, the creator may throw |
| client of the tests | `test/integration/tcp.cpp` | socket, buffer | `execute` | finding the end of an answer |
| command line (`Configuration`, clara) | `util/config.h`, `util/clara.h`, `main.cpp` 14-41 | token stream, settings | `Parser::parse` | several tokens in a string, strings that are empty, numbers that do not fit |
| start (`main`, `server::run`) | `main.cpp`, `server/server.cpp` 14-40 | how far it has come, ports, threads | the constructors, one after the other | some throw, the listener only reports, at any error |
| Lua and performance tests, scripts, Catch | `test/`, `docker/` | - | - | - |

How they interact: `main` parses the command line, makes the static logger and calls `spt::server::run`, which opens the
database, the listener and the TCP server on one `io_context` and runs it on `threads` threads. Every
thread logs: a `LOG_` macro builds a line and moves it into the queue, a writer thread moves it out
and into the file of the day. A signal stops the `io_context`; main joins the threads and returns,
and the destructor of the logger tells the writer to drain the queue and waits for it. Sessions share
nothing but the database.

What makes each correct: a line is read as it was written (the code does so up to the first `'\0'`), and never written past its buffer; a
logged line reaches the file once and in order; nothing is lost at a clean exit and INFO lines are not
lost in a crash; every query gets its own answer, once and in order; a session is never worked on by
two threads, a coroutine never entered twice; the server accepts for as long as it runs; what runs has
the TCP port, the database and the threads it was told to take and no port but those; a pooled connection has one user.

## Modules

| module | models | composed with |
| --- | --- | --- |
| `NanoLogLine`, `MCNanoLogLine`, `NanoLogLineProofs` | the log line | |
| `LogQueue` | what the guaranteed logger promises | |
| `QueueBuffer`, `MCQueueBuffer`, `QueueBufferProofs` | the guaranteed queue | implements `LogQueue` |
| `LossyLog` | what the non guaranteed logger promises | |
| `RingBuffer`, `MCRingBuffer`, `RingBufferProofs` | the ring | implements `LossyLog` |
| `NanoLogger`, `MCNanoLogger`, `NanoLoggerProofs` | the life of the logger in the process | uses `LogQueue` as its queue |
| `GeoDecoder` | the dispatch and the form of the answers | used by the next three |
| `QueryService` | what a connection promises its client | |
| `TcpSession` | a TCP connection with the client of the tests | implements `QueryService` |
| `WebSocketSession` | a WebSocket connection | implements `QueryService` |
| `SessionProofs` | | proofs about both sessions |
| `TcpServer` | the TCP server: accepting, sessions' handlers, I/O threads | |
| `Service`, `MCService` | the WebSocket listener and its sessions as coroutines | extends `TcpServer`: both services on the same threads |
| `CommandLine` | the options, clara's token stream and parser | |
| `Startup`, `MCStartup` | main and `run` up to the service | extends `CommandLine` |
| `ServiceProofs` | | proofs about `TcpServer`, `Service`, `CommandLine` and `Startup` |
| `Pool`, `MCPool`, `PoolProofs` | the connection pool | |
| `Selection` | | what is left of a sequence without some elements, for `NanoLogger` |
| `SequenceLemmas` | | induction, concatenation and selection of sequences, for the proofs |

### Correspondence

* **QueueBuffer**: the variables are the members of `QueueBuffer` and `Buffer`, with their names
  (`m_write_state[size]` is `write_count`). One action is one access to shared memory: `Claim` is the
  `fetch_add`, `Load` the load of `m_current_write_buffer`, `Construct`, `Publish` and `Count` are the
  three statements of `Buffer::push`, `SetUp` to `Unlock` are `setup_next_write_buffer` with its spin
  lock; `LockToLook`, `Front`, `Take`, `NotYet`, `LockToPop`, `Pop` are `try_pop`. `CountFreed` is what
  `Count` does when the reader has destroyed the buffer in between: undefined behaviour, modelled as a
  count that finds another value, or the end of the process.
* **RingBuffer**: the same for the ring. `NanoLogLine` is moved without atomicity, so a slot has two
  halves and each is written by a step of its own, inside the slot's lock.
* **NanoLogger**: `Ready`, `StopServer`, `Leave`, `JoinWorkers`, `Shutdown`, `Exit` are main and the
  I/O threads, `Begin` to `Put` the writer thread; `Spill` is an `ofstream` that writes its buffer on
  its own, `Midnight` the clock, `Crash` the end of the process between any two steps, `Restart` a new
  process with the files that are there. An open may fail (`Open`, in `RollFile`, `Init` and
  `Restart`): until the next roll every line goes nowhere (`PutNowhere`). Its queue is `LogQueue`, so
  it stands for what `QueueBuffer` implements.
* **NanoLogLine**: a buffer is a sequence of cells (a type or a character, both bytes that nothing tells
  apart; a byte of a number or of the header). `Insert` is `operator<<` with `resize_buffer_if_needed`:
  `Reserved` is what is asked for, `Cells` what is written. `Decode` is `stringify`: `ReadNext` is one
  call of it, `PastString` the `decode` of strings, `Past` that of the other types, `Astray` a read past
  what was written. Strings may hold any bytes.
* **TcpSession**: `DoWrite` is all of `Session::doWrite` up to the write, the `commit` of bytes nobody
  has read included; `ReadSome` and `WriteSome` are the network. The client's `Ask`, `Receive` and
  `Return` are the steps of `execute`.
* **TcpServer**: an operation under way is in `accepting`, `reading` or `writing`; a thread takes it
  from there when it is complete (`AcceptReady`, `ReadReady`, `WriteReady`), runs the handler (`Start`,
  `Rearm`, `Respond`, `Written`) and starts the next. `Throw` is `remote_endpoint()` failing, which is
  called by the constructor of `Session` at INFO and by the accept handler at DEBUG, so at every level
  below WARN (the constant `LogsAddress`); INFO is the default.
* **Service**: `pending[c]` are the operations a coroutine waits for, `loop[t]` says which coroutine a
  thread has resumed and after which operation; `socket_` and `listening` (the constructor came to its
  end) are the listener's. `Resume` is Asio calling `loop` with an error code, `Yield` the `yield` that
  leaves it. `Continue` is `session::loop`: what each operation is followed by. The listener's round is
  two actions, `Launch` (`session::run`, whose dispatch on the session's strand may run inline or be
  queued) and `Listen` (the new socket and the next accept). Stop, exit and the threads are `TcpServer`'s.
* **CommandLine**: an argument is what `loadBuffer` makes of it, its option names and its text;
  `Load` and `Advance` are `TokenStream`, `ParseOption`, `ParseHelp`, `ParseFails` and `ParseEnds` the
  rounds of `Parser::parse` and its ends. `Spelled` to `Outcome` say what a command line means without
  any stream.
* **Startup**: one action per statement of `main` and `run`, with where each constructor may throw. Both
  acceptors may fail for any reason: `OpenListener` then goes on without a port, `Serve` ends the
  process. `occupied` are the ports on which others listen, of all that the two may ask for.
* **WebSocketSession**: `place` is where the coroutine is; each `yield` ends an action. Messages are
  whole, as Beast hands them over; a read that fails may leave a part of one. It is the session of
  `Service` seen from its data: one client, its messages and the buffer.
* **Pool**: what runs under the mutex is one action; the look at the cap before it is `Cleared`. `lost`
  is a history variable that counts the creators that threw.

Definitions that begin with "Slip:" in their comment are not part of any specification. Each is a
variant of the definition it stands in front of, with a plausible mistake. Where the variants differ in
one place only, both instantiate one operator (`RearmIf`, `RollTo`, `ContinueReading`), whose argument
the code fixes.

## What is checked

| run | shows |
| --- | --- |
| `queue_safety` | slots are exclusive, the switch waits for all stores, the reader stays in live buffers, `m_write_index` overshoots by the waiting producers only, and the queue implements `LogQueue` |
| `queue_liveness` | logged lines are delivered unless a freed buffer is counted in; the invariant of the proofs holds |
| `queue_guarantee` | without that exception delivery fails (see below) |
| `ring` | lines whole and once, in order until two that wait share a slot, `push` never waits, drained at shutdown unless lapped; implements `LossyLog` |
| `ring_drain` | the drain leaves lines behind (see below) |
| `logger` | nothing lost at exit but the lines of a file that was not opened, INFO lines durable, tee and file agree, stamps follow files, shutdown completes |
| `line` | no write beyond a buffer, and stringify prints what was logged, or what was logged up to the first `'\0'` of a string |
| `tcp_session` | each query of a client that waits gets its own answer |
| `websocket_session` | each message gets its own answer, also when sent ahead; the coroutine ends |
| `service` | TCP sessions have one handler or operation at a time, and so have the listener and the WebSocket sessions; the server always accepts, the clients of both services are answered (also beside a listener that fails for ever), threads leave after stop |
| `startup` | a command line means the same however it is spelled; a service that runs has its TCP port, its database and its threads as it was told, and listens on no port but those it was told to |
| `pool` | one user per connection, how far the cap can be passed, what `total` counts, idle connections go |

The abstract specifications are checked as properties (`ImplementsLogQueue`, `ImplementsLossyLog`,
`ImplementsQueryService`, `MessagesImplementQueryService`); the refinement mappings are in the modules,
at `Abstract == INSTANCE` and, in `WebSocketSession`, `AbstractMessages == INSTANCE`.

### Where the code and its words differ

* `NanoLog.h:141` promises that log lines will not be dropped. `Buffer::push` publishes its slot
  before it counts it. If it is the last slot the reader may take it and destroy the buffer in between.
  The count is then a use after free; if it finds another value, nobody sets up the next buffer and all
  producers spin for ever (`queue_guarantee`). `DeliveryUnlessFreed` shows that nothing else breaks the
  promise.
* `NanoLog.cpp:673` says "Pop and log all remaining entries". A reader of the ring that was lapped can be
  at an empty slot with lines in later ones, and stops there (`ring_drain`). `DrainedUnlessDropped`
  says what is kept.

More are known and have no run.

* The README says two newlines end an answer. The answer to `f:` ends with three, so a client that
  reads up to two leaves one behind. `ImplementsQueryService` shows that the client of the tests,
  which trims, is not misled by it.
* Of two producers of the ring with the same slot, the later ticket may be stored first, so that the
  older line replaces the newer one.
* The size of the ring, `max(1, mb) * 1024 * 4`, need not divide 2^32. Where the index wraps, the slots
  then do not follow one another and two lines get one slot before the ring is full, so that one of
  them is dropped or they are read out of order (`Lapped` says when; the run `ring` has such a size).
  The product is of 32 bits, so that it is 0 when `mb` is a multiple of 2^20, and `% m_size` is then a
  division by zero; `RingAssumption` leaves that size out. `main` uses the guaranteed logger.
* A `std::string` is copied into a log line with its length, and `stringify` reads it up to its first
  `'\0'`. What is behind that is taken for types and arguments: it is left out, printed as
  something else, or read past the end of the line. Queries are logged as they come from the network (`session.cpp`
  57, `decoder.cpp` 31, 52, 68). `PrintsWhatWasLogged` says what is printed all the same.
* `Pool::acquire` compares the cap before it takes the mutex, and a creator that throws leaves `total`
  raised for ever: `CapMissedByFew` says how far the cap is passed, `CountCoversUsers` that `total` is
  the users and one for each creator that threw. After `maxConnections` of these `acquire` returns
  nothing any more.
* A client of the TCP service that sends a query before it has the answer to the last may lose it, as
  `doWrite` consumes what was read behind the line; the clients of the repository wait.
* When its acceptor cannot be opened, bound or made to listen, for whatever reason, the listener reports
  it and `run` goes on: the log says "HTTP service started on port", the acceptor is of no use, and
  `listener::loop` has its accept fail at once, logs it and tries again, for ever. `Answered`,
  `ThreadsLeave` and `CoroutinesExclusive` hold beside it (`listening` is FALSE in half of the initial
  states), and `ServesWhatItBound` says what a service has that came through its start like this.
* With `-n 0`, or where the number of cores is not known, `reserve( threads - 1 )` throws and the
  process ends. A port above 65535 is cut to 16 bits. A log level that is none of the four is not
  refused and leaves DEBUG, not the default INFO.
* Unless the level is WARN or CRIT, a new session asks for its client's address (`session.cpp` 20), and
  the exception when that client has gone ends the process (`Throw`). At DEBUG the accept handler
  (`tcp/server.cpp` 31) does so, too.
* A log file that cannot be opened is not noticed. With `--console` the output there stops, too, as a
  `teebuf` fails when one of its two streams does.

### Bounds

* `queue_safety`: three producers with two lines each, slots of two: three producers are what is needed
  for one to set up, one to wait and one to come late; six lines go through three buffers and free
  two. `queue_liveness` has two producers with three lines: again three buffers. `MaxBuffers` is never
  reached.
* `ring`: two producers with three lines each, two slots, indexes modulo 3: producers lap the reader and
  each other, both indexes wrap, and as 2 does not divide 3 the third and the fourth line get one
  slot. `ring_drain` (indexes modulo 4) needs one producer with four lines.
* `logger`: main and one worker with two lines each, one of them below INFO per thread, two days, with
  the tee, and one trouble: either a second life after a crash or an exit, or one file that is not
  opened, on the first day or at midnight. Midnight falls into every step.
* `line`: strings of none to five characters, numbers of one and two cells, a buffer of 4 and a heap of
  6: with three arguments a line fits, moves to the heap, doubles there, and needs more than double.
  Five of the strings have a `'\0'` in them or at the end; behind it is nothing, another one, a number
  that ends in the string or runs past it, a string, or what is no type.
* `tcp_session` and `websocket_session`: three queries of every form, known and unknown addresses and
  the empty query, so that what is left of an answer meets the next one and the one after. The
  WebSocket client has up to two queries under way.
* `service`: two threads, one TCP and one WebSocket connection with two queries each, a listener that is
  bound and one that is not, at a level at which the address is logged. A race takes two threads and one session or coroutine;
  the two connections and the listener compete for the threads. `SessionExclusive`, `AlwaysAccepting`
  and `CoroutinesExclusive` are proved for any number.
* `startup`: every command line of up to four arguments out of fifteen, in which each kind of
  spelling, of value and of mistake occurs; each port that is asked for taken or not, each acceptor
  failing for another reason or not, and a system that has three more threads. Four arguments are two options with their values apart, or four in one string each.
* `pool`: three clients, at most two connections, one idle second to expire, a clock of two: the three
  pass the cap together, and a connection expires while others are used. `MaxCreated` and `MaxTime` end
  the run.

Deadlock is not checked (`CHECK_DEADLOCK FALSE`): clients stop sending, processes exit and bounds are
reached in every model.

### Fairness

* Threads are scheduled by the operating system: each step of a thread that can be taken is taken
  (weak fairness). The spin locks need strong fairness of the thread that waits: the lock is
  free again and again, and the code has no queue of waiters.
* The `io_context` queues handlers that are ready and runs them in order on whichever thread is free,
  so that each is run in the end although a thread may take others first: strong fairness for each
  connection's handlers in `TcpServer` and `Service`. It is this that lets the other handlers run
  beside a listener whose accept fails at once each time. For the TCP server it
  supposes that its own accepts do not fail for ever (no descriptor being left, say). A coroutine that was resumed goes on to its
  next operation (weak fairness). Clients are not fair: they may never ask, stay or close.
* The network delivers what was sent (weak fairness of `Handle`, `Loop`, `Execute` and `Receive`).
* The pool's monitor thread runs; clients may hold a connection for ever.

## What is proved

By TLAPS, for all values of the constants that meet the named assumptions of the modules:

* `QueueAssumption`, `RingAssumption`, `ServerAssumption`, `PoolAssumption`: finite sets of threads,
  clients or connections, natural numbers as bounds, a `None` that is none of what it stands beside. Slots
  in a buffer: at least one (`Size`, which the code fixes for the queue; for the ring it is a multiple of
  4096, and 0 only for a size of a multiple of 2^20 megabytes). `Wrap`, the number of values of an index of the ring, is at least `Size`.
* `LoggerAssumption`: the threads of the service and main, at least one day.
* `LineAssumption`: a header that fits into the object, arguments of some width, a number for strings
  that is no other type's. Nothing is assumed of the bytes of a string.
* `SessionAssumption`, `WebSocketAssumption`, `ServiceAssumption`: bounds are naturals, names are distinct.
* `CommandLineAssumption`: what arguments are, a number of cores that fits 16 bits.
* `StartupAssumption`: what the system gives for port 0 is a port from 1 to `USHRT_MAX`.

TLC evaluates the assumptions in the runs. Where a theorem needs more, its statement says so
(`CapIsMissedByFew`). Every invariant that a run checks is stated by a theorem, and
so are the four refinements. The inductive invariants are in the proof modules where only the proofs
need them, and in the modules themselves (`QueueInv`, `RingInv`, `LoggerInv`) where TLC checks them too,
or checked them on a small instance before they were proved.

* `QueueBufferProofs`: `QueueInvariant` (`TypeOK /\ QueueInv` is inductive), and from it
  `SlotsAreExclusive`, `SwitchesWhenFull`, `ReaderReadsLive`; `OvershootIsBounded`, inductive on its
  own. `SlotsExclusive` alone is not inductive: a producer that has taken a slot keeps it only because
  the buffer is not switched, which is so because the count cannot reach `Size` while a slot is not
  published. `CountInv` says that the count never runs ahead of the stores that are published and whose
  producer is done; `SwitchInv` that a switch has one producer and finds no other in the old buffer;
  `FifoInv` how far the reader is: buffers are freed in the order they were allocated, each after `Size`
  lines. It holds with the late count in a freed buffer too. The lemmas are one per part of the
  invariant, with one step per action. `QueueImplementsLogQueue` is the refinement: only the `fetch_add`
  that gets a slot, the publication and the `Take` are steps of `LogQueue`, every other action is a
  stutter. It needs what the invariant says of the claimed slots, that the i-th `fetch_add` that got a
  slot has the i-th place in the chain of buffers, which is the one the reader comes to i-th.
* `RingBufferProofs`: `RingInvariant`. `LockInv` says who has the spin lock of a slot, `HalvesInv` that
  its two halves differ only for a producer in that lock, `LineInv` that a line is in one slot, once, and
  `PlaceInv` that this is the slot of its `fetch_add`. `TakenIsWhole` and `RingImplementsLossyLog` follow.
  `DrainsUnlessDropped` needs to count: `CountInv` says, for every set of slots, that the lines taken,
  waiting and in flight there are no more than those given a slot there, what is missing having been
  overwritten. If none is missing and the reader finds its slot empty, then no slot has a line.
  `HandsOutInOrder` is for any size, one that does not divide the range of the index included: the line
  the reader takes has the slot of the next ticket, and while no two lines that wait share a slot
  (`Lapped`) it is the line of that ticket. Where the size does divide the range, slots are
  shared only by producers that go on when the ring is full (`LapsWhenFull`).
* `NanoLoggerProofs`: `LoggerInvariant` and from it `NothingLost`, `InfoDurable`, `TeesAgree` and
  `StampsFollow`. `ContentInv` is what matters: what is in the files followed by what is in the stream's
  buffer is, at any time, what was there before this life of the process followed by the lines the
  writer has written, in order, but those of a file that did not open; and that buffer has lines
  below INFO only. `HandInv` says that the lines written are those the queue has handed out but for the
  one in hand, and `LifeInv` that the writer's end comes after the last line and before the exit.
* `NanoLogLineProofs`: `LineInvariant` and `LinesFit`. `TypeOK` says that a buffer on the heap
  has the least size, which is what makes the next doubling enough. `PrintsArguments`: `PrintInv` says
  of every buffer that reading it argument by argument comes to its end with the text of the arguments
  printed, and, where a string has a `'\0'`, that it comes to print the text up to there. `<<` appends
  to the buffer wherever it is or goes to, and a move leaves the reading as it was; what was read does not
  change by what is appended unless the reading had gone past the end (`ReadsFurther`), and
  `Decode` only adds to what it has printed, whatever it takes the bytes behind the `'\0'` for
  (`ReadNextAdds`).
* `SessionProofs`: `TcpImplementsQueryService` and `WebSocketImplementsQueryService`, with the type
  invariants. A query is at one place at a time: sent, in the session's hands, or answered and on its way
  back. For TCP, `LineInv` looks at the two streams with what the buffers at their ends have (`Up`,
  `Down`): while the client waits, either its line and nothing else is on its way up, or its answer is on
  its way down, with at most one newline of the last answer before it (`Leftovers`), however the
  network cuts them. For WebSocket, `PipeInv` says which message is the one that is in hand, as
  counted by what has been answered and received; it is about streams that are whole, since after a
  failed read the loop still makes a response but its write fails.
* `ServiceProofs`, the TCP server: `ServerInvariant` and from it `SessionsAreExclusive` and
  `AcceptsForEver`. A session has no lock; what keeps two threads out of it is that each handler starts
  one operation at most, as its last act. The invariant adds that a connection in the backlog has no
  session yet.
* `ServiceProofs`, the whole service: every step is a step of the TCP server or leaves it alone
  (`ServiceImplementsServer`), so that the above holds beside the WebSocket service.
  `ServiceInvariant` and from it `CoroutinesAreExclusive`: a coroutine waits for one operation or is
  resumed by one thread. That is inductive only together with what `ServiceInv` adds, that a connection
  in the backlog or in the listener's hands has no coroutine yet, and that the listener's `socket_` is
  its own while it runs.
* `ServiceProofs`, the command line and the start: `StartupInvariant` and from it `ReadAsSpelled` and
  `ServesAsTold`. `ParserInv` says that there is an n such that the parser has read the first 2n tokens
  of the command line, which are n options with their values, and has set these and no others. It needs
  to know where the stream is: in the argument that has the next token, its buffer being the
  rest of that argument's tokens (`ReadUpTo`, over the `Cuts` where each argument's tokens end); arguments
  without tokens are skipped, however many there are. `StartInv` says what each constructor that has
  returned has left: the file is a database, the TCP server listens on a port that is the one
  that was asked for and no other socket's, and the listener on such a port or, after any error, on none.
* `PoolProofs`: `CountCovers`, `CapIsMissedByFew` and `OneUser`. `TypeOK` is not inductive: that `total`
  stays a natural number needs that it counts every user, and `CountCoversUsers` says both, and that
  it counts nothing else but the creators that threw. `OneUserEach`
  needs that a new connection is unlike all others, which is so because `created` only grows
  (`Numbered`). `CapIsMissedByFew` assumes that there are clients at all.
* `SequenceLemmas`: the provers cannot instantiate a theorem about all predicates, so induction is stated
  for sets of numbers (`SetInduction`, from the least number that well-foundedness gives). With it:
  what `Append` does to a selection of a sequence (`Without` of `Selection`, a recursive function, because the
  provers know nothing of `SelectSeq`), and where the parts of a `FlattenSeq` begin and end.

Only model-checked: liveness (`DeliveryUnlessFreed`, `PushEnds`, `ShutdownCompletes`, `EveryQueryAnswered`, `EveryMessageAnswered`,
`SessionEnds`, `Answered`, `WsAnswered`, `ThreadsLeave`, `ExpiredGo`), which is
beyond the prover. The two findings are counterexamples of TLC.

## What is not modelled

* The weak memory orders of the atomics: they are sequentially consistent here. That is right for the
  x86 instructions the stores and read-modify-writes compile to, but not for every machine.
* The buffer of `std::cout`: what is sent to the console is there at once.
* A clock that goes back: `system_clock` may, the pool's clock in the model does not. The connections are then
  not in the order of their times, and `removeExpired` may stop early.
* What a log line does that follows a pointer made of the characters behind a `'\0'`, apart from what it
  prints: the process may end there.
* The text: JSON, time stamps, how numbers are written. Whether the JSON of `lookup` ends with a newline
  is up to the database library, which is not in the repository; the models take it not to.
* Writes to the log file that fail half way (a full disk): only the open may fail in the model. The code
  does not look at the stream's state in either case.
* Partial sends of the client of the tests (`s.send` of a short line), and addresses shorter than two
  characters.
* The handshake and the timeouts of the WebSocket: they end a session like a client that goes.
* What clara has and the program does not use (`Arg`, options bound to lambdas or containers, the text of
  the help and of its errors), and the digits of a number: a number stands for its value, with or without
  something behind it.
* The database, the tests' assertions on addresses, the Lua tests, the scripts, vendored code. They
  keep no state of the service, or are external to it.

## Plan

Done: the log queue, the life of the logger with files that cannot be opened, the ring,
the log line, the sessions, the TCP server and the WebSocket listener on one `io_context`, the command
line and the start, the pool; proofs of every safety invariant and of every refinement.

1. `Service` with `NanoLogger`'s shutdown, so that `Leave` and `Exit` are the same step in both.
2. The pool with the TCP client as its connection: a connection whose server went away is handed out
   again, `valid()` being the client's word only.
