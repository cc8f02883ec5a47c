----------------------------- MODULE NanoLogger -----------------------------
(***************************************************************************)
(* The life of the logger (NanoLogger and FileWriter in                    *)
(* src/log/NanoLog.cpp) inside the process (main and spt::server::run):    *)
(* main constructs it, the I/O threads and main log, a writer thread moves *)
(* lines from the queue to the file of the day, and at exit main joins the *)
(* I/O threads, tells the writer to stop and waits for it.  The process    *)
(* may crash at any moment and be started again.                           *)
(*                                                                         *)
(* The queue is LogQueue, which QueueBuffer implements.  A line in a file  *)
(* carries the day of its timestamp.                                       *)
(***************************************************************************)
EXTENDS Selection, SequencesExt, FiniteSets

CONSTANTS
  Workers,      \* the I/O threads
  Main,         \* the main thread
  NoLine,       \* the writer has no line in hand
  Quiet,        \* the lines below LogLevel::INFO, which are not flushed
  Echo,         \* does the writer copy lines to the console
  MaxLines,     \* bound: lines each thread logs in one life of the process
  MaxDays,      \* bound: days that pass
  MaxTroubles   \* bound: files that cannot be opened and restarts, together

Threads == Workers \cup {Main}
Lines == Threads \X (1 .. MaxLines)
Days == 1 .. MaxDays

ASSUME LoggerAssumption ==
  /\ IsFiniteSet(Workers) /\ Main \notin Workers
  /\ Quiet \subseteq Lines /\ NoLine \notin Lines
  /\ Echo \in BOOLEAN
  /\ MaxLines \in Nat /\ MaxDays \in Nat \ {0} /\ MaxTroubles \in Nat \ {0}

VARIABLES
  order, ready, delivered,  \* the queue, m_buffer_base
  pc,           \* for each thread: idle, storing a line, done
  main,         \* how far main has come; stopping: after ioc.stop()
  m_state,      \* NanoLogger::m_state
  wpc,          \* the writer's step in NanoLogger::pop
  draining,     \* it is in the loop that pops the remaining entries
  logline,      \* the line it has in hand
  today,        \* the system clock, in days
  day,          \* FileWriter::day, and the file m_os writes to
  tee,          \* the file whose buffer the tee writes to
  pending,      \* lines m_os has not passed to the file yet
  files,        \* the files, one for each day
  console,      \* what the tee wrote to std::cout
  opened,       \* m_os is open
  lost,         \* the lines written while it was not
  base,         \* what was in the files when the process started
  troubles      \* files not opened, and restarts

queue == <<order, ready, delivered>>
writer == <<wpc, draining, logline>>
stream == <<day, tee, opened, troubles>>
output == <<stream, pending, files, console, lost>>
process == <<pc, main, m_state>>
world == <<today, base>>
vars == <<queue, writer, output, process, world>>

Queue == INSTANCE LogQueue WITH Producers <- Threads

Stamped == [line : Lines, stamp : Days]
OnDisk(fs) == FlattenSeq([d \in Days |-> fs[d]])

\* The types, and that threads main has joined are done.
TypeOK ==
  /\ order \in Seq(Lines) /\ ready \subseteq Lines /\ delivered \in Seq(Lines)
  /\ pc \in [Threads -> {"idle", "storing", "done"}]
  /\ main \in {"construct", "run", "stopping", "join", "last", "stop", "exited", "crashed"}
  /\ m_state \in {"INIT", "READY", "SHUTDOWN"}
  /\ wpc \in {"init", "loop", "pop", "check", "roll", "put", "done"}
  /\ draining \in BOOLEAN
  /\ logline \in Lines \cup {NoLine}
  /\ today \in Days /\ day \in Days /\ tee \in Days
  /\ pending \in Seq(Stamped) /\ console \in Seq(Stamped) /\ base \in Seq(Stamped)
  /\ files \in [Days -> Seq(Stamped)]
  /\ opened \in BOOLEAN /\ lost \subseteq Lines /\ troubles \in 0 .. MaxTroubles
  /\ main \in {"last", "stop", "exited"} => \A t \in Workers : pc[t] = "done"

\* NanoLogger's members are built: roll_file was called and the writer thread runs,
\* m_state is still INIT.
Fresh ==
  /\ order = <<>> /\ ready = {} /\ delivered = <<>>
  /\ pc = [t \in Threads |-> "idle"]
  /\ main = "construct" /\ m_state = "INIT"
  /\ wpc = "init" /\ draining = FALSE /\ logline = NoLine
  /\ pending = <<>> /\ console = <<>> /\ lost = {}

Init ==
  /\ Fresh
  /\ today = 1 /\ day = 1 /\ tee = 1
  /\ files = [d \in Days |-> <<>>] /\ base = <<>>
  /\ opened \in BOOLEAN /\ troubles = (IF opened THEN 0 ELSE 1)

-----------------------------------------------------------------------------
(* The threads that log, and main.                                         *)

\* Main and the workers run handlers until each has left ioc.run(); main also logs
\* before and after that, never while it waits for the workers.
MayLog(t) ==
  main \in {"run", "stopping"} \cup (IF t = Main THEN {"last"} ELSE {"join"})

Log(t) ==
  /\ MayLog(t) /\ pc[t] = "idle"
  /\ Queue!NextLine(t) \in Lines
  /\ Queue!Accept(t)
  /\ pc' = [pc EXCEPT ![t] = "storing"]
  /\ UNCHANGED <<writer, output, main, m_state, world>>

Logged(t) ==
  /\ main # "crashed" /\ pc[t] = "storing"
  /\ \E i \in DOMAIN order : order[i][1] = t /\ Queue!Store(i)
  /\ pc' = [pc EXCEPT ![t] = "idle"]
  /\ UNCHANGED <<writer, output, main, m_state, world>>

\* The constructor's body.
Ready ==
  /\ main = "construct"
  /\ m_state' = "READY" /\ main' = "run"
  /\ UNCHANGED <<queue, writer, output, pc, world>>

\* SIGTERM: ioc.stop(), by whichever thread runs the handler of the signal.
StopServer ==
  /\ main = "run"
  /\ main' = "stopping"
  /\ UNCHANGED <<queue, writer, output, pc, m_state, world>>

\* A thread leaves ioc.run() when its handler has returned; main goes on to the joins.
Leave(t) ==
  /\ main \in {"stopping", "join"} /\ pc[t] = "idle"
  /\ IF t = Main
     THEN main = "stopping" /\ main' = "join" /\ UNCHANGED pc
     ELSE pc' = [pc EXCEPT ![t] = "done"] /\ UNCHANGED main
  /\ UNCHANGED <<queue, writer, output, m_state, world>>

JoinWorkers ==
  /\ main = "join" /\ \A t \in Workers : pc[t] = "done"
  /\ main' = "last"
  /\ UNCHANGED <<queue, writer, output, pc, m_state, world>>

\* main returns, and the static nanologger is destroyed.
Shutdown ==
  /\ main = "last" /\ pc[Main] = "idle"
  /\ m_state' = "SHUTDOWN" /\ main' = "stop"
  /\ UNCHANGED <<queue, writer, output, pc, world>>

\* m_thread.join(), then ~FileWriter, whose m_os closes the file.
Exit ==
  /\ main = "stop" /\ wpc = "done"
  /\ files' = [files EXCEPT ![day] = @ \o pending]
  /\ pending' = <<>>
  /\ main' = "exited"
  /\ UNCHANGED <<queue, writer, stream, console, lost, pc, m_state, world>>

-----------------------------------------------------------------------------
(* NanoLogger::pop, run by the writer, and FileWriter.                     *)

Alive == main \notin {"exited", "crashed"}

\* Waits for the constructor to complete.
Begin ==
  /\ Alive /\ wpc = "init" /\ m_state # "INIT"
  /\ wpc' = "loop"
  /\ UNCHANGED <<queue, draining, logline, output, process, world>>

LoopUnless(over) ==
  /\ Alive /\ wpc = "loop"
  /\ draining' = over
  /\ wpc' = "pop"
  /\ UNCHANGED <<queue, logline, output, process, world>>

\* Slip: SHUTDOWN is not looked for.
LoopAlways == LoopUnless(FALSE)

Loop == LoopUnless(m_state # "READY")

Pop ==
  /\ Alive /\ wpc = "pop"
  /\ Queue!Deliver
  /\ logline' = order[Len(delivered) + 1]
  /\ wpc' = "check"
  /\ UNCHANGED <<draining, output, process, world>>

PopFailsWhen(empty) ==
  /\ Alive /\ wpc = "pop" /\ empty
  /\ wpc' = IF draining THEN "done" ELSE "loop"
  /\ UNCHANGED <<queue, draining, logline, output, process, world>>

\* Slip: the writer stops without a look at what is left.
PopNothing == PopFailsWhen(draining \/ order = delivered)

\* try_pop returns false: there is no next line, or it is not stored yet.
PopFails == PopFailsWhen(Len(delivered) < Len(order) => order[Len(delivered) + 1] \notin ready)

\* FileWriter::write compares its day with the clock.
Check ==
  /\ Alive /\ wpc = "check"
  /\ wpc' = IF day # today THEN "roll" ELSE "put"
  /\ UNCHANGED <<queue, draining, logline, output, process, world>>

\* Nothing looks at whether the file was opened.
Open ==
  \/ opened' = TRUE /\ UNCHANGED troubles
  \/ opened' = FALSE /\ troubles < MaxTroubles /\ troubles' = troubles + 1

RollTo(kept, bound) ==
  /\ Alive /\ wpc = "roll"
  /\ files' = [files EXCEPT ![day] = @ \o kept]
  /\ pending' = <<>>
  /\ day' = today /\ tee' = bound /\ Open
  /\ wpc' = "put"
  /\ UNCHANGED <<queue, draining, logline, console, lost, process, world>>

\* Slips: the old stream is dropped without a flush, its tail with it; the tee is made
\* in the constructor only.
RollFileUnflushed == RollTo(<<>>, today)
RollFileKeepsTee == RollTo(pending, tee)

\* roll_file reads the clock again, flushes and closes the file, opens the next and
\* binds the tee to it.
RollFile == RollTo(pending, today)

\* Slip: DEBUG and INFO swapped in the test before the flush.
FlushesQuiet(l) == l \in Quiet

Flushes(l) == l \notin Quiet

Stream == IF Echo THEN tee ELSE day

\* stringify reads the clock for the timestamp, writes the line and, from INFO on,
\* flushes; then pop goes round its loop.
Put ==
  /\ Alive /\ wpc = "put" /\ opened
  /\ LET text == pending \o <<[line |-> logline, stamp |-> today]>>
     IN  IF Flushes(logline)
         THEN files' = [files EXCEPT ![Stream] = @ \o text] /\ pending' = <<>>
         ELSE pending' = text /\ UNCHANGED files
  /\ console' = IF Echo THEN Append(console, [line |-> logline, stamp |-> today]) ELSE console
  /\ logline' = NoLine
  /\ wpc' = IF draining THEN "pop" ELSE "loop"
  /\ UNCHANGED <<queue, draining, stream, lost, process, world>>

\* The stream has failed.  So has the tee, at the first character its streambuf could
\* not put into both: what follows does not reach the console either.
PutNowhere ==
  /\ Alive /\ wpc = "put" /\ ~opened
  /\ lost' = lost \cup {logline}
  /\ logline' = NoLine
  /\ wpc' = IF draining THEN "pop" ELSE "loop"
  /\ UNCHANGED <<queue, draining, stream, pending, files, console, process, world>>

Write == Begin \/ Loop \/ Pop \/ PopFails \/ Check \/ RollFile \/ Put \/ PutNowhere

-----------------------------------------------------------------------------
(* The world around: the stream's buffer, the clock, a crash, a restart.   *)

\* m_os passes on what it has when its buffer is full.
Spill ==
  /\ Alive /\ pending # <<>>
  /\ files' = [files EXCEPT ![day] = Append(@, Head(pending))]
  /\ pending' = Tail(pending)
  /\ UNCHANGED <<queue, writer, stream, console, lost, process, world>>

Midnight ==
  /\ today < MaxDays
  /\ today' = today + 1
  /\ UNCHANGED <<queue, writer, output, process, base>>

Crash ==
  /\ Alive
  /\ main' = "crashed" /\ pending' = <<>>
  /\ UNCHANGED <<queue, writer, stream, files, console, lost, pc, m_state, world>>

\* initialize again; roll_file opens the file of the day to append to it.
Restart ==
  /\ main \in {"exited", "crashed"}
  /\ order' = <<>> /\ ready' = {} /\ delivered' = <<>>
  /\ pc' = [t \in Threads |-> "idle"]
  /\ main' = "construct" /\ m_state' = "INIT"
  /\ wpc' = "init" /\ draining' = FALSE /\ logline' = NoLine
  /\ pending' = <<>> /\ console' = <<>> /\ lost' = {}
  /\ day' = today /\ tee' = today
  /\ base' = OnDisk(files)
  /\ opened' \in BOOLEAN
  /\ troubles' = troubles + (IF opened' THEN 1 ELSE 2)
  /\ troubles' <= MaxTroubles
  /\ UNCHANGED <<files, today>>

ThreadStep(t) == Log(t) \/ Logged(t) \/ Leave(t)
Finish == Ready \/ StopServer \/ JoinWorkers \/ Shutdown \/ Exit
World == Spill \/ Midnight \/ Crash \/ Restart

Next == (\E t \in Threads : ThreadStep(t)) \/ Finish \/ Write \/ World

Spec == Init /\ [][Next]_vars

\* A thread that is in the middle of a push, of a handler or of its loop goes on,
\* and so does main once the server has been told to stop.
Fairness ==
  /\ WF_vars(Write)
  /\ \A t \in Threads : WF_vars(Logged(t)) /\ WF_vars(Leave(t))
  /\ WF_vars(Ready) /\ WF_vars(JoinWorkers) /\ WF_vars(Shutdown) /\ WF_vars(Exit)

FairSpec == Spec /\ Fairness

-----------------------------------------------------------------------------
(* Properties.                                                             *)

\* The lines FileWriter::write has returned from.
Written == IF logline = NoLine THEN delivered ELSE Front(delivered)

LinesOf(s) == [i \in DOMAIN s |-> s[i].line]

Kept(lines) == Without(lines, lost)

\* When the process exits, every line that any thread logged in its life is in the
\* files, once, in the order of the queue, behind what was there before: the drain
\* in pop and the order of the joins in run() and ~NanoLogger leave nothing behind.
\* A file that could not be opened costs the lines up to the next midnight only.
NothingLostAtExit ==
  main = "exited" => LinesOf(OnDisk(files)) = LinesOf(base) \o Kept(order)

\* Whatever happens, the files hold what was there before and a prefix of the lines
\* written since to a file that is open; a line from INFO on is there from the return
\* of write() on, with all the lines before it.  A crash loses DEBUG lines at the end.
InfoIsDurable ==
  LET written == Kept(Written)
  IN  /\ IsPrefix(LinesOf(OnDisk(files)), LinesOf(base) \o written)
      /\ \A i \in DOMAIN written :
           written[i] \notin Quiet => Len(OnDisk(files)) >= Len(base) + i

\* With a tee, std::cout and the files get the same lines with the same stamps in
\* the same order, across midnights; a crash can only cut the files short.
TeeAgrees ==
  Echo => IF main = "crashed" THEN IsPrefix(OnDisk(files), base \o console)
          ELSE OnDisk(files) \o pending = base \o console

\* What the file of a day holds and, while it is open, will hold.
FileOf(d) == IF d = day THEN files[d] \o pending ELSE files[d]

\* A line whose write began before midnight may be stamped with the next day in the
\* old file, but it is the last one there; no file has a line of a day before.
StampsFollowFiles ==
  /\ TypeOK
  /\ \A d \in Days : \A i \in DOMAIN FileOf(d) :
       FileOf(d)[i].stamp >= d /\ (FileOf(d)[i].stamp > d => i = Len(FileOf(d)))

\* Once the server was told to stop, the process comes to its end.
ShutdownCompletes == (main = "stopping") ~> (main \in {"exited", "crashed"})

-----------------------------------------------------------------------------
(* The inductive invariant behind the four invariants above.               *)

\* How far main, m_state and the writer have come fits together.
LifeInv ==
  /\ wpc # "init" => m_state # "INIT"
  /\ wpc = "done" => draining
  /\ draining => m_state = "SHUTDOWN"
  /\ m_state = "SHUTDOWN" => main \in {"stop", "exited", "crashed"}
  /\ main \in {"stop", "exited"} => \A t \in Threads : pc[t] # "storing"
  /\ main = "exited" => wpc = "done"
  /\ main \in {"exited", "crashed"} => pending = <<>>

\* Only a thread that is storing a line keeps one from being ready, and just one.
ReadyInv ==
  \A i \in DOMAIN order : order[i] \notin ready =>
    /\ pc[order[i][1]] = "storing"
    /\ \A j \in DOMAIN order : order[j] \notin ready /\ order[j][1] = order[i][1] => j = i

\* No line is accepted twice.
Count(t) == Cardinality({i \in DOMAIN order : order[i][1] = t})
OnceInv ==
  /\ \A i, j \in DOMAIN order : order[i] = order[j] => i = j
  /\ \A t \in Threads : \A i \in DOMAIN order : order[i][1] = t => order[i][2] <= Count(t)

\* The writer has the last line it was handed in hand until it is written, and it ends
\* with no line left; what got lost is among the lines before.
HandInv ==
  /\ Len(delivered) <= Len(order)
  /\ \A i \in DOMAIN delivered : delivered[i] = order[i]
  /\ logline # NoLine <=> wpc \in {"check", "roll", "put"}
  /\ logline # NoLine => Len(delivered) >= 1 /\ logline = delivered[Len(delivered)]
  /\ wpc = "done" => delivered = order
  /\ \A l \in lost : \E i \in DOMAIN delivered :
       delivered[i] = l /\ (logline # NoLine => i < Len(delivered))

\* The stream and the tee belong to one file, the last one there is.
FileInv ==
  /\ tee = day /\ day <= today
  /\ wpc = "roll" => day < today
  /\ \A d \in Days : d > day => files[d] = <<>>

\* The clock is never behind a stamp, and who is about to write finds no stamp of a
\* later day in the file.
StampInv ==
  \A d \in Days : \A i \in DOMAIN FileOf(d) :
    /\ FileOf(d)[i].stamp >= d /\ FileOf(d)[i].stamp <= today
    /\ FileOf(d)[i].stamp > d => i = Len(FileOf(d))
    /\ d = day /\ wpc = "put" => FileOf(d)[i].stamp = d

\* The files and what is still in the stream's buffer, together, are the lines written;
\* a line in the buffer may be lost.
ContentInv ==
  IF main = "crashed" THEN InfoIsDurable /\ TeeAgrees
  ELSE /\ LinesOf(OnDisk(files) \o pending) = LinesOf(base) \o Kept(Written)
       /\ Echo => OnDisk(files) \o pending = base \o console
       /\ \A i \in DOMAIN pending : pending[i].line \in Quiet

LoggerInv ==
  LifeInv /\ ReadyInv /\ OnceInv /\ HandInv /\ FileInv /\ StampInv /\ ContentInv
=============================================================================
