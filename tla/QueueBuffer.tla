---------------------------- MODULE QueueBuffer -----------------------------
(***************************************************************************)
(* The queue behind the guaranteed logger (QueueBuffer, Buffer and         *)
(* SpinLock in src/log/NanoLog.cpp): any number of threads push log lines, *)
(* one writer thread pops them.  Lines go to the slots of a buffer of Size *)
(* slots; a producer takes a slot with a fetch_add on m_write_index, and   *)
(* the one whose store makes the buffer full sets up the next one.  The    *)
(* writer frees a buffer when it has read its last slot.                   *)
(*                                                                         *)
(* One action is one access to shared memory.  Atomics are sequentially    *)
(* consistent here.  Identifiers of buffers are never used twice, so slot  *)
(* still tells what a buffer that was freed had held.                      *)
(***************************************************************************)
EXTENDS Naturals, Sequences, FiniteSets

CONSTANTS
  Producers,    \* the threads that log
  Reader,       \* the thread that runs NanoLogger::pop
  None,         \* no line in a slot, nobody in the spin lock
  Size,         \* Buffer::size
  MaxLines,     \* bound: how many lines each producer logs
  MaxBuffers    \* bound: how many buffers may be allocated

ASSUME QueueAssumption ==
  /\ Size \in Nat \ {0}
  /\ MaxLines \in Nat
  /\ MaxBuffers \in Nat \ {0}
  /\ IsFiniteSet(Producers)
  /\ Reader \notin Producers
  /\ None \notin Producers \cup {Reader}
  /\ None \notin Producers \X (1 .. MaxLines)

Bufs == 1 .. MaxBuffers
NoBuffer == 0                          \* nullptr
Slots == 0 .. Size - 1
Lines == Producers \X (1 .. MaxLines)

VARIABLES
  m_write_index,            \* next free slot of the write buffer
  m_current_write_buffer,   \* where producers store
  m_buffers,                \* the queue of buffers, oldest first
  m_flag,                   \* who is inside the spin lock on m_buffers
  m_current_read_buffer,    \* where the reader reads, or nullptr
  m_read_index,             \* its next slot
  slot,                     \* m_buffer: the line constructed in each slot
  m_write_state,            \* 1 for a slot that may be read
  write_count,              \* m_write_state[size]: how many stores are counted
  allocated,                \* how many buffers exist or have existed
  freed,                    \* the buffers that were destroyed
  pc, sent, write_index, at, \* producers: step, lines logged, slot, Buffer*
  rpc,                      \* the reader's step
  taken,                    \* the lines try_pop has handed out
  crashed                   \* the process died of an access to freed memory

shared == <<m_write_index, m_current_write_buffer, m_buffers, m_flag>>
reader == <<m_current_read_buffer, m_read_index, rpc, taken>>
memory == <<slot, m_write_state, write_count, allocated, freed, crashed>>
local == <<pc, sent, write_index, at>>
vars == <<shared, reader, memory, local>>

PushSteps == {"idle", "claim", "spin", "load", "construct", "publish", "count",
              "setup", "lock", "enqueue", "reset", "unlock"}
PopSteps == {"call", "front", "poplock", "pop", "hit", "miss"}

TypeOK ==
  /\ m_write_index \in Nat
  /\ m_current_write_buffer \in Bufs
  /\ m_buffers \in Seq(Bufs)
  /\ m_flag \in Producers \cup {Reader, None}
  /\ m_current_read_buffer \in Bufs \cup {NoBuffer}
  /\ m_read_index \in Slots
  /\ slot \in [Bufs -> [Slots -> Lines \cup {None}]]
  /\ m_write_state \in [Bufs -> [Slots -> {0, 1}]]
  /\ write_count \in [Bufs -> Nat]
  /\ allocated \in Bufs
  /\ freed \subseteq Bufs
  /\ pc \in [Producers -> PushSteps]
  /\ sent \in [Producers -> 0 .. MaxLines]
  /\ write_index \in [Producers -> Nat]
  /\ at \in [Producers -> Bufs]
  /\ rpc \in PopSteps
  /\ taken \in Seq(Lines \cup {None})
  /\ crashed \in BOOLEAN

\* QueueBuffer(): the first buffer is set up before any thread can log.
Init ==
  /\ m_write_index = 0
  /\ m_current_write_buffer = 1
  /\ m_buffers = <<1>>
  /\ m_flag = None
  /\ m_current_read_buffer = NoBuffer
  /\ m_read_index = 0
  /\ slot = [b \in Bufs |-> [i \in Slots |-> None]]
  /\ m_write_state = [b \in Bufs |-> [i \in Slots |-> 0]]
  /\ write_count = [b \in Bufs |-> 0]
  /\ allocated = 1
  /\ freed = {}
  /\ pc = [p \in Producers |-> "idle"]
  /\ sent = [p \in Producers |-> 0]
  /\ write_index = [p \in Producers |-> 0]
  /\ at = [p \in Producers |-> 1]
  /\ rpc = "call"
  /\ taken = <<>>
  /\ crashed = FALSE

-----------------------------------------------------------------------------
(* QueueBuffer::push and Buffer::push, run by a producer.                  *)

Go(p, step) == pc' = [pc EXCEPT ![p] = step]
Line(p) == <<p, sent[p]>>

\* A LOG_ statement: the thread calls push with its next line.
Log(p) ==
  /\ pc[p] = "idle"
  /\ sent[p] < MaxLines
  /\ sent' = [sent EXCEPT ![p] = @ + 1]
  /\ Go(p, "claim")
  /\ UNCHANGED <<shared, reader, memory, write_index, at>>

\* Slip: <= for <.
InBufferInclusive(i) == i <= Size

InBuffer(i) == i < Size

Claim(p) ==
  /\ pc[p] = "claim"
  /\ write_index' = [write_index EXCEPT ![p] = m_write_index]
  /\ m_write_index' = m_write_index + 1
  /\ Go(p, IF InBuffer(m_write_index) THEN "load" ELSE "spin")
  /\ UNCHANGED <<m_current_write_buffer, m_buffers, m_flag, reader, memory, sent, at>>

\* Slip: push is called again without the wait.
SpinNoWait(p) ==
  /\ pc[p] = "spin"
  /\ Go(p, "claim")
  /\ UNCHANGED <<shared, reader, memory, sent, write_index, at>>

\* The busy wait of a producer that found the buffer full; then push again.
Spin(p) ==
  /\ pc[p] = "spin"
  /\ InBuffer(m_write_index)
  /\ Go(p, "claim")
  /\ UNCHANGED <<shared, reader, memory, sent, write_index, at>>

Load(p) ==
  /\ pc[p] = "load"
  /\ at' = [at EXCEPT ![p] = m_current_write_buffer]
  /\ Go(p, "construct")
  /\ UNCHANGED <<shared, reader, memory, sent, write_index>>

\* Placement new of the Item.
Construct(p) ==
  /\ pc[p] = "construct"
  /\ slot' = [slot EXCEPT ![at[p]][write_index[p]] = Line(p)]
  /\ Go(p, "publish")
  /\ UNCHANGED <<shared, reader, m_write_state, write_count, allocated, freed, crashed,
                 sent, write_index, at>>

Publish(p) ==
  /\ pc[p] = "publish"
  /\ m_write_state' = [m_write_state EXCEPT ![at[p]][write_index[p]] = 1]
  /\ Go(p, "count")
  /\ UNCHANGED <<shared, reader, slot, write_count, allocated, freed, crashed,
                 sent, write_index, at>>

\* Slip: the test one store early.
IsFullEarly(n) == n + 1 = Size

IsFull(n) == n = Size

\* The fetch_add on m_write_state[size], when the word still has its value.
Count(p) ==
  /\ pc[p] = "count"
  /\ write_count' = [write_count EXCEPT ![at[p]] = @ + 1]
  /\ Go(p, IF IsFull(write_count[at[p]] + 1) THEN "setup" ELSE "idle")
  /\ UNCHANGED <<shared, reader, slot, m_write_state, allocated, freed, crashed,
                 sent, write_index, at>>

\* The same fetch_add when the reader has freed the buffer and the memory has
\* been used again (the word then holds something else) or unmapped (a fault).
CountFreed(p) ==
  /\ pc[p] = "count"
  /\ at[p] \in freed
  /\ \/ Go(p, "idle") /\ UNCHANGED crashed
     \/ crashed' = TRUE /\ UNCHANGED pc
  /\ UNCHANGED <<shared, reader, slot, m_write_state, write_count, allocated, freed,
                 sent, write_index, at>>

\* Slip: m_write_index is reset before the buffer is in m_buffers.
SetUpReset(p) ==
  /\ pc[p] = "setup"
  /\ allocated < MaxBuffers
  /\ allocated' = allocated + 1
  /\ at' = [at EXCEPT ![p] = allocated + 1]
  /\ m_current_write_buffer' = allocated + 1
  /\ m_write_index' = 0
  /\ Go(p, "lock")
  /\ UNCHANGED <<m_buffers, m_flag, reader, slot, m_write_state,
                 write_count, freed, crashed, sent, write_index>>

\* setup_next_write_buffer: new Buffer, then the store that publishes it.
SetUp(p) ==
  /\ pc[p] = "setup"
  /\ allocated < MaxBuffers
  /\ allocated' = allocated + 1
  /\ at' = [at EXCEPT ![p] = allocated + 1]
  /\ m_current_write_buffer' = allocated + 1
  /\ Go(p, "lock")
  /\ UNCHANGED <<m_write_index, m_buffers, m_flag, reader, slot, m_write_state,
                 write_count, freed, crashed, sent, write_index>>

Lock(t) == m_flag = None /\ m_flag' = t

LockToEnqueue(p) ==
  /\ pc[p] = "lock"
  /\ Lock(p)
  /\ Go(p, "enqueue")
  /\ UNCHANGED <<m_write_index, m_current_write_buffer, m_buffers, reader, memory,
                 sent, write_index, at>>

Enqueue(p) ==
  /\ pc[p] = "enqueue"
  /\ m_buffers' = Append(m_buffers, at[p])
  /\ Go(p, "reset")
  /\ UNCHANGED <<m_write_index, m_current_write_buffer, m_flag, reader, memory,
                 sent, write_index, at>>

\* Slip: the next buffer is set up, the index not.
ResetForgotten(p) ==
  /\ pc[p] = "reset"
  /\ Go(p, "unlock")
  /\ UNCHANGED <<shared, reader, memory, sent, write_index, at>>

Reset(p) ==
  /\ pc[p] = "reset"
  /\ m_write_index' = 0
  /\ Go(p, "unlock")
  /\ UNCHANGED <<m_current_write_buffer, m_buffers, m_flag, reader, memory,
                 sent, write_index, at>>

Unlock(p) ==
  /\ pc[p] = "unlock"
  /\ m_flag' = None
  /\ Go(p, "idle")
  /\ UNCHANGED <<m_write_index, m_current_write_buffer, m_buffers, reader, memory,
                 sent, write_index, at>>

Push(p) ==
  \/ Claim(p) \/ Spin(p) \/ Load(p) \/ Construct(p) \/ Publish(p)
  \/ Count(p) \/ CountFreed(p)
  \/ SetUp(p) \/ LockToEnqueue(p) \/ Enqueue(p) \/ Reset(p) \/ Unlock(p)

-----------------------------------------------------------------------------
(* QueueBuffer::try_pop and Buffer::try_pop, run by the reader.  "hit" and *)
(* "miss" are its results TRUE and FALSE.                                  *)

LockToLook ==
  /\ rpc = "call" /\ m_current_read_buffer = NoBuffer
  /\ Lock(Reader)
  /\ rpc' = "front"
  /\ UNCHANGED <<m_write_index, m_current_write_buffer, m_buffers, memory, local,
                 m_current_read_buffer, m_read_index, taken>>

\* get_next_read_buffer, and the return when there is none.
Front ==
  /\ rpc = "front"
  /\ m_flag' = None
  /\ \/ /\ m_buffers = <<>>
        /\ rpc' = "miss"
        /\ UNCHANGED m_current_read_buffer
     \/ /\ m_buffers # <<>>
        /\ m_current_read_buffer' = Head(m_buffers)
        /\ rpc' = "call"
  /\ UNCHANGED <<m_write_index, m_current_write_buffer, m_buffers, memory, local,
                 m_read_index, taken>>

\* Slip: the slot is read without a look at m_write_state.
ReadableAlways(b, i) == TRUE

Readable(b, i) == m_write_state[b][i] = 1
\* Slips: the test one slot late, and one slot early.
LastSlotLate(i) == i = Size
LastSlotEarly(i) == i + 2 = Size
LastSlot(i) == i + 1 = Size

Take ==
  /\ rpc = "call" /\ m_current_read_buffer # NoBuffer
  /\ Readable(m_current_read_buffer, m_read_index)
  /\ taken' = Append(taken, slot[m_current_read_buffer][m_read_index])
  /\ IF LastSlot(m_read_index)
     THEN /\ m_read_index' = 0
          /\ m_current_read_buffer' = NoBuffer
          /\ rpc' = "poplock"
     ELSE /\ m_read_index' = m_read_index + 1
          /\ rpc' = "hit"
          /\ UNCHANGED m_current_read_buffer
  /\ UNCHANGED <<shared, memory, local>>

NotYet ==
  /\ rpc = "call" /\ m_current_read_buffer # NoBuffer
  /\ ~Readable(m_current_read_buffer, m_read_index)
  /\ rpc' = "miss"
  /\ UNCHANGED <<shared, memory, local, m_current_read_buffer, m_read_index, taken>>

LockToPop ==
  /\ rpc = "poplock"
  /\ Lock(Reader)
  /\ rpc' = "pop"
  /\ UNCHANGED <<m_write_index, m_current_write_buffer, m_buffers, memory, local,
                 m_current_read_buffer, m_read_index, taken>>

\* m_buffers.pop() destroys the oldest buffer.
Pop ==
  /\ rpc = "pop"
  /\ m_buffers' = Tail(m_buffers)
  /\ freed' = freed \cup {Head(m_buffers)}
  /\ m_flag' = None
  /\ rpc' = "hit"
  /\ UNCHANGED <<m_write_index, m_current_write_buffer, slot, m_write_state, write_count,
                 allocated, crashed, local, m_current_read_buffer, m_read_index, taken>>

TryPop == LockToLook \/ Front \/ Take \/ NotYet \/ LockToPop \/ Pop

\* NanoLogger::pop calls try_pop again, after a write or a sleep.
PopAgain ==
  /\ rpc \in {"hit", "miss"}
  /\ rpc' = "call"
  /\ UNCHANGED <<shared, memory, local, m_current_read_buffer, m_read_index, taken>>

-----------------------------------------------------------------------------
Running == ~crashed
LogStep(p) == Running /\ Log(p)
PushStep(p) == Running /\ Push(p)
LockStep(p) == Running /\ LockToEnqueue(p)
ReaderStep == Running /\ (TryPop \/ PopAgain)

Next ==
  \/ \E p \in Producers : LogStep(p) \/ PushStep(p)
  \/ ReaderStep

Spec == Init /\ [][Next]_vars

\* Every thread that can run keeps running.  The lock needs strong fairness: a
\* reader that finds m_buffers empty takes it again and again, but sleeps 50
\* microseconds outside it each time.
Fairness ==
  /\ \A p \in Producers : WF_vars(PushStep(p)) /\ SF_vars(LockStep(p))
  /\ WF_vars(ReaderStep)

FairSpec == Spec /\ Fairness

-----------------------------------------------------------------------------
(* Properties.                                                             *)

HasSlot(p) == pc[p] \in {"load", "construct", "publish"}
BufferOf(p) == IF pc[p] = "load" THEN m_current_write_buffer ELSE at[p]

\* A slot a producer took by fetch_add is its own: it stores into the buffer the
\* slot was taken in, no other producer stores there, and no line that was
\* published is there to be overwritten.
SlotsExclusive ==
  \A p \in Producers : HasSlot(p) =>
    /\ write_index[p] \in Slots
    /\ BufferOf(p) = m_current_write_buffer
    /\ m_write_state[BufferOf(p)][write_index[p]] = 0
    /\ \A q \in Producers \ {p} : HasSlot(q) => write_index[q] # write_index[p]

\* Producers move to a new buffer only when every slot of the old one holds a
\* published line and no producer is still about to store into it.
SwitchWhenFull ==
  [][m_current_write_buffer' # m_current_write_buffer =>
       /\ \A i \in Slots : m_write_state[m_current_write_buffer][i] = 1
       /\ \A p \in Producers : ~HasSlot(p)]_vars

\* The reader never reads a buffer that was destroyed: the one it reads is the
\* oldest in m_buffers, and the one pop() destroys has been read to the end.
ReadsLiveBuffer ==
  /\ m_current_read_buffer # NoBuffer =>
       /\ m_current_read_buffer \notin freed
       /\ m_buffers # <<>> /\ Head(m_buffers) = m_current_read_buffer
  /\ rpc \in {"poplock", "pop"} =>
       m_buffers # <<>> /\ Len(taken) = Head(m_buffers) * Size

\* However long producers wait for the next buffer, the fetch_add counter runs
\* past Size only once for each of them: unsigned m_write_index cannot wrap to a
\* slot that is taken.
OvershootBounded ==
  m_write_index <= Size + Cardinality({p \in Producers : pc[p] = "spin"})

\* A producer is about to count its store in a buffer the reader has destroyed.
UseAfterFree == \E p \in Producers : pc[p] = "count" /\ at[p] \in freed

Logged(l) == sent[l[1]] >= l[2]
Taken(l) == \E i \in DOMAIN taken : taken[i] = l

\* The promise of GuaranteedLogger (NanoLog.h: "Provides a guarantee log lines
\* will not be dropped"): a line that was logged is handed to the log writer.
GuaranteedDelivery == \A l \in Lines : Logged(l) ~> Taken(l)

\* What the code keeps of that promise: only the use of a freed buffer can make
\* a logged line be lost or wait for ever.
DeliveryUnlessFreed ==
  (<>UseAfterFree) \/ (\A l \in Lines : Logged(l) ~> Taken(l))

\* The queue implements LogQueue: a line has its place from its fetch_add on.
SettingUp == \E p \in Producers : pc[p] \in {"lock", "enqueue", "reset"}
Places == (allocated - 1) * Size +
          IF SettingUp THEN 0 ELSE IF InBuffer(m_write_index) THEN m_write_index ELSE Size
LineAt(b, i) ==
  IF slot[b][i] # None THEN slot[b][i]
  ELSE Line(CHOOSE p \in Producers : HasSlot(p) /\ write_index[p] = i)

Order == [k \in 1 .. Places |-> LineAt((k - 1) \div Size + 1, (k - 1) % Size)]
Published == {slot[x[1]][x[2]] : x \in {y \in Bufs \X Slots : m_write_state[y[1]][y[2]] = 1}}

Abstract == INSTANCE LogQueue WITH
  order <- Order, ready <- Published, delivered <- taken

ImplementsLogQueue == Abstract!Spec

-----------------------------------------------------------------------------
(* The inductive invariant behind SlotsExclusive, SwitchWhenFull and       *)
(* ReadsLiveBuffer.                                                        *)

Switching(p) == pc[p] \in {"setup", "lock", "enqueue", "reset"}
Blank(b) == write_count[b] = 0 /\ \A i \in Slots : m_write_state[b][i] = 0

\* The slots of the write buffer whose store is in write_count.
Counted ==
  {i \in Slots : /\ m_write_state[m_current_write_buffer][i] = 1
                 /\ ~ \E p \in Producers : pc[p] = "count" /\ write_index[p] = i}

\* Producers that store into the write buffer work on slots of their own, below
\* m_write_index; slots above it have not been touched.
SlotInv ==
  /\ SlotsExclusive
  /\ \A p \in Producers : HasSlot(p) => write_index[p] < m_write_index
  /\ \A i \in Slots : i >= m_write_index => m_write_state[m_current_write_buffer][i] = 0

\* write_count never runs ahead of the stores: each counted store is published and
\* its producer is done with the buffer.
CountInv ==
  /\ write_count[m_current_write_buffer] <= Cardinality(Counted)
  /\ \A p \in Producers : pc[p] = "count" =>
       /\ at[p] = m_current_write_buffer
       /\ write_index[p] \in Slots
       /\ m_write_state[m_current_write_buffer][write_index[p]] = 1
       /\ \A q \in Producers \ {p} : pc[q] = "count" => write_index[q] # write_index[p]

\* At most one producer sets up the next buffer, while no other stores or counts.
SwitchInv ==
  /\ m_current_write_buffer = allocated
  /\ \A b \in Bufs : b > allocated => Blank(b)
  /\ \A p \in Producers : Switching(p) =>
       /\ m_write_index >= Size
       /\ \A q \in Producers : ~HasSlot(q) /\ pc[q] # "count" /\ (Switching(q) => q = p)
       /\ IF pc[p] = "setup"
          THEN \A i \in Slots : m_write_state[m_current_write_buffer][i] = 1
          ELSE at[p] = allocated /\ Blank(allocated)

\* A buffer is allocated and not in m_buffers yet.
Enqueueing == \E p \in Producers : pc[p] \in {"lock", "enqueue"}

\* The first k buffers are freed, the others are in m_buffers in the order they
\* were allocated, and taken counts the slots of the freed ones and of the one
\* that is being read.
FifoInv(k) ==
  /\ freed = 1 .. k
  /\ \A i \in DOMAIN m_buffers : m_buffers[i] = k + i
  /\ k + Len(m_buffers) = IF Enqueueing THEN allocated - 1 ELSE allocated
  /\ Len(taken) = k * Size + m_read_index + (IF rpc \in {"poplock", "pop"} THEN Size ELSE 0)

\* The reader is in the oldest buffer, or has read it to the end.
ReaderInv ==
  /\ m_current_read_buffer # NoBuffer =>
       /\ m_buffers # <<>> /\ Head(m_buffers) = m_current_read_buffer
       /\ rpc \in {"call", "hit", "miss"}
  /\ rpc \in {"poplock", "pop"} => m_buffers # <<>> /\ m_read_index = 0

\* A thread inside push has a line to log.
PushHasLine == \A p \in Producers : pc[p] # "idle" => sent[p] >= 1

\* A producer whose line is in no slot yet.
Unstored(p) == pc[p] \in {"claim", "spin", "load", "construct"}

\* A line is in one slot at most, a line of its producer that has been stored; a
\* published slot has a line.
StoredInv ==
  /\ \A b \in Bufs, i \in Slots : slot[b][i] # None =>
       LET l == slot[b][i]
       IN  /\ l[2] <= sent[l[1]] /\ (Unstored(l[1]) => l[2] < sent[l[1]])
           /\ \A c \in Bufs, j \in Slots : slot[c][j] = l => c = b /\ j = i
  /\ \A b \in Bufs, i \in Slots : m_write_state[b][i] = 1 => slot[b][i] # None

\* The places of the queue are the slots of the old buffers and those of the write
\* buffer below m_write_index: each has its line, or a producer that brings it.
PlaceInv ==
  /\ \A b \in Bufs, i \in Slots :
       /\ b < m_current_write_buffer => slot[b][i] # None
       /\ b > m_current_write_buffer => slot[b][i] = None
  /\ \A i \in Slots :
       IF SettingUp \/ i >= m_write_index THEN slot[m_current_write_buffer][i] = None
       ELSE slot[m_current_write_buffer][i] = None =>
              \E p \in Producers : HasSlot(p) /\ write_index[p] = i
  /\ \A p \in Producers : HasSlot(p) =>
       slot[m_current_write_buffer][write_index[p]] = IF pc[p] = "publish" THEN Line(p) ELSE None

QueueInv ==
  /\ PushHasLine
  /\ StoredInv /\ PlaceInv
  /\ SlotInv /\ CountInv /\ SwitchInv
  /\ \E k \in 0 .. MaxBuffers : FifoInv(k)
  /\ ReaderInv

\* A producer has as many places as it has logged lines, its next line excepted
\* while push has none for it.
PlacesOf(p) == {k \in DOMAIN Order : Order[k][1] = p}
Unplaced(p) == IF pc[p] \in {"claim", "spin"} THEN 1 ELSE 0
ClaimedInv == \A p \in Producers : Cardinality(PlacesOf(p)) + Unplaced(p) = sent[p]
=============================================================================
