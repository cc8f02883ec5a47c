----------------------------- MODULE RingBuffer -----------------------------
(***************************************************************************)
(* The ring behind the non guaranteed logger (RingBuffer in                *)
(* src/log/NanoLog.cpp): producers take a slot with a fetch_add on         *)
(* m_write_index, whether the line there was read or not, and the writer   *)
(* thread reads one slot after the other.  Each slot has a spin lock.      *)
(*                                                                         *)
(* A NanoLogLine is moved byte by byte, so a slot holds two halves of a    *)
(* line.  At shutdown the producers have stopped (see NanoLogger) and the  *)
(* writer pops what is left.                                               *)
(***************************************************************************)
EXTENDS Naturals, Sequences, FiniteSets

CONSTANTS
  Producers,   \* the threads that log
  Reader,      \* the thread that runs NanoLogger::pop
  None,        \* no line, nobody
  Size,        \* m_size, the slots of the ring
  Wrap,        \* 2^32 scaled down: where the two unsigned indexes wrap
  MaxLines     \* bound: how many lines each producer logs

ASSUME RingAssumption ==
  /\ Size \in Nat \ {0} /\ Wrap \in Nat /\ Wrap >= Size /\ MaxLines \in Nat
  /\ IsFiniteSet(Producers) /\ Reader \notin Producers
  /\ None \notin Producers \cup {Reader}
  /\ None \notin Producers \X (1 .. MaxLines)

Slots == 0 .. Size - 1
Lines == Producers \X (1 .. MaxLines)
MaybeLine == Lines \cup {None}

VARIABLES
  m_write_index, m_read_index,
  flag,          \* Item::flag: who is inside the item's spin lock
  written,       \* Item::written
  head, tail,    \* the two halves of Item::logline
  pc, sent, write_index,  \* producers: step, lines logged, slot
  rpc,           \* the reader's step
  hand,          \* the halves of the line it moves out
  taken,         \* the lines try_pop has handed out
  shutdown,      \* m_state is SHUTDOWN
  order          \* the lines in the order of their fetch_add

ring == <<flag, written, head, tail>>
producer == <<pc, sent, write_index, m_write_index, order>>
reader == <<rpc, hand, taken, m_read_index>>
vars == <<ring, producer, reader, shutdown>>

TypeOK ==
  /\ m_write_index \in 0 .. Wrap - 1 /\ m_read_index \in 0 .. Wrap - 1
  /\ flag \in [Slots -> Producers \cup {Reader, None}]
  /\ written \in [Slots -> {0, 1}]
  /\ head \in [Slots -> MaybeLine] /\ tail \in [Slots -> MaybeLine]
  /\ pc \in [Producers -> {"idle", "claim", "lock", "head", "tail", "mark", "unlock"}]
  /\ sent \in [Producers -> 0 .. MaxLines]
  /\ write_index \in [Producers -> Slots]
  /\ rpc \in {"call", "look", "tail", "clear", "hit", "miss", "done"}
  /\ hand \in MaybeLine \X MaybeLine
  /\ taken \in Seq(MaybeLine \X MaybeLine)
  /\ shutdown \in BOOLEAN
  /\ order \in Seq(Lines)

Init ==
  /\ m_write_index = 0 /\ m_read_index = 0
  /\ flag = [i \in Slots |-> None] /\ written = [i \in Slots |-> 0]
  /\ head = [i \in Slots |-> None] /\ tail = [i \in Slots |-> None]
  /\ pc = [p \in Producers |-> "idle"] /\ sent = [p \in Producers |-> 0]
  /\ write_index = [p \in Producers |-> 0]
  /\ rpc = "call" /\ hand = <<None, None>> /\ taken = <<>>
  /\ shutdown = FALSE /\ order = <<>>

-----------------------------------------------------------------------------
(* RingBuffer::push.                                                       *)

Go(p, step) == pc' = [pc EXCEPT ![p] = step]
Line(p) == <<p, sent[p]>>

Log(p) ==
  /\ pc[p] = "idle" /\ sent[p] < MaxLines /\ ~shutdown
  /\ sent' = [sent EXCEPT ![p] = @ + 1]
  /\ Go(p, "claim")
  /\ UNCHANGED <<ring, write_index, m_write_index, order, reader, shutdown>>

Advance(index) == (index + 1) % Wrap

Claim(p) ==
  /\ pc[p] = "claim"
  /\ write_index' = [write_index EXCEPT ![p] = m_write_index % Size]
  /\ m_write_index' = Advance(m_write_index)
  /\ order' = Append(order, Line(p))
  /\ Go(p, "lock")
  /\ UNCHANGED <<ring, sent, reader, shutdown>>

\* Slip: clear instead of test_and_set.
LockAlways(t, i) == flag' = [flag EXCEPT ![i] = t]

Lock(t, i) == flag[i] = None /\ flag' = [flag EXCEPT ![i] = t]

EnterWhen(p, may) ==
  /\ pc[p] = "lock" /\ may
  /\ Lock(p, write_index[p])
  /\ Go(p, "head")
  /\ UNCHANGED <<written, head, tail, sent, write_index, m_write_index, order, reader, shutdown>>

\* Slip: a producer does not touch a slot that was not read yet.
EnterWhenRead(p) == EnterWhen(p, written[write_index[p]] = 0)

Enter(p) == EnterWhen(p, TRUE)

MoveHead(p) ==
  /\ pc[p] = "head"
  /\ head' = [head EXCEPT ![write_index[p]] = Line(p)]
  /\ Go(p, "tail")
  /\ UNCHANGED <<flag, written, tail, sent, write_index, m_write_index, order, reader, shutdown>>

MoveTail(p) ==
  /\ pc[p] = "tail"
  /\ tail' = [tail EXCEPT ![write_index[p]] = Line(p)]
  /\ Go(p, "mark")
  /\ UNCHANGED <<flag, written, head, sent, write_index, m_write_index, order, reader, shutdown>>

Mark(p) ==
  /\ pc[p] = "mark"
  /\ written' = [written EXCEPT ![write_index[p]] = 1]
  /\ Go(p, "unlock")
  /\ UNCHANGED <<flag, head, tail, sent, write_index, m_write_index, order, reader, shutdown>>

Leave(p) ==
  /\ pc[p] = "unlock"
  /\ flag' = [flag EXCEPT ![write_index[p]] = None]
  /\ Go(p, "idle")
  /\ UNCHANGED <<written, head, tail, sent, write_index, m_write_index, order, reader, shutdown>>

Push(p) == Claim(p) \/ Enter(p) \/ MoveHead(p) \/ MoveTail(p) \/ Mark(p) \/ Leave(p)

-----------------------------------------------------------------------------
(* RingBuffer::try_pop and the loops of NanoLogger::pop around it.         *)

Item == m_read_index % Size

LockToLook ==
  /\ rpc = "call"
  /\ Lock(Reader, Item)
  /\ rpc' = "look"
  /\ UNCHANGED <<written, head, tail, producer, hand, taken, m_read_index, shutdown>>

NothingThere ==
  /\ rpc = "look" /\ written[Item] # 1
  /\ flag' = [flag EXCEPT ![Item] = None]
  /\ rpc' = "miss"
  /\ UNCHANGED <<written, head, tail, producer, hand, taken, m_read_index, shutdown>>

TakeHead ==
  /\ rpc = "look" /\ written[Item] = 1
  /\ hand' = <<head[Item], None>>
  /\ rpc' = "tail"
  /\ UNCHANGED <<ring, producer, taken, m_read_index, shutdown>>

TakeTail ==
  /\ rpc = "tail"
  /\ hand' = <<hand[1], tail[Item]>>
  /\ rpc' = "clear"
  /\ UNCHANGED <<ring, producer, taken, m_read_index, shutdown>>

ClearTo(mark, index) ==
  /\ rpc = "clear"
  /\ written' = [written EXCEPT ![Item] = mark]
  /\ m_read_index' = index
  /\ flag' = [flag EXCEPT ![Item] = None]
  /\ taken' = Append(taken, hand)
  /\ hand' = <<None, None>>
  /\ rpc' = "hit"
  /\ UNCHANGED <<head, tail, producer, shutdown>>

\* Slip: the slot is not marked as read.
ClearForgotten == ClearTo(1, Advance(m_read_index))

\* Slip: the reader keeps the slot it reads next, not the number of lines it has read.
ClearReduced == ClearTo(0, (m_read_index + 1) % Size)

Clear == ClearTo(0, Advance(m_read_index))

PopAgainUnless(over) ==
  /\ rpc \in {"hit", "miss"}
  /\ rpc' = IF over THEN "done" ELSE "call"
  /\ UNCHANGED <<ring, producer, hand, taken, m_read_index, shutdown>>

\* Slip: the drain is an if instead of a loop.
PopAgainOnce == PopAgainUnless(shutdown)

\* try_pop is called again after a line, and after a miss until SHUTDOWN.
PopAgain == PopAgainUnless(shutdown /\ rpc = "miss")

TryPop == LockToLook \/ NothingThere \/ TakeHead \/ TakeTail \/ Clear

\* ~NanoLogger, when no thread logs any more; the loop looks at m_state between two
\* calls of try_pop.
Shutdown ==
  /\ ~shutdown /\ \A p \in Producers : pc[p] = "idle"
  /\ rpc \in {"hit", "call"}
  /\ shutdown' = TRUE
  /\ UNCHANGED <<ring, producer, reader>>

ProducerStep(p) == Log(p) \/ Push(p)
ReaderStep == TryPop \/ PopAgain

Next == (\E p \in Producers : ProducerStep(p)) \/ ReaderStep \/ Shutdown

Spec == Init /\ [][Next]_vars

\* Threads that can run keep running, and a spin lock that is free again and again
\* is taken in the end.
Fairness ==
  /\ \A p \in Producers : WF_vars(Push(p)) /\ SF_vars(Enter(p))
  /\ WF_vars(TryPop)

FairSpec == Spec /\ Fairness

-----------------------------------------------------------------------------
(* Properties.                                                             *)

\* The slot locks do their work: no line that is handed out is made of the halves
\* of two lines, and no line is handed out twice.
TakenWhole ==
  /\ TypeOK
  /\ \A i \in DOMAIN taken : taken[i][1] = taken[i][2] /\ taken[i][1] # None
  /\ \A i, j \in DOMAIN taken : i # j => taken[i] # taken[j]

\* push never waits for the reader to make room (NanoLog.h: "Does not block producer
\* even if the ring buffer is full"): it ends even if nothing is ever popped again,
\* as long as a reader inside a slot's lock gets out of it.
PushEnds == \A p \in Producers : pc[p] # "idle" ~> pc[p] = "idle"

\* The slot of the k-th fetch_add, which is the one of the k-th line that is read.
SlotOf(k) == ((k - 1) % Wrap) % Size

\* As long as no two lines that wait to be read have one slot, the ring is a queue: they
\* are handed out in the order of the fetch_add, none missing.  A producer that goes on
\* while the ring is full gives a slot away twice; so does one whose index wraps, where
\* Size does not divide Wrap.
Lapped ==
  \E j, k \in Len(taken) + 1 .. Len(order) : j < k /\ SlotOf(j) = SlotOf(k)
InOrderUntilLapped ==
  [][~Lapped /\ (\A i \in DOMAIN taken : taken[i][1] = order[i]) =>
       \A i \in DOMAIN taken' : taken'[i][1] = order'[i]]_vars

\* The ring implements LossyLog: a line is in the ring from the moment it can be
\* read.  A slot whose line is being replaced under the lock shows the new line
\* from its second half on.
Held == {tail[i] : i \in {j \in Slots : written[j] = 1}}
Pending(p) ==
  \/ pc[p] \in {"lock", "head", "tail"}
  \/ pc[p] = "mark" /\ written[write_index[p]] = 0
PutIn == {order[k] : k \in DOMAIN order} \ {Line(p) : p \in {q \in Producers : Pending(q)}}
Abstract == INSTANCE LossyLog WITH
  seen <- PutIn,
  held <- Held,
  delivered <- [i \in DOMAIN taken |-> taken[i][1]]

ImplementsLossyLog == Abstract!Spec

\* At shutdown no line is left in the ring unless another one was overwritten before,
\* which leaves the reader at a slot that is empty.
DrainedUnlessDropped ==
  rpc = "done" => Held = {} \/ Len(order) > Len(taken) + Cardinality(Held)

\* NanoLogger::pop: "Pop and log all remaining entries".
DrainedAtShutdown == rpc = "done" => \A i \in Slots : written[i] = 0

-----------------------------------------------------------------------------
(* The inductive invariant behind TakenWhole, ImplementsLossyLog,          *)
(* InOrderUntilLapped and DrainedUnlessDropped.                            *)

\* A thread inside push has a line to log.
PushHasLine == \A p \in Producers : pc[p] # "idle" => sent[p] >= 1

\* Who touches a slot is in its spin lock.
LockInv ==
  /\ \A p \in Producers : pc[p] \in {"head", "tail", "mark", "unlock"} => flag[write_index[p]] = p
  /\ rpc \in {"look", "tail", "clear"} => flag[Item] = Reader

\* The halves of a slot differ only while a producer is between the two moves, and
\* the reader moves out the halves the slot has.
HalvesInv ==
  /\ \A i \in Slots : head[i] = tail[i] \/ \E p \in Producers : pc[p] = "tail" /\ write_index[p] = i
  /\ \A p \in Producers :
       /\ pc[p] = "tail" => head[write_index[p]] = Line(p)
       /\ pc[p] = "mark" => tail[write_index[p]] = Line(p)
  /\ \A i \in Slots : written[i] = 1 => tail[i] # None
  /\ rpc \in {"tail", "clear"} => written[Item] = 1 /\ hand[1] = head[Item]
  /\ rpc = "clear" => hand[2] = tail[Item]

Unstored(p) == pc[p] \in {"claim", "lock", "head", "tail"}
Stored(l) == l[2] <= sent[l[1]] /\ (Unstored(l[1]) => l[2] < sent[l[1]])
HandedOut(l) == \E k \in DOMAIN taken : taken[k][1] = l

\* A line is stored once, in one slot, and leaves it once.
LineInv ==
  /\ \A i \in Slots : tail[i] # None =>
       Stored(tail[i]) /\ \A j \in Slots : tail[j] = tail[i] => j = i
  /\ \A i \in Slots : written[i] = 1 => ~HandedOut(tail[i])
  /\ \A p \in Producers : pc[p] = "mark" => ~HandedOut(Line(p))
  /\ \A k \in DOMAIN taken : taken[k][1] = taken[k][2] /\ taken[k][1] # None /\ Stored(taken[k][1])
  /\ \A j, k \in DOMAIN taken : taken[j][1] = taken[k][1] => j = k

InFlight(p) == pc[p] \in {"lock", "head", "tail", "mark"}

\* A line is in the slot of its fetch_add, or on its way there.
PlaceInv ==
  /\ m_write_index = Len(order) % Wrap /\ m_read_index = Len(taken) % Wrap
  /\ \A p \in Producers : InFlight(p) =>
       \E k \in DOMAIN order : order[k] = Line(p) /\ SlotOf(k) = write_index[p]
  /\ \A i \in Slots : tail[i] # None => \E k \in DOMAIN order : order[k] = tail[i] /\ SlotOf(k) = i
  /\ \A k \in DOMAIN order :
       order[k][2] <= sent[order[k][1]] /\ (pc[order[k][1]] = "claim" => order[k][2] < sent[order[k][1]])

\* Whatever slots are looked at, the lines that were taken there, wait there or are
\* on their way there are no more than the ones that were given a slot there: the
\* difference are the lines that were overwritten.
TakenIn(S) == {k \in DOMAIN taken : SlotOf(k) \in S}
WaitIn(S) == {i \in S : written[i] = 1}
InFlightTo(S) == {p \in Producers : InFlight(p) /\ write_index[p] \in S}
GivenIn(S) == {k \in DOMAIN order : SlotOf(k) \in S}
CountInv ==
  \A S \in SUBSET Slots :
    Cardinality(TakenIn(S)) + Cardinality(WaitIn(S)) + Cardinality(InFlightTo(S))
      <= Cardinality(GivenIn(S))

\* The writer ends when it finds its slot empty and no producer can fill it.
DrainInv ==
  /\ shutdown => \A p \in Producers : pc[p] = "idle"
  /\ rpc = "done" => shutdown
  /\ shutdown /\ rpc \in {"miss", "done"} => written[Item] = 0

RingInv == PushHasLine /\ LockInv /\ HalvesInv /\ LineInv /\ PlaceInv /\ CountInv /\ DrainInv
=============================================================================
