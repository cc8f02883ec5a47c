-------------------------- MODULE NanoLoggerProofs --------------------------
(***************************************************************************)
(* Proofs about NanoLogger, for every number of threads, lines, days and   *)
(* troubles.  TypeOK and LoggerInv are inductive together, with one lemma  *)
(* for each part of LoggerInv; the four invariants of NanoLogger follow.   *)
(***************************************************************************)
EXTENDS NanoLogger, SequenceLemmas, FiniteSetTheorems

-----------------------------------------------------------------------------
(* Sequences of lines and of stamped lines.                                *)

\* The lines of a sequence of stamped lines, one behind the other.
LEMMA LinesOfConcat ==
  ASSUME NEW s \in Seq(Stamped), NEW t \in Seq(Stamped)
  PROVE  /\ LinesOf(s) \in Seq(Lines) /\ Len(LinesOf(s)) = Len(s)
         /\ LinesOf(s \o t) = LinesOf(s) \o LinesOf(t)
<1>1. ASSUME NEW u \in Seq(Stamped)
      PROVE  /\ LinesOf(u) \in Seq(Lines) /\ Len(LinesOf(u)) = Len(u)
             /\ Len(u) \in Nat /\ \A i \in 1 .. Len(u) : LinesOf(u)[i] = u[i].line
  <2>1. DOMAIN u = 1 .. Len(u) /\ Len(u) \in Nat
    BY LenProperties
  <2>2. \A i \in 1 .. Len(u) : u[i] \in Stamped
    BY ElementOfSeq
  <2>3. LinesOf(u) \in [1 .. Len(u) -> Lines]
    BY <2>1, <2>2 DEF LinesOf, Stamped
  <2>. QED
    BY <2>1, <2>3, SeqDef DEF LinesOf
<1>2. /\ s \o t \in Seq(Stamped) /\ Len(s \o t) = Len(s) + Len(t)
      /\ \A i \in 1 .. Len(s) + Len(t) : (s \o t)[i] = IF i <= Len(s) THEN s[i] ELSE t[i - Len(s)]
  BY ConcatProperties
<1>. DEFINE left == LinesOf(s \o t)
            right == LinesOf(s) \o LinesOf(t)
<1>3. /\ left \in Seq(Lines) /\ Len(left) = Len(s) + Len(t)
      /\ \A i \in 1 .. Len(s) + Len(t) : left[i] = (s \o t)[i].line
  BY <1>1, <1>2
<1>4. /\ LinesOf(s) \in Seq(Lines) /\ LinesOf(t) \in Seq(Lines)
      /\ Len(LinesOf(s)) = Len(s) /\ Len(LinesOf(t)) = Len(t) /\ Len(s) \in Nat /\ Len(t) \in Nat
  BY <1>1
<1>5. /\ right \in Seq(Lines) /\ Len(right) = Len(s) + Len(t)
      /\ \A i \in 1 .. Len(s) + Len(t) :
           right[i] = IF i <= Len(s) THEN LinesOf(s)[i] ELSE LinesOf(t)[i - Len(s)]
  <2>. DEFINE ls == LinesOf(s)
              lt == LinesOf(t)
  <2>1. ls \in Seq(Lines) /\ lt \in Seq(Lines) /\ Len(ls) = Len(s) /\ Len(lt) = Len(t)
    BY <1>4
  <2>. HIDE DEF ls, lt
  <2>2. /\ ls \o lt \in Seq(Lines) /\ Len(ls \o lt) = Len(ls) + Len(lt)
        /\ \A i \in 1 .. Len(ls) + Len(lt) : (ls \o lt)[i] = IF i <= Len(ls) THEN ls[i] ELSE lt[i - Len(ls)]
    BY <2>1, ConcatProperties
  <2>. QED
    BY <2>1, <2>2 DEF ls, lt
<1>6. ASSUME NEW i \in 1 .. Len(s) + Len(t) PROVE left[i] = right[i]
  <2>. HIDE DEF left, right
  <2>1. CASE i <= Len(s)
    <3>1. i \in 1 .. Len(s)
      BY <1>4, <2>1
    <3>2. LinesOf(s)[i] = s[i].line
      BY <1>1, <3>1
    <3>. QED
      BY <1>2, <1>3, <1>5, <2>1, <3>2
  <2>2. CASE i > Len(s)
    <3>1. i - Len(s) \in 1 .. Len(t) /\ ~(i <= Len(s))
      BY <1>4, <2>2
    <3>2. LinesOf(t)[i - Len(s)] = t[i - Len(s)].line
      BY <1>1, <3>1
    <3>. QED
      BY <1>2, <1>3, <1>5, <3>1, <3>2
  <2>. QED
    BY <1>4, <2>1, <2>2
<1>7. left = right
  <2>. HIDE DEF left, right
  <2>. QED
    BY <1>3, <1>5, <1>6, SeqEqual
<1>. QED
  BY <1>4, <1>7

\* One line more.
LEMMA LinesOfAppend ==
  ASSUME NEW s \in Seq(Stamped), NEW l \in Lines, NEW d \in Days
  PROVE  /\ [line |-> l, stamp |-> d] \in Stamped
         /\ LinesOf(s \o <<[line |-> l, stamp |-> d]>>) = Append(LinesOf(s), l)
<1>. DEFINE r == [line |-> l, stamp |-> d]
<1>1. r \in Stamped /\ r.line = l
  BY DEF Stamped
<1>2. LinesOf(<<r>>) = <<l>>
  BY <1>1 DEF LinesOf
<1>. HIDE DEF r
<1>3. <<r>> \in Seq(Stamped)
  BY <1>1
<1>4. LinesOf(s \o <<r>>) = LinesOf(s) \o <<l>> /\ LinesOf(s) \in Seq(Lines)
  BY <1>2, <1>3, LinesOfConcat
<1>5. LinesOf(s) \o <<l>> = Append(LinesOf(s), l)
  BY <1>4, AppendIsConcat
<1>. QED
  BY <1>1, <1>4, <1>5 DEF r

\* A sequence is a prefix of each one that goes on behind it, and so are their lines.
LEMMA PrefixOfConcat ==
  ASSUME NEW A, NEW s \in Seq(A), NEW t \in Seq(A)
  PROVE  IsPrefix(s, s \o t)
<1>1. /\ s \o t \in Seq(A) /\ Len(s \o t) = Len(s) + Len(t) /\ Len(s) \in Nat /\ Len(t) \in Nat
      /\ \A i \in 1 .. Len(s) : (s \o t)[i] = s[i]
  BY ConcatProperties, LenProperties
<1>2. /\ SubSeq(s, 1, Len(s)) = [i \in 1 .. Len(s) |-> s[i]]
      /\ SubSeq(s \o t, 1, Len(s)) = [i \in 1 .. Len(s) |-> (s \o t)[i]]
  <2>1. 1 \in 1 .. Len(s) + 1 /\ Len(s) \in 0 .. Len(s) /\ Len(s) \in 0 .. Len(s \o t)
    BY <1>1
  <2>. QED
    BY <1>1, <2>1 
<1>. QED
  BY <1>1, <1>2 DEF IsPrefix

\* A sequence that is not empty is its front and its last element.
LEMMA FrontAndLast ==
  ASSUME NEW A, NEW s \in Seq(A), Len(s) >= 1
  PROVE  /\ Front(s) \in Seq(A) /\ Len(Front(s)) = Len(s) - 1 /\ s[Len(s)] \in A
         /\ \A i \in 1 .. Len(s) - 1 : Front(s)[i] = s[i]
         /\ s = Append(Front(s), s[Len(s)])
<1>1. Len(s) \in Nat /\ \A i \in 1 .. Len(s) : s[i] \in A
  BY LenProperties, ElementOfSeq
<1>2. Front(s) = [i \in 1 .. Len(s) - 1 |-> s[i]]
  BY <1>1 DEF Front
<1>3. Front(s) \in [1 .. Len(s) - 1 -> A] /\ Len(s) - 1 \in Nat
  BY <1>1, <1>2
<1>4. Front(s) \in Seq(A) /\ Len(Front(s)) = Len(s) - 1
  BY <1>3, SeqDef
<1>. DEFINE t == Append(Front(s), s[Len(s)])
<1>5. /\ t \in Seq(A) /\ Len(t) = Len(s) /\ t[Len(s)] = s[Len(s)]
      /\ \A i \in 1 .. Len(s) - 1 : t[i] = Front(s)[i]
  BY <1>1, <1>4, AppendProperties
<1>6. \A i \in 1 .. Len(s) : t[i] = s[i]
  <2>. HIDE DEF t
  <2>. QED
    BY <1>1, <1>2, <1>5
<1>7. s = t
  <2>. HIDE DEF t
  <2>. QED
    BY <1>5, <1>6, SeqEqual
<1>. QED
  BY <1>1, <1>2, <1>4, <1>7

-----------------------------------------------------------------------------
(* The files.                                                              *)

\* What is written to the last file there is ends up behind all the rest.
LEMMA DiskGrows ==
  ASSUME TypeOK, FileInv, NEW text \in Seq(Stamped)
  PROVE  /\ OnDisk(files) \in Seq(Stamped)
         /\ [files EXCEPT ![day] = @ \o text] \in [Days -> Seq(Stamped)]
         /\ OnDisk([files EXCEPT ![day] = @ \o text]) = OnDisk(files) \o text
<1>. DEFINE seqs == [d \in Days |-> files[d]]
            fs == [files EXCEPT ![day] = @ \o text]
            grown == [d \in Days |-> IF d = day THEN seqs[d] \o text ELSE seqs[d]]
<1>1. MaxDays \in Nat \ {0} /\ Days = 1 .. MaxDays /\ day \in Days
  BY LoggerAssumption DEF Days, TypeOK
<1>2. seqs \in [Days -> Seq(Stamped)] /\ \A d \in Days : d > day => seqs[d] = <<>>
  BY DEF TypeOK, FileInv
<1>3. fs \in [Days -> Seq(Stamped)] /\ [d \in Days |-> fs[d]] = grown
  BY <1>1, ConcatProperties DEF TypeOK
<1>4. FlattenSeq(seqs) \in Seq(Stamped) /\ FlattenSeq(grown) = FlattenSeq(seqs) \o text
  <2>1. PICK n \in Nat \ {0} : n = MaxDays
    BY <1>1
  <2>2. PICK d \in 1 .. n : d = day
    BY <1>1, <2>1
  <2>3. seqs \in [1 .. n -> Seq(Stamped)] /\ Grows(seqs, grown, n, d, text)
    BY <1>1, <1>2, <2>1, <2>2 DEF Grows
  <2>. HIDE DEF seqs, grown
  <2>. QED
    BY <2>3, FlattenGrows
<1>. QED
  BY <1>3, <1>4 DEF OnDisk

\* The files are empty at first.
LEMMA DiskEmpty == OnDisk([d \in Days |-> <<>>]) = <<>>
<1>1. MaxDays \in Nat \ {0} /\ Days = 1 .. MaxDays
  BY LoggerAssumption DEF Days
<1>. DEFINE seqs == [d \in Days |-> <<>>]
<1>2. seqs = [d \in 1 .. MaxDays |-> <<>>] /\ [d \in Days |-> seqs[d]] = seqs
  BY <1>1
<1>3. FlattenSeq(seqs) = <<>>
  <2>. HIDE DEF seqs
  <2>. QED
    BY <1>1, <1>2, FlattenEmpty
<1>. QED
  BY <1>2, <1>3 DEF OnDisk

-----------------------------------------------------------------------------
(* Type correctness.                                                       *)

\* Every value a step writes is of its type.
LEMMA TypeStep ==
  ASSUME TypeOK, LoggerInv, [Next]_vars
  PROVE  TypeOK'
<1>. USE DEF queue, writer, stream, output, process, world
<1>t. TypeOK
  OBVIOUS
<1>f. FileInv /\ HandInv /\ OnDisk(files) \in Seq(Stamped)
  <2>1. <<>> \in Seq(Stamped)
    OBVIOUS
  <2>. QED
    BY <2>1, DiskGrows DEF LoggerInv
<1>1. ASSUME NEW t \in Threads, Log(t) PROVE TypeOK'
  <2>1. order' \in Seq(Lines) /\ UNCHANGED <<ready, delivered>>
    BY <1>1, <1>t, AppendProperties DEF Log, Queue!Accept, TypeOK
  <2>2. /\ pc' = [pc EXCEPT ![t] = "storing"] /\ main' = main
        /\ (t \in Workers => main \notin {"last", "stop", "exited"})
        /\ UNCHANGED <<writer, output, m_state, world>>
    BY <1>1, LoggerAssumption DEF Log, MayLog
  <2>. QED
    BY <1>t, <2>1, <2>2 DEF TypeOK
<1>2. ASSUME NEW t \in Threads, Logged(t) PROVE TypeOK'
  <2>1. \A i \in DOMAIN order : order[i] \in Lines
    BY <1>t, ElementOfSeq, LenProperties DEF TypeOK
  <2>2. ready' \subseteq Lines /\ UNCHANGED <<order, delivered>>
    BY <1>2, <1>t, <2>1 DEF Logged, Queue!Store, TypeOK
  <2>3. /\ pc' = [pc EXCEPT ![t] = "idle"] /\ main' = main /\ pc[t] = "storing"
        /\ UNCHANGED <<writer, output, m_state, world>>
    BY <1>2 DEF Logged
  <2>. QED
    BY <1>t, <2>2, <2>3 DEF TypeOK
<1>3. ASSUME NEW t \in Threads, Leave(t) PROVE TypeOK'
  BY <1>3, <1>t DEF Leave, TypeOK
<1>4. ASSUME Ready \/ StopServer \/ JoinWorkers \/ Shutdown PROVE TypeOK'
  BY <1>4, <1>t DEF Ready, StopServer, JoinWorkers, Shutdown, TypeOK
<1>5. ASSUME Exit PROVE TypeOK'
  <2>1. [files EXCEPT ![day] = @ \o pending] \in [Days -> Seq(Stamped)]
    BY <1>f, <1>t, DiskGrows DEF TypeOK
  <2>. QED
    BY <1>5, <1>t, <2>1 DEF Exit, TypeOK
<1>6. ASSUME Begin \/ Loop \/ PopFails \/ Check PROVE TypeOK'
  BY <1>6, <1>t DEF Begin, Loop, LoopUnless, PopFails, PopFailsWhen, Check, TypeOK
<1>7. ASSUME Pop PROVE TypeOK'
  <2>1. Len(delivered) + 1 \in 1 .. Len(order)
    BY <1>7, <1>t, LenProperties DEF Pop, Queue!Deliver, TypeOK
  <2>2. order[Len(delivered) + 1] \in Lines
    BY <1>t, <2>1, ElementOfSeq DEF TypeOK
  <2>3. delivered' \in Seq(Lines) /\ logline' \in Lines /\ UNCHANGED <<order, ready>>
    BY <1>7, <1>t, <2>2, AppendProperties DEF Pop, Queue!Deliver, TypeOK
  <2>. QED
    BY <1>7, <1>t, <2>3 DEF Pop, TypeOK
<1>8. ASSUME RollFile PROVE TypeOK'
  <2>1. [files EXCEPT ![day] = @ \o pending] \in [Days -> Seq(Stamped)]
    BY <1>f, <1>t, DiskGrows DEF TypeOK
  <2>2. opened' \in BOOLEAN /\ troubles' \in 0 .. MaxTroubles
    <3>1. troubles \in 0 .. MaxTroubles /\ opened \in BOOLEAN /\ MaxTroubles \in Nat
      BY <1>t, LoggerAssumption DEF TypeOK
    <3>2. opened' \in BOOLEAN
      BY <1>8 DEF RollFile, RollTo, Open
    <3>3. troubles' = troubles \/ (troubles < MaxTroubles /\ troubles' = troubles + 1)
      BY <1>8 DEF RollFile, RollTo, Open
    <3>4. troubles' \in 0 .. MaxTroubles
      BY <3>1, <3>3
    <3>. QED
      BY <3>2, <3>4
  <2>. QED
    BY <1>8, <1>t, <2>1, <2>2 DEF RollFile, RollTo, TypeOK
<1>9. ASSUME Put PROVE TypeOK'
  <2>. DEFINE r == [line |-> logline, stamp |-> today]
              text == pending \o <<r>>
  <2>1. r \in Stamped
    BY <1>9, <1>t, <1>f DEF Put, TypeOK, HandInv, Stamped
  <2>. HIDE DEF r
  <2>2. text \in Seq(Stamped) /\ Append(console, r) \in Seq(Stamped)
    <3>1. <<r>> \in Seq(Stamped) /\ pending \in Seq(Stamped) /\ console \in Seq(Stamped)
      BY <1>t, <2>1 DEF TypeOK
    <3>. QED
      BY <2>1, <3>1, ConcatProperties, AppendProperties
  <2>. HIDE DEF text
  <2>3. [files EXCEPT ![day] = @ \o text] \in [Days -> Seq(Stamped)]
    BY <1>f, <2>2, DiskGrows
  <2>4. Stream = day
    BY <1>f DEF Stream, FileInv
  <2>5. /\ files' = [files EXCEPT ![day] = @ \o text] \/ files' = files
        /\ pending' = <<>> \/ pending' = text
        /\ console' = Append(console, r) \/ console' = console
        /\ logline' = NoLine /\ wpc' \in {"pop", "loop"}
        /\ UNCHANGED <<queue, draining, stream, lost, process, world>>
    BY <1>9, <2>4 DEF Put, r, text
  <2>6. files' \in [Days -> Seq(Stamped)] /\ pending' \in Seq(Stamped) /\ console' \in Seq(Stamped)
    <3>1. files' \in [Days -> Seq(Stamped)]
      BY <1>t, <2>3, <2>5 DEF TypeOK
    <3>2. <<>> \in Seq(Stamped)
      OBVIOUS
    <3>3. pending' \in Seq(Stamped) /\ console' \in Seq(Stamped)
      BY <1>t, <2>2, <2>5, <3>2 DEF TypeOK
    <3>. QED
      BY <3>1, <3>3
  <2>. QED
    BY <1>t, <2>5, <2>6 DEF TypeOK
<1>10. ASSUME PutNowhere PROVE TypeOK'
  BY <1>10, <1>t, <1>f DEF PutNowhere, TypeOK, HandInv
<1>11. ASSUME Spill PROVE TypeOK'
  <2>1. Head(pending) \in Stamped /\ Tail(pending) \in Seq(Stamped)
    BY <1>11, <1>t, HeadTailProperties DEF Spill, TypeOK
  <2>2. files' \in [Days -> Seq(Stamped)]
    BY <1>11, <1>t, <2>1, AppendProperties DEF Spill, TypeOK
  <2>. QED
    BY <1>11, <1>t, <2>1, <2>2 DEF Spill, TypeOK
<1>12. ASSUME Midnight PROVE TypeOK'
  <2>1. today' \in Days
    BY <1>12, <1>t, LoggerAssumption DEF Midnight, TypeOK, Days
  <2>2. UNCHANGED <<queue, writer, output, process, base>>
    BY <1>12 DEF Midnight
  <2>. QED
    BY <1>t, <2>1, <2>2 DEF TypeOK
<1>0. ASSUME Crash PROVE TypeOK'
  <2>1. pending' \in Seq(Stamped) /\ main' = "crashed"
    BY <1>0 DEF Crash
  <2>2. UNCHANGED <<queue, writer, stream, files, console, lost, pc, m_state, world>>
    BY <1>0 DEF Crash
  <2>. QED
    BY <1>t, <2>1, <2>2 DEF TypeOK
<1>13. ASSUME Restart PROVE TypeOK'
  <2>1. troubles' \in 0 .. MaxTroubles
    <3>1. troubles \in Nat /\ MaxTroubles \in Nat /\ troubles' <= MaxTroubles
          /\ troubles' = troubles + (IF opened' THEN 1 ELSE 2)
      BY <1>13, <1>t, LoggerAssumption DEF Restart, TypeOK
    <3>. QED
      BY <3>1
  <2>2. /\ order' \in Seq(Lines) /\ delivered' \in Seq(Lines) /\ pending' \in Seq(Stamped)
        /\ console' \in Seq(Stamped) /\ base' \in Seq(Stamped) /\ files' \in [Days -> Seq(Stamped)]
    BY <1>13, <1>t, <1>f DEF Restart, TypeOK
  <2>3. /\ pc' \in [Threads -> {"idle", "storing", "done"}] /\ main' = "construct"
        /\ m_state' = "INIT" /\ wpc' = "init" /\ draining' = FALSE /\ logline' = NoLine
        /\ ready' = {} /\ lost' = {} /\ opened' \in BOOLEAN
        /\ today' \in Days /\ day' \in Days /\ tee' \in Days
    BY <1>13, <1>t DEF Restart, TypeOK
  <2>. QED
    BY <2>1, <2>2, <2>3 DEF TypeOK
<1>14. CASE UNCHANGED vars
  BY <1>14, <1>t DEF vars, TypeOK
<1>. QED
  BY <1>0, <1>1, <1>2, <1>3, <1>4, <1>5, <1>6, <1>7, <1>8, <1>9, <1>10, <1>11, <1>12, <1>13, <1>14
  DEF Next, ThreadStep, Finish, Write, World

-----------------------------------------------------------------------------
(* The parts of LoggerInv.                                                 *)

\* Main, the logger's state and the writer stay in step.
LEMMA LifeStep ==
  ASSUME TypeOK, LoggerInv, [Next]_vars
  PROVE  LifeInv'
<1>. USE DEF queue, writer, stream, output, process, world
<1>i. LifeInv
  BY DEF LoggerInv
<1>t. /\ pc \in [Threads -> {"idle", "storing", "done"}]
      /\ main \in {"last", "stop", "exited"} => \A t \in Workers : pc[t] = "done"
      /\ Threads = Workers \cup {Main}
  BY DEF TypeOK, Threads
<1>1. ASSUME NEW t \in Threads, Log(t) PROVE LifeInv'
  BY <1>1, <1>i, <1>t DEF Log, MayLog, LifeInv
<1>2. ASSUME NEW t \in Threads, Logged(t) PROVE LifeInv'
  BY <1>2, <1>i, <1>t DEF Logged, LifeInv
<1>3. ASSUME NEW t \in Threads, Leave(t) PROVE LifeInv'
  BY <1>3, <1>i, <1>t DEF Leave, LifeInv
<1>4. ASSUME Ready \/ StopServer \/ JoinWorkers \/ Shutdown \/ Exit PROVE LifeInv'
  BY <1>4, <1>i, <1>t DEF Ready, StopServer, JoinWorkers, Shutdown, Exit, LifeInv
<1>5. ASSUME Begin \/ Loop \/ Pop \/ PopFails \/ Check PROVE LifeInv'
  <2>1. m_state \in {"INIT", "READY", "SHUTDOWN"} /\ draining \in BOOLEAN
    BY DEF TypeOK
  <2>. QED
    BY <1>5, <1>i, <2>1 DEF Begin, Loop, LoopUnless, Pop, PopFails, PopFailsWhen, Check, Alive, LifeInv
<1>6. ASSUME RollFile \/ Put \/ PutNowhere PROVE LifeInv'
  <2>1. /\ main \notin {"exited", "crashed"} /\ wpc \notin {"init", "done"}
        /\ wpc' \in {"put", "pop", "loop"} /\ UNCHANGED <<draining, pc, main, m_state>>
    BY <1>6 DEF RollFile, RollTo, Put, PutNowhere, Alive
  <2>. QED
    BY <1>i, <2>1 DEF LifeInv
<1>7. ASSUME World PROVE LifeInv'
  <2>1. CASE Spill \/ Midnight \/ Crash
    BY <1>i, <2>1 DEF Spill, Midnight, Crash, Alive, LifeInv
  <2>2. CASE Restart
    BY <2>2 DEF Restart, LifeInv
  <2>. QED
    BY <1>7, <2>1, <2>2 DEF World
<1>8. CASE UNCHANGED vars
  BY <1>8, <1>i DEF vars, LifeInv
<1>. QED
  BY <1>1, <1>2, <1>3, <1>4, <1>5, <1>6, <1>7, <1>8 DEF Next, ThreadStep, Finish, Write

\* A line that is not ready is one that its thread is storing.
LEMMA ReadyStep ==
  ASSUME TypeOK, LoggerInv, [Next]_vars
  PROVE  ReadyInv'
<1>. USE DEF queue, writer, stream, output, process, world
<1>i. ReadyInv
  BY DEF LoggerInv
<1>t. pc \in [Threads -> {"idle", "storing", "done"}] /\ order \in Seq(Lines)
  BY DEF TypeOK
<1>1. ASSUME NEW t \in Threads, Log(t) PROVE ReadyInv'
  <2>1. PICK x : x = Queue!NextLine(t)
    OBVIOUS
  <2>2. /\ order' = Append(order, x) /\ x \in Lines /\ x[1] = t /\ ready' = ready
        /\ pc[t] = "idle" /\ pc' = [pc EXCEPT ![t] = "storing"]
    BY <1>1, <2>1 DEF Log, Queue!Accept, Queue!NextLine
  <2>3. /\ Len(order) \in Nat /\ DOMAIN order = 1 .. Len(order) /\ DOMAIN order' = 1 .. Len(order) + 1
        /\ order'[Len(order) + 1] = x /\ \A i \in DOMAIN order : order'[i] = order[i]
    BY <1>t, <2>2, AppendProperties, LenProperties
  <2>4. \A i \in DOMAIN order : order[i] \notin ready => order[i][1] # t
    BY <1>i, <2>2 DEF ReadyInv
  <2>5. \A i \in DOMAIN order' : i \in DOMAIN order \/ i = Len(order) + 1
    BY <2>3
  <2>6. ASSUME NEW i \in DOMAIN order', order'[i] \notin ready'
        PROVE  pc'[order'[i][1]] = "storing"
    BY <1>i, <1>t, <2>2, <2>3, <2>4, <2>5, <2>6 DEF ReadyInv
  <2>7. ASSUME NEW i \in DOMAIN order', order'[i] \notin ready',
               NEW j \in DOMAIN order', order'[j] \notin ready', order'[j][1] = order'[i][1]
        PROVE  j = i
    BY <1>i, <2>2, <2>3, <2>4, <2>5, <2>7 DEF ReadyInv
  <2>. QED
    BY <2>6, <2>7 DEF ReadyInv
<1>2. ASSUME NEW t \in Threads, Logged(t) PROVE ReadyInv'
  <2>1. PICK k \in DOMAIN order :
          /\ order[k][1] = t /\ order[k] \notin ready /\ ready' = ready \cup {order[k]}
          /\ order' = order /\ pc' = [pc EXCEPT ![t] = "idle"]
    BY <1>2 DEF Logged, Queue!Store
  <2>2. \A i \in DOMAIN order : order[i] \notin ready' => order[i] \notin ready /\ order[i][1] # t
    BY <1>i, <2>1 DEF ReadyInv
  <2>. QED
    BY <1>i, <1>t, <2>1, <2>2 DEF ReadyInv
<1>3. ASSUME NEW t \in Threads, Leave(t) PROVE ReadyInv'
  <2>1. /\ UNCHANGED <<order, ready>> /\ pc[t] = "idle"
        /\ pc' = pc \/ pc' = [pc EXCEPT ![t] = "done"]
    BY <1>3 DEF Leave
  <2>2. \A q \in Threads : pc[q] = "storing" => pc'[q] = "storing"
    BY <1>t, <2>1
  <2>3. \A i \in DOMAIN order : order[i] \notin ready => pc[order[i][1]] = "storing" /\ order[i][1] \in Threads
    <3>1. \A i \in DOMAIN order : order[i] \in Lines
      BY <1>t, ElementOfSeq, LenProperties
    <3>. QED
      BY <1>i, <3>1 DEF ReadyInv, Lines
  <2>. QED
    BY <1>i, <2>1, <2>2, <2>3 DEF ReadyInv
<1>4. ASSUME \/ Finish \/ Begin \/ Loop \/ PopFails \/ Check \/ RollFile \/ Put \/ PutNowhere
             \/ Spill \/ Midnight \/ Crash \/ UNCHANGED vars
      PROVE  ReadyInv'
  <2>1. UNCHANGED <<order, ready, pc>>
    BY <1>4 DEF Finish, Ready, StopServer, JoinWorkers, Shutdown, Exit, Begin, Loop, LoopUnless,
      PopFails, PopFailsWhen, Check, RollFile, RollTo, Put, PutNowhere, Spill, Midnight, Crash, vars
  <2>. QED
    BY <1>i, <2>1 DEF ReadyInv
<1>5. ASSUME Pop PROVE ReadyInv'
  <2>1. UNCHANGED <<order, ready, pc>>
    BY <1>5 DEF Pop, Queue!Deliver
  <2>. QED
    BY <1>i, <2>1 DEF ReadyInv
<1>6. ASSUME Restart PROVE ReadyInv'
  BY <1>6 DEF Restart, ReadyInv
<1>. QED
  BY <1>1, <1>2, <1>3, <1>4, <1>5, <1>6 DEF Next, ThreadStep, Write, World

\* The queue takes each line once.
LEMMA OnceStep ==
  ASSUME TypeOK, LoggerInv, [Next]_vars
  PROVE  OnceInv'
<1>. USE DEF queue, writer, stream, output, process, world
<1>i. OnceInv
  BY DEF LoggerInv
<1>t. order \in Seq(Lines) /\ Len(order) \in Nat /\ DOMAIN order = 1 .. Len(order)
  BY LenProperties DEF TypeOK
<1>l. \A i \in DOMAIN order : order[i][1] \in Threads /\ order[i][2] \in Nat
  <2>1. \A i \in DOMAIN order : order[i] \in Lines
    BY <1>t, ElementOfSeq
  <2>. QED
    BY <2>1, LoggerAssumption DEF Lines
<1>1. ASSUME NEW t \in Threads, Log(t) PROVE OnceInv'
  <2>. DEFINE n == Len(order) + 1
              Places(q) == {i \in DOMAIN order : order[i][1] = q}
              x == <<t, Count(t) + 1>>
  <2>1. order' = Append(order, x) /\ x \in Lines
    <3>1. Queue!NextLine(t) = x
      BY DEF Queue!NextLine, Queue!Cardinality, Cardinality, Count
    <3>. QED
      BY <1>1, <3>1 DEF Log, Queue!Accept
  <2>2. x[1] = t /\ x[2] = Count(t) + 1
    OBVIOUS
  <2>. HIDE DEF x
  <2>3. /\ DOMAIN order' = 1 .. n /\ order'[n] = x /\ n \in Nat
        /\ \A i \in DOMAIN order : order'[i] = order[i] /\ i # n
        /\ \A i \in DOMAIN order' : i \in DOMAIN order \/ i = n
    BY <1>t, <2>1, AppendProperties, LenProperties
  <2>4. \A q \in Threads : IsFiniteSet(Places(q)) /\ Count(q) \in Nat /\ Count(q) = Cardinality(Places(q))
    <3>1. IsFiniteSet(1 .. Len(order))
      BY <1>t, FS_Interval
    <3>2. \A q \in Threads : IsFiniteSet(Places(q))
      BY <1>t, <3>1, FS_Subset
    <3>. QED
      BY <3>2, FS_CardinalityType DEF Count
  <2>5. \A q \in Threads : q # t => Count(q)' = Count(q)
    <3>1. ASSUME NEW q \in Threads, q # t PROVE {i \in DOMAIN order' : order'[i][1] = q} = Places(q)
      BY <2>2, <2>3, <3>1
    <3>. QED
      BY <3>1 DEF Count
  <2>6. Count(t)' = Count(t) + 1
    <3>1. {i \in DOMAIN order' : order'[i][1] = t} = Places(t) \cup {n} /\ n \notin Places(t)
      BY <2>2, <2>3
    <3>2. IsFiniteSet(Places(t))
      BY <2>4
    <3>. HIDE DEF Places, n
    <3>3. Cardinality(Places(t) \cup {n}) = Cardinality(Places(t)) + 1
      BY <3>1, <3>2, FS_AddElement
    <3>. QED
      BY <2>4, <3>1, <3>3 DEF Count
  <2>7. \A i \in DOMAIN order : order[i] # x
    <3>1. \A i \in DOMAIN order : order[i][1] = t => order[i][2] <= Count(t)
      BY <1>i DEF OnceInv
    <3>. HIDE DEF Places, n
    <3>. QED
      BY <1>l, <2>2, <2>4, <3>1
  <2>. HIDE DEF n
  <2>8. ASSUME NEW i \in DOMAIN order', NEW j \in DOMAIN order', order'[i] = order'[j] PROVE i = j
    BY <1>i, <2>3, <2>7, <2>8 DEF OnceInv
  <2>9. ASSUME NEW q \in Threads, NEW i \in DOMAIN order', order'[i][1] = q
        PROVE  order'[i][2] <= Count(q)'
    <3>1. Count(q) \in Nat /\ Count(t) \in Nat
      BY <2>4
    <3>2. CASE i = n
      <4>1. order'[i] = x /\ q = t
        BY <2>2, <2>3, <2>9, <3>2
      <4>. QED
        BY <2>2, <2>6, <3>1, <4>1
    <3>3. CASE i # n
      <4>1. order'[i] = order[i] /\ i \in DOMAIN order
        BY <2>3, <3>3
      <4>2. order[i][2] <= Count(q) /\ order[i][2] \in Nat
        BY <1>i, <1>l, <2>9, <4>1 DEF OnceInv
      <4>3. Count(q)' = Count(q) \/ Count(q)' = Count(q) + 1
        BY <2>5, <2>6
      <4>. QED
        BY <3>1, <4>1, <4>2, <4>3
    <3>. QED
      BY <3>2, <3>3
  <2>. QED
    BY <2>8, <2>9 DEF OnceInv
<1>2. ASSUME UNCHANGED order PROVE OnceInv'
  BY <1>2, <1>i DEF OnceInv, Count
<1>3. ASSUME Restart PROVE OnceInv'
  BY <1>3 DEF Restart, OnceInv
<1>4. ASSUME NEW t \in Threads, Logged(t) \/ Leave(t) PROVE UNCHANGED order
  BY <1>4 DEF Logged, Leave, Queue!Store
<1>5. ASSUME Finish \/ Write \/ Spill \/ Midnight \/ Crash \/ UNCHANGED vars PROVE UNCHANGED order
  BY <1>5 DEF Finish, Ready, StopServer, JoinWorkers, Shutdown, Exit, Write, Begin, Loop, LoopUnless,
    Pop, Queue!Deliver, PopFails, PopFailsWhen, Check, RollFile, RollTo, Put, PutNowhere, Spill,
    Midnight, Crash, vars
<1>. QED
  BY <1>1, <1>2, <1>3, <1>4, <1>5 DEF Next, ThreadStep, World

\* The writer takes the lines as they come and misses none at the end.
LEMMA HandStep ==
  ASSUME TypeOK, LoggerInv, [Next]_vars
  PROVE  HandInv'
<1>. USE DEF queue, writer, stream, output, process, world
<1>i. HandInv /\ LifeInv /\ ReadyInv
  BY DEF LoggerInv
<1>t. /\ order \in Seq(Lines) /\ Len(order) \in Nat /\ DOMAIN order = 1 .. Len(order)
      /\ delivered \in Seq(Lines) /\ Len(delivered) \in Nat /\ DOMAIN delivered = 1 .. Len(delivered)
      /\ \A i \in DOMAIN order : order[i] \in Lines
  BY LenProperties, ElementOfSeq DEF TypeOK
<1>1. ASSUME NEW t \in Threads, Log(t) PROVE HandInv'
  <2>1. order' = Append(order, Queue!NextLine(t)) /\ UNCHANGED <<delivered, writer, lost>>
    BY <1>1 DEF Log, Queue!Accept
  <2>2. /\ Queue!NextLine(t) \in Lines /\ main \notin {"stop", "exited", "crashed"}
    BY <1>1 DEF Log, MayLog
  <2>3. Len(order') = Len(order) + 1 /\ \A i \in DOMAIN order : order'[i] = order[i]
    BY <1>t, <2>1, <2>2, AppendProperties
  <2>4. wpc # "done"
    BY <1>i, <2>2 DEF LifeInv
  <2>5. Len(delivered) <= Len(order) /\ \A i \in DOMAIN delivered : delivered[i] = order[i] /\ i \in DOMAIN order
    BY <1>i, <1>t DEF HandInv
  <2>6. Len(delivered) <= Len(order') /\ \A i \in DOMAIN delivered : delivered[i] = order'[i]
    BY <1>t, <2>3, <2>5
  <2>. QED
    BY <1>i, <2>1, <2>4, <2>6 DEF HandInv
<1>2. ASSUME Pop PROVE HandInv'
  <2>. DEFINE n == Len(delivered) + 1
  <2>1. /\ n \in 1 .. Len(order) /\ delivered' = Append(delivered, order[n]) /\ logline' = order[n]
        /\ wpc = "pop" /\ wpc' = "check" /\ UNCHANGED <<order, lost>>
    BY <1>2, <1>t DEF Pop, Queue!Deliver
  <2>2. order[n] \in Lines /\ order[n] # NoLine
    BY <1>t, <2>1, LoggerAssumption
  <2>3. /\ Len(delivered') = n /\ DOMAIN delivered' = 1 .. n /\ delivered'[n] = order[n]
        /\ \A i \in DOMAIN delivered : delivered'[i] = delivered[i] /\ i < n
    BY <1>t, <2>1, <2>2, AppendProperties, LenProperties
  <2>4. Len(delivered') <= Len(order') /\ \A i \in DOMAIN delivered' : delivered'[i] = order'[i]
    BY <1>i, <1>t, <2>1, <2>3 DEF HandInv
  <2>5. ASSUME NEW l \in lost'
        PROVE  \E i \in DOMAIN delivered' : delivered'[i] = l /\ i < Len(delivered')
    <3>1. PICK i \in DOMAIN delivered : delivered[i] = l
      BY <1>i, <2>1 DEF HandInv
    <3>2. i \in DOMAIN delivered' /\ delivered'[i] = l /\ i < Len(delivered')
      BY <1>t, <2>3, <3>1
    <3>. QED
      BY <3>2
  <2>. HIDE DEF n
  <2>6. Len(delivered') >= 1 /\ logline' = delivered'[Len(delivered')] /\ logline' # NoLine /\ wpc' = "check"
    BY <2>1, <2>2, <2>3
  <2>. QED
    BY <2>4, <2>5, <2>6 DEF HandInv
<1>3. ASSUME PopFails PROVE HandInv'
  <2>1. /\ wpc = "pop" /\ Alive /\ UNCHANGED <<queue, draining, logline, lost>>
        /\ Len(delivered) < Len(order) => order[Len(delivered) + 1] \notin ready
        /\ wpc' = IF draining THEN "done" ELSE "loop"
    BY <1>3 DEF PopFails, PopFailsWhen
  <2>2. ASSUME draining PROVE delivered = order
    <3>1. \A t \in Threads : pc[t] # "storing"
      BY <1>i, <2>1, <2>2 DEF LifeInv, Alive
    <3>2. \A i \in DOMAIN order : order[i] \in ready
      BY <1>i, <1>t, <3>1 DEF ReadyInv, Lines
    <3>3. ~(Len(delivered) < Len(order))
      <4>1. Len(delivered) < Len(order) => Len(delivered) + 1 \in DOMAIN order
        BY <1>t
      <4>. QED
        BY <2>1, <3>2, <4>1
    <3>4. Len(delivered) = Len(order)
      <4>1. Len(delivered) <= Len(order)
        BY <1>i DEF HandInv
      <4>2. Len(delivered) \in Nat /\ Len(order) \in Nat
        BY <1>t
      <4>. QED
        BY <3>3, <4>1, <4>2
    <3>5. \A i \in 1 .. Len(delivered) : delivered[i] = order[i]
      BY <1>i, <1>t DEF HandInv
    <3>. QED
      BY <1>t, <3>4, <3>5, SeqEqual
  <2>3. logline = NoLine /\ wpc' \notin {"check", "roll", "put"}
    BY <1>i, <2>1 DEF HandInv
  <2>4. wpc' = "done" => delivered' = order'
    BY <2>1, <2>2
  <2>. QED
    BY <1>i, <2>1, <2>3, <2>4 DEF HandInv
<1>4. ASSUME Put \/ PutNowhere PROVE HandInv'
  <2>1. /\ wpc = "put" /\ wpc' \in {"pop", "loop"} /\ logline' = NoLine /\ UNCHANGED queue
        /\ lost' = lost \/ lost' = lost \cup {logline}
    BY <1>4 DEF Put, PutNowhere
  <2>2. Len(delivered) \in DOMAIN delivered /\ delivered[Len(delivered)] = logline
    BY <1>i, <1>t, <2>1 DEF HandInv
  <2>3. \A l \in lost' : \E i \in DOMAIN delivered : delivered[i] = l
    BY <1>i, <2>1, <2>2 DEF HandInv
  <2>. QED
    BY <1>i, <2>1, <2>3 DEF HandInv
<1>5. ASSUME Restart PROVE HandInv'
  BY <1>5 DEF Restart, HandInv
<1>6. ASSUME UNCHANGED <<order, delivered, logline, lost>>,
             \/ wpc' = wpc
             \/ wpc = "init" /\ wpc' = "loop"
             \/ wpc = "loop" /\ wpc' = "pop"
             \/ wpc = "check" /\ wpc' \in {"roll", "put"}
             \/ wpc = "roll" /\ wpc' = "put"
      PROVE  HandInv'
  BY <1>i, <1>6 DEF HandInv
<1>7. ASSUME \/ Begin \/ Loop \/ Check \/ RollFile \/ Finish \/ Spill \/ Midnight \/ Crash
             \/ UNCHANGED vars \/ \E t \in Threads : Logged(t) \/ Leave(t)
      PROVE  HandInv'
  <2>1. /\ UNCHANGED <<order, delivered, logline, lost>>
        /\ \/ wpc' = wpc
           \/ wpc = "init" /\ wpc' = "loop"
           \/ wpc = "loop" /\ wpc' = "pop"
           \/ wpc = "check" /\ wpc' \in {"roll", "put"}
           \/ wpc = "roll" /\ wpc' = "put"
    BY <1>7 DEF Begin, Loop, LoopUnless, Check, RollFile, RollTo, Finish, Ready, StopServer, JoinWorkers,
      Shutdown, Exit, Spill, Midnight, Crash, vars, Logged, Queue!Store, Leave
  <2>. QED
    BY <1>6, <2>1
<1>. QED
  BY <1>1, <1>2, <1>3, <1>4, <1>5, <1>7 DEF Next, ThreadStep, Write, World

\* The stream writes to the last file there is.
LEMMA FileStep ==
  ASSUME TypeOK, LoggerInv, [Next]_vars
  PROVE  FileInv'
<1>. USE DEF queue, writer, stream, output, process, world
<1>i. FileInv
  BY DEF LoggerInv
<1>t. /\ day \in Nat /\ today \in Nat /\ Days \subseteq Nat /\ day \in Days
      /\ files \in [Days -> Seq(Stamped)]
  BY LoggerAssumption DEF TypeOK, Days
<1>1. ASSUME Exit \/ Spill PROVE FileInv'
  <2>1. /\ UNCHANGED <<tee, day, today, wpc>>
        /\ \A d \in Days : d # day => files'[d] = files[d]
    BY <1>1, <1>t DEF Exit, Spill
  <2>. QED
    BY <1>i, <1>t, <2>1 DEF FileInv
<1>2. ASSUME Put PROVE FileInv'
  <2>1. /\ UNCHANGED <<tee, day, today>> /\ wpc' # "roll" /\ Stream = day
        /\ \A d \in Days : d # day => files'[d] = files[d]
    BY <1>2, <1>i, <1>t DEF Put, Stream, FileInv
  <2>. QED
    BY <1>i, <1>t, <2>1 DEF FileInv
<1>3. ASSUME Check PROVE FileInv'
  BY <1>3, <1>i, <1>t DEF Check, FileInv
<1>4. ASSUME RollFile PROVE FileInv'
  <2>1. /\ day' = today /\ tee' = today /\ today' = today /\ wpc' = "put" /\ wpc = "roll"
        /\ \A d \in Days : d # day => files'[d] = files[d]
    BY <1>4, <1>t DEF RollFile, RollTo
  <2>. QED
    BY <1>i, <1>t, <2>1 DEF FileInv
<1>5. ASSUME Midnight PROVE FileInv'
  BY <1>5, <1>i, <1>t DEF Midnight, FileInv
<1>6. ASSUME Restart PROVE FileInv'
  <2>1. day' = today /\ tee' = today /\ today' = today /\ wpc' = "init" /\ files' = files
    BY <1>6 DEF Restart
  <2>. QED
    BY <1>i, <1>t, <2>1 DEF FileInv
<1>7. ASSUME \/ Ready \/ StopServer \/ JoinWorkers \/ Shutdown \/ Begin \/ Loop \/ Pop \/ PopFails
             \/ PutNowhere \/ Crash \/ UNCHANGED vars
             \/ \E t \in Threads : Log(t) \/ Logged(t) \/ Leave(t)
      PROVE  FileInv'
  <2>1. UNCHANGED <<tee, day, today, files>> /\ (wpc' = wpc \/ wpc' # "roll")
    BY <1>7 DEF Ready, StopServer, JoinWorkers, Shutdown, Begin, Loop, LoopUnless, Pop, PopFails,
      PopFailsWhen, PutNowhere, Crash, vars, Log, Logged, Leave
  <2>. QED
    BY <1>i, <2>1 DEF FileInv
<1>. QED
  BY <1>1, <1>2, <1>3, <1>4, <1>5, <1>6, <1>7 DEF Next, ThreadStep, Finish, Write, World

\* A file and what is in the buffer for it, typed, and as a sequence of its own.
LEMMA FileOfTyped ==
  ASSUME TypeOK, NEW d \in Days
  PROVE  /\ FileOf(d) \in Seq(Stamped) /\ DOMAIN FileOf(d) = 1 .. Len(FileOf(d))
         /\ Len(FileOf(d)) \in Nat
         /\ \A i \in DOMAIN FileOf(d) : FileOf(d)[i].stamp \in Nat
<1>1. files[d] \in Seq(Stamped) /\ pending \in Seq(Stamped)
  BY DEF TypeOK
<1>2. FileOf(d) \in Seq(Stamped)
  BY <1>1, ConcatProperties DEF FileOf
<1>. DEFINE f == FileOf(d)
<1>. HIDE DEF f
<1>3. f \in Seq(Stamped)
  BY <1>2 DEF f
<1>4. DOMAIN f = 1 .. Len(f) /\ Len(f) \in Nat /\ \A i \in 1 .. Len(f) : f[i] \in Stamped
  BY <1>3, LenProperties, ElementOfSeq
<1>5. \A i \in DOMAIN f : f[i].stamp \in Nat
  BY <1>4 DEF Stamped, Days
<1>. QED
  BY <1>3, <1>4, <1>5 DEF f

\* Stamps and files.
LEMMA StampStep ==
  ASSUME TypeOK, LoggerInv, [Next]_vars
  PROVE  StampInv'
<1>. USE DEF queue, writer, stream, output, process, world
<1>i. StampInv /\ FileInv /\ LifeInv
  BY DEF LoggerInv
<1>t. /\ day \in Days /\ today \in Days /\ Days \subseteq Nat
      /\ files \in [Days -> Seq(Stamped)] /\ pending \in Seq(Stamped) /\ <<>> \in Seq(Stamped)
  BY LoggerAssumption DEF TypeOK, Days
<1>1. ASSUME \A d \in Days : FileOf(d)' = FileOf(d), day' = day,
             today' = today \/ today' = today + 1,
             wpc' = "put" => wpc = "put" \/ today = day
      PROVE  StampInv'
  <2>. SUFFICES ASSUME NEW d \in Days, NEW i \in DOMAIN FileOf(d)
                PROVE  /\ FileOf(d)[i].stamp >= d /\ FileOf(d)[i].stamp <= today'
                       /\ FileOf(d)[i].stamp > d => i = Len(FileOf(d))
                       /\ d = day /\ wpc' = "put" => FileOf(d)[i].stamp = d
    BY <1>1 DEF StampInv
  <2>1. FileOf(d)[i].stamp \in Nat /\ d \in Nat /\ today \in Nat
    BY <1>t, FileOfTyped
  <2>2. /\ FileOf(d)[i].stamp >= d /\ FileOf(d)[i].stamp <= today
        /\ FileOf(d)[i].stamp > d => i = Len(FileOf(d))
        /\ d = day /\ wpc = "put" => FileOf(d)[i].stamp = d
    BY <1>i DEF StampInv
  <2>3. FileOf(d)[i].stamp <= today'
    BY <1>1, <2>1, <2>2
  <2>4. d = day /\ wpc' = "put" => FileOf(d)[i].stamp = d
    BY <1>1, <2>1, <2>2
  <2>. QED
    BY <2>2, <2>3, <2>4
<1>2. ASSUME UNCHANGED <<files, pending, day>> PROVE \A d \in Days : FileOf(d)' = FileOf(d)
  BY <1>2 DEF FileOf
<1>3. ASSUME Exit PROVE StampInv'
  <2>1. UNCHANGED <<day, today, wpc>> /\ pending' = <<>> /\ files' = [files EXCEPT ![day] = @ \o pending]
    BY <1>3 DEF Exit
  <2>2. files[day] \o pending \in Seq(Stamped)
    BY <1>t, ConcatProperties
  <2>3. (files[day] \o pending) \o <<>> = files[day] \o pending
    BY <2>2, ConcatEmptySeq
  <2>4. \A d \in Days : FileOf(d)' = FileOf(d)
    BY <1>t, <2>1, <2>3 DEF FileOf
  <2>. QED
    BY <1>1, <2>1, <2>4
<1>4. ASSUME Spill PROVE StampInv'
  <2>1. /\ UNCHANGED <<day, today, wpc>> /\ pending # <<>> /\ pending' = Tail(pending)
        /\ files' = [files EXCEPT ![day] = Append(@, Head(pending))]
    BY <1>4 DEF Spill
  <2>. DEFINE f == files[day]
              h == Head(pending)
              tl == Tail(pending)
  <2>2. f \in Seq(Stamped) /\ h \in Stamped /\ tl \in Seq(Stamped) /\ pending = <<h>> \o tl
    BY <1>t, <2>1, HeadTailProperties, HeadTailAppend
  <2>. HIDE DEF f, h, tl
  <2>3. <<h>> \in Seq(Stamped) /\ Append(f, h) = f \o <<h>>
    BY <2>2, AppendIsConcat
  <2>4. Append(f, h) \o tl = f \o pending
    BY <2>2, <2>3, ConcatAssociative
  <2>5. \A d \in Days : FileOf(d)' = FileOf(d)
    BY <1>t, <2>1, <2>4 DEF FileOf, f, h, tl
  <2>. QED
    BY <1>1, <2>1, <2>5
<1>5. ASSUME Midnight PROVE StampInv'
  <2>1. UNCHANGED <<files, pending, day, wpc>> /\ today' = today + 1
    BY <1>5 DEF Midnight
  <2>. QED
    BY <1>1, <1>2, <2>1
<1>6. ASSUME Check PROVE StampInv'
  <2>1. UNCHANGED <<files, pending, day, today>> /\ (wpc' = "put" => today = day)
    BY <1>6 DEF Check
  <2>. QED
    BY <1>1, <1>2, <2>1
<1>7. ASSUME \/ Ready \/ StopServer \/ JoinWorkers \/ Shutdown \/ Begin \/ Loop \/ Pop \/ PopFails
             \/ PutNowhere \/ UNCHANGED vars
             \/ \E t \in Threads : Log(t) \/ Logged(t) \/ Leave(t)
      PROVE  StampInv'
  <2>1. UNCHANGED <<files, pending, day, today>> /\ (wpc' = wpc \/ wpc' # "put")
    BY <1>7 DEF Ready, StopServer, JoinWorkers, Shutdown, Begin, Loop, LoopUnless, Pop, PopFails,
      PopFailsWhen, PutNowhere, vars, Log, Logged, Leave
  <2>. QED
    BY <1>1, <1>2, <2>1
<1>8. ASSUME Put PROVE StampInv'
  <2>. DEFINE r == [line |-> logline, stamp |-> today]
              text == pending \o <<r>>
  <2>1. logline \in Lines
    BY <1>8 DEF Put, LoggerInv, HandInv, TypeOK
  <2>2. r \in Stamped /\ r.stamp = today
    BY <1>t, <2>1 DEF Stamped
  <2>3. wpc = "put" /\ wpc' # "put" /\ day' = day /\ today' = today
    BY <1>8 DEF Put
  <2>4. \/ files' = [files EXCEPT ![day] = @ \o text] /\ pending' = <<>>
        \/ files' = files /\ pending' = text
    BY <1>8, <1>i DEF Put, Stream, FileInv
  <2>. DEFINE f == files[day]
  <2>. HIDE DEF r
  <2>5. f \in Seq(Stamped) /\ <<r>> \in Seq(Stamped) /\ text \in Seq(Stamped)
    <3>1. f \in Seq(Stamped) /\ <<r>> \in Seq(Stamped)
      BY <1>t, <2>2
    <3>. QED
      BY <1>t, <3>1, ConcatProperties
  <2>6. f \o text = (f \o pending) \o <<r>>
    <3>. HIDE DEF f
    <3>. QED
      BY <1>t, <2>5, ConcatAssociative
  <2>7. (f \o text) \o <<>> = f \o text
    <3>. HIDE DEF f, text
    <3>1. f \o text \in Seq(Stamped)
      BY <2>5, ConcatProperties
    <3>. QED
      BY <3>1, ConcatEmptySeq
  <2>8. FileOf(day) = f \o pending
    BY DEF FileOf
  <2>9. FileOf(day) \o <<r>> = Append(FileOf(day), r)
    BY <1>t, <2>2, FileOfTyped, AppendIsConcat
  <2>. HIDE DEF text
  <2>10. \A d \in Days : FileOf(d)' = IF d = day THEN Append(FileOf(d), r) ELSE FileOf(d)
    <3>1. CASE files' = [files EXCEPT ![day] = @ \o text] /\ pending' = <<>>
      BY <1>t, <2>3, <2>6, <2>7, <2>8, <2>9, <3>1 DEF FileOf
    <3>2. CASE files' = files /\ pending' = text
      BY <1>t, <2>3, <2>6, <2>8, <2>9, <3>2 DEF FileOf
    <3>. QED
      BY <2>4, <3>1, <3>2
  <2>11. ASSUME NEW d \in Days, d # day, NEW i \in DOMAIN FileOf(d)
         PROVE  /\ FileOf(d)[i].stamp >= d /\ FileOf(d)[i].stamp <= today
                /\ FileOf(d)[i].stamp > d => i = Len(FileOf(d))
    BY <1>i, <2>11 DEF StampInv
  <2>12. ASSUME NEW i \in DOMAIN Append(FileOf(day), r)
         PROVE  /\ Append(FileOf(day), r)[i].stamp >= day /\ Append(FileOf(day), r)[i].stamp <= today
                /\ Append(FileOf(day), r)[i].stamp > day => i = Len(Append(FileOf(day), r))
    <3>. DEFINE g == FileOf(day)
    <3>1. g \in Seq(Stamped) /\ Len(g) \in Nat /\ DOMAIN g = 1 .. Len(g)
      BY <1>t, FileOfTyped
    <3>2. \A j \in DOMAIN g : g[j].stamp = day
      BY <1>i, <1>t, <2>3 DEF StampInv
    <3>3. day <= today /\ day \in Nat /\ today \in Nat
      BY <1>i, <1>t DEF FileInv
    <3>. HIDE DEF g
    <3>4. /\ DOMAIN Append(g, r) = 1 .. Len(g) + 1 /\ Append(g, r)[Len(g) + 1] = r
          /\ Len(Append(g, r)) = Len(g) + 1
          /\ \A j \in 1 .. Len(g) : Append(g, r)[j] = g[j]
      BY <2>2, <3>1, AppendProperties, LenProperties
    <3>5. i \in 1 .. Len(g) + 1
      BY <3>4 DEF g
    <3>6. CASE i = Len(g) + 1
      BY <2>2, <3>3, <3>4, <3>6 DEF g
    <3>7. CASE i \in 1 .. Len(g)
      <4>1. Append(g, r)[i].stamp = day
        BY <3>1, <3>2, <3>4, <3>7
      <4>. QED
        BY <3>3, <4>1 DEF g
    <3>. QED
      BY <3>1, <3>5, <3>6, <3>7
  <2>. QED
    BY <1>t, <2>3, <2>10, <2>11, <2>12 DEF StampInv
<1>9. ASSUME RollFile PROVE StampInv'
  <2>1. /\ wpc = "roll" /\ day' = today /\ today' = today /\ pending' = <<>>
        /\ files' = [files EXCEPT ![day] = @ \o pending]
    BY <1>9 DEF RollFile, RollTo
  <2>2. day < today /\ files[today] = <<>>
    BY <1>i, <1>t, <2>1 DEF FileInv
  <2>3. <<>> \o <<>> = <<>>
    OBVIOUS
  <2>4. FileOf(today)' = <<>> /\ \A d \in Days : d # today => FileOf(d)' = FileOf(d)
    BY <1>t, <2>1, <2>2, <2>3 DEF FileOf
  <2>5. DOMAIN <<>> = {}
    OBVIOUS
  <2>. QED
    BY <1>i, <1>t, <2>1, <2>4, <2>5 DEF StampInv
<1>10. ASSUME Crash PROVE StampInv'
  <2>1. UNCHANGED <<files, day, today, wpc>> /\ pending' = <<>>
    BY <1>10 DEF Crash
  <2>. DEFINE f == files[day]
              g == f \o pending
  <2>2. f \in Seq(Stamped) /\ f \o <<>> = f /\ FileOf(day) = g
    BY <1>t, ConcatEmptySeq DEF FileOf
  <2>3. FileOf(day)' = f /\ \A d \in Days : d # day => FileOf(d)' = FileOf(d)
    BY <1>t, <2>1, <2>2 DEF FileOf
  <2>4. /\ Len(f) \in Nat /\ Len(pending) \in Nat /\ Len(g) = Len(f) + Len(pending)
        /\ DOMAIN f = 1 .. Len(f) /\ DOMAIN g = 1 .. Len(g)
        /\ \A i \in 1 .. Len(f) : g[i] = f[i]
    <3>1. f \in Seq(Stamped) /\ pending \in Seq(Stamped)
      BY <1>t
    <3>. HIDE DEF f
    <3>. QED
      BY <3>1, ConcatProperties, LenProperties
  <2>5. ASSUME NEW i \in DOMAIN f
        PROVE  /\ f[i].stamp >= day /\ f[i].stamp <= today
               /\ f[i].stamp > day => i = Len(f)
               /\ wpc = "put" => f[i].stamp = day
    <3>1. i \in DOMAIN g /\ g[i] = f[i] /\ i <= Len(f) /\ i \in Nat
      <4>. HIDE DEF f, g
      <4>. QED
        BY <2>4
    <3>2. /\ g[i].stamp >= day /\ g[i].stamp <= today
          /\ g[i].stamp > day => i = Len(g)
          /\ wpc = "put" => g[i].stamp = day
      <4>. HIDE DEF f, g
      <4>. QED
        BY <1>i, <1>t, <2>2, <3>1 DEF StampInv
    <3>. HIDE DEF f, g
    <3>3. i = Len(g) => i = Len(f)
      <4>1. Len(f) \in Nat /\ Len(pending) \in Nat /\ Len(g) = Len(f) + Len(pending)
        BY <2>4
      <4>. QED
        BY <3>1, <4>1
    <3>. QED
      BY <3>1, <3>2, <3>3
  <2>. HIDE DEF f, g
  <2>. QED
    BY <1>i, <1>t, <2>1, <2>3, <2>5 DEF StampInv
<1>11. ASSUME Restart PROVE StampInv'
  <2>1. /\ UNCHANGED <<files, today>> /\ day' = today /\ pending' = <<>> /\ wpc' = "init"
        /\ main \in {"exited", "crashed"}
    BY <1>11 DEF Restart
  <2>2. pending = <<>>
    BY <1>i, <2>1 DEF LifeInv
  <2>3. \A d \in Days : files[d] \o <<>> = files[d]
    BY <1>t, ConcatEmptySeq
  <2>4. \A d \in Days : FileOf(d)' = FileOf(d)
    BY <1>t, <2>1, <2>2, <2>3 DEF FileOf
  <2>. QED
    BY <1>i, <2>1, <2>4 DEF StampInv
<1>. QED
  BY <1>3, <1>4, <1>5, <1>6, <1>7, <1>8, <1>9, <1>10, <1>11 DEF Next, ThreadStep, Finish, Write, World

\* What the lines written so far are, and what of them is kept, after each step.
LEMMA WrittenTyped ==
  ASSUME TypeOK, HandInv
  PROVE  /\ Written \in Seq(Lines) /\ Kept(Written) \in Seq(Lines)
         /\ logline # NoLine => delivered = Append(Written, logline) /\ logline \in Lines
         /\ OnceInv /\ logline # NoLine =>
              logline \notin lost /\ \A i \in DOMAIN Written : Written[i] # logline
<1>t. delivered \in Seq(Lines) /\ Len(delivered) \in Nat /\ DOMAIN delivered = 1 .. Len(delivered)
  BY LenProperties DEF TypeOK
<1>1. CASE logline = NoLine
  <2>1. Written = delivered
    BY <1>1 DEF Written
  <2>2. Kept(Written) \in Seq(Lines)
    BY <1>t, <2>1, WithoutType DEF Kept
  <2>. QED
    BY <1>t, <1>1, <2>1, <2>2
<1>2. CASE logline # NoLine
  <2>. DEFINE n == Len(delivered)
  <2>1. Written = Front(delivered) /\ n >= 1 /\ logline = delivered[n]
    BY <1>2 DEF Written, HandInv
  <2>2. /\ Written \in Seq(Lines) /\ Len(Written) = n - 1 /\ logline \in Lines
        /\ \A i \in 1 .. n - 1 : Written[i] = delivered[i]
        /\ delivered = Append(Written, logline)
    BY <1>t, <2>1, FrontAndLast
  <2>3. Kept(Written) \in Seq(Lines)
    BY <2>2, WithoutType DEF Kept
  <2>4. ASSUME OnceInv, NEW i \in 1 .. n - 1 PROVE delivered[i] # logline
    <3>1. i \in DOMAIN delivered /\ n \in DOMAIN delivered /\ i # n
      <4>1. n \in Nat /\ n >= 1 /\ DOMAIN delivered = 1 .. n
        BY <1>t, <2>1
      <4>. HIDE DEF n
      <4>. QED
        BY <4>1
    <3>2. delivered[i] = order[i] /\ delivered[n] = order[n] /\ i \in DOMAIN order /\ n \in DOMAIN order
      <4>1. n <= Len(order) /\ Len(order) \in Nat /\ DOMAIN order = 1 .. Len(order)
        BY LenProperties DEF HandInv, TypeOK
      <4>2. i \in 1 .. Len(order) /\ n \in 1 .. Len(order)
        BY <1>t, <2>1, <4>1
      <4>. QED
        BY <3>1, <4>1, <4>2 DEF HandInv
    <3>. QED
      BY <2>1, <2>4, <3>1, <3>2 DEF OnceInv
  <2>5. OnceInv => logline \notin lost
    <3>. SUFFICES ASSUME OnceInv, logline \in lost PROVE FALSE
      OBVIOUS
    <3>1. PICK i \in DOMAIN delivered : delivered[i] = logline /\ i < n
      BY <1>2 DEF HandInv
    <3>2. i \in 1 .. n - 1
      BY <1>t, <3>1
    <3>. QED
      BY <2>4, <3>1, <3>2
  <2>6. DOMAIN Written = 1 .. n - 1
    BY <2>2, LenProperties
  <2>. QED
    BY <1>2, <2>2, <2>3, <2>4, <2>5, <2>6
<1>. QED
  BY <1>1, <1>2

\* A step that leaves the files, the stream's buffer and the lines written alone keeps
\* what they hold.
LEMMA ContentFrame ==
  ASSUME ContentInv, Written' = Written,
         UNCHANGED <<files, pending, console, base, lost>>, main' = "crashed" <=> main = "crashed"
  PROVE  ContentInv'
<1>1. InfoIsDurable => InfoIsDurable'
  BY DEF InfoIsDurable, Kept
<1>2. main = "crashed" /\ TeeAgrees => TeeAgrees'
  BY DEF TeeAgrees
<1>. QED
  BY <1>1, <1>2 DEF ContentInv, Kept

\* What is in the files and in the buffer may move from the buffer to the files.
LEMMA ContentMoves ==
  ASSUME ContentInv, main # "crashed", main' # "crashed", Written' = Written,
         OnDisk(files') \o pending' = OnDisk(files) \o pending,
         \A i \in DOMAIN pending' : pending'[i].line \in Quiet,
         UNCHANGED <<console, base, lost>>
  PROVE  ContentInv'
BY DEF ContentInv, Kept

\* While the process runs, what the files lack is in the buffer: quiet lines only.
LEMMA ContentIsDurable ==
  ASSUME TypeOK, HandInv, FileInv, ContentInv, main # "crashed"
  PROVE  InfoIsDurable /\ (Echo => IsPrefix(OnDisk(files), base \o console))
<1>. DEFINE disk == OnDisk(files)
            written == Kept(Written)
            lines == LinesOf(disk)
            rest == LinesOf(pending)
            old == LinesOf(base)
<1>1. disk \in Seq(Stamped) /\ pending \in Seq(Stamped) /\ base \in Seq(Stamped) /\ written \in Seq(Lines)
  <2>1. <<>> \in Seq(Stamped)
    OBVIOUS
  <2>. QED
    BY <2>1, DiskGrows, WrittenTyped DEF TypeOK
<1>2. /\ lines \in Seq(Lines) /\ rest \in Seq(Lines) /\ old \in Seq(Lines)
      /\ Len(lines) = Len(disk) /\ Len(rest) = Len(pending) /\ Len(old) = Len(base)
      /\ LinesOf(disk \o pending) = lines \o rest
  <2>. HIDE DEF disk
  <2>. QED
    BY <1>1, LinesOfConcat
<1>3. lines \o rest = old \o written
  BY <1>2 DEF ContentInv
<1>4. IsPrefix(lines, old \o written)
  <2>. HIDE DEF lines, rest, old, written
  <2>. QED
    BY <1>2, <1>3, PrefixOfConcat
<1>5. Echo => IsPrefix(disk, base \o console)
  <2>1. Echo => disk \o pending = base \o console
    BY DEF ContentInv
  <2>. HIDE DEF disk
  <2>. QED
    BY <1>1, <2>1, PrefixOfConcat
<1>6. ASSUME NEW i \in DOMAIN written, written[i] \notin Quiet PROVE Len(disk) >= Len(base) + i
  <2>0. /\ Len(lines) \in Nat /\ Len(rest) \in Nat /\ Len(old) \in Nat /\ Len(written) \in Nat
        /\ DOMAIN written = 1 .. Len(written) /\ DOMAIN pending = 1 .. Len(rest)
    <3>. HIDE DEF lines, rest, old, written
    <3>. QED
      BY <1>1, <1>2, LenProperties
  <2>1. \A k \in 1 .. Len(rest) : rest[k] \in Quiet
    BY <2>0 DEF ContentInv, LinesOf
  <2>. HIDE DEF lines, rest, old, written, disk
  <2>2. /\ Len(lines \o rest) = Len(lines) + Len(rest)
        /\ \A k \in 1 .. Len(lines) + Len(rest) :
             (lines \o rest)[k] = IF k <= Len(lines) THEN lines[k] ELSE rest[k - Len(lines)]
    BY <1>2, ConcatProperties
  <2>3. /\ Len(old \o written) = Len(old) + Len(written)
        /\ \A k \in 1 .. Len(old) + Len(written) :
             (old \o written)[k] = IF k <= Len(old) THEN old[k] ELSE written[k - Len(old)]
    BY <1>1, <1>2, ConcatProperties
  <2>. DEFINE k == Len(old) + i
  <2>4. k \in 1 .. Len(old) + Len(written) /\ ~(k <= Len(old)) /\ k - Len(old) = i /\ k \in Nat
    BY <2>0
  <2>5. Len(lines) + Len(rest) = Len(old) + Len(written)
    BY <1>3, <2>2, <2>3
  <2>. HIDE DEF k
  <2>6. (lines \o rest)[k] = written[i]
    BY <1>3, <2>3, <2>4
  <2>7. ASSUME ~(k <= Len(lines)) PROVE FALSE
    <3>1. k \in 1 .. Len(lines) + Len(rest) /\ k - Len(lines) \in 1 .. Len(rest)
      BY <2>0, <2>4, <2>5, <2>7
    <3>2. rest[k - Len(lines)] = written[i]
      BY <2>2, <2>6, <2>7, <3>1
    <3>. QED
      BY <1>6, <2>1, <3>1, <3>2
  <2>. QED
    BY <1>2, <2>0, <2>7 DEF k
<1>. QED
  BY <1>4, <1>5, <1>6 DEF InfoIsDurable

\* The files and the buffer hold the lines written.
LEMMA ContentStep ==
  ASSUME TypeOK, LoggerInv, [Next]_vars
  PROVE  ContentInv'
<1>. USE DEF queue, writer, stream, output, process, world
<1>i. ContentInv /\ HandInv /\ FileInv /\ OnceInv /\ LifeInv
  BY DEF LoggerInv
<1>t. /\ pending \in Seq(Stamped) /\ base \in Seq(Stamped) /\ console \in Seq(Stamped)
      /\ <<>> \in Seq(Stamped) /\ files \in [Days -> Seq(Stamped)] /\ day \in Days
      /\ today \in Days /\ delivered \in Seq(Lines)
  BY DEF TypeOK
<1>d. /\ OnDisk(files) \in Seq(Stamped)
      /\ \A text \in Seq(Stamped) : OnDisk([files EXCEPT ![day] = @ \o text]) = OnDisk(files) \o text
  BY <1>i, <1>t, DiskGrows
<1>w. /\ Written \in Seq(Lines) /\ Kept(Written) \in Seq(Lines)
      /\ logline # NoLine => delivered = Append(Written, logline) /\ logline \in Lines
      /\ \A i \in DOMAIN Written : logline # NoLine => Written[i] # logline
      /\ logline = NoLine \/ logline \notin lost
  BY <1>i, WrittenTyped
<1>1. ASSUME Exit \/ RollFile PROVE ContentInv'
  <2>1. /\ main # "crashed" /\ main' # "crashed" /\ pending' = <<>>
        /\ files' = [files EXCEPT ![day] = @ \o pending]
        /\ UNCHANGED <<console, base, lost, delivered, logline>>
    BY <1>1 DEF Exit, RollFile, RollTo, Alive
  <2>2. OnDisk(files') \o <<>> = OnDisk(files) \o pending
    <3>1. OnDisk(files') = OnDisk(files) \o pending
      BY <1>d, <1>t, <2>1
    <3>2. OnDisk(files) \o pending \in Seq(Stamped)
      BY <1>d, <1>t, ConcatProperties
    <3>. QED
      BY <3>1, <3>2, ConcatEmptySeq
  <2>3. Written' = Written
    BY <2>1 DEF Written
  <2>4. DOMAIN pending' = {}
    BY <2>1
  <2>. QED
    BY <1>i, <2>1, <2>2, <2>3, <2>4, ContentMoves
<1>2. ASSUME Spill PROVE ContentInv'
  <2>. DEFINE h == Head(pending)
              tl == Tail(pending)
              disk == OnDisk(files)
  <2>1. /\ main # "crashed" /\ main' = main /\ pending # <<>> /\ pending' = tl
        /\ files' = [files EXCEPT ![day] = Append(@, h)]
        /\ UNCHANGED <<console, base, lost, delivered, logline>>
    BY <1>2 DEF Spill, Alive
  <2>2. /\ h \in Stamped /\ tl \in Seq(Stamped) /\ pending = <<h>> \o tl
        /\ Len(tl) = Len(pending) - 1 /\ \A i \in 1 .. Len(tl) : tl[i] = pending[i + 1]
    BY <1>t, <2>1, HeadTailProperties, HeadTailAppend
  <2>3. files[day] \in Seq(Stamped)
    BY <1>t
  <2>. HIDE DEF h, tl
  <2>4. <<h>> \in Seq(Stamped) /\ Append(files[day], h) = files[day] \o <<h>>
    BY <2>2, <2>3, AppendIsConcat
  <2>5. OnDisk(files') = disk \o <<h>>
    BY <1>d, <2>1, <2>4
  <2>6. (disk \o <<h>>) \o tl = disk \o pending
    <3>1. disk \in Seq(Stamped)
      BY <1>d
    <3>. HIDE DEF disk
    <3>. QED
      BY <2>2, <2>4, <3>1, ConcatAssociative
  <2>7. \A i \in DOMAIN pending' : pending'[i].line \in Quiet
    <3>1. \A i \in DOMAIN pending : pending[i].line \in Quiet
      BY <1>i, <2>1 DEF ContentInv
    <3>2. /\ DOMAIN tl = 1 .. Len(tl) /\ Len(tl) \in Nat /\ DOMAIN pending = 1 .. Len(pending)
          /\ Len(pending) \in Nat
      BY <1>t, <2>2, LenProperties
    <3>3. \A i \in 1 .. Len(tl) : i + 1 \in 1 .. Len(pending)
      BY <2>2, <3>2
    <3>. QED
      BY <2>1, <2>2, <3>1, <3>2, <3>3
  <2>8. Written' = Written
    BY <2>1 DEF Written
  <2>. QED
    BY <1>i, <2>1, <2>5, <2>6, <2>7, <2>8, ContentMoves
<1>3. ASSUME Pop PROVE ContentInv'
  <2>1. /\ UNCHANGED <<files, pending, console, base, lost, main>> /\ wpc = "pop"
        /\ Len(delivered) < Len(order) /\ delivered' = Append(delivered, order[Len(delivered) + 1])
        /\ logline' = order[Len(delivered) + 1]
    BY <1>3 DEF Pop, Queue!Deliver
  <2>2. order[Len(delivered) + 1] \in Lines
    <3>1. order \in Seq(Lines) /\ Len(order) \in Nat /\ Len(delivered) \in Nat
      BY LenProperties DEF TypeOK
    <3>2. Len(delivered) + 1 \in 1 .. Len(order)
      BY <2>1, <3>1
    <3>. QED
      BY <3>1, <3>2, ElementOfSeq
  <2>3. logline' # NoLine /\ logline = NoLine
    BY <1>i, <2>1, <2>2, LoggerAssumption DEF HandInv
  <2>4. Written' = Written
    <3>. DEFINE x == order[Len(delivered) + 1]
    <3>. HIDE DEF x
    <3>1. x \in Lines /\ delivered' = Append(delivered, x)
      BY <2>1, <2>2 DEF x
    <3>2. /\ delivered' \in Seq(Lines) /\ Len(delivered') = Len(delivered) + 1 /\ Len(delivered) \in Nat
          /\ \A i \in 1 .. Len(delivered) : delivered'[i] = delivered[i]
      BY <1>t, <3>1, AppendProperties, LenProperties
    <3>3. /\ Front(delivered') \in Seq(Lines) /\ Len(Front(delivered')) = Len(delivered)
          /\ \A i \in 1 .. Len(delivered) : Front(delivered')[i] = delivered'[i]
      BY <3>2, FrontAndLast
    <3>4. Front(delivered') = delivered
      BY <1>t, <3>2, <3>3, SeqEqual
    <3>. QED
      BY <2>3, <3>4 DEF Written
  <2>. QED
    BY <1>i, <2>1, <2>4, ContentFrame
<1>4. ASSUME Put PROVE ContentInv'
  <2>. DEFINE rec == [line |-> logline, stamp |-> today]
              disk == OnDisk(files)
              text == pending \o <<rec>>
              out == disk \o pending
  <2>1. /\ main # "crashed" /\ main' = main /\ logline' = NoLine /\ UNCHANGED <<base, lost, delivered>>
        /\ console' = IF Echo THEN Append(console, rec) ELSE console
        /\ \/ /\ files' = [files EXCEPT ![day] = @ \o text] /\ pending' = <<>>
           \/ logline \in Quiet /\ files' = files /\ pending' = text
    BY <1>4, <1>i DEF Put, Alive, Stream, FileInv, Flushes
  <2>2. logline # NoLine /\ logline \in Lines /\ delivered = Append(Written, logline) /\ logline \notin lost
    BY <1>4, <1>i, <1>w DEF Put, HandInv
  <2>3. /\ rec \in Stamped /\ rec.line = logline
        /\ \A s \in Seq(Stamped) : LinesOf(s \o <<rec>>) = Append(LinesOf(s), logline)
    BY <1>t, <2>2, LinesOfAppend
  <2>. HIDE DEF rec
  <2>4. <<rec>> \in Seq(Stamped) /\ disk \in Seq(Stamped) /\ text \in Seq(Stamped) /\ out \in Seq(Stamped)
    <3>1. <<rec>> \in Seq(Stamped) /\ disk \in Seq(Stamped)
      BY <1>d, <2>3
    <3>. HIDE DEF disk
    <3>. QED
      BY <1>t, <3>1, ConcatProperties
  <2>5. disk \o text = out \o <<rec>>
    <3>. HIDE DEF disk
    <3>. QED
      BY <1>t, <2>4, ConcatAssociative, SMTT(30)
  <2>6. OnDisk(files') \o pending' = out \o <<rec>>
    <3>1. CASE files' = [files EXCEPT ![day] = @ \o text] /\ pending' = <<>>
      <4>1. OnDisk(files') = out \o <<rec>>
        <5>. HIDE DEF text
        <5>. QED
          BY <1>d, <2>4, <2>5, <3>1
      <4>2. out \o <<rec>> \in Seq(Stamped)
        <5>. HIDE DEF out
        <5>. QED
          BY <2>4, ConcatProperties
      <4>. QED
        BY <3>1, <4>1, <4>2, ConcatEmptySeq
    <3>2. CASE files' = files /\ pending' = text
      BY <2>5, <3>2
    <3>. QED
      BY <2>1, <3>1, <3>2
  <2>7. Kept(Written)' = Append(Kept(Written), logline)
    <3>1. Written' = Append(Written, logline)
      BY <2>1, <2>2 DEF Written
    <3>. QED
      BY <1>w, <2>1, <2>2, <3>1, WithoutAppend DEF Kept
  <2>8. LinesOf(OnDisk(files') \o pending') = LinesOf(base) \o Kept(Written)'
    <3>. DEFINE old == LinesOf(base)
                kept == Kept(Written)
    <3>1. LinesOf(out \o <<rec>>) = Append(LinesOf(out), logline)
      <4>. HIDE DEF out
      <4>. QED
        BY <2>3, <2>4
    <3>2. LinesOf(out) = old \o kept
      BY <1>i, <2>1 DEF ContentInv
    <3>3. old \in Seq(Lines) /\ kept \in Seq(Lines)
      BY <1>t, <1>w, LinesOfConcat
    <3>4. Append(old \o kept, logline) = old \o Append(kept, logline)
      <4>. HIDE DEF old, kept
      <4>1. old \o kept \in Seq(Lines) /\ <<logline>> \in Seq(Lines)
        BY <2>2, <3>3, ConcatProperties
      <4>2. Append(old \o kept, logline) = (old \o kept) \o <<logline>>
        BY <2>2, <4>1, AppendIsConcat
      <4>3. Append(kept, logline) = kept \o <<logline>>
        BY <2>2, <3>3, AppendIsConcat
      <4>. QED
        BY <3>3, <4>1, <4>2, <4>3, ConcatAssociative
    <3>. QED
      BY <2>6, <2>7, <3>1, <3>2, <3>4
  <2>9. Echo => OnDisk(files') \o pending' = base \o console'
    <3>. SUFFICES ASSUME Echo PROVE out \o <<rec>> = base \o Append(console, rec)
      BY <2>1, <2>6
    <3>1. out = base \o console
      BY <1>i, <2>1 DEF ContentInv
    <3>2. Append(console, rec) = console \o <<rec>>
      BY <1>t, <2>3, AppendIsConcat
    <3>3. (base \o console) \o <<rec>> = base \o (console \o <<rec>>)
      <4>1. base \in Seq(Stamped) /\ console \in Seq(Stamped) /\ <<rec>> \in Seq(Stamped)
        BY <1>t, <2>4
      <4>. QED
        BY ONLY <4>1, Regroup, SMTT(30)
    <3>. QED
      BY <3>1, <3>2, <3>3
  <2>10. \A i \in DOMAIN pending' : pending'[i].line \in Quiet
    <3>1. CASE pending' = <<>>
      BY <3>1
    <3>2. CASE logline \in Quiet /\ pending' = text
      <4>1. \A i \in DOMAIN pending : pending[i].line \in Quiet
        BY <1>i, <2>1 DEF ContentInv
      <4>2. text = Append(pending, rec)
        BY <1>t, <2>3, AppendIsConcat
      <4>3. /\ DOMAIN text = 1 .. Len(pending) + 1 /\ Len(pending) \in Nat /\ text[Len(pending) + 1] = rec
            /\ DOMAIN pending = 1 .. Len(pending)
            /\ \A i \in 1 .. Len(pending) : text[i] = pending[i]
        BY <1>t, <2>3, <4>2, AppendProperties, LenProperties
      <4>. HIDE DEF text
      <4>. QED
        BY <2>3, <3>2, <4>1, <4>3
    <3>. QED
      BY <2>1, <3>1, <3>2
  <2>. QED
    BY <2>1, <2>8, <2>9, <2>10 DEF ContentInv, Kept
<1>5. ASSUME PutNowhere PROVE ContentInv'
  <2>1. /\ main # "crashed" /\ main' = main /\ logline' = NoLine /\ lost' = lost \cup {logline}
        /\ UNCHANGED <<base, files, pending, console, delivered>>
    BY <1>5 DEF PutNowhere, Alive
  <2>2. logline # NoLine /\ logline \in Lines /\ delivered = Append(Written, logline)
    BY <1>5, <1>i, <1>w DEF PutNowhere, HandInv
  <2>3. Kept(Written)' = Kept(Written)
    <3>1. Written' = Append(Written, logline)
      BY <2>1, <2>2 DEF Written
    <3>2. Without(Append(Written, logline), lost') = Without(Written, lost')
      BY <1>w, <2>1, <2>2, WithoutAppend
    <3>3. \A i \in DOMAIN Written : Written[i] \in lost' <=> Written[i] \in lost
      BY <1>w, <2>1, <2>2
    <3>4. Without(Written, lost') = Without(Written, lost)
      BY <1>w, <3>3, WithoutSame
    <3>. QED
      BY <3>1, <3>2, <3>4 DEF Kept
  <2>. QED
    BY <1>i, <2>1, <2>3 DEF ContentInv
<1>6. ASSUME Crash PROVE ContentInv'
  <2>1. /\ main # "crashed" /\ main' = "crashed" /\ UNCHANGED <<files, base, console, lost, delivered, logline>>
    BY <1>6 DEF Crash, Alive
  <2>2. InfoIsDurable /\ (Echo => IsPrefix(OnDisk(files), base \o console))
    BY <1>i, <2>1, ContentIsDurable
  <2>3. Written' = Written
    BY <2>1 DEF Written
  <2>4. InfoIsDurable'
    BY <2>1, <2>2, <2>3 DEF InfoIsDurable, Kept
  <2>5. TeeAgrees'
    BY <2>1, <2>2 DEF TeeAgrees
  <2>. QED
    BY <2>1, <2>4, <2>5 DEF ContentInv
<1>7. ASSUME Restart PROVE ContentInv'
  <2>1. /\ main' = "construct" /\ files' = files /\ base' = OnDisk(files) /\ pending' = <<>>
        /\ console' = <<>> /\ delivered' = <<>> /\ logline' = NoLine
    BY <1>7 DEF Restart
  <2>2. Written' = <<>> /\ Kept(Written)' = <<>>
    BY <2>1, WithoutType DEF Written, Kept
  <2>3. OnDisk(files) \o <<>> = OnDisk(files)
    BY <1>d, ConcatEmptySeq
  <2>4. LinesOf(OnDisk(files)) \o <<>> = LinesOf(OnDisk(files))
    BY <1>d, LinesOfConcat, ConcatEmptySeq
  <2>5. DOMAIN pending' = {}
    BY <2>1
  <2>. QED
    BY <2>1, <2>2, <2>3, <2>4, <2>5 DEF ContentInv
<1>8. ASSUME \/ Ready \/ StopServer \/ JoinWorkers \/ Shutdown \/ Begin \/ Loop \/ PopFails \/ Check
             \/ Midnight \/ UNCHANGED vars
             \/ \E t \in Threads : Log(t) \/ Logged(t) \/ Leave(t)
      PROVE  ContentInv'
  <2>1. /\ UNCHANGED <<files, pending, console, base, lost, delivered, logline>>
        /\ main' = "crashed" <=> main = "crashed"
    BY <1>8 DEF Ready, StopServer, JoinWorkers, Shutdown, Begin, Loop, LoopUnless, PopFails,
      PopFailsWhen, Check, Midnight, vars, Log, Logged, Leave, Queue!Accept, Queue!Store
  <2>2. Written' = Written
    BY <2>1 DEF Written
  <2>. QED
    BY <1>i, <2>1, <2>2, ContentFrame
<1>. QED
  BY <1>1, <1>2, <1>3, <1>4, <1>5, <1>6, <1>7, <1>8 DEF Next, ThreadStep, Finish, Write, World

-----------------------------------------------------------------------------
(* The theorems.                                                           *)

\* The inductive invariant holds where the process starts for the first time.
LEMMA LoggerStarts == Init => TypeOK /\ LoggerInv
<1> SUFFICES ASSUME Init PROVE TypeOK /\ LoggerInv
  OBVIOUS
<1>. USE DEF Init, Fresh
<1>1. MaxDays \in Nat \ {0} /\ Days = 1 .. MaxDays /\ 1 \in Days
  BY LoggerAssumption DEF Days
<1>2. \A S : <<>> \in Seq(S)
  OBVIOUS
<1>3. files \in [Days -> Seq(Stamped)]
  BY <1>2
<1>4. TypeOK
  <2>1. troubles \in 0 .. MaxTroubles
    BY LoggerAssumption
  <2>2. pc \in [Threads -> {"idle", "storing", "done"}]
    OBVIOUS
  <2>. QED
    BY <1>1, <1>2, <1>3, <2>1, <2>2 DEF TypeOK
<1>5. LifeInv
  <2>1. \A t \in Threads : pc[t] # "storing"
    OBVIOUS
  <2>. QED
    BY <2>1 DEF LifeInv
<1>6. ReadyInv /\ OnceInv
  BY DEF ReadyInv, OnceInv
<1>7. HandInv
  <2>1. Len(delivered) = 0 /\ Len(order) = 0 /\ DOMAIN delivered = {}
    OBVIOUS
  <2>. QED
    BY <2>1 DEF HandInv
<1>8. FileInv
  BY <1>1 DEF FileInv
<1>9. \A d \in Days : DOMAIN FileOf(d) = {}
  <2>1. <<>> \o <<>> = <<>>
    BY <1>2, ConcatEmptySeq
  <2>2. \A d \in Days : FileOf(d) = <<>>
    BY <2>1 DEF FileOf
  <2>. QED
    BY <2>2
<1>10. StampInv
  BY <1>9 DEF StampInv
<1>11. ContentInv
  <2>1. OnDisk(files) = <<>>
    BY DiskEmpty
  <2>2. <<>> \o <<>> = <<>> /\ LinesOf(<<>>) = <<>>
    BY <1>2, ConcatEmptySeq DEF LinesOf
  <2>3. Kept(Written) = <<>>
    BY WithoutType DEF Kept, Written
  <2>. QED
    BY <2>1, <2>2, <2>3 DEF ContentInv
<1>. QED
  BY <1>4, <1>5, <1>6, <1>7, <1>8, <1>10, <1>11 DEF LoggerInv

\* NanoLogger, FileWriter and main keep the inductive invariant: the files and what is
\* in the stream's buffer are the lines written, in the order of the queue, and who
\* stores, writes, rolls and shuts down has come as far as the others require.
THEOREM LoggerInvariant == Spec => [](TypeOK /\ LoggerInv)
<1>1. Init => TypeOK /\ LoggerInv
  BY LoggerStarts
<1>2. TypeOK /\ LoggerInv /\ [Next]_vars => (TypeOK /\ LoggerInv)'
  BY TypeStep, LifeStep, ReadyStep, OnceStep, HandStep, FileStep, StampStep, ContentStep DEF LoggerInv
<1>. QED
  BY <1>1, <1>2, PTL DEF Spec

\* No line that a thread logged is missing when the process exits, however the threads,
\* the writer, the signal and midnight interleave: run() joins the I/O threads before
\* ~NanoLogger says SHUTDOWN, and pop stops only when nothing is left to pop.
THEOREM NothingLost == Spec => []NothingLostAtExit
<1>1. TypeOK /\ LoggerInv => NothingLostAtExit
  <2> SUFFICES ASSUME TypeOK, LoggerInv, main = "exited"
               PROVE  LinesOf(OnDisk(files)) = LinesOf(base) \o Kept(order)
    BY DEF NothingLostAtExit
  <2>1. pending = <<>> /\ wpc = "done"
    BY DEF LoggerInv, LifeInv
  <2>2. delivered = order /\ logline = NoLine
    BY <2>1 DEF LoggerInv, HandInv
  <2>3. LinesOf(OnDisk(files) \o pending) = LinesOf(base) \o Kept(Written)
    BY DEF LoggerInv, ContentInv
  <2>4. OnDisk(files) \in Seq(Stamped)
    <3>1. <<>> \in Seq(Stamped)
      OBVIOUS
    <3>. QED
      BY <3>1, DiskGrows DEF LoggerInv
  <2>5. OnDisk(files) \o pending = OnDisk(files)
    BY <2>1, <2>4, ConcatEmptySeq
  <2>. QED
    BY <2>2, <2>3, <2>5 DEF Written
<1>. QED
  BY <1>1, LoggerInvariant, PTL

\* A line from INFO on is in a file when write() returns, and a crash takes DEBUG lines
\* at the end and nothing else: put flushes the stream for what is not in Quiet, and
\* roll_file flushes before it closes.
THEOREM InfoDurable == Spec => []InfoIsDurable
<1>1. TypeOK /\ LoggerInv => InfoIsDurable
  BY ContentIsDurable DEF LoggerInv, ContentInv
<1>. QED
  BY <1>1, LoggerInvariant, PTL

\* std::cout and the files never disagree about a line or its stamp: roll_file binds
\* the tee to the file it opens.
THEOREM TeesAgree == Spec => []TeeAgrees
<1>1. LoggerInv => TeeAgrees
  BY DEF LoggerInv, ContentInv, TeeAgrees
<1>. QED
  BY <1>1, LoggerInvariant, PTL

\* A file has the lines of its day, and at most its last line is stamped later: the
\* clock write() compares its day with and the clock stringify reads are not the same
\* reading.
THEOREM StampsFollow == Spec => []StampsFollowFiles
<1>1. TypeOK /\ LoggerInv => StampsFollowFiles
  BY DEF LoggerInv, StampInv, StampsFollowFiles
<1>. QED
  BY <1>1, LoggerInvariant, PTL
=============================================================================
