-------------------------- MODULE QueueBufferProofs -------------------------
(***************************************************************************)
(* Proofs about QueueBuffer, for every number of producers, lines and      *)
(* buffers and every Size.  TypeOK and QueueInv are inductive together     *)
(* (QueueInvariant); the safety properties of QueueBuffer follow.  There   *)
(* is one lemma for each part of QueueInv, with one step for each action.  *)
(* The last part proves that QueueBuffer implements LogQueue.              *)
(***************************************************************************)
EXTENDS QueueBuffer, TLAPS, FiniteSetTheorems, SequenceTheorems

\* The reader's next slot: m_read_index + 1 is Size or a slot again.
LEMMA SlotArithmetic ==
  /\ 0 \in Slots
  /\ \A i \in Slots : i + 1 = Size \/ i + 1 \in Slots
  BY QueueAssumption DEF Slots

\* Below the bound on buffers the next identifier is one of a buffer.
LEMMA BufferArithmetic ==
  \A b \in Bufs : b < MaxBuffers => b + 1 \in Bufs
  BY QueueAssumption DEF Bufs

\* Every step of push and try_pop keeps the types.
LEMMA TypeStep ==
  ASSUME TypeOK, QueueInv, [Next]_vars
  PROVE  TypeOK'
<1>. USE DEF TypeOK, shared, reader, memory, local
<1>a. \A p \in Producers : pc[p] # "idle" => sent[p] >= 1
  BY DEF QueueInv, PushHasLine
<1>b. rpc \in {"poplock", "pop"} => m_buffers # <<>>
  BY DEF QueueInv, ReaderInv
<1>1. ASSUME NEW p \in Producers, Log(p) PROVE TypeOK'
  <2>1. sent[p] + 1 \in 0 .. MaxLines
    BY <1>1, QueueAssumption DEF Log
  <2>. QED
    BY <1>1, <2>1 DEF Log, Go, PushSteps
<1>2. ASSUME NEW p \in Producers, Claim(p) PROVE TypeOK'
  BY <1>2 DEF Claim, Go, PushSteps
<1>3. ASSUME NEW p \in Producers, Spin(p) PROVE TypeOK'
  BY <1>3 DEF Spin, Go, PushSteps
<1>4. ASSUME NEW p \in Producers, Load(p) PROVE TypeOK'
  BY <1>4 DEF Load, Go, PushSteps
<1>5. ASSUME NEW p \in Producers, Construct(p) PROVE TypeOK'
  <2>1. Line(p) \in Lines
    BY <1>5, <1>a DEF Construct, Line, Lines
  <2>. QED
    BY <1>5, <2>1 DEF Construct, Go, PushSteps
<1>6. ASSUME NEW p \in Producers, Publish(p) PROVE TypeOK'
  BY <1>6 DEF Publish, Go, PushSteps
<1>7. ASSUME NEW p \in Producers, Count(p) PROVE TypeOK'
  <2>0. write_count[at[p]] + 1 \in Nat
    OBVIOUS
  <2>1. write_count' \in [Bufs -> Nat]
    BY <1>7, <2>0 DEF Count
  <2>2. pc' \in [Producers -> PushSteps]
    BY <1>7 DEF Count, Go, PushSteps
  <2>. QED
    BY <1>7, <2>1, <2>2 DEF Count
<1>8. ASSUME NEW p \in Producers, CountFreed(p) PROVE TypeOK'
  BY <1>8 DEF CountFreed, Go, PushSteps
<1>9. ASSUME NEW p \in Producers, SetUp(p) PROVE TypeOK'
  <2>1. allocated + 1 \in Bufs
    BY <1>9, BufferArithmetic DEF SetUp
  <2>. QED
    BY <1>9, <2>1 DEF SetUp, Go, PushSteps
<1>10. ASSUME NEW p \in Producers, LockToEnqueue(p) PROVE TypeOK'
  BY <1>10 DEF LockToEnqueue, Go, PushSteps, Lock
<1>11. ASSUME NEW p \in Producers, Enqueue(p) PROVE TypeOK'
  <2>1. m_buffers' \in Seq(Bufs)
    BY <1>11, AppendProperties DEF Enqueue
  <2>. QED
    BY <1>11, <2>1 DEF Enqueue, Go, PushSteps
<1>12. ASSUME NEW p \in Producers, Reset(p) PROVE TypeOK'
  BY <1>12 DEF Reset, Go, PushSteps
<1>13. ASSUME NEW p \in Producers, Unlock(p) PROVE TypeOK'
  BY <1>13 DEF Unlock, Go, PushSteps
<1>14. ASSUME LockToLook PROVE TypeOK'
  BY <1>14 DEF LockToLook, PopSteps, Lock
<1>15. ASSUME Front PROVE TypeOK'
  <2>1. m_buffers # <<>> => Head(m_buffers) \in Bufs
    BY HeadTailProperties
  <2>. QED
    BY <1>15, <2>1 DEF Front, PopSteps
<1>16. ASSUME Take PROVE TypeOK'
  <2>1. slot[m_current_read_buffer][m_read_index] \in Lines \cup {None}
    BY <1>16 DEF Take
  <2>2. taken' \in Seq(Lines \cup {None})
    BY <1>16, <2>1, AppendProperties DEF Take
  <2>3. m_read_index' \in Slots
    BY <1>16, SlotArithmetic DEF Take, LastSlot
  <2>4. m_current_read_buffer' \in Bufs \cup {NoBuffer} /\ rpc' \in PopSteps
    BY <1>16 DEF Take, PopSteps
  <2>. QED
    BY <1>16, <2>2, <2>3, <2>4 DEF Take
<1>17. ASSUME NotYet PROVE TypeOK'
  BY <1>17 DEF NotYet, PopSteps, Lock
<1>18. ASSUME LockToPop PROVE TypeOK'
  BY <1>18 DEF LockToPop, PopSteps, Lock
<1>19. ASSUME Pop PROVE TypeOK'
  <2>1. m_buffers # <<>>
    BY <1>19, <1>b DEF Pop
  <2>2. Head(m_buffers) \in Bufs /\ Tail(m_buffers) \in Seq(Bufs)
    BY <2>1, HeadTailProperties
  <2>. QED
    BY <1>19, <2>2 DEF Pop, PopSteps
<1>20. ASSUME PopAgain PROVE TypeOK'
  BY <1>20 DEF PopAgain, PopSteps, Lock
<1>21. CASE UNCHANGED vars
  BY <1>21 DEF vars
<1>. QED
  BY <1>1, <1>2, <1>3, <1>4, <1>5, <1>6, <1>7, <1>8, <1>9, <1>10, <1>11, <1>12, <1>13,
     <1>14, <1>15, <1>16, <1>17, <1>18, <1>19, <1>20, <1>21
     DEF Next, LogStep, PushStep, Push, ReaderStep, TryPop

\* No step breaks SlotInv: fetch_add on m_write_index gives every producer a
\* slot of its own until the index is reset, and then no producer has a slot.
LEMMA SlotStep ==
  ASSUME TypeOK, QueueInv, [Next]_vars
  PROVE  SlotInv'
<1>. USE DEF SlotInv, SlotsExclusive, HasSlot, BufferOf, shared, reader, memory, local
<1>t. /\ m_write_index \in Nat /\ write_index \in [Producers -> Nat]
      /\ pc \in [Producers -> PushSteps] /\ at \in [Producers -> Bufs]
      /\ m_current_write_buffer \in Bufs /\ m_write_state \in [Bufs -> [Slots -> {0, 1}]]
  BY DEF TypeOK
<1>s. SlotInv
  BY DEF QueueInv
<1>w. SwitchInv
  BY DEF QueueInv
<1>1. ASSUME NEW p \in Producers, Log(p) PROVE SlotInv'
  BY <1>1, <1>t, <1>s DEF Log, Go
<1>2. ASSUME NEW p \in Producers, Claim(p) PROVE SlotInv'
  <2>1. CASE InBuffer(m_write_index)
    <3>1. m_write_index \in Slots
      BY <1>t, <2>1, QueueAssumption DEF InBuffer, Slots
    <3>. QED
      BY <1>2, <1>t, <1>s, <2>1, <3>1 DEF Claim, Go
  <2>2. CASE ~InBuffer(m_write_index)
    <3>1. \A q \in Producers : HasSlot(q)' => HasSlot(q) /\ q # p
      BY <1>2, <1>t, <2>2 DEF Claim, Go
    <3>2. \A i \in Slots : i >= m_write_index + 1 => i >= m_write_index
      BY <1>t DEF Slots
    <3>3. \A q \in Producers : HasSlot(q)' =>
            /\ write_index'[q] = write_index[q] /\ BufferOf(q)' = BufferOf(q)
            /\ write_index[q] < m_write_index + 1
      BY <1>2, <1>t, <1>s, <2>2, <3>1 DEF Claim, Go
    <3>4. SlotsExclusive'
      BY <1>2, <1>s, <3>1, <3>3 DEF Claim
    <3>. QED
      BY <1>2, <1>s, <3>2, <3>3, <3>4 DEF Claim
  <2>. QED
    BY <2>1, <2>2
<1>3. ASSUME NEW p \in Producers, Spin(p) PROVE SlotInv'
  BY <1>3, <1>t, <1>s DEF Spin, Go
<1>4. ASSUME NEW p \in Producers, Load(p) PROVE SlotInv'
  BY <1>4, <1>t, <1>s DEF Load, Go
<1>5. ASSUME NEW p \in Producers, Construct(p) PROVE SlotInv'
  BY <1>5, <1>t, <1>s DEF Construct, Go
<1>6. ASSUME NEW p \in Producers, Publish(p) PROVE SlotInv'
  <2>1. /\ write_index[p] \in Slots /\ write_index[p] < m_write_index
        /\ at[p] = m_current_write_buffer
        /\ \A q \in Producers \ {p} : HasSlot(q) => write_index[q] # write_index[p]
    BY <1>6, <1>s DEF Publish
  <2>2. \A q \in Producers : HasSlot(q)' => q # p /\ HasSlot(q)
    BY <1>6, <1>t DEF Publish, Go
  <2>3. \A q \in Producers : BufferOf(q)' = BufferOf(q) \/ q = p
    BY <1>6, <1>t DEF Publish, Go
  <2>4. \A i \in Slots : i # write_index[p] =>
          m_write_state'[m_current_write_buffer][i] = m_write_state[m_current_write_buffer][i]
    BY <1>6, <1>t, <2>1 DEF Publish
  <2>5. SlotsExclusive'
    BY <1>6, <1>s, <2>1, <2>2, <2>3, <2>4 DEF Publish
  <2>6. \A i \in Slots : i >= m_write_index => i # write_index[p]
    BY <1>t, <2>1 DEF Slots
  <2>. QED
    BY <1>6, <1>s, <2>2, <2>4, <2>5, <2>6 DEF Publish
<1>7. ASSUME NEW p \in Producers, Count(p) PROVE SlotInv'
  BY <1>7, <1>t, <1>s DEF Count, Go
<1>8. ASSUME NEW p \in Producers, CountFreed(p) PROVE SlotInv'
  BY <1>8, <1>t, <1>s DEF CountFreed, Go
<1>9. ASSUME NEW p \in Producers, SetUp(p) PROVE SlotInv'
  <2>1. \A q \in Producers : ~HasSlot(q)
    BY <1>9, <1>w DEF SetUp, SwitchInv, Switching
  <2>2. \A q \in Producers : ~HasSlot(q)'
    BY <1>9, <1>t, <2>1 DEF SetUp, Go
  <2>3. allocated + 1 \in Bufs /\ allocated + 1 > allocated
    BY <1>9, BufferArithmetic DEF SetUp, TypeOK, Bufs
  <2>4. \A i \in Slots : m_write_state'[m_current_write_buffer'][i] = 0
    BY <1>9, <1>w, <2>3 DEF SetUp, SwitchInv, Blank
  <2>. QED
    BY <2>2, <2>4
<1>10. ASSUME NEW p \in Producers, LockToEnqueue(p) PROVE SlotInv'
  BY <1>10, <1>t, <1>s DEF LockToEnqueue, Go
<1>11. ASSUME NEW p \in Producers, Enqueue(p) PROVE SlotInv'
  BY <1>11, <1>t, <1>s DEF Enqueue, Go
<1>12. ASSUME NEW p \in Producers, Reset(p) PROVE SlotInv'
  <2>1. \A q \in Producers : ~HasSlot(q)
    BY <1>12, <1>w DEF Reset, SwitchInv, Switching
  <2>2. \A q \in Producers : ~HasSlot(q)'
    BY <1>12, <1>t, <2>1 DEF Reset, Go
  <2>3. \A i \in Slots : m_write_state'[m_current_write_buffer'][i] = 0
    BY <1>12, <1>w DEF Reset, SwitchInv, Switching, Blank
  <2>. QED
    BY <2>2, <2>3
<1>13. ASSUME NEW p \in Producers, Unlock(p) PROVE SlotInv'
  BY <1>13, <1>t, <1>s DEF Unlock, Go
<1>14. ASSUME LockToLook PROVE SlotInv'
  BY <1>14, <1>s DEF LockToLook
<1>15. ASSUME Front PROVE SlotInv'
  BY <1>15, <1>s DEF Front
<1>16. ASSUME Take PROVE SlotInv'
  BY <1>16, <1>s DEF Take
<1>17. ASSUME NotYet PROVE SlotInv'
  BY <1>17, <1>s DEF NotYet
<1>18. ASSUME LockToPop PROVE SlotInv'
  BY <1>18, <1>s DEF LockToPop
<1>19. ASSUME Pop PROVE SlotInv'
  BY <1>19, <1>s DEF Pop
<1>20. ASSUME PopAgain PROVE SlotInv'
  BY <1>20, <1>s DEF PopAgain
<1>21. CASE UNCHANGED vars
  BY <1>21, <1>s DEF vars
<1>. QED
  BY <1>1, <1>2, <1>3, <1>4, <1>5, <1>6, <1>7, <1>8, <1>9, <1>10, <1>11, <1>12, <1>13,
     <1>14, <1>15, <1>16, <1>17, <1>18, <1>19, <1>20, <1>21
     DEF Next, LogStep, PushStep, Push, ReaderStep, TryPop

\* Sets of slots are finite, and only all the slots together are Size many.
LEMMA SubsetOfSlots ==
  ASSUME NEW S \in SUBSET Slots
  PROVE  /\ IsFiniteSet(S) /\ Cardinality(S) \in Nat
         /\ Cardinality(S) <= Size
         /\ Cardinality(S) = Size => S = Slots
<1>1. IsFiniteSet(Slots) /\ Cardinality(Slots) = Size
  BY FS_Interval, QueueAssumption DEF Slots
<1>. QED
  BY <1>1, FS_Subset, FS_CardinalityType

\* CountInv is about the stores, the counter and the producers that still have
\* to count; nothing else disturbs it.
LEMMA CountFrame ==
  ASSUME CountInv,
         UNCHANGED <<m_write_state, write_count, m_current_write_buffer>>,
         \A p \in Producers : pc'[p] = "count" <=> pc[p] = "count",
         \A p \in Producers : pc[p] = "count" => write_index'[p] = write_index[p] /\ at'[p] = at[p]
  PROVE  CountInv'
<1>1. Counted' = Counted
  BY DEF Counted
<1>. QED
  BY <1>1 DEF CountInv

\* No step breaks CountInv: Buffer::push counts after it publishes, and the count
\* of a freed buffer (CountFreed) only makes write_count fall behind.
LEMMA CountStep ==
  ASSUME TypeOK, QueueInv, [Next]_vars
  PROVE  CountInv'
<1>. USE DEF shared, reader, memory, local
<1>t. /\ write_index \in [Producers -> Nat] /\ write_count \in [Bufs -> Nat]
      /\ pc \in [Producers -> PushSteps] /\ at \in [Producers -> Bufs]
      /\ m_current_write_buffer \in Bufs /\ m_write_state \in [Bufs -> [Slots -> {0, 1}]]
  BY DEF TypeOK
<1>s. SlotsExclusive /\ CountInv /\ SwitchInv
  BY DEF QueueInv, SlotInv
<1>c. Counted \in SUBSET Slots /\ Counted' \in SUBSET Slots
  BY DEF Counted
<1>1. ASSUME NEW p \in Producers, Log(p) PROVE CountInv'
  BY <1>1, <1>t, <1>s, CountFrame DEF Log, Go
<1>2. ASSUME NEW p \in Producers, Claim(p) PROVE CountInv'
  BY <1>2, <1>t, <1>s, CountFrame DEF Claim, Go
<1>3. ASSUME NEW p \in Producers, Spin(p) PROVE CountInv'
  BY <1>3, <1>t, <1>s, CountFrame DEF Spin, Go
<1>4. ASSUME NEW p \in Producers, Load(p) PROVE CountInv'
  BY <1>4, <1>t, <1>s, CountFrame DEF Load, Go
<1>5. ASSUME NEW p \in Producers, Construct(p) PROVE CountInv'
  BY <1>5, <1>t, <1>s, CountFrame DEF Construct, Go
<1>6. ASSUME NEW p \in Producers, Publish(p) PROVE CountInv'
  <2>1. /\ write_index[p] \in Slots /\ at[p] = m_current_write_buffer
        /\ m_write_state[m_current_write_buffer][write_index[p]] = 0
    BY <1>6, <1>s DEF Publish, SlotsExclusive, HasSlot, BufferOf
  <2>2. \A q \in Producers : pc'[q] = "count" <=> pc[q] = "count" \/ q = p
    BY <1>6, <1>t DEF Publish, Go
  <2>3. \A i \in Slots : m_write_state'[m_current_write_buffer][i] =
          IF i = write_index[p] THEN 1 ELSE m_write_state[m_current_write_buffer][i]
    BY <1>6, <1>t, <2>1 DEF Publish
  <2>4. Counted' = Counted
    BY <1>6, <2>1, <2>2, <2>3 DEF Publish, Counted
  <2>5. \A q \in Producers : pc[q] = "count" => write_index[q] # write_index[p]
    BY <1>s, <2>1 DEF CountInv
  <2>. QED
    BY <1>6, <1>s, <2>1, <2>2, <2>3, <2>4, <2>5 DEF Publish, CountInv
<1>7. ASSUME NEW p \in Producers, Count(p) PROVE CountInv'
  <2>1. /\ write_index[p] \in Slots /\ at[p] = m_current_write_buffer
        /\ m_write_state[m_current_write_buffer][write_index[p]] = 1
        /\ \A q \in Producers \ {p} : pc[q] = "count" => write_index[q] # write_index[p]
    BY <1>7, <1>s DEF Count, CountInv
  <2>2. \A q \in Producers : pc'[q] = "count" <=> pc[q] = "count" /\ q # p
    BY <1>7, <1>t DEF Count, Go
  <2>3. Counted' = Counted \cup {write_index[p]} /\ write_index[p] \notin Counted
    BY <1>7, <2>1, <2>2 DEF Count, Counted
  <2>4. Cardinality(Counted') = Cardinality(Counted) + 1 /\ Cardinality(Counted) \in Nat
    BY <1>c, <2>3, SubsetOfSlots, FS_AddElement
  <2>5. write_count'[m_current_write_buffer'] = write_count[m_current_write_buffer] + 1
    BY <1>7, <1>t, <2>1 DEF Count
  <2>6. write_count'[m_current_write_buffer'] <= Cardinality(Counted')
    BY <1>t, <1>s, <2>4, <2>5 DEF CountInv
  <2>. QED
    BY <1>7, <1>s, <2>2, <2>6 DEF Count, CountInv
<1>8. ASSUME NEW p \in Producers, CountFreed(p) PROVE CountInv'
  <2>1. \A q \in Producers : pc'[q] = "count" => pc[q] = "count"
    BY <1>8, <1>t DEF CountFreed, Go
  <2>2. Counted \subseteq Counted'
    BY <1>8, <2>1 DEF CountFreed, Counted
  <2>3. Cardinality(Counted) <= Cardinality(Counted')
    BY <1>c, <2>2, SubsetOfSlots, FS_Subset
  <2>4. Cardinality(Counted) \in Nat /\ Cardinality(Counted') \in Nat
    BY <1>c, SubsetOfSlots
  <2>5. write_count'[m_current_write_buffer'] <= Cardinality(Counted')
    BY <1>8, <1>t, <1>s, <2>3, <2>4 DEF CountFreed, CountInv
  <2>. QED
    BY <1>8, <1>s, <2>1, <2>5 DEF CountFreed, CountInv
<1>9. ASSUME NEW p \in Producers, SetUp(p) PROVE CountInv'
  <2>1. \A q \in Producers : pc'[q] # "count"
    BY <1>9, <1>t, <1>s DEF SetUp, Go, SwitchInv, Switching
  <2>2. allocated + 1 \in Bufs /\ allocated + 1 > allocated
    BY <1>9, BufferArithmetic DEF SetUp, TypeOK, Bufs
  <2>3. write_count'[m_current_write_buffer'] = 0
    BY <1>9, <1>s, <2>2 DEF SetUp, SwitchInv, Blank
  <2>4. Cardinality(Counted') \in Nat
    BY <1>c, SubsetOfSlots
  <2>. QED
    BY <2>1, <2>3, <2>4 DEF CountInv
<1>10. ASSUME NEW p \in Producers, LockToEnqueue(p) PROVE CountInv'
  BY <1>10, <1>t, <1>s, CountFrame DEF LockToEnqueue, Go
<1>11. ASSUME NEW p \in Producers, Enqueue(p) PROVE CountInv'
  BY <1>11, <1>t, <1>s, CountFrame DEF Enqueue, Go
<1>12. ASSUME NEW p \in Producers, Reset(p) PROVE CountInv'
  BY <1>12, <1>t, <1>s, CountFrame DEF Reset, Go
<1>13. ASSUME NEW p \in Producers, Unlock(p) PROVE CountInv'
  BY <1>13, <1>t, <1>s, CountFrame DEF Unlock, Go
<1>14. ASSUME LockToLook PROVE CountInv'
  BY <1>14, <1>s, CountFrame DEF LockToLook
<1>15. ASSUME Front PROVE CountInv'
  BY <1>15, <1>s, CountFrame DEF Front
<1>16. ASSUME Take PROVE CountInv'
  BY <1>16, <1>s, CountFrame DEF Take
<1>17. ASSUME NotYet PROVE CountInv'
  BY <1>17, <1>s, CountFrame DEF NotYet
<1>18. ASSUME LockToPop PROVE CountInv'
  BY <1>18, <1>s, CountFrame DEF LockToPop
<1>19. ASSUME Pop PROVE CountInv'
  BY <1>19, <1>s, CountFrame DEF Pop
<1>20. ASSUME PopAgain PROVE CountInv'
  BY <1>20, <1>s, CountFrame DEF PopAgain
<1>21. CASE UNCHANGED vars
  BY <1>21, <1>s, CountFrame DEF vars
<1>. QED
  BY <1>1, <1>2, <1>3, <1>4, <1>5, <1>6, <1>7, <1>8, <1>9, <1>10, <1>11, <1>12, <1>13,
     <1>14, <1>15, <1>16, <1>17, <1>18, <1>19, <1>20, <1>21
     DEF Next, LogStep, PushStep, Push, ReaderStep, TryPop

\* A step that neither stores, counts, switches nor resets keeps SwitchInv.
LEMMA SwitchFrame ==
  ASSUME SwitchInv,
         UNCHANGED <<m_write_state, write_count, m_current_write_buffer, allocated, m_write_index>>,
         \A p \in Producers :
           /\ HasSlot(p)' => HasSlot(p)
           /\ pc'[p] = "count" => pc[p] = "count"
           /\ Switching(p)' => /\ Switching(p) /\ at'[p] = at[p]
                               /\ (pc'[p] = "setup" <=> pc[p] = "setup")
  PROVE  SwitchInv'
<1>1. \A b \in Bufs : Blank(b) => Blank(b)'
  BY DEF Blank
<1>2. Blank(allocated) => Blank(allocated)'
  BY DEF Blank
<1>3. ASSUME NEW p \in Producers, Switching(p)'
      PROVE  /\ m_write_index' >= Size
             /\ \A q \in Producers : ~HasSlot(q)' /\ pc'[q] # "count" /\ (Switching(q)' => q = p)
             /\ IF pc'[p] = "setup"
                THEN \A i \in Slots : m_write_state'[m_current_write_buffer'][i] = 1
                ELSE at'[p] = allocated' /\ Blank(allocated)'
  <2>1. /\ m_write_index >= Size
        /\ \A q \in Producers : ~HasSlot(q) /\ pc[q] # "count" /\ (Switching(q) => q = p)
        /\ IF pc[p] = "setup"
           THEN \A i \in Slots : m_write_state[m_current_write_buffer][i] = 1
           ELSE at[p] = allocated /\ Blank(allocated)
    BY <1>3 DEF SwitchInv, Switching
  <2>. QED
    BY <1>2, <1>3, <2>1 DEF HasSlot, Switching
<1>. QED
  BY <1>1, <1>3 DEF SwitchInv, HasSlot, Switching

\* No step breaks SwitchInv.  The step that matters is the fetch_add that makes
\* write_count reach Size: then every slot is counted, so nobody holds a slot,
\* nobody is about to count, and nobody else sets up a buffer.
LEMMA SwitchStep ==
  ASSUME TypeOK, QueueInv, [Next]_vars
  PROVE  SwitchInv'
<1>. USE DEF shared, reader, memory, local
<1>t. /\ write_index \in [Producers -> Nat] /\ write_count \in [Bufs -> Nat]
      /\ pc \in [Producers -> PushSteps] /\ at \in [Producers -> Bufs]
      /\ m_current_write_buffer \in Bufs /\ m_write_state \in [Bufs -> [Slots -> {0, 1}]]
      /\ m_write_index \in Nat /\ allocated \in Bufs
  BY DEF TypeOK
<1>s. SlotInv /\ CountInv /\ SwitchInv
  BY DEF QueueInv
<1>z. Size \in Nat \ {0} /\ MaxBuffers \in Nat
  BY QueueAssumption
<1>1. ASSUME NEW p \in Producers, Log(p) PROVE SwitchInv'
  BY <1>1, <1>t, <1>s, SwitchFrame DEF Log, Go, HasSlot, Switching
<1>2. ASSUME NEW p \in Producers, Claim(p) PROVE SwitchInv'
  <2>1. CASE InBuffer(m_write_index)
    <3>1. \A q \in Producers : ~Switching(q)
      BY <1>t, <1>s, <1>z, <2>1 DEF SwitchInv, InBuffer
    <3>2. \A q \in Producers : ~Switching(q)'
      BY <1>2, <1>t, <2>1, <3>1 DEF Claim, Go, Switching
    <3>. QED
      BY <1>2, <1>s, <3>2 DEF Claim, SwitchInv, Blank
  <2>2. CASE ~InBuffer(m_write_index)
    <3>1. \A q \in Producers : /\ HasSlot(q)' => HasSlot(q)
                               /\ pc'[q] = "count" => pc[q] = "count"
                               /\ Switching(q)' => Switching(q)
                               /\ pc'[q] = "setup" <=> pc[q] = "setup"
      BY <1>2, <1>t, <2>2 DEF Claim, Go, Switching, HasSlot
    <3>2. m_write_index' >= Size
      BY <1>2, <1>t, <1>z, <2>2 DEF Claim, InBuffer
    <3>. QED
      BY <1>2, <1>s, <3>1, <3>2 DEF Claim, SwitchInv, Blank
  <2>. QED
    BY <2>1, <2>2
<1>3. ASSUME NEW p \in Producers, Spin(p) PROVE SwitchInv'
  BY <1>3, <1>t, <1>s, SwitchFrame DEF Spin, Go, HasSlot, Switching
<1>4. ASSUME NEW p \in Producers, Load(p) PROVE SwitchInv'
  <2>1. \A q \in Producers : ~Switching(q)
    BY <1>4, <1>s DEF Load, SwitchInv, HasSlot
  <2>2. \A q \in Producers : ~Switching(q)'
    BY <1>4, <1>t, <2>1 DEF Load, Go, Switching
  <2>. QED
    BY <1>4, <1>s, <2>2 DEF Load, SwitchInv, Blank
<1>5. ASSUME NEW p \in Producers, Construct(p) PROVE SwitchInv'
  <2>1. \A q \in Producers : ~Switching(q)
    BY <1>5, <1>s DEF Construct, SwitchInv, HasSlot
  <2>2. \A q \in Producers : ~Switching(q)'
    BY <1>5, <1>t, <2>1 DEF Construct, Go, Switching
  <2>. QED
    BY <1>5, <1>s, <2>2 DEF Construct, SwitchInv, Blank
<1>6. ASSUME NEW p \in Producers, Publish(p) PROVE SwitchInv'
  <2>1. \A q \in Producers : ~Switching(q)
    BY <1>6, <1>s DEF Publish, SwitchInv, HasSlot
  <2>2. \A q \in Producers : ~Switching(q)'
    BY <1>6, <1>t, <2>1 DEF Publish, Go, Switching
  <2>3. at[p] = allocated
    BY <1>6, <1>s DEF Publish, SwitchInv, SlotInv, SlotsExclusive, HasSlot, BufferOf
  <2>4. \A b \in Bufs : b > allocated => Blank(b)'
    BY <1>6, <1>t, <1>s, <2>3 DEF Publish, SwitchInv, Blank, Bufs
  <2>. QED
    BY <1>6, <1>s, <2>2, <2>4 DEF Publish, SwitchInv
<1>7. ASSUME NEW p \in Producers, Count(p) PROVE SwitchInv'
  <2>1. \A q \in Producers : ~Switching(q)
    BY <1>7, <1>s DEF Count, SwitchInv
  <2>2. at[p] = allocated
    BY <1>7, <1>s DEF Count, SwitchInv, CountInv
  <2>3. \A b \in Bufs : b > allocated => Blank(b)'
    BY <1>7, <1>t, <1>s, <2>2 DEF Count, SwitchInv, Blank, Bufs
  <2>4. CASE ~IsFull(write_count[at[p]] + 1)
    <3>1. \A q \in Producers : ~Switching(q)'
      BY <1>7, <1>t, <2>1, <2>4 DEF Count, Go, Switching
    <3>. QED
      BY <1>7, <1>s, <2>3, <3>1 DEF Count, SwitchInv
  <2>5. CASE IsFull(write_count[at[p]] + 1)
    <3>1. Counted' = Slots
      <4>1. CountInv'
        BY CountStep
      <4>2. write_count'[m_current_write_buffer'] = Size
        BY <1>7, <1>t, <1>s, <2>2, <2>5 DEF Count, IsFull, SwitchInv
      <4>3. Counted' \in SUBSET Slots
        BY DEF Counted
      <4>. QED
        BY <1>z, <4>1, <4>2, <4>3, SubsetOfSlots DEF CountInv
    <3>2. \A i \in Slots : m_write_state[m_current_write_buffer][i] = 1
      BY <1>7, <3>1 DEF Count, Counted
    <3>3. \A q \in Producers : ~HasSlot(q)
      BY <1>s, <3>2 DEF SlotInv, SlotsExclusive, BufferOf, HasSlot
    <3>4. m_write_index >= Size
      <4>1. CASE m_write_index < Size
        <5>1. m_write_index \in Slots /\ m_write_index >= m_write_index
          BY <1>t, <1>z, <4>1 DEF Slots
        <5>. QED
          BY <1>s, <3>2, <5>1 DEF SlotInv
      <4>. QED
        BY <1>t, <1>z, <4>1
    <3>5. \A q \in Producers : pc'[q] # "count"
      <4>1. \A q \in Producers : pc'[q] = "count" => write_index'[q] \in Slots
        BY <1>7, <1>t, <1>s DEF Count, Go, CountInv
      <4>. QED
        BY <3>1, <4>1 DEF Counted
    <3>6. \A q \in Producers : ~HasSlot(q)' /\ (Switching(q)' <=> q = p) /\ pc'[p] = "setup"
      BY <1>7, <1>t, <2>1, <2>5, <3>3 DEF Count, Go, HasSlot, Switching
    <3>. QED
      BY <1>7, <1>s, <2>3, <3>2, <3>4, <3>5, <3>6 DEF Count, SwitchInv
  <2>. QED
    BY <2>4, <2>5
<1>8. ASSUME NEW p \in Producers, CountFreed(p) PROVE SwitchInv'
  <2>1. \A q \in Producers : ~Switching(q)
    BY <1>8, <1>s DEF CountFreed, SwitchInv, HasSlot
  <2>2. \A q \in Producers : ~Switching(q)'
    BY <1>8, <1>t, <2>1 DEF CountFreed, Go, Switching
  <2>. QED
    BY <1>8, <1>s, <2>2 DEF CountFreed, SwitchInv, Blank
<1>9. ASSUME NEW p \in Producers, SetUp(p) PROVE SwitchInv'
  <2>1. allocated + 1 \in Bufs /\ allocated + 1 > allocated
    BY <1>9, BufferArithmetic DEF SetUp, TypeOK, Bufs
  <2>2. \A b \in Bufs : b > allocated + 1 => b > allocated
    BY <1>t DEF Bufs
  <2>3. \A b \in Bufs : b > allocated => Blank(b)'
    BY <1>9, <1>s DEF SetUp, SwitchInv, Blank
  <2>4. /\ m_write_index >= Size
        /\ \A q \in Producers : ~HasSlot(q) /\ pc[q] # "count" /\ (Switching(q) => q = p)
    BY <1>9, <1>s DEF SetUp, SwitchInv, Switching
  <2>5. \A q \in Producers : ~HasSlot(q)' /\ pc'[q] # "count" /\ (Switching(q)' => q = p)
    BY <1>9, <1>t, <2>4 DEF SetUp, Go, HasSlot, Switching
  <2>6. pc'[p] = "lock" /\ at'[p] = allocated + 1
    BY <1>9, <1>t DEF SetUp, Go
  <2>. QED
    BY <1>9, <2>1, <2>2, <2>3, <2>4, <2>5, <2>6 DEF SetUp, SwitchInv
<1>10. ASSUME NEW p \in Producers, LockToEnqueue(p) PROVE SwitchInv'
  BY <1>10, <1>t, <1>s, SwitchFrame DEF LockToEnqueue, Go, HasSlot, Switching
<1>11. ASSUME NEW p \in Producers, Enqueue(p) PROVE SwitchInv'
  BY <1>11, <1>t, <1>s, SwitchFrame DEF Enqueue, Go, HasSlot, Switching
<1>12. ASSUME NEW p \in Producers, Reset(p) PROVE SwitchInv'
  <2>1. \A q \in Producers : Switching(q) => q = p
    BY <1>12, <1>s DEF Reset, SwitchInv, Switching
  <2>2. \A q \in Producers : ~Switching(q)'
    BY <1>12, <1>t, <2>1 DEF Reset, Go, Switching
  <2>. QED
    BY <1>12, <1>s, <2>2 DEF Reset, SwitchInv, Blank
<1>13. ASSUME NEW p \in Producers, Unlock(p) PROVE SwitchInv'
  BY <1>13, <1>t, <1>s, SwitchFrame DEF Unlock, Go, HasSlot, Switching
<1>14. ASSUME LockToLook PROVE SwitchInv'
  BY <1>14, <1>s, SwitchFrame DEF LockToLook, HasSlot, Switching
<1>15. ASSUME Front PROVE SwitchInv'
  BY <1>15, <1>s, SwitchFrame DEF Front, HasSlot, Switching
<1>16. ASSUME Take PROVE SwitchInv'
  BY <1>16, <1>s, SwitchFrame DEF Take, HasSlot, Switching
<1>17. ASSUME NotYet PROVE SwitchInv'
  BY <1>17, <1>s, SwitchFrame DEF NotYet, HasSlot, Switching
<1>18. ASSUME LockToPop PROVE SwitchInv'
  BY <1>18, <1>s, SwitchFrame DEF LockToPop, HasSlot, Switching
<1>19. ASSUME Pop PROVE SwitchInv'
  BY <1>19, <1>s, SwitchFrame DEF Pop, HasSlot, Switching
<1>20. ASSUME PopAgain PROVE SwitchInv'
  BY <1>20, <1>s, SwitchFrame DEF PopAgain, HasSlot, Switching
<1>21. CASE UNCHANGED vars
  BY <1>21, <1>s, SwitchFrame DEF vars, HasSlot, Switching
<1>. QED
  BY <1>1, <1>2, <1>3, <1>4, <1>5, <1>6, <1>7, <1>8, <1>9, <1>10, <1>11, <1>12, <1>13,
     <1>14, <1>15, <1>16, <1>17, <1>18, <1>19, <1>20, <1>21
     DEF Next, LogStep, PushStep, Push, ReaderStep, TryPop

\* FifoInv is about m_buffers, freed and taken; nothing else disturbs it.
LEMMA FifoFrame ==
  ASSUME NEW k \in Nat, FifoInv(k),
         UNCHANGED <<m_buffers, freed, taken, m_read_index, allocated>>,
         Enqueueing' <=> Enqueueing,
         rpc' \in {"poplock", "pop"} <=> rpc \in {"poplock", "pop"}
  PROVE  FifoInv(k)'
BY DEF FifoInv

\* What the reader takes out of a slot is a line or nothing.
LEMMA SlotTyped ==
  ASSUME TypeOK, m_current_read_buffer # NoBuffer
  PROVE  slot[m_current_read_buffer][m_read_index] \in Lines \cup {None}
BY DEF TypeOK

\* No step breaks FifoInv: setup_next_write_buffer enqueues the newest buffer,
\* try_pop frees the oldest after its last slot.
LEMMA FifoStep ==
  ASSUME TypeOK, QueueInv, [Next]_vars
  PROVE  (\E k \in 0 .. MaxBuffers : FifoInv(k))'
<1>. USE DEF shared, reader, memory, local
<1>y. /\ pc \in [Producers -> PushSteps] /\ at \in [Producers -> Bufs]
      /\ m_buffers \in Seq(Bufs) /\ allocated \in Bufs
      /\ m_read_index \in Slots
      /\ freed \subseteq Bufs /\ taken \in Seq(Lines \cup {None})
  BY DEF TypeOK
<1>t. /\ pc \in [Producers -> PushSteps] /\ at \in [Producers -> Bufs]
      /\ m_buffers \in Seq(Bufs) /\ allocated \in Bufs /\ allocated \in Nat
      /\ m_read_index \in Slots /\ m_read_index \in Nat
      /\ freed \subseteq Bufs /\ taken \in Seq(Lines \cup {None})
  BY <1>y, QueueAssumption DEF Slots, Bufs
<1>s. SwitchInv /\ ReaderInv
  BY DEF QueueInv
<1>j. PICK j \in 0 .. MaxBuffers : FifoInv(j)
  BY DEF QueueInv
<1>n. j \in Nat /\ j * Size \in Nat /\ Len(m_buffers) \in Nat
  BY <1>t, QueueAssumption, LenProperties
<1>1. ASSUME NEW p \in Producers, Log(p) 
      PROVE  (\E k \in 0 .. MaxBuffers : FifoInv(k))'
  BY <1>1, <1>t, <1>j, <1>n, FifoFrame DEF Log, Go, Enqueueing
<1>2. ASSUME NEW p \in Producers, Claim(p) 
      PROVE  (\E k \in 0 .. MaxBuffers : FifoInv(k))'
  BY <1>2, <1>t, <1>j, <1>n, FifoFrame DEF Claim, Go, Enqueueing
<1>3. ASSUME NEW p \in Producers, Spin(p) 
      PROVE  (\E k \in 0 .. MaxBuffers : FifoInv(k))'
  BY <1>3, <1>t, <1>j, <1>n, FifoFrame DEF Spin, Go, Enqueueing
<1>4. ASSUME NEW p \in Producers, Load(p) 
      PROVE  (\E k \in 0 .. MaxBuffers : FifoInv(k))'
  BY <1>4, <1>t, <1>j, <1>n, FifoFrame DEF Load, Go, Enqueueing
<1>5. ASSUME NEW p \in Producers, Construct(p) 
      PROVE  (\E k \in 0 .. MaxBuffers : FifoInv(k))'
  BY <1>5, <1>t, <1>j, <1>n, FifoFrame DEF Construct, Go, Enqueueing
<1>6. ASSUME NEW p \in Producers, Publish(p) 
      PROVE  (\E k \in 0 .. MaxBuffers : FifoInv(k))'
  BY <1>6, <1>t, <1>j, <1>n, FifoFrame DEF Publish, Go, Enqueueing
<1>7. ASSUME NEW p \in Producers, Count(p) 
      PROVE  (\E k \in 0 .. MaxBuffers : FifoInv(k))'
  BY <1>7, <1>t, <1>j, <1>n, FifoFrame DEF Count, Go, Enqueueing
<1>8. ASSUME NEW p \in Producers, CountFreed(p) 
      PROVE  (\E k \in 0 .. MaxBuffers : FifoInv(k))'
  BY <1>8, <1>t, <1>j, <1>n, FifoFrame DEF CountFreed, Go, Enqueueing
<1>9. ASSUME NEW p \in Producers, SetUp(p) 
      PROVE  (\E k \in 0 .. MaxBuffers : FifoInv(k))'
  <2>1. ~Enqueueing
    BY <1>9, <1>s DEF SetUp, SwitchInv, Switching, Enqueueing
  <2>2. Enqueueing'
    BY <1>9, <1>t DEF SetUp, Go, Enqueueing
  <2>3. j + Len(m_buffers) = allocated + 1 - 1
    BY <1>t, <1>j, <1>n, <2>1 DEF FifoInv
  <2>4. j + Len(m_buffers') = IF Enqueueing' THEN allocated' - 1 ELSE allocated'
    <3>1. m_buffers' = m_buffers /\ allocated' = allocated + 1
      BY <1>9 DEF SetUp
    <3>. QED
      BY <1>t, <1>n, <2>2, <2>3, <3>1
  <2>5. FifoInv(j)'
    BY <1>9, <1>j, <2>4 DEF SetUp, FifoInv
  <2>. QED
    BY <2>5
<1>10. ASSUME NEW p \in Producers, LockToEnqueue(p) 
      PROVE  (\E k \in 0 .. MaxBuffers : FifoInv(k))'
  BY <1>10, <1>t, <1>j, <1>n, FifoFrame DEF LockToEnqueue, Go, Enqueueing
<1>11. ASSUME NEW p \in Producers, Enqueue(p) 
      PROVE  (\E k \in 0 .. MaxBuffers : FifoInv(k))'
  <2>1. Enqueueing /\ at[p] = allocated
    BY <1>11, <1>s DEF Enqueue, SwitchInv, Switching, Enqueueing
  <2>2. ~Enqueueing'
    BY <1>11, <1>t, <1>s DEF Enqueue, Go, SwitchInv, Switching, Enqueueing
  <2>3. j + Len(m_buffers) = allocated - 1
    BY <1>j, <2>1 DEF FifoInv
  <2>4. /\ Len(m_buffers') = Len(m_buffers) + 1
        /\ DOMAIN m_buffers' = 1 .. Len(m_buffers) + 1
        /\ \A i \in 1 .. Len(m_buffers) : m_buffers'[i] = m_buffers[i]
        /\ m_buffers'[Len(m_buffers) + 1] = allocated
    BY <1>11, <1>t, <2>1, AppendProperties, LenProperties DEF Enqueue
  <2>5. \A i \in DOMAIN m_buffers' : m_buffers'[i] = j + i
    <3>1. \A i \in 1 .. Len(m_buffers) : m_buffers[i] = j + i
      BY <1>t, <1>j, LenProperties DEF FifoInv
    <3>2. \A i \in DOMAIN m_buffers' : i \in 1 .. Len(m_buffers) \/ i = Len(m_buffers) + 1
      BY <1>n, <2>4
    <3>3. allocated = j + (Len(m_buffers) + 1)
      BY <1>t, <1>n, <2>3
    <3>. QED
      BY <2>4, <3>1, <3>2, <3>3
  <2>6. j + Len(m_buffers') = allocated
    BY <1>t, <1>n, <2>3, <2>4
  <2>. QED
    BY <1>11, <1>j, <2>2, <2>5, <2>6 DEF Enqueue, FifoInv
<1>12. ASSUME NEW p \in Producers, Reset(p) 
      PROVE  (\E k \in 0 .. MaxBuffers : FifoInv(k))'
  BY <1>12, <1>t, <1>j, <1>n, FifoFrame DEF Reset, Go, Enqueueing
<1>13. ASSUME NEW p \in Producers, Unlock(p) 
      PROVE  (\E k \in 0 .. MaxBuffers : FifoInv(k))'
  BY <1>13, <1>t, <1>j, <1>n, FifoFrame DEF Unlock, Go, Enqueueing
<1>14. ASSUME LockToLook 
      PROVE  (\E k \in 0 .. MaxBuffers : FifoInv(k))'
  BY <1>14, <1>j, <1>n, FifoFrame DEF LockToLook, Enqueueing
<1>15. ASSUME Front 
      PROVE  (\E k \in 0 .. MaxBuffers : FifoInv(k))'
  BY <1>15, <1>j, <1>n, FifoFrame DEF Front, Enqueueing
<1>16. ASSUME Take 
      PROVE  (\E k \in 0 .. MaxBuffers : FifoInv(k))'
  <2>1. Len(taken') = Len(taken) + 1
    BY <1>16, <1>t, AppendProperties, SlotTyped DEF Take
  <2>2. rpc \notin {"poplock", "pop"} /\ Len(taken) = j * Size + m_read_index
    BY <1>16, <1>j, <1>n, <1>t DEF Take, FifoInv
  <2>3. Len(taken') = j * Size + m_read_index' + (IF rpc' \in {"poplock", "pop"} THEN Size ELSE 0)
    BY <1>16, <1>n, <1>t, <2>1, <2>2, QueueAssumption DEF Take, LastSlot
  <2>4. Enqueueing' <=> Enqueueing
    BY <1>16 DEF Take, Enqueueing
  <2>. QED
    BY <1>16, <1>j, <2>3, <2>4 DEF Take, FifoInv
<1>17. ASSUME NotYet 
      PROVE  (\E k \in 0 .. MaxBuffers : FifoInv(k))'
  BY <1>17, <1>j, <1>n, FifoFrame DEF NotYet, Enqueueing
<1>18. ASSUME LockToPop 
      PROVE  (\E k \in 0 .. MaxBuffers : FifoInv(k))'
  BY <1>18, <1>j, <1>n, FifoFrame DEF LockToPop, Enqueueing
<1>19. ASSUME Pop 
      PROVE  (\E k \in 0 .. MaxBuffers : FifoInv(k))'
  <2>1. m_buffers # <<>> /\ m_read_index = 0
    BY <1>19, <1>s DEF Pop, ReaderInv
  <2>2. /\ Len(m_buffers') = Len(m_buffers) - 1
        /\ DOMAIN m_buffers = 1 .. Len(m_buffers) /\ DOMAIN m_buffers' = 1 .. Len(m_buffers) - 1
        /\ \A i \in 1 .. Len(m_buffers) - 1 : m_buffers'[i] = m_buffers[i + 1]
        /\ Head(m_buffers) = m_buffers[1] /\ Len(m_buffers) >= 1
    <3>1. Tail(m_buffers) \in Seq(Bufs) /\ Len(m_buffers) # 0
      BY <1>t, <2>1, HeadTailProperties, EmptySeq
    <3>. QED
      BY <1>19, <1>n, <1>t, <2>1, <3>1, HeadTailProperties, LenProperties DEF Pop
  <2>3. Head(m_buffers) = j + 1
    BY <1>j, <1>n, <2>2 DEF FifoInv
  <2>4. j + 1 \in 0 .. MaxBuffers
    BY <1>n, <1>t, <2>1, <2>3, HeadTailProperties, QueueAssumption DEF Bufs
  <2>5. freed' = 1 .. j + 1
    BY <1>19, <1>j, <1>n, <2>3 DEF Pop, FifoInv
  <2>6. \A i \in DOMAIN m_buffers' : m_buffers'[i] = (j + 1) + i
    <3>1. \A i \in 1 .. Len(m_buffers) : m_buffers[i] = j + i
      BY <1>j, <2>2 DEF FifoInv
    <3>2. \A i \in 1 .. Len(m_buffers) - 1 : i + 1 \in 1 .. Len(m_buffers) /\ j + (i + 1) = (j + 1) + i
      BY <1>n
    <3>. QED
      BY <2>2, <3>1, <3>2
  <2>7. (j + 1) + Len(m_buffers') = IF Enqueueing' THEN allocated' - 1 ELSE allocated'
    <3>1. Enqueueing' <=> Enqueueing
      BY <1>19 DEF Pop, Enqueueing
    <3>2. (j + 1) + Len(m_buffers') = j + Len(m_buffers)
      BY <1>n, <2>2
    <3>. QED
      BY <1>19, <1>j, <3>1, <3>2 DEF Pop, FifoInv
  <2>8. Len(taken') = (j + 1) * Size + m_read_index' + (IF rpc' \in {"poplock", "pop"} THEN Size ELSE 0)
    <3>1. (j + 1) * Size = j * Size + Size
      BY <1>n, QueueAssumption
    <3>2. Len(taken) = j * Size + Size
      BY <1>19, <1>j, <1>n, <2>1, QueueAssumption DEF Pop, FifoInv
    <3>. QED
      BY <1>19, <1>n, <2>1, <3>1, <3>2, QueueAssumption DEF Pop
  <2>. QED
    BY <2>4, <2>5, <2>6, <2>7, <2>8 DEF FifoInv
<1>20. ASSUME PopAgain 
      PROVE  (\E k \in 0 .. MaxBuffers : FifoInv(k))'
  BY <1>20, <1>j, <1>n, FifoFrame DEF PopAgain, Enqueueing
<1>21. CASE UNCHANGED vars
  BY <1>21, <1>j, <1>n, FifoFrame DEF vars, Enqueueing
<1>. QED
  BY <1>1, <1>2, <1>3, <1>4, <1>5, <1>6, <1>7, <1>8, <1>9, <1>10, <1>11, <1>12, <1>13,
     <1>14, <1>15, <1>16, <1>17, <1>18, <1>19, <1>20, <1>21
     DEF Next, LogStep, PushStep, Push, ReaderStep, TryPop

\* No step breaks ReaderInv: producers only append to m_buffers, so the reader's
\* buffer stays its front.
LEMMA ReaderStepInv ==
  ASSUME TypeOK, QueueInv, [Next]_vars
  PROVE  ReaderInv'
<1>. USE DEF shared, reader, memory, local, NoBuffer
<1>t. /\ m_buffers \in Seq(Bufs) /\ at \in [Producers -> Bufs]
      /\ m_current_read_buffer \in Bufs \cup {NoBuffer}
  BY DEF TypeOK
<1>r. ReaderInv
  BY DEF QueueInv
<1>1. ASSUME NEW p \in Producers, Log(p) PROVE ReaderInv'
  BY <1>1, <1>r DEF Log, ReaderInv
<1>2. ASSUME NEW p \in Producers, Claim(p) PROVE ReaderInv'
  BY <1>2, <1>r DEF Claim, ReaderInv
<1>3. ASSUME NEW p \in Producers, Spin(p) PROVE ReaderInv'
  BY <1>3, <1>r DEF Spin, ReaderInv
<1>4. ASSUME NEW p \in Producers, Load(p) PROVE ReaderInv'
  BY <1>4, <1>r DEF Load, ReaderInv
<1>5. ASSUME NEW p \in Producers, Construct(p) PROVE ReaderInv'
  BY <1>5, <1>r DEF Construct, ReaderInv
<1>6. ASSUME NEW p \in Producers, Publish(p) PROVE ReaderInv'
  BY <1>6, <1>r DEF Publish, ReaderInv
<1>7. ASSUME NEW p \in Producers, Count(p) PROVE ReaderInv'
  BY <1>7, <1>r DEF Count, ReaderInv
<1>8. ASSUME NEW p \in Producers, CountFreed(p) PROVE ReaderInv'
  BY <1>8, <1>r DEF CountFreed, ReaderInv
<1>9. ASSUME NEW p \in Producers, SetUp(p) PROVE ReaderInv'
  BY <1>9, <1>r DEF SetUp, ReaderInv
<1>10. ASSUME NEW p \in Producers, LockToEnqueue(p) PROVE ReaderInv'
  BY <1>10, <1>r DEF LockToEnqueue, ReaderInv
<1>11. ASSUME NEW p \in Producers, Enqueue(p) PROVE ReaderInv'
  <2>1. m_buffers' # <<>> /\ (m_buffers # <<>> => Head(m_buffers') = Head(m_buffers))
    BY <1>11, <1>t, AppendProperties, HeadTailAppend DEF Enqueue
  <2>. QED
    BY <1>11, <1>r, <2>1 DEF Enqueue, ReaderInv
<1>12. ASSUME NEW p \in Producers, Reset(p) PROVE ReaderInv'
  BY <1>12, <1>r DEF Reset, ReaderInv
<1>13. ASSUME NEW p \in Producers, Unlock(p) PROVE ReaderInv'
  BY <1>13, <1>r DEF Unlock, ReaderInv
<1>14. ASSUME LockToLook PROVE ReaderInv'
  BY <1>14, <1>r DEF LockToLook, ReaderInv
<1>15. ASSUME Front PROVE ReaderInv'
  BY <1>15, <1>r DEF Front, ReaderInv
<1>16. ASSUME Take PROVE ReaderInv'
  BY <1>16, <1>r DEF Take, ReaderInv
<1>17. ASSUME NotYet PROVE ReaderInv'
  BY <1>17, <1>r DEF NotYet, ReaderInv
<1>18. ASSUME LockToPop PROVE ReaderInv'
  BY <1>18, <1>r DEF LockToPop, ReaderInv
<1>19. ASSUME Pop PROVE ReaderInv'
  BY <1>19, <1>r DEF Pop, ReaderInv
<1>20. ASSUME PopAgain PROVE ReaderInv'
  BY <1>20, <1>r DEF PopAgain, ReaderInv
<1>21. CASE UNCHANGED vars
  BY <1>21, <1>r DEF vars, ReaderInv
<1>. QED
  BY <1>1, <1>2, <1>3, <1>4, <1>5, <1>6, <1>7, <1>8, <1>9, <1>10, <1>11, <1>12, <1>13,
     <1>14, <1>15, <1>16, <1>17, <1>18, <1>19, <1>20, <1>21
     DEF Next, LogStep, PushStep, Push, ReaderStep, TryPop

\* A thread enters push only with a line to log.
LEMMA LineStep ==
  ASSUME TypeOK, QueueInv, [Next]_vars
  PROVE  PushHasLine'
<1>. USE DEF shared, reader, memory, local
<1>t. pc \in [Producers -> PushSteps] /\ sent \in [Producers -> 0 .. MaxLines]
  BY DEF TypeOK
<1>s. PushHasLine
  BY DEF QueueInv
<1>n. \A p \in Producers : sent[p] + 1 >= 1
  BY <1>t
<1>1. ASSUME NEW p \in Producers, Log(p) PROVE PushHasLine'
  BY <1>1, <1>t, <1>s, <1>n DEF Log, Go, PushHasLine
<1>2. ASSUME NEW p \in Producers, Claim(p) PROVE PushHasLine'
  BY <1>2, <1>t, <1>s DEF Claim, Go, PushHasLine
<1>3. ASSUME NEW p \in Producers, Spin(p) PROVE PushHasLine'
  BY <1>3, <1>t, <1>s DEF Spin, Go, PushHasLine
<1>4. ASSUME NEW p \in Producers, Load(p) PROVE PushHasLine'
  BY <1>4, <1>t, <1>s DEF Load, Go, PushHasLine
<1>5. ASSUME NEW p \in Producers, Construct(p) PROVE PushHasLine'
  BY <1>5, <1>t, <1>s DEF Construct, Go, PushHasLine
<1>6. ASSUME NEW p \in Producers, Publish(p) PROVE PushHasLine'
  BY <1>6, <1>t, <1>s DEF Publish, Go, PushHasLine
<1>7. ASSUME NEW p \in Producers, Count(p) PROVE PushHasLine'
  BY <1>7, <1>t, <1>s DEF Count, Go, PushHasLine
<1>8. ASSUME NEW p \in Producers, CountFreed(p) PROVE PushHasLine'
  BY <1>8, <1>t, <1>s DEF CountFreed, Go, PushHasLine
<1>9. ASSUME NEW p \in Producers, SetUp(p) PROVE PushHasLine'
  BY <1>9, <1>t, <1>s DEF SetUp, Go, PushHasLine
<1>10. ASSUME NEW p \in Producers, LockToEnqueue(p) PROVE PushHasLine'
  BY <1>10, <1>t, <1>s DEF LockToEnqueue, Go, PushHasLine
<1>11. ASSUME NEW p \in Producers, Enqueue(p) PROVE PushHasLine'
  BY <1>11, <1>t, <1>s DEF Enqueue, Go, PushHasLine
<1>12. ASSUME NEW p \in Producers, Reset(p) PROVE PushHasLine'
  BY <1>12, <1>t, <1>s DEF Reset, Go, PushHasLine
<1>13. ASSUME NEW p \in Producers, Unlock(p) PROVE PushHasLine'
  BY <1>13, <1>t, <1>s DEF Unlock, Go, PushHasLine
<1>14. ASSUME LockToLook PROVE PushHasLine'
  BY <1>14, <1>s DEF LockToLook, PushHasLine
<1>15. ASSUME Front PROVE PushHasLine'
  BY <1>15, <1>s DEF Front, PushHasLine
<1>16. ASSUME Take PROVE PushHasLine'
  BY <1>16, <1>s DEF Take, PushHasLine
<1>17. ASSUME NotYet PROVE PushHasLine'
  BY <1>17, <1>s DEF NotYet, PushHasLine
<1>18. ASSUME LockToPop PROVE PushHasLine'
  BY <1>18, <1>s DEF LockToPop, PushHasLine
<1>19. ASSUME Pop PROVE PushHasLine'
  BY <1>19, <1>s DEF Pop, PushHasLine
<1>20. ASSUME PopAgain PROVE PushHasLine'
  BY <1>20, <1>s DEF PopAgain, PushHasLine
<1>21. CASE UNCHANGED vars
  BY <1>21, <1>s DEF vars, PushHasLine
<1>. QED
  BY <1>1, <1>2, <1>3, <1>4, <1>5, <1>6, <1>7, <1>8, <1>9, <1>10, <1>11, <1>12, <1>13,
     <1>14, <1>15, <1>16, <1>17, <1>18, <1>19, <1>20, <1>21
     DEF Next, LogStep, PushStep, Push, ReaderStep, TryPop

\* What SlotInv and SwitchInv say of the producers with a slot: they work on slots
\* below m_write_index of the newest buffer, and nobody is setting up another.
LEMMA SlotHolders ==
  ASSUME TypeOK, QueueInv, NEW p \in Producers, HasSlot(p)
  PROVE  /\ write_index[p] \in Slots /\ write_index[p] < m_write_index
         /\ pc[p] # "load" => at[p] = m_current_write_buffer
         /\ \A q \in Producers \ {p} : HasSlot(q) => write_index[q] # write_index[p]
         /\ ~SettingUp
  BY DEF QueueInv, SlotInv, SlotsExclusive, BufferOf, HasSlot, SwitchInv, Switching, SettingUp

\* StoredInv is about the slots and the producers whose line is still to come.
LEMMA StoredFrame ==
  ASSUME StoredInv, UNCHANGED <<slot, m_write_state, sent>>,
         \A p \in Producers : Unstored(p)' => Unstored(p), TypeOK
  PROVE  StoredInv'
<1>1. \A b \in Bufs, i \in Slots : slot[b][i] # None => slot[b][i][1] \in Producers
  BY DEF TypeOK, Lines
<1>. QED
  BY <1>1 DEF StoredInv

\* No step breaks StoredInv: a line is stored once, in the slot its producer has.
LEMMA StoredStep ==
  ASSUME TypeOK, QueueInv, [Next]_vars
  PROVE  StoredInv'
<1>. USE DEF shared, reader, memory, local
<1>t. /\ pc \in [Producers -> PushSteps] /\ sent \in [Producers -> 0 .. MaxLines]
      /\ slot \in [Bufs -> [Slots -> Lines \cup {None}]]
      /\ m_write_state \in [Bufs -> [Slots -> {0, 1}]]
      /\ at \in [Producers -> Bufs]
  BY DEF TypeOK
<1>s. StoredInv /\ PlaceInv
  BY DEF QueueInv
<1>l. \A b \in Bufs, i \in Slots : slot[b][i] # None =>
        /\ slot[b][i] \in Lines /\ slot[b][i][1] \in Producers /\ slot[b][i][2] \in Nat
        /\ slot[b][i] = <<slot[b][i][1], slot[b][i][2]>>
  BY <1>t DEF Lines
<1>1. ASSUME NEW p \in Producers, Log(p) PROVE StoredInv'
  <2>1. \A q \in Producers : /\ sent[q] <= sent'[q] /\ sent[q] \in Nat /\ sent'[q] \in Nat
                             /\ (Unstored(q)' => Unstored(q) \/ sent[q] < sent'[q])
    BY <1>1, <1>t DEF Log, Go, Unstored
  <2>2. UNCHANGED <<slot, m_write_state>>
    BY <1>1 DEF Log
  <2>. QED
    BY <1>s, <1>l, <2>1, <2>2 DEF StoredInv
<1>5. ASSUME NEW p \in Producers, Construct(p) PROVE StoredInv'
  <2>1. /\ write_index[p] \in Slots /\ at[p] = m_current_write_buffer /\ at[p] \in Bufs
        /\ slot[at[p]][write_index[p]] = None /\ Unstored(p) /\ sent[p] \in Nat
    BY <1>5, <1>s, <1>t, SlotHolders DEF Construct, HasSlot, PlaceInv, Unstored
  <2>2. \A b \in Bufs, i \in Slots :
          slot'[b][i] = IF b = at[p] /\ i = write_index[p] THEN Line(p) ELSE slot[b][i]
    BY <1>5, <1>t, <2>1 DEF Construct
  <2>3. /\ UNCHANGED <<sent, m_write_state>>
        /\ \A q \in Producers : Unstored(q)' <=> Unstored(q) /\ q # p
    BY <1>5, <1>t DEF Construct, Go, Unstored
  <2>4. \A b \in Bufs, i \in Slots : slot[b][i] # None => slot[b][i] # Line(p)
    BY <1>s, <1>l, <2>1 DEF StoredInv, Line
  <2>5. Line(p)[1] = p /\ Line(p)[2] = sent[p] /\ Line(p) # None
    BY QueueAssumption, <1>5, <1>t DEF Line, Construct, QueueInv, PushHasLine
  <2>6. ASSUME NEW b \in Bufs, NEW i \in Slots, slot'[b][i] # None
        PROVE  /\ slot'[b][i][2] <= sent[slot'[b][i][1]]
               /\ Unstored(slot'[b][i][1]) /\ slot'[b][i][1] # p
                    => slot'[b][i][2] < sent[slot'[b][i][1]]
               /\ \A c \in Bufs, j \in Slots : slot'[c][j] = slot'[b][i] => c = b /\ j = i
    <3>1. CASE b = at[p] /\ i = write_index[p]
      <4>1. slot'[b][i] = Line(p)
        BY <2>2, <3>1
      <4>2. \A c \in Bufs, j \in Slots : slot'[c][j] = Line(p) => c = b /\ j = i
        BY <2>2, <2>4, <2>5, <3>1
      <4>. QED
        BY <2>1, <2>5, <4>1, <4>2
    <3>2. CASE ~(b = at[p] /\ i = write_index[p])
      <4>1. slot'[b][i] = slot[b][i] /\ slot[b][i] # None /\ slot[b][i] # Line(p)
        BY <2>2, <2>4, <2>6, <3>2
      <4>2. \A c \in Bufs, j \in Slots : slot'[c][j] = slot[b][i] => slot[c][j] = slot[b][i]
        BY <2>2, <4>1
      <4>. QED
        BY <1>s, <1>l, <4>1, <4>2 DEF StoredInv
    <3>. QED
      BY <3>1, <3>2
  <2>7. \A b \in Bufs, i \in Slots : m_write_state'[b][i] = 1 => slot'[b][i] # None
    BY <1>s, <2>2, <2>3, <2>5 DEF StoredInv
  <2>8. \A b \in Bufs, i \in Slots : slot'[b][i] # None => slot'[b][i][1] \in Producers
    BY <1>l, <2>2, <2>5
  <2>9. \A q \in Producers : Unstored(q)' => Unstored(q) /\ q # p
    BY <2>3
  <2>. QED
    BY <2>3, <2>6, <2>7, <2>8, <2>9 DEF StoredInv
<1>6. ASSUME NEW p \in Producers, Publish(p) PROVE StoredInv'
  <2>1. /\ write_index[p] \in Slots /\ at[p] = m_current_write_buffer /\ at[p] \in Bufs
        /\ slot[at[p]][write_index[p]] = Line(p)
    BY <1>6, <1>s, <1>t, SlotHolders DEF Publish, HasSlot, PlaceInv
  <2>2. Line(p) # None
    BY QueueAssumption, <1>6, <1>t DEF Line, Publish, QueueInv, PushHasLine
  <2>3. \A b \in Bufs, i \in Slots :
          m_write_state'[b][i] = IF b = at[p] /\ i = write_index[p] THEN 1 ELSE m_write_state[b][i]
    BY <1>6, <1>t, <2>1 DEF Publish
  <2>4. /\ UNCHANGED <<slot, sent>>
        /\ \A q \in Producers : Unstored(q)' => Unstored(q)
    BY <1>6, <1>t DEF Publish, Go, Unstored
  <2>. QED
    BY <1>s, <1>l, <2>1, <2>2, <2>3, <2>4 DEF StoredInv
<1>2. ASSUME NEW p \in Producers, Claim(p) PROVE StoredInv'
  BY <1>2, <1>s, <1>t, StoredFrame DEF Claim, Go, Unstored
<1>3. ASSUME NEW p \in Producers, Spin(p) PROVE StoredInv'
  BY <1>3, <1>s, <1>t, StoredFrame DEF Spin, Go, Unstored
<1>4. ASSUME NEW p \in Producers, Load(p) PROVE StoredInv'
  BY <1>4, <1>s, <1>t, StoredFrame DEF Load, Go, Unstored
<1>7. ASSUME NEW p \in Producers, Count(p) PROVE StoredInv'
  BY <1>7, <1>s, <1>t, StoredFrame DEF Count, Go, Unstored
<1>8. ASSUME NEW p \in Producers, CountFreed(p) PROVE StoredInv'
  BY <1>8, <1>s, <1>t, StoredFrame DEF CountFreed, Go, Unstored
<1>9. ASSUME NEW p \in Producers, SetUp(p) PROVE StoredInv'
  BY <1>9, <1>s, <1>t, StoredFrame DEF SetUp, Go, Unstored
<1>10. ASSUME NEW p \in Producers, LockToEnqueue(p) PROVE StoredInv'
  BY <1>10, <1>s, <1>t, StoredFrame DEF LockToEnqueue, Go, Unstored
<1>11. ASSUME NEW p \in Producers, Enqueue(p) PROVE StoredInv'
  BY <1>11, <1>s, <1>t, StoredFrame DEF Enqueue, Go, Unstored
<1>12. ASSUME NEW p \in Producers, Reset(p) PROVE StoredInv'
  BY <1>12, <1>s, <1>t, StoredFrame DEF Reset, Go, Unstored
<1>13. ASSUME NEW p \in Producers, Unlock(p) PROVE StoredInv'
  BY <1>13, <1>s, <1>t, StoredFrame DEF Unlock, Go, Unstored
<1>14. ASSUME LockToLook PROVE StoredInv'
  BY <1>14, <1>s, StoredFrame DEF LockToLook, Unstored
<1>15. ASSUME Front PROVE StoredInv'
  BY <1>15, <1>s, StoredFrame DEF Front, Unstored
<1>16. ASSUME Take PROVE StoredInv'
  BY <1>16, <1>s, StoredFrame DEF Take, Unstored
<1>17. ASSUME NotYet PROVE StoredInv'
  BY <1>17, <1>s, StoredFrame DEF NotYet, Unstored
<1>18. ASSUME LockToPop PROVE StoredInv'
  BY <1>18, <1>s, StoredFrame DEF LockToPop, Unstored
<1>19. ASSUME Pop PROVE StoredInv'
  BY <1>19, <1>s, StoredFrame DEF Pop, Unstored
<1>20. ASSUME PopAgain PROVE StoredInv'
  BY <1>20, <1>s, StoredFrame DEF PopAgain, Unstored
<1>21. CASE UNCHANGED vars
  BY <1>21, <1>s, StoredFrame DEF vars, Unstored
<1>. QED
  BY <1>1, <1>2, <1>3, <1>4, <1>5, <1>6, <1>7, <1>8, <1>9, <1>10, <1>11, <1>12, <1>13,
     <1>14, <1>15, <1>16, <1>17, <1>18, <1>19, <1>20, <1>21
     DEF Next, LogStep, PushStep, Push, ReaderStep, TryPop

\* PlaceInv is about the slots, the write buffer, m_write_index and the producers
\* that have a slot or set up the next buffer.
LEMMA PlaceFrame ==
  ASSUME PlaceInv, UNCHANGED <<slot, m_current_write_buffer, m_write_index>>,
         SettingUp' <=> SettingUp,
         \A p \in Producers :
           /\ HasSlot(p)' <=> HasSlot(p)
           /\ HasSlot(p) => /\ write_index'[p] = write_index[p] /\ sent'[p] = sent[p]
                            /\ pc'[p] = "publish" <=> pc[p] = "publish"
  PROVE  PlaceInv'
<1>1. \A p \in Producers : HasSlot(p) => Line(p)' = Line(p)
  BY DEF Line
<1>. QED
  BY <1>1 DEF PlaceInv

\* No step breaks PlaceInv: a slot below m_write_index is never left without its
\* line and without a producer, and no line comes anywhere else.
LEMMA PlaceStep ==
  ASSUME TypeOK, QueueInv, [Next]_vars
  PROVE  PlaceInv'
<1>. USE DEF shared, reader, memory, local
<1>t. /\ pc \in [Producers -> PushSteps] /\ write_index \in [Producers -> Nat]
      /\ m_write_index \in Nat /\ m_current_write_buffer \in Bufs
      /\ slot \in [Bufs -> [Slots -> Lines \cup {None}]]
      /\ at \in [Producers -> Bufs] /\ sent \in [Producers -> 0 .. MaxLines]
  BY DEF TypeOK
<1>s. StoredInv /\ PlaceInv /\ SwitchInv
  BY DEF QueueInv
<1>2. ASSUME NEW p \in Producers, Claim(p) PROVE PlaceInv'
  <2>0. /\ UNCHANGED <<slot, m_current_write_buffer, sent>> /\ m_write_index' = m_write_index + 1
        /\ SettingUp' = SettingUp
        /\ \A q \in Producers \ {p} : pc'[q] = pc[q] /\ write_index'[q] = write_index[q]
    BY <1>2, <1>t DEF Claim, Go, SettingUp
  <2>1. CASE InBuffer(m_write_index)
    <3>1. m_write_index \in Slots /\ ~SettingUp
      BY <1>s, <1>t, <2>1, QueueAssumption DEF InBuffer, Slots, SwitchInv, Switching, SettingUp
    <3>2. write_index'[p] = m_write_index /\ pc'[p] = "load" /\ ~HasSlot(p) /\ HasSlot(p)'
      BY <1>2, <1>t, <2>1 DEF Claim, Go, HasSlot
    <3>3. slot[m_current_write_buffer][m_write_index] = None
      BY <1>s, <1>t, <3>1 DEF PlaceInv
    <3>4. \A q \in Producers \ {p} : (HasSlot(q)' <=> HasSlot(q)) /\ Line(q)' = Line(q)
      BY <2>0 DEF HasSlot, Line
    <3>5. \A i \in Slots : ~(SettingUp' \/ i >= m_write_index') /\ slot[m_current_write_buffer][i] = None
                             => \E q \in Producers : HasSlot(q)' /\ write_index'[q] = i
      <4>1. SUFFICES ASSUME NEW i \in Slots, ~(i >= m_write_index + 1),
                            slot[m_current_write_buffer][i] = None
                     PROVE  \E q \in Producers : HasSlot(q)' /\ write_index'[q] = i
        BY <2>0
      <4>2. CASE i = m_write_index
        BY <3>2, <4>2
      <4>3. CASE i # m_write_index
        <5>1. ~(i >= m_write_index)
          BY <1>t, <4>1, <4>3 DEF Slots
        <5>2. PICK q \in Producers : HasSlot(q) /\ write_index[q] = i
          BY <1>s, <3>1, <4>1, <5>1 DEF PlaceInv
        <5>. QED
          BY <2>0, <3>2, <3>4, <5>2
      <4>. QED
        BY <4>2, <4>3
    <3>6. \A i \in Slots : SettingUp' \/ i >= m_write_index' => slot[m_current_write_buffer][i] = None
      <4>1. \A i \in Slots : i >= m_write_index + 1 => i >= m_write_index
        BY <1>t DEF Slots
      <4>. QED
        BY <1>s, <2>0, <3>1, <4>1 DEF PlaceInv
    <3>7. \A q \in Producers : HasSlot(q)' =>
            slot[m_current_write_buffer][write_index'[q]] = IF pc'[q] = "publish" THEN Line(q)' ELSE None
      BY <1>s, <2>0, <3>2, <3>3, <3>4 DEF PlaceInv
    <3>. QED
      BY <1>s, <2>0, <3>5, <3>6, <3>7 DEF PlaceInv
  <2>2. CASE ~InBuffer(m_write_index)
    <3>1. \A i \in Slots : ~(i >= m_write_index) /\ ~(i >= m_write_index + 1) <=> ~(i >= m_write_index)
      BY <1>t DEF Slots
    <3>2. \A i \in Slots : ~(i >= m_write_index) /\ i < Size
      BY <1>t, <2>2, QueueAssumption DEF InBuffer, Slots
    <3>3. \A i \in Slots : ~(i >= m_write_index')
      BY <1>t, <2>0, <3>2 DEF Slots
    <3>4. \A q \in Producers : (HasSlot(q)' <=> HasSlot(q)) /\ (HasSlot(q) => q # p)
      BY <1>2, <1>t, <2>0, <2>2 DEF Claim, Go, HasSlot
    <3>5. \A q \in Producers \ {p} : Line(q)' = Line(q)
      BY <2>0 DEF Line
    <3>. QED
      BY <1>s, <2>0, <3>2, <3>3, <3>4, <3>5 DEF PlaceInv
  <2>. QED
    BY <2>1, <2>2
<1>5. ASSUME NEW p \in Producers, Construct(p) PROVE PlaceInv'
  <2>1. /\ write_index[p] \in Slots /\ write_index[p] < m_write_index
        /\ at[p] = m_current_write_buffer /\ HasSlot(p) /\ ~SettingUp
        /\ \A q \in Producers \ {p} : HasSlot(q) => write_index[q] # write_index[p]
    BY <1>5, SlotHolders DEF Construct, HasSlot
  <2>2. \A b \in Bufs, i \in Slots :
          slot'[b][i] = IF b = at[p] /\ i = write_index[p] THEN Line(p) ELSE slot[b][i]
    BY <1>5, <1>t, <2>1 DEF Construct
  <2>3. /\ UNCHANGED <<m_current_write_buffer, m_write_index, sent, write_index>> /\ ~SettingUp'
        /\ pc'[p] = "publish" /\ \A q \in Producers : HasSlot(q)' <=> HasSlot(q)
        /\ \A q \in Producers \ {p} : pc'[q] = pc[q]
    BY <1>5, <1>t, <2>1 DEF Construct, Go, HasSlot, SettingUp
  <2>4. Line(p) # None /\ \A q \in Producers : Line(q)' = Line(q)
    BY QueueAssumption, <1>5, <1>t, <2>3 DEF Line, Construct, QueueInv, PushHasLine
  <2>5. ~(write_index[p] >= m_write_index)
    BY <1>t, <2>1
  <2>6. \A b \in Bufs, i \in Slots :
          /\ b < m_current_write_buffer => slot'[b][i] # None
          /\ b > m_current_write_buffer => slot'[b][i] = None
    <3>1. \A b \in Bufs : b < m_current_write_buffer \/ b > m_current_write_buffer => b # at[p]
      BY <1>t, <2>1 DEF Bufs
    <3>. QED
      BY <1>s, <2>2, <3>1 DEF PlaceInv
  <2>7. \A i \in Slots :
          IF SettingUp' \/ i >= m_write_index' THEN slot'[m_current_write_buffer][i] = None
          ELSE slot'[m_current_write_buffer][i] = None =>
                 \E q \in Producers : HasSlot(q)' /\ write_index'[q] = i
    BY <1>s, <1>t, <2>1, <2>2, <2>3, <2>4, <2>5 DEF PlaceInv
  <2>8. \A q \in Producers : HasSlot(q)' =>
          slot'[m_current_write_buffer][write_index'[q]] = IF pc'[q] = "publish" THEN Line(q)' ELSE None
    <3>1. \A q \in Producers : HasSlot(q) => write_index[q] \in Slots
      BY SlotHolders
    <3>. QED
      BY <1>s, <1>t, <2>1, <2>2, <2>3, <2>4, <3>1 DEF PlaceInv
  <2>. QED
    BY <2>3, <2>6, <2>7, <2>8 DEF PlaceInv
<1>6. ASSUME NEW p \in Producers, Publish(p) PROVE PlaceInv'
  <2>1. HasSlot(p) /\ slot[m_current_write_buffer][write_index[p]] = Line(p)
    BY <1>6, <1>s DEF Publish, HasSlot, PlaceInv
  <2>2. Line(p) # None
    <3>1. sent[p] \in 1 .. MaxLines
      BY <1>6, <1>t DEF Publish, QueueInv, PushHasLine
    <3>. QED
      BY QueueAssumption, <3>1 DEF Line
  <2>3. /\ UNCHANGED <<slot, m_current_write_buffer, m_write_index, sent, write_index>>
        /\ SettingUp' = SettingUp
        /\ \A q \in Producers : HasSlot(q)' <=> HasSlot(q) /\ q # p
        /\ \A q \in Producers \ {p} : pc'[q] = pc[q]
    BY <1>6, <1>t DEF Publish, Go, HasSlot, SettingUp
  <2>4. \A q \in Producers : Line(q)' = Line(q)
    BY <2>3 DEF Line
  <2>5. \A i \in Slots : slot[m_current_write_buffer][i] = None =>
          ((\E q \in Producers : HasSlot(q) /\ write_index[q] = i)
             => \E q \in Producers : HasSlot(q)' /\ write_index'[q] = i)
    BY <2>1, <2>2, <2>3
  <2>. QED
    BY <1>s, <2>3, <2>4, <2>5 DEF PlaceInv
<1>9. ASSUME NEW p \in Producers, SetUp(p) PROVE PlaceInv'
  <2>1. /\ \A q \in Producers : ~HasSlot(q)
        /\ \A i \in Slots : m_write_state[m_current_write_buffer][i] = 1
        /\ m_current_write_buffer = allocated
    BY <1>9, <1>s DEF SetUp, SwitchInv, Switching
  <2>2. /\ UNCHANGED slot /\ m_current_write_buffer' = m_current_write_buffer + 1
        /\ m_current_write_buffer' \in Bufs /\ SettingUp'
        /\ \A q \in Producers : ~HasSlot(q)'
    BY <1>9, <1>t, <2>1, BufferArithmetic DEF SetUp, Go, SettingUp, HasSlot, TypeOK, Bufs
  <2>3. \A i \in Slots : slot[m_current_write_buffer][i] # None
    BY <1>s, <1>t, <2>1 DEF StoredInv
  <2>4. \A b \in Bufs :
          /\ b < m_current_write_buffer' => b < m_current_write_buffer \/ b = m_current_write_buffer
          /\ b > m_current_write_buffer' => b > m_current_write_buffer
          /\ b = m_current_write_buffer' => b > m_current_write_buffer
    BY <1>t, <2>2 DEF Bufs
  <2>. QED
    BY <1>s, <2>2, <2>3, <2>4 DEF PlaceInv
<1>12. ASSUME NEW p \in Producers, Reset(p) PROVE PlaceInv'
  <2>1. SettingUp /\ \A q \in Producers : ~HasSlot(q)
    BY <1>12, <1>s DEF Reset, SwitchInv, Switching, SettingUp
  <2>2. /\ UNCHANGED <<slot, m_current_write_buffer>> /\ m_write_index' = 0
        /\ \A q \in Producers : ~HasSlot(q)'
    BY <1>12, <1>t, <2>1 DEF Reset, Go, HasSlot
  <2>3. \A i \in Slots : i >= 0
    BY DEF Slots
  <2>. QED
    BY <1>s, <2>1, <2>2, <2>3 DEF PlaceInv
<1>1. ASSUME NEW p \in Producers, Log(p) PROVE PlaceInv'
  <2>1. SettingUp' <=> SettingUp
    BY <1>1, <1>t DEF Log, Go, SettingUp
  <2>. QED
    BY <1>1, <1>s, <1>t, <2>1, PlaceFrame DEF Log, Go, HasSlot
<1>3. ASSUME NEW p \in Producers, Spin(p) PROVE PlaceInv'
  <2>1. SettingUp' <=> SettingUp
    BY <1>3, <1>t DEF Spin, Go, SettingUp
  <2>. QED
    BY <1>3, <1>s, <1>t, <2>1, PlaceFrame DEF Spin, Go, HasSlot
<1>4. ASSUME NEW p \in Producers, Load(p) PROVE PlaceInv'
  <2>1. SettingUp' <=> SettingUp
    BY <1>4, <1>t DEF Load, Go, SettingUp
  <2>. QED
    BY <1>4, <1>s, <1>t, <2>1, PlaceFrame DEF Load, Go, HasSlot
<1>7. ASSUME NEW p \in Producers, Count(p) PROVE PlaceInv'
  <2>1. SettingUp' <=> SettingUp
    BY <1>7, <1>t DEF Count, Go, SettingUp
  <2>. QED
    BY <1>7, <1>s, <1>t, <2>1, PlaceFrame DEF Count, Go, HasSlot
<1>8. ASSUME NEW p \in Producers, CountFreed(p) PROVE PlaceInv'
  <2>1. SettingUp' <=> SettingUp
    BY <1>8, <1>t DEF CountFreed, Go, SettingUp
  <2>. QED
    BY <1>8, <1>s, <1>t, <2>1, PlaceFrame DEF CountFreed, Go, HasSlot
<1>10. ASSUME NEW p \in Producers, LockToEnqueue(p) PROVE PlaceInv'
  <2>1. SettingUp' <=> SettingUp
    BY <1>10, <1>t DEF LockToEnqueue, Go, SettingUp
  <2>. QED
    BY <1>10, <1>s, <1>t, <2>1, PlaceFrame DEF LockToEnqueue, Go, HasSlot
<1>11. ASSUME NEW p \in Producers, Enqueue(p) PROVE PlaceInv'
  <2>1. SettingUp' <=> SettingUp
    BY <1>11, <1>t DEF Enqueue, Go, SettingUp
  <2>. QED
    BY <1>11, <1>s, <1>t, <2>1, PlaceFrame DEF Enqueue, Go, HasSlot
<1>13. ASSUME NEW p \in Producers, Unlock(p) PROVE PlaceInv'
  <2>1. SettingUp' <=> SettingUp
    BY <1>13, <1>t DEF Unlock, Go, SettingUp
  <2>. QED
    BY <1>13, <1>s, <1>t, <2>1, PlaceFrame DEF Unlock, Go, HasSlot
<1>14. ASSUME LockToLook PROVE PlaceInv'
  BY <1>14, <1>s, PlaceFrame DEF LockToLook, HasSlot, SettingUp
<1>15. ASSUME Front PROVE PlaceInv'
  BY <1>15, <1>s, PlaceFrame DEF Front, HasSlot, SettingUp
<1>16. ASSUME Take PROVE PlaceInv'
  BY <1>16, <1>s, PlaceFrame DEF Take, HasSlot, SettingUp
<1>17. ASSUME NotYet PROVE PlaceInv'
  BY <1>17, <1>s, PlaceFrame DEF NotYet, HasSlot, SettingUp
<1>18. ASSUME LockToPop PROVE PlaceInv'
  BY <1>18, <1>s, PlaceFrame DEF LockToPop, HasSlot, SettingUp
<1>19. ASSUME Pop PROVE PlaceInv'
  BY <1>19, <1>s, PlaceFrame DEF Pop, HasSlot, SettingUp
<1>20. ASSUME PopAgain PROVE PlaceInv'
  BY <1>20, <1>s, PlaceFrame DEF PopAgain, HasSlot, SettingUp
<1>21. CASE UNCHANGED vars
  BY <1>21, <1>s, PlaceFrame DEF vars, HasSlot, SettingUp
<1>. QED
  BY <1>1, <1>2, <1>3, <1>4, <1>5, <1>6, <1>7, <1>8, <1>9, <1>10, <1>11, <1>12, <1>13,
     <1>14, <1>15, <1>16, <1>17, <1>18, <1>19, <1>20, <1>21
     DEF Next, LogStep, PushStep, Push, ReaderStep, TryPop

\* Every step keeps QueueInv.
LEMMA QueueInvStep ==
  ASSUME TypeOK, QueueInv, [Next]_vars
  PROVE  QueueInv'
BY SlotStep, CountStep, SwitchStep, FifoStep, ReaderStepInv, LineStep,
   StoredStep, PlaceStep DEF QueueInv

\* The constructor of QueueBuffer establishes the types and QueueInv.
LEMMA QueueInvInit ==
  ASSUME Init
  PROVE  TypeOK /\ QueueInv
<1>. USE QueueAssumption DEF Init
<1>1. TypeOK
  <2>1. 1 \in Bufs /\ 0 \in Slots
    BY DEF Bufs, Slots
  <2>2. m_buffers \in Seq(Bufs) /\ taken \in Seq(Lines \cup {None})
    BY <2>1
  <2>3. pc \in [Producers -> PushSteps] /\ sent \in [Producers -> 0 .. MaxLines]
    BY DEF PushSteps
  <2>4. slot \in [Bufs -> [Slots -> Lines \cup {None}]] /\ m_write_state \in [Bufs -> [Slots -> {0, 1}]]
    OBVIOUS
  <2>. QED
    BY <2>1, <2>2, <2>3, <2>4 DEF TypeOK, NoBuffer, PopSteps
<1>2. SlotInv /\ ReaderInv
  BY DEF SlotInv, SlotsExclusive, HasSlot, Bufs, Slots, ReaderInv, NoBuffer
<1>3. SwitchInv
  BY DEF SwitchInv, Switching, Blank, Bufs, Slots
<1>4. CountInv
  <2>1. Cardinality(Counted) \in Nat
    BY SubsetOfSlots DEF Counted
  <2>. QED
    BY <2>1 DEF CountInv, Bufs
<1>5. FifoInv(0)
  BY DEF FifoInv, Enqueueing
<1>6. StoredInv /\ PlaceInv
  BY DEF StoredInv, PlaceInv, HasSlot, SettingUp, Bufs, Slots
<1>. QED
  BY <1>1, <1>2, <1>3, <1>4, <1>5, <1>6 DEF QueueInv, PushHasLine

\* TypeOK and QueueInv are inductive: they hold of Init and every step keeps them.
THEOREM QueueInvariant == Spec => [](TypeOK /\ QueueInv)
<1>1. Init => TypeOK /\ QueueInv
  BY QueueInvInit
<1>2. TypeOK /\ QueueInv /\ [Next]_vars => (TypeOK /\ QueueInv)'
  BY TypeStep, QueueInvStep
<1>. QED
  BY <1>1, <1>2, PTL DEF Spec

\* The types are right in every reachable state.
THEOREM TypeCorrect == Spec => []TypeOK
BY QueueInvariant, PTL

\* In push, a slot taken by fetch_add belongs to one producer, in the buffer it
\* was taken from, and is never one that holds a published line.
THEOREM SlotsAreExclusive == Spec => []SlotsExclusive
<1>1. QueueInv => SlotsExclusive
  BY DEF QueueInv, SlotInv
<1>. QED
  BY <1>1, QueueInvariant, PTL

\* setup_next_write_buffer runs only when every slot of the old buffer holds a
\* published line and no producer is about to store into it.
THEOREM SwitchesWhenFull == Spec => SwitchWhenFull
<1>. DEFINE Full == /\ \A i \in Slots : m_write_state[m_current_write_buffer][i] = 1
                    /\ \A p \in Producers : ~HasSlot(p)
            Switch == m_current_write_buffer' # m_current_write_buffer => Full
<1>1. TypeOK /\ QueueInv /\ [Next]_vars => Switch
  <2>. SUFFICES ASSUME QueueInv, [Next]_vars, m_current_write_buffer' # m_current_write_buffer
                PROVE  Full
    OBVIOUS
  <2>1. PICK p \in Producers : SetUp(p)
    BY DEF Next, LogStep, PushStep, Push, ReaderStep, TryPop, vars, shared, reader, memory, local,
           Log, Claim, Spin, Load, Construct, Publish, Count, CountFreed, LockToEnqueue, Enqueue,
           Reset, Unlock, LockToLook, Front, Take, NotYet, LockToPop, Pop, PopAgain
  <2>. QED
    BY <2>1 DEF SetUp, QueueInv, SwitchInv, Switching
<1>. QED
  BY <1>1, QueueInvariant, PTL DEF Spec, SwitchWhenFull

\* try_pop reads only the buffer at the front of m_buffers, which is not freed,
\* and frees a buffer exactly when it has taken all its slots.
THEOREM ReaderReadsLive == Spec => []ReadsLiveBuffer
<1>1. TypeOK /\ QueueInv => ReadsLiveBuffer
  <2>. SUFFICES ASSUME TypeOK, QueueInv PROVE ReadsLiveBuffer
    OBVIOUS
  <2>k. PICK k \in 0 .. MaxBuffers : FifoInv(k)
    BY DEF QueueInv
  <2>1. m_buffers # <<>> => Head(m_buffers) = k + 1
    <3>. HAVE m_buffers # <<>>
    <3>1. 1 \in DOMAIN m_buffers /\ Head(m_buffers) = m_buffers[1]
      BY HeadTailProperties, LenProperties, EmptySeq DEF TypeOK
    <3>. QED
      BY <2>k, <3>1 DEF FifoInv
  <2>2. (k + 1) * Size = k * Size + Size /\ k * Size \in Nat /\ Size \in Nat
    BY QueueAssumption
  <2>3. rpc \in {"poplock", "pop"} => m_buffers # <<>> /\ Len(taken) = Head(m_buffers) * Size
    <3>. HAVE rpc \in {"poplock", "pop"}
    <3>1. m_buffers # <<>> /\ m_read_index = 0
      BY DEF QueueInv, ReaderInv
    <3>. QED
      BY <2>k, <2>1, <2>2, <3>1 DEF FifoInv
  <2>4. k + 1 \notin freed
    BY <2>k DEF FifoInv
  <2>. QED
    BY <2>1, <2>3, <2>4 DEF ReadsLiveBuffer, QueueInv, ReaderInv
<1>. QED
  BY <1>1, QueueInvariant, PTL

\* The producers in the busy wait of push.
Spinning == {p \in Producers : pc[p] = "spin"}

\* A fetch_add beyond Size adds a spinning producer; a producer stops spinning
\* only when the index is below Size.
LEMMA OvershootStep ==
  ASSUME TypeOK, OvershootBounded, [Next]_vars
  PROVE  OvershootBounded'
<1>. USE DEF shared, reader, memory, local
<1>t. m_write_index \in Nat /\ pc \in [Producers -> PushSteps]
  BY DEF TypeOK
<1>z. Size \in Nat \ {0}
  BY QueueAssumption
<1>w. /\ IsFiniteSet(Spinning) /\ Cardinality(Spinning) \in Nat
      /\ IsFiniteSet(Spinning') /\ Cardinality(Spinning') \in Nat
  <2>1. Spinning \in SUBSET Producers /\ Spinning' \in SUBSET Producers
    BY DEF Spinning
  <2>. QED
    BY <2>1, FS_Subset, FS_CardinalityType, QueueAssumption
<1>o. m_write_index <= Size + Cardinality(Spinning)
  BY DEF OvershootBounded, Spinning
<1>f. ASSUME m_write_index' = m_write_index, Spinning' = Spinning
      PROVE  OvershootBounded'
  BY <1>o, <1>f DEF OvershootBounded, Spinning
<1>1. ASSUME NEW p \in Producers, Log(p) PROVE OvershootBounded'
  BY <1>1, <1>t, <1>f DEF Log, Go, Spinning
<1>2. ASSUME NEW p \in Producers, Claim(p) PROVE OvershootBounded'
  <2>1. CASE InBuffer(m_write_index)
    <3>1. m_write_index' <= Size + Cardinality(Spinning')
      BY <1>2, <1>t, <1>z, <1>w, <2>1 DEF Claim, InBuffer
    <3>. QED
      BY <3>1 DEF OvershootBounded, Spinning
  <2>2. CASE ~InBuffer(m_write_index)
    <3>1. Spinning' = Spinning \cup {p} /\ p \notin Spinning
      BY <1>2, <1>t, <2>2 DEF Claim, Go, Spinning
    <3>2. Cardinality(Spinning') = Cardinality(Spinning) + 1
      BY <1>w, <3>1, FS_AddElement
    <3>3. m_write_index' <= Size + Cardinality(Spinning')
      BY <1>2, <1>t, <1>z, <1>w, <1>o, <3>2 DEF Claim
    <3>. QED
      BY <3>3 DEF OvershootBounded, Spinning
  <2>. QED
    BY <2>1, <2>2
<1>3. ASSUME NEW p \in Producers, Spin(p) PROVE OvershootBounded'
  <2>1. m_write_index' <= Size + Cardinality(Spinning')
    BY <1>3, <1>t, <1>z, <1>w DEF Spin, InBuffer
  <2>. QED
    BY <2>1 DEF OvershootBounded, Spinning
<1>4. ASSUME NEW p \in Producers, Load(p) PROVE OvershootBounded'
  BY <1>4, <1>t, <1>f DEF Load, Go, Spinning
<1>5. ASSUME NEW p \in Producers, Construct(p) PROVE OvershootBounded'
  BY <1>5, <1>t, <1>f DEF Construct, Go, Spinning
<1>6. ASSUME NEW p \in Producers, Publish(p) PROVE OvershootBounded'
  BY <1>6, <1>t, <1>f DEF Publish, Go, Spinning
<1>7. ASSUME NEW p \in Producers, Count(p) PROVE OvershootBounded'
  BY <1>7, <1>t, <1>f DEF Count, Go, Spinning
<1>8. ASSUME NEW p \in Producers, CountFreed(p) PROVE OvershootBounded'
  BY <1>8, <1>t, <1>f DEF CountFreed, Go, Spinning
<1>9. ASSUME NEW p \in Producers, SetUp(p) PROVE OvershootBounded'
  BY <1>9, <1>t, <1>f DEF SetUp, Go, Spinning
<1>10. ASSUME NEW p \in Producers, LockToEnqueue(p) PROVE OvershootBounded'
  BY <1>10, <1>t, <1>f DEF LockToEnqueue, Go, Spinning
<1>11. ASSUME NEW p \in Producers, Enqueue(p) PROVE OvershootBounded'
  BY <1>11, <1>t, <1>f DEF Enqueue, Go, Spinning
<1>12. ASSUME NEW p \in Producers, Reset(p) PROVE OvershootBounded'
  <2>1. m_write_index' <= Size + Cardinality(Spinning')
    BY <1>12, <1>z, <1>w DEF Reset
  <2>. QED
    BY <2>1 DEF OvershootBounded, Spinning
<1>13. ASSUME NEW p \in Producers, Unlock(p) PROVE OvershootBounded'
  BY <1>13, <1>t, <1>f DEF Unlock, Go, Spinning
<1>14. ASSUME LockToLook PROVE OvershootBounded'
  BY <1>14, <1>f DEF LockToLook, Spinning
<1>15. ASSUME Front PROVE OvershootBounded'
  BY <1>15, <1>f DEF Front, Spinning
<1>16. ASSUME Take PROVE OvershootBounded'
  BY <1>16, <1>f DEF Take, Spinning
<1>17. ASSUME NotYet PROVE OvershootBounded'
  BY <1>17, <1>f DEF NotYet, Spinning
<1>18. ASSUME LockToPop PROVE OvershootBounded'
  BY <1>18, <1>f DEF LockToPop, Spinning
<1>19. ASSUME Pop PROVE OvershootBounded'
  BY <1>19, <1>f DEF Pop, Spinning
<1>20. ASSUME PopAgain PROVE OvershootBounded'
  BY <1>20, <1>f DEF PopAgain, Spinning
<1>21. CASE UNCHANGED vars
  BY <1>21, <1>f DEF vars, Spinning
<1>. QED
  BY <1>1, <1>2, <1>3, <1>4, <1>5, <1>6, <1>7, <1>8, <1>9, <1>10, <1>11, <1>12, <1>13,
     <1>14, <1>15, <1>16, <1>17, <1>18, <1>19, <1>20, <1>21
     DEF Next, LogStep, PushStep, Push, ReaderStep, TryPop

\* m_write_index passes Size at most once for each producer that waits in push.
THEOREM OvershootIsBounded == Spec => []OvershootBounded
<1>1. Init => OvershootBounded
  <2>. SUFFICES ASSUME Init PROVE m_write_index <= Size + Cardinality(Spinning)
    BY DEF OvershootBounded, Spinning
  <2>1. Cardinality(Spinning) \in Nat
    BY FS_Subset, FS_CardinalityType, QueueAssumption DEF Spinning
  <2>. QED
    BY <2>1, QueueAssumption DEF Init
<1>2. TypeOK /\ OvershootBounded /\ [Next]_vars => OvershootBounded'
  BY OvershootStep
<1>. QED
  BY <1>1, <1>2, TypeCorrect, PTL DEF Spec

-----------------------------------------------------------------------------
(* The refinement of LogQueue: the mapping of QueueBuffer gives every step  *)
(* of Spec the step of the abstract queue it stands for.                   *)

\* Places count the slots of one buffer after the other: the place of slot i of
\* the buffer after the first n.
LEMMA DivMod ==
  ASSUME NEW n \in Nat, NEW i \in Slots
  PROVE  /\ n * Size + i \in Nat
         /\ (n * Size + i) \div Size = n /\ (n * Size + i) % Size = i
<1>1. i \in Nat /\ i < Size /\ n * Size \in Nat /\ Size \in Nat \ {0}
  BY QueueAssumption DEF Slots
<1>. DEFINE a == n * Size + i
            d == a \div Size
            m == a % Size
<1>2. d \in Int /\ m \in 0 .. Size - 1 /\ a = Size * d + m
  BY <1>1
<1>. HIDE DEF d, m
<1>3. d = n
  BY <1>1, <1>2
<1>. QED
  BY <1>1, <1>2, <1>3 DEF d, m

LEMMA PlaceArithmetic ==
  ASSUME NEW n \in Nat, NEW m \in 0 .. Size, NEW k \in 1 .. n * Size + m
  PROVE  \E b \in Nat, i \in Slots :
           /\ b = (k - 1) \div Size /\ i = (k - 1) % Size
           /\ b <= n /\ (b = n => i < m)
           /\ k = b * Size + i + 1
<1>1. Size \in Nat \ {0} /\ n * Size \in Nat /\ k - 1 \in Nat
  BY QueueAssumption
<1>. DEFINE b == (k - 1) \div Size
            i == (k - 1) % Size
<1>2. b \in Nat /\ i \in Slots /\ k - 1 = Size * b + i
  BY <1>1 DEF Slots
<1>. HIDE DEF b, i
<1>3. b <= n
  BY <1>1, <1>2 DEF Slots
<1>4. b = n => i < m
  BY <1>1, <1>2 DEF Slots
<1>. QED
  BY <1>1, <1>2, <1>3, <1>4 DEF b, i, Slots

\* A slot that has its place in the queue.
Placed(b, i) == b < allocated \/ (b = allocated /\ ~SettingUp /\ i < m_write_index)

\* The k-th place is a slot of a buffer that has its place, and the other way round.
LEMMA PlaceOfOrder ==
  ASSUME TypeOK
  PROVE  /\ Places \in Nat
         /\ \A k \in 1 .. Places : \E b \in Bufs, i \in Slots :
              /\ b = (k - 1) \div Size + 1 /\ i = (k - 1) % Size
              /\ Placed(b, i)
         /\ \A b \in Bufs, i \in Slots : Placed(b, i) => (b - 1) * Size + i + 1 \in 1 .. Places
<1>. DEFINE n == allocated - 1
            m == IF SettingUp THEN 0 ELSE IF InBuffer(m_write_index) THEN m_write_index ELSE Size
<1>1. /\ n \in Nat /\ m \in 0 .. Size /\ n * Size \in Nat /\ Size \in Nat \ {0}
      /\ allocated = n + 1 /\ allocated \in Bufs /\ m_write_index \in Nat
  BY QueueAssumption DEF TypeOK, Bufs, InBuffer
<1>2. Places = n * Size + m
  BY DEF Places
<1>3. \A i \in Slots : i < m => ~SettingUp /\ i < m_write_index
  BY <1>1 DEF InBuffer, Slots
<1>4. \A i \in Slots : ~SettingUp /\ i < m_write_index => i < m
  BY <1>1 DEF InBuffer, Slots
<1>. HIDE DEF n, m
<1>5. ASSUME NEW k \in 1 .. Places
      PROVE  \E b \in Bufs, i \in Slots :
               /\ b = (k - 1) \div Size + 1 /\ i = (k - 1) % Size
               /\ Placed(b, i)
  <2>1. PICK c \in Nat, i \in Slots :
           /\ c = (k - 1) \div Size /\ i = (k - 1) % Size
           /\ c <= n /\ (c = n => i < m)
    BY <1>1, <1>2, <1>5, PlaceArithmetic
  <2>2. c + 1 \in Bufs /\ (c + 1 < allocated \/ c = n)
    BY <1>1, <2>1, QueueAssumption DEF Bufs
  <2>3. Placed(c + 1, i)
    BY <1>1, <1>3, <2>1, <2>2 DEF Placed
  <2>. QED
    BY <2>1, <2>2, <2>3
<1>6. ASSUME NEW b \in Bufs, NEW i \in Slots, Placed(b, i)
      PROVE  (b - 1) * Size + i + 1 \in 1 .. Places
  <2>1. b - 1 \in Nat /\ (b - 1) * Size \in Nat /\ i \in Nat /\ i < Size
    BY <1>1 DEF Bufs, Slots
  <2>2. CASE b < allocated
    <3>1. b - 1 + 1 <= n
      BY <1>1, <2>1, <2>2 DEF Bufs
    <3>2. (b - 1) * Size + Size <= n * Size
      BY <1>1, <2>1, <3>1
    <3>. QED
      BY <1>1, <1>2, <2>1, <3>2
  <2>3. CASE b = allocated /\ ~SettingUp /\ i < m_write_index
    BY <1>1, <1>2, <1>4, <2>1, <2>3
  <2>. QED
    BY <1>6, <2>2, <2>3 DEF Placed
<1>. QED
  BY <1>1, <1>2, <1>5, <1>6

\* The line of a slot that has its place is the one it holds, or the one of the
\* producer that brings it.
LEMMA LineOfSlot ==
  ASSUME TypeOK, QueueInv, NEW b \in Bufs, NEW i \in Slots, Placed(b, i),
         slot[b][i] = None
  PROVE  \E p \in Producers :
           /\ HasSlot(p) /\ pc[p] # "publish" /\ write_index[p] = i
           /\ b = m_current_write_buffer
           /\ LineAt(b, i) = Line(p)
<1>1. m_current_write_buffer = allocated /\ PlaceInv /\ allocated \in Nat /\ m_write_index \in Nat
  BY DEF QueueInv, SwitchInv, TypeOK, Bufs
<1>2. b = m_current_write_buffer /\ ~SettingUp /\ i < m_write_index
  BY <1>1 DEF Placed, PlaceInv
<1>3. ~(i >= m_write_index)
  BY <1>1, <1>2 DEF Slots
<1>4. PICK p \in Producers : HasSlot(p) /\ write_index[p] = i
  BY <1>1, <1>2, <1>3 DEF PlaceInv
<1>5. pc[p] # "publish"
  <2>. SUFFICES ASSUME pc[p] = "publish" PROVE FALSE
    OBVIOUS
  <2>1. Line(p) = None
    BY <1>1, <1>2, <1>4 DEF PlaceInv
  <2>2. sent[p] \in 1 .. MaxLines
    BY DEF TypeOK, QueueInv, PushHasLine
  <2>. QED
    BY <2>1, <2>2, QueueAssumption DEF Line
<1>6. \A q \in Producers : HasSlot(q) /\ write_index[q] = i => q = p
  BY <1>4, SlotHolders
<1>7. LineAt(b, i) = Line(p)
  BY <1>4, <1>6 DEF LineAt
<1>. QED
  BY <1>2, <1>4, <1>5, <1>7

\* The places keep their lines in a step that leaves the slots alone, and every
\* producer that brings a line.
LEMMA OrderFrame ==
  ASSUME TypeOK, QueueInv, SlotsExclusive', UNCHANGED slot, Places' = Places,
         \A q \in Producers : HasSlot(q) /\ pc[q] # "publish" =>
           HasSlot(q)' /\ write_index'[q] = write_index[q] /\ sent'[q] = sent[q]
  PROVE  Order' = Order
<1>1. ASSUME NEW b \in Bufs, NEW i \in Slots, Placed(b, i)
      PROVE  LineAt(b, i)' = LineAt(b, i)
  <2>1. CASE slot[b][i] # None
    BY <2>1 DEF LineAt
  <2>2. CASE slot[b][i] = None
    <3>1. PICK p \in Producers : HasSlot(p) /\ pc[p] # "publish" /\ write_index[p] = i
                                 /\ LineAt(b, i) = Line(p)
      BY <1>1, <2>2, LineOfSlot
    <3>2. HasSlot(p)' /\ write_index'[p] = i /\ Line(p)' = Line(p)
      BY <3>1 DEF Line
    <3>3. \A q \in Producers : HasSlot(q)' /\ write_index'[q] = i => q = p
      BY <3>2 DEF SlotsExclusive
    <3>. QED
      BY <2>2, <3>1, <3>2, <3>3 DEF LineAt
  <2>. QED
    BY <2>1, <2>2
<1>2. \A k \in 1 .. Places : LineAt((k - 1) \div Size + 1, (k - 1) % Size)'
                               = LineAt((k - 1) \div Size + 1, (k - 1) % Size)
  BY <1>1, PlaceOfOrder
<1>. QED
  BY <1>2 DEF Order

\* m_write_index passes the end of the buffer, or is reset, and no place comes or
\* goes: only a fetch_add below Size gives one.
PlaceTaken(p) == Claim(p) /\ InBuffer(m_write_index)

\* The fetch_add of push gives the new line the next place.
LEMMA OrderGrows ==
  ASSUME TypeOK, QueueInv, SlotsExclusive', NEW p \in Producers, PlaceTaken(p)
  PROVE  /\ Places' = Places + 1 /\ Places \in Nat
         /\ Order' = [k \in 1 .. Places + 1 |-> IF k = Places + 1 THEN Line(p) ELSE Order[k]]
<1>. USE DEF shared, reader, memory, local
<1>t. /\ pc \in [Producers -> PushSteps] /\ write_index \in [Producers -> Nat]
      /\ m_write_index \in Nat /\ allocated \in Bufs /\ allocated \in Nat
      /\ m_write_index \in Slots /\ m_write_index < Size /\ Size \in Nat
  BY QueueAssumption DEF TypeOK, Bufs, PlaceTaken, InBuffer, Slots
<1>s. PlaceInv /\ SwitchInv /\ m_current_write_buffer = allocated
  BY DEF QueueInv, SwitchInv
<1>1. /\ UNCHANGED <<slot, allocated, sent, m_current_write_buffer>>
      /\ m_write_index' = m_write_index + 1
      /\ write_index' = [write_index EXCEPT ![p] = m_write_index]
      /\ pc' = [pc EXCEPT ![p] = "load"] /\ pc[p] = "claim"
  BY DEF PlaceTaken, Claim, Go
<1>2. ~SettingUp /\ ~SettingUp'
  BY <1>1, <1>s, <1>t DEF SettingUp, SwitchInv, Switching
<1>3. /\ HasSlot(p)' /\ write_index'[p] = m_write_index
      /\ \A q \in Producers \ {p} : (HasSlot(q)' <=> HasSlot(q)) /\ write_index'[q] = write_index[q]
      /\ \A q \in Producers : Line(q)' = Line(q)
      /\ ~HasSlot(p)
  BY <1>1, <1>t DEF HasSlot, Line
<1>4. Places = (allocated - 1) * Size + m_write_index /\ Places \in Nat
  <2>1. Places = (allocated - 1) * Size + m_write_index
    BY <1>2, <1>t DEF Places, InBuffer
  <2>. QED
    BY <2>1, PlaceOfOrder
<1>5. Places' = Places + 1
  <2>1. (IF InBuffer(m_write_index + 1) THEN m_write_index + 1 ELSE Size) = m_write_index + 1
    BY <1>t DEF InBuffer
  <2>2. Places' = (allocated - 1) * Size + (m_write_index + 1)
    BY <1>1, <1>2, <2>1 DEF Places, InBuffer
  <2>. QED
    BY <1>4, <1>t, <2>2
<1>6. ASSUME NEW b \in Bufs, NEW i \in Slots, Placed(b, i)
      PROVE  LineAt(b, i)' = LineAt(b, i)
  <2>1. CASE slot[b][i] # None
    BY <1>1, <2>1 DEF LineAt
  <2>2. CASE slot[b][i] = None
    <3>1. PICK q \in Producers : HasSlot(q) /\ write_index[q] = i /\ LineAt(b, i) = Line(q)
      BY <1>6, <2>2, LineOfSlot
    <3>2. HasSlot(q)' /\ write_index'[q] = i /\ Line(q)' = Line(q)
      BY <1>3, <3>1
    <3>3. \A r \in Producers : HasSlot(r)' /\ write_index'[r] = i => r = q
      BY <3>2 DEF SlotsExclusive
    <3>. QED
      BY <1>1, <2>2, <3>1, <3>2, <3>3 DEF LineAt
  <2>. QED
    BY <2>1, <2>2
<1>a. PICK a \in Bufs, j \in Slots : a = allocated /\ j = m_write_index
  BY <1>t
<1>7. LineAt(a, j)' = Line(p)
  <2>1. slot'[a][j] = None
    BY <1>s, <1>1, <1>2, <1>t, <1>a DEF PlaceInv
  <2>2. \A r \in Producers : HasSlot(r)' /\ write_index'[r] = j => r = p
    BY <1>3, <1>a DEF SlotsExclusive
  <2>. QED
    BY <1>1, <1>3, <1>a, <2>1, <2>2 DEF LineAt
<1>8. Places \div Size + 1 = a /\ Places % Size = j
  <2>1. a - 1 \in Nat /\ (a - 1) + 1 = a /\ Places = (a - 1) * Size + j
    BY <1>4, <1>a DEF Bufs
  <2>. QED
    BY <2>1, DivMod
<1>9. ASSUME NEW k \in 1 .. Places + 1
      PROVE  LineAt((k - 1) \div Size + 1, (k - 1) % Size)'
               = IF k = Places + 1 THEN Line(p) ELSE LineAt((k - 1) \div Size + 1, (k - 1) % Size)
  <2>1. CASE k = Places + 1
    <3>1. k - 1 = Places
      BY <1>4, <2>1
    <3>. QED
      BY <1>7, <1>8, <2>1, <3>1
  <2>2. CASE k # Places + 1
    <3>1. k \in 1 .. Places
      BY <1>4, <2>2
    <3>2. PICK b \in Bufs, i \in Slots :
            b = (k - 1) \div Size + 1 /\ i = (k - 1) % Size /\ Placed(b, i)
      BY <3>1, PlaceOfOrder
    <3>. QED
      BY <1>6, <2>2, <3>2
  <2>. QED
    BY <2>1, <2>2
<1>10. \A k \in 1 .. Places : k \in 1 .. Places + 1
  BY <1>4
<1>. QED
  BY <1>4, <1>5, <1>9, <1>10 DEF Order

\* Only a fetch_add below Size changes the order of the lines: a store keeps the
\* place of its line, and setup_next_write_buffer the places of all.
LEMMA OrderStep ==
  ASSUME TypeOK, QueueInv, QueueInv', [Next]_vars, \A p \in Producers : ~PlaceTaken(p)
  PROVE  Order' = Order
<1>. USE DEF shared, reader, memory, local
<1>t. /\ pc \in [Producers -> PushSteps] /\ write_index \in [Producers -> Nat]
      /\ sent \in [Producers -> 0 .. MaxLines] /\ at \in [Producers -> Bufs]
      /\ slot \in [Bufs -> [Slots -> Lines \cup {None}]]
      /\ m_write_index \in Nat /\ allocated \in Bufs
  BY DEF TypeOK
<1>z. Size \in Nat \ {0} /\ allocated \in Nat
  BY <1>t, QueueAssumption DEF Bufs
<1>s. SlotsExclusive' /\ SwitchInv /\ PlaceInv
  BY DEF QueueInv, SlotInv
<1>f. ASSUME UNCHANGED <<slot, allocated, m_write_index>>, SettingUp' <=> SettingUp,
             \A q \in Producers : HasSlot(q) /\ pc[q] # "publish" =>
               HasSlot(q)' /\ write_index'[q] = write_index[q] /\ sent'[q] = sent[q]
      PROVE  Order' = Order
  <2>1. Places' = Places
    BY <1>f DEF Places
  <2>. QED
    BY <1>f, <1>s, <2>1, OrderFrame
<1>1. ASSUME NEW p \in Producers, Log(p) PROVE Order' = Order
  <2>1. SettingUp' <=> SettingUp
    BY <1>1, <1>t DEF Log, Go, SettingUp
  <2>. QED
    BY <1>1, <1>t, <1>f, <2>1 DEF Log, Go, HasSlot
<1>2. ASSUME NEW p \in Producers, Claim(p) PROVE Order' = Order
  <2>1. ~InBuffer(m_write_index)
    BY <1>2 DEF PlaceTaken
  <2>2. ~InBuffer(m_write_index')
    BY <1>2, <1>t, <1>z, <2>1 DEF Claim, InBuffer
  <2>3. SettingUp' <=> SettingUp
    BY <1>2, <1>t, <2>1 DEF Claim, Go, SettingUp
  <2>4. Places' = Places
    BY <1>2, <2>1, <2>2, <2>3 DEF Claim, Places
  <2>. QED
    BY <1>2, <1>t, <1>s, <2>4, OrderFrame DEF Claim, Go, HasSlot
<1>3. ASSUME NEW p \in Producers, Spin(p) PROVE Order' = Order
  <2>1. SettingUp' <=> SettingUp
    BY <1>3, <1>t DEF Spin, Go, SettingUp
  <2>. QED
    BY <1>3, <1>t, <1>f, <2>1 DEF Spin, Go, HasSlot
<1>4. ASSUME NEW p \in Producers, Load(p) PROVE Order' = Order
  <2>1. SettingUp' <=> SettingUp
    BY <1>4, <1>t DEF Load, Go, SettingUp
  <2>. QED
    BY <1>4, <1>t, <1>f, <2>1 DEF Load, Go, HasSlot
<1>5. ASSUME NEW p \in Producers, Construct(p) PROVE Order' = Order
  <2>1. /\ write_index[p] \in Slots /\ HasSlot(p) /\ ~SettingUp
        /\ at[p] = m_current_write_buffer /\ at[p] \in Bufs
        /\ \A q \in Producers \ {p} : HasSlot(q) => write_index[q] # write_index[p]
    BY <1>5, <1>t, SlotHolders DEF Construct, HasSlot
  <2>2. \A b \in Bufs, i \in Slots :
          slot'[b][i] = IF b = at[p] /\ i = write_index[p] THEN Line(p) ELSE slot[b][i]
    BY <1>5, <1>t, <2>1 DEF Construct
  <2>3. /\ UNCHANGED <<write_index, sent, allocated, m_write_index>>
        /\ \A q \in Producers : HasSlot(q)' <=> HasSlot(q)
        /\ ~SettingUp'
    BY <1>5, <1>t, <2>1 DEF Construct, Go, HasSlot, SettingUp
  <2>4. Line(p) # None
    <3>1. sent[p] \in 1 .. MaxLines
      BY <1>5, <1>t DEF Construct, QueueInv, PushHasLine
    <3>. QED
      BY QueueAssumption, <3>1 DEF Line
  <2>5. slot[at[p]][write_index[p]] = None
    BY <1>5, <1>s, <2>1 DEF Construct, PlaceInv
  <2>6. ASSUME NEW b \in Bufs, NEW i \in Slots, Placed(b, i) PROVE LineAt(b, i)' = LineAt(b, i)
    <3>1. CASE b = at[p] /\ i = write_index[p]
      <4>1. LineAt(b, i)' = Line(p)
        BY <2>2, <2>4, <3>1 DEF LineAt
      <4>2. \A q \in Producers : HasSlot(q) /\ write_index[q] = i => q = p
        BY <2>1, <3>1
      <4>3. LineAt(b, i) = Line(p)
        BY <2>1, <2>5, <3>1, <4>2 DEF LineAt
      <4>. QED
        BY <4>1, <4>3
    <3>2. CASE ~(b = at[p] /\ i = write_index[p])
      <4>1. slot'[b][i] = slot[b][i]
        BY <2>2, <3>2
      <4>2. CASE slot[b][i] # None
        BY <4>1, <4>2 DEF LineAt
      <4>3. CASE slot[b][i] = None
        <5>1. PICK q \in Producers : HasSlot(q) /\ write_index[q] = i /\ LineAt(b, i) = Line(q)
          BY <2>6, <4>3, LineOfSlot
        <5>2. HasSlot(q)' /\ write_index'[q] = i /\ Line(q)' = Line(q)
          BY <2>3, <5>1 DEF Line
        <5>3. \A r \in Producers : HasSlot(r)' /\ write_index'[r] = i => r = q
          BY <1>s, <5>2 DEF SlotsExclusive
        <5>. QED
          BY <4>1, <4>3, <5>1, <5>2, <5>3 DEF LineAt
      <4>. QED
        BY <4>2, <4>3
    <3>. QED
      BY <3>1, <3>2
  <2>7. Places' = Places
    BY <2>1, <2>3 DEF Places
  <2>8. \A k \in 1 .. Places : LineAt((k - 1) \div Size + 1, (k - 1) % Size)'
                                 = LineAt((k - 1) \div Size + 1, (k - 1) % Size)
    BY <2>6, PlaceOfOrder
  <2>. QED
    BY <2>7, <2>8 DEF Order
<1>6. ASSUME NEW p \in Producers, Publish(p) PROVE Order' = Order
  <2>1. SettingUp' <=> SettingUp
    BY <1>6, <1>t DEF Publish, Go, SettingUp
  <2>. QED
    BY <1>6, <1>t, <1>f, <2>1 DEF Publish, Go, HasSlot
<1>7. ASSUME NEW p \in Producers, Count(p) PROVE Order' = Order
  <2>1. SettingUp' <=> SettingUp
    BY <1>7, <1>t DEF Count, Go, SettingUp
  <2>. QED
    BY <1>7, <1>t, <1>f, <2>1 DEF Count, Go, HasSlot
<1>8. ASSUME NEW p \in Producers, CountFreed(p) PROVE Order' = Order
  <2>1. SettingUp' <=> SettingUp
    BY <1>8, <1>t DEF CountFreed, Go, SettingUp
  <2>. QED
    BY <1>8, <1>t, <1>f, <2>1 DEF CountFreed, Go, HasSlot
<1>9. ASSUME NEW p \in Producers, SetUp(p) PROVE Order' = Order
  <2>1. /\ \A q \in Producers : ~HasSlot(q)
        /\ ~SettingUp /\ m_write_index >= Size
    BY <1>9, <1>s DEF SetUp, SwitchInv, Switching, SettingUp
  <2>2. UNCHANGED slot /\ allocated' = allocated + 1 /\ SettingUp'
    BY <1>9, <1>t DEF SetUp, Go, SettingUp
  <2>3. Places = (allocated - 1) * Size + Size
    BY <1>t, <1>z, <2>1 DEF Places, InBuffer
  <2>4. Places' = (allocated' - 1) * Size + 0
    BY <2>2 DEF Places
  <2>5. (allocated' - 1) * Size + 0 = (allocated - 1) * Size + Size
    BY <1>z, <2>2
  <2>. QED
    BY <1>s, <2>1, <2>2, <2>3, <2>4, <2>5, OrderFrame
<1>10. ASSUME NEW p \in Producers, LockToEnqueue(p) PROVE Order' = Order
  <2>1. SettingUp' <=> SettingUp
    BY <1>10, <1>t DEF LockToEnqueue, Go, SettingUp
  <2>. QED
    BY <1>10, <1>t, <1>f, <2>1 DEF LockToEnqueue, Go, HasSlot
<1>11. ASSUME NEW p \in Producers, Enqueue(p) PROVE Order' = Order
  <2>1. SettingUp' <=> SettingUp
    BY <1>11, <1>t DEF Enqueue, Go, SettingUp
  <2>. QED
    BY <1>11, <1>t, <1>f, <2>1 DEF Enqueue, Go, HasSlot
<1>12. ASSUME NEW p \in Producers, Reset(p) PROVE Order' = Order
  <2>1. SettingUp /\ \A q \in Producers : ~HasSlot(q) /\ (Switching(q) => q = p)
    BY <1>12, <1>s DEF Reset, SwitchInv, Switching, SettingUp
  <2>2. UNCHANGED <<slot, allocated>> /\ m_write_index' = 0 /\ ~SettingUp'
    BY <1>12, <1>t, <2>1 DEF Reset, Go, SettingUp, Switching
  <2>3. InBuffer(0)
    BY <1>z DEF InBuffer
  <2>4. Places' = Places
    BY <2>1, <2>2, <2>3 DEF Places
  <2>. QED
    BY <1>s, <2>1, <2>2, <2>4, OrderFrame
<1>13. ASSUME NEW p \in Producers, Unlock(p) PROVE Order' = Order
  <2>1. SettingUp' <=> SettingUp
    BY <1>13, <1>t DEF Unlock, Go, SettingUp
  <2>. QED
    BY <1>13, <1>t, <1>f, <2>1 DEF Unlock, Go, HasSlot
<1>14. ASSUME ReaderStep \/ UNCHANGED vars PROVE Order' = Order
  <2>1. UNCHANGED <<slot, allocated, m_write_index, pc, write_index, sent>>
    BY <1>14 DEF ReaderStep, TryPop, LockToLook, Front, Take, NotYet, LockToPop, Pop, PopAgain, vars
  <2>2. SettingUp' <=> SettingUp
    BY <2>1 DEF SettingUp
  <2>. QED
    BY <1>f, <2>1, <2>2 DEF HasSlot
<1>. QED
  BY <1>1, <1>2, <1>3, <1>4, <1>5, <1>6, <1>7, <1>8, <1>9, <1>10, <1>11, <1>12, <1>13, <1>14
     DEF Next, LogStep, PushStep, Push

\* A slot that is ready to be read has its place, and its line.
LEMMA ReadySlot ==
  ASSUME TypeOK, QueueInv, NEW b \in Bufs, NEW i \in Slots, slot[b][i] # None
  PROVE  /\ (b - 1) * Size + i + 1 \in DOMAIN Order
         /\ Order[(b - 1) * Size + i + 1] = slot[b][i]
<1>1. /\ m_current_write_buffer = allocated /\ PlaceInv
      /\ allocated \in Nat /\ b \in Nat /\ i \in Nat /\ m_write_index \in Nat
  BY DEF QueueInv, SwitchInv, TypeOK, Bufs, Slots
<1>2. ~(b > allocated) /\ (b = allocated => ~SettingUp /\ ~(i >= m_write_index))
  BY <1>1 DEF PlaceInv
<1>3. Placed(b, i)
  BY <1>1, <1>2 DEF Placed
<1>4. (b - 1) * Size + i + 1 \in 1 .. Places
  BY <1>3, PlaceOfOrder
<1>5. b - 1 \in Nat /\ (b - 1) + 1 = b
  BY <1>1 DEF Bufs
<1>6. ((b - 1) * Size + i) \div Size + 1 = b /\ ((b - 1) * Size + i) % Size = i
      /\ (b - 1) * Size + i \in Nat
  BY <1>5, DivMod
<1>7. ((b - 1) * Size + i + 1) - 1 = (b - 1) * Size + i
  BY <1>6
<1>8. LineAt(b, i) = slot[b][i]
  BY DEF LineAt
<1>. QED
  BY <1>4, <1>6, <1>7, <1>8 DEF Order

\* The lines that may be read.
LEMMA PublishedLines ==
  /\ \A l : l \in Published <=>
        \E b \in Bufs, i \in Slots : m_write_state[b][i] = 1 /\ l = slot[b][i]
  /\ \A l : l \in Published' <=>
        \E b \in Bufs, i \in Slots : m_write_state'[b][i] = 1 /\ l = slot'[b][i]
<1>1. \A x \in Bufs \X Slots : x[1] \in Bufs /\ x[2] \in Slots
  OBVIOUS
<1>2. \A l : l \in Published <=>
        \E x \in Bufs \X Slots : m_write_state[x[1]][x[2]] = 1 /\ l = slot[x[1]][x[2]]
  BY Zenon DEF Published
<1>3. \A l : l \in Published' <=>
        \E x \in Bufs \X Slots : m_write_state'[x[1]][x[2]] = 1 /\ l = slot'[x[1]][x[2]]
  BY Zenon DEF Published
<1>4. \A l : l \in Published <=>
        \E b \in Bufs, i \in Slots : m_write_state[b][i] = 1 /\ l = slot[b][i]
  <2>1. ASSUME NEW l, NEW b \in Bufs, NEW i \in Slots, m_write_state[b][i] = 1, l = slot[b][i]
        PROVE  l \in Published
    <3>1. \E x \in Bufs \X Slots : m_write_state[x[1]][x[2]] = 1 /\ l = slot[x[1]][x[2]]
      <4>. WITNESS <<b, i>> \in Bufs \X Slots
      <4>. QED
        BY <2>1
    <3>. QED
      BY <1>2, <3>1
  <2>2. ASSUME NEW l, l \in Published
        PROVE  \E b \in Bufs, i \in Slots : m_write_state[b][i] = 1 /\ l = slot[b][i]
    <3>1. PICK x \in Bufs \X Slots : m_write_state[x[1]][x[2]] = 1 /\ l = slot[x[1]][x[2]]
      BY <1>2, <2>2
    <3>. QED
      BY <1>1, <3>1
  <2>. QED
    BY <2>1, <2>2
<1>5. \A l : l \in Published' <=>
        \E b \in Bufs, i \in Slots : m_write_state'[b][i] = 1 /\ l = slot'[b][i]
  <2>1. ASSUME NEW l, NEW b \in Bufs, NEW i \in Slots, m_write_state'[b][i] = 1, l = slot'[b][i]
        PROVE  l \in Published'
    <3>1. \E x \in Bufs \X Slots : m_write_state'[x[1]][x[2]] = 1 /\ l = slot'[x[1]][x[2]]
      <4>. WITNESS <<b, i>> \in Bufs \X Slots
      <4>. QED
        BY <2>1
    <3>. QED
      BY <1>3, <3>1
  <2>2. ASSUME NEW l, l \in Published'
        PROVE  \E b \in Bufs, i \in Slots : m_write_state'[b][i] = 1 /\ l = slot'[b][i]
    <3>1. PICK x \in Bufs \X Slots : m_write_state'[x[1]][x[2]] = 1 /\ l = slot'[x[1]][x[2]]
      BY <1>3, <2>2
    <3>. QED
      BY <1>1, <3>1
  <2>. QED
    BY <2>1, <2>2
<1>. QED
  BY <1>4, <1>5

\* The store to m_write_state makes one more line ready: one that has its place and
\* was not ready before.
LEMMA PublishReady ==
  ASSUME TypeOK, QueueInv, NEW p \in Producers, Publish(p)
  PROVE  /\ Published' = Published \cup {Line(p)} /\ Line(p) \notin Published
         /\ \E k \in DOMAIN Order : Order[k] = Line(p)
<1>. USE DEF shared, reader, memory, local
<1>t. /\ m_write_state \in [Bufs -> [Slots -> {0, 1}]] /\ at \in [Producers -> Bufs]
      /\ sent \in [Producers -> 0 .. MaxLines]
  BY DEF TypeOK
<1>1. /\ write_index[p] \in Slots /\ at[p] = m_current_write_buffer /\ at[p] \in Bufs
      /\ slot[at[p]][write_index[p]] = Line(p) /\ m_write_state[at[p]][write_index[p]] = 0
  BY <1>t, SlotHolders DEF Publish, HasSlot, QueueInv, PlaceInv, SlotInv, SlotsExclusive, BufferOf
<1>2. Line(p) # None
  <2>1. sent[p] \in 1 .. MaxLines
    BY <1>t DEF Publish, QueueInv, PushHasLine
  <2>. QED
    BY QueueAssumption, <2>1 DEF Line
<1>3. \A b \in Bufs, i \in Slots :
        /\ m_write_state'[b][i] = IF b = at[p] /\ i = write_index[p] THEN 1 ELSE m_write_state[b][i]
        /\ slot'[b][i] = slot[b][i]
  BY <1>t, <1>1 DEF Publish
<1>4. \A b \in Bufs, i \in Slots : slot[b][i] = Line(p) => b = at[p] /\ i = write_index[p]
  BY <1>1, <1>2 DEF QueueInv, StoredInv
<1>5. Line(p) \notin Published
  BY <1>1, <1>4, PublishedLines
<1>6. \A l : l \in Published' <=> l \in Published \/ l = Line(p)
  BY <1>1, <1>3, PublishedLines
<1>. QED
  BY <1>1, <1>2, <1>5, <1>6, ReadySlot

\* What try_pop reads is the line of the next place, and it is ready.
LEMMA TakeNext ==
  ASSUME TypeOK, QueueInv, Take
  PROVE  /\ Len(taken) + 1 \in DOMAIN Order
         /\ Order[Len(taken) + 1] \in Published
         /\ taken' = Append(taken, Order[Len(taken) + 1])
<1>t. m_current_read_buffer \in Bufs /\ m_read_index \in Slots
  BY DEF TypeOK, Take
<1>1. PICK k \in 0 .. MaxBuffers : FifoInv(k)
  BY DEF QueueInv
<1>2. m_current_read_buffer = k + 1
  <2>1. m_buffers # <<>> /\ Head(m_buffers) = m_current_read_buffer
    BY DEF Take, QueueInv, ReaderInv
  <2>2. 1 \in DOMAIN m_buffers /\ Head(m_buffers) = m_buffers[1]
    BY <2>1, HeadTailProperties, LenProperties, EmptySeq DEF TypeOK
  <2>. QED
    BY <1>1, <2>1, <2>2 DEF FifoInv
<1>3. Len(taken) + 1 = (m_current_read_buffer - 1) * Size + m_read_index + 1
  <2>1. Len(taken) = k * Size + m_read_index
    BY <1>1, <1>t, QueueAssumption DEF Take, FifoInv, Slots
  <2>2. m_current_read_buffer - 1 = k
    BY <1>2
  <2>. QED
    BY <2>1, <2>2
<1>4. /\ m_write_state[m_current_read_buffer][m_read_index] = 1
      /\ slot[m_current_read_buffer][m_read_index] # None
  BY <1>t DEF Take, Readable, QueueInv, StoredInv
<1>5. slot[m_current_read_buffer][m_read_index] \in Published
  BY <1>t, <1>4, PublishedLines
<1>. QED
  BY <1>t, <1>3, <1>4, <1>5, ReadySlot DEF Take

\* No step breaks ClaimedInv: a line gets a place once, in the fetch_add that ends
\* the search of push for one.
LEMMA ClaimedStep ==
  ASSUME TypeOK, QueueInv, QueueInv', ClaimedInv, [Next]_vars
  PROVE  ClaimedInv'
<1>. USE DEF shared, reader, memory, local
<1>t. pc \in [Producers -> PushSteps] /\ sent \in [Producers -> 0 .. MaxLines] /\ Places \in Nat
  BY PlaceOfOrder DEF TypeOK
<1>w. \A q \in Producers : IsFiniteSet(PlacesOf(q)) /\ Cardinality(PlacesOf(q)) \in Nat
  <2>1. \A q \in Producers : PlacesOf(q) \subseteq 1 .. Places
    BY DEF PlacesOf, Order
  <2>2. IsFiniteSet(1 .. Places)
    BY <1>t, FS_Interval
  <2>. QED
    BY <2>1, <2>2, FS_Subset, FS_CardinalityType
<1>c. \A q \in Producers : Cardinality(PlacesOf(q)) + Unplaced(q) = sent[q]
  BY DEF ClaimedInv
<1>1. CASE \E p \in Producers : PlaceTaken(p)
  <2>1. PICK p \in Producers : PlaceTaken(p)
    BY <1>1
  <2>2. Order' = [k \in 1 .. Places + 1 |-> IF k = Places + 1 THEN Line(p) ELSE Order[k]]
    BY <2>1, OrderGrows DEF QueueInv, SlotInv
  <2>3. /\ UNCHANGED sent /\ Unplaced(p) = 1 /\ Unplaced(p)' = 0
        /\ \A q \in Producers \ {p} : Unplaced(q)' = Unplaced(q)
    BY <2>1, <1>t DEF PlaceTaken, Claim, Go, Unplaced
  <2>4. /\ DOMAIN Order = 1 .. Places /\ DOMAIN Order' = 1 .. Places + 1
        /\ 1 .. Places + 1 = 1 .. Places \cup {Places + 1} /\ Places + 1 \notin 1 .. Places
    BY <1>t, <2>2 DEF Order
  <2>5. /\ \A k \in DOMAIN Order : Order'[k] = Order[k]
        /\ Order'[Places + 1] = Line(p) /\ Line(p)[1] = p
    BY <2>2, <2>4 DEF Line
  <2>6. ASSUME NEW q \in Producers PROVE Cardinality(PlacesOf(q)') + Unplaced(q)' = sent'[q]
    <3>1. CASE q = p
      <4>1. PlacesOf(q)' = PlacesOf(q) \cup {Places + 1} /\ Places + 1 \notin PlacesOf(q)
        BY <2>4, <2>5, <3>1 DEF PlacesOf
      <4>2. Cardinality(PlacesOf(q)') = Cardinality(PlacesOf(q)) + 1
        BY <1>w, <4>1, FS_AddElement
      <4>. QED
        BY <1>c, <1>w, <2>3, <3>1, <4>2
    <3>2. CASE q # p
      <4>1. PlacesOf(q)' = PlacesOf(q)
        BY <2>4, <2>5, <3>2 DEF PlacesOf
      <4>. QED
        BY <1>c, <2>3, <3>2, <4>1
    <3>. QED
      BY <3>1, <3>2
  <2>. QED
    BY <2>6 DEF ClaimedInv
<1>2. CASE \A p \in Producers : ~PlaceTaken(p)
  <2>1. \A q \in Producers : PlacesOf(q)' = PlacesOf(q)
    BY <1>2, OrderStep DEF PlacesOf
  <2>2. ASSUME UNCHANGED sent, \A q \in Producers : Unplaced(q)' = Unplaced(q)
        PROVE  ClaimedInv'
    BY <1>c, <2>1, <2>2 DEF ClaimedInv
  <2>3. ASSUME NEW p \in Producers, Log(p) PROVE ClaimedInv'
    <3>1. /\ sent[p] \in Nat /\ sent'[p] = sent[p] + 1 /\ Unplaced(p) = 0 /\ Unplaced(p)' = 1
          /\ \A q \in Producers \ {p} : sent'[q] = sent[q] /\ Unplaced(q)' = Unplaced(q)
      BY <2>3, <1>t DEF Log, Go, Unplaced
    <3>2. ASSUME NEW q \in Producers PROVE Cardinality(PlacesOf(q)') + Unplaced(q)' = sent'[q]
      <4>1. CASE q = p
        BY <1>c, <1>w, <2>1, <3>1, <4>1
      <4>2. CASE q # p
        BY <1>c, <2>1, <3>1, <4>2
      <4>. QED
        BY <4>1, <4>2
    <3>. QED
      BY <3>2 DEF ClaimedInv
  <2>4. ASSUME NEW p \in Producers, PushStep(p) PROVE ClaimedInv'
    <3>1. CASE Claim(p)
      BY <1>2, <1>t, <2>2, <3>1 DEF PlaceTaken, Claim, Go, Unplaced
    <3>2. CASE Spin(p) \/ Load(p) \/ Construct(p) \/ Publish(p) \/ Count(p) \/ CountFreed(p)
      BY <1>t, <2>2, <3>2 DEF Spin, Load, Construct, Publish, Count, CountFreed, Go, Unplaced
    <3>3. CASE SetUp(p) \/ LockToEnqueue(p) \/ Enqueue(p) \/ Reset(p) \/ Unlock(p)
      BY <1>t, <2>2, <3>3 DEF SetUp, LockToEnqueue, Enqueue, Reset, Unlock, Go, Unplaced
    <3>. QED
      BY <2>4, <3>1, <3>2, <3>3 DEF PushStep, Push
  <2>5. ASSUME ReaderStep \/ UNCHANGED vars PROVE ClaimedInv'
    <3>1. UNCHANGED <<pc, sent>>
      BY <2>5 DEF ReaderStep, TryPop, LockToLook, Front, Take, NotYet, LockToPop, Pop, PopAgain, vars
    <3>. QED
      BY <2>2, <3>1 DEF Unplaced
  <2>. QED
    BY <2>3, <2>4, <2>5 DEF Next, LogStep
<1>. QED
  BY <1>1, <1>2

\* In the abstract queue push accepts the next line of its producer.
LEMMA AcceptNext ==
  ASSUME TypeOK, QueueInv, QueueInv', ClaimedInv, NEW p \in Producers, PlaceTaken(p)
  PROVE  Order' = Append(Order, Abstract!NextLine(p))
<1>1. /\ Places \in Nat
      /\ Order' = [k \in 1 .. Places + 1 |-> IF k = Places + 1 THEN Line(p) ELSE Order[k]]
  BY OrderGrows DEF QueueInv, SlotInv
<1>2. Order \in [1 .. Places -> {Order[k] : k \in 1 .. Places}]
  BY DEF Order
<1>3. Order \in Seq({Order[k] : k \in 1 .. Places}) /\ Len(Order) = Places
  BY <1>1, <1>2, SeqDef
<1>4. Unplaced(p) = 1 /\ sent[p] \in Nat
  BY DEF PlaceTaken, Claim, Unplaced, TypeOK
<1>5. Cardinality(PlacesOf(p)) \in Nat
  <2>1. PlacesOf(p) \subseteq 1 .. Places /\ IsFiniteSet(1 .. Places)
    BY <1>1, FS_Interval DEF PlacesOf, Order
  <2>. QED
    BY <2>1, FS_Subset, FS_CardinalityType
<1>6. Cardinality(PlacesOf(p)) + 1 = sent[p]
  BY <1>4 DEF ClaimedInv
<1>7. Abstract!NextLine(p) = Line(p)
  \* The instance of LogQueue has a Cardinality of its own, with the same definition.
  <2>0. Abstract!NextLine(p) = <<p, Cardinality({i \in DOMAIN Order : Order[i][1] = p}) + 1>>
    BY DEF Abstract!NextLine, Abstract!Cardinality, Cardinality
  <2>1. Abstract!NextLine(p) = <<p, Cardinality(PlacesOf(p)) + 1>>
    BY <2>0 DEF PlacesOf
  <2>. QED
    BY <1>6, <2>1 DEF Line
<1>8. Append(Order, Line(p)) = [k \in 1 .. Places + 1 |-> IF k = Places + 1 THEN Line(p) ELSE Order[k]]
  <2>. DEFINE S == {Order[k] : k \in 1 .. Places} \cup {Line(p)}
              s == Append(Order, Line(p))
              t == [k \in 1 .. Places + 1 |-> IF k = Places + 1 THEN Line(p) ELSE Order[k]]
  <2>1. Order \in Seq(S) /\ Line(p) \in S
    BY <1>3, SeqMonotonic
  <2>2. /\ s \in Seq(S) /\ Len(s) = Places + 1 /\ s[Places + 1] = Line(p)
        /\ \A k \in 1 .. Places : s[k] = Order[k]
    BY <1>3, <2>1, AppendProperties
  <2>3. t \in [1 .. Places + 1 -> S]
    BY <1>1
  <2>4. t \in Seq(S) /\ Len(t) = Places + 1
    BY <1>1, <2>3, SeqDef
  <2>5. \A k \in 1 .. Places + 1 : s[k] = t[k]
    BY <1>1, <2>2
  <2>. QED
    BY <2>2, <2>4, <2>5, SeqEqual
<1>. QED
  BY <1>1, <1>7, <1>8

\* Every step of the queue is a step of LogQueue or leaves its variables alone.
LEMMA ImplementsStep ==
  ASSUME TypeOK, QueueInv, QueueInv', ClaimedInv, [Next]_vars
  PROVE  [Abstract!Next]_<<Order, Published, taken>>
<1>. USE DEF shared, reader, memory, local
<1>1. CASE \E p \in Producers : PlaceTaken(p)
  <2>1. PICK p \in Producers : PlaceTaken(p)
    BY <1>1
  <2>2. UNCHANGED <<Published, taken>>
    BY <2>1 DEF PlaceTaken, Claim, Published
  <2>. QED
    BY <2>1, <2>2, AcceptNext DEF Abstract!Next, Abstract!Accept
<1>2. CASE \A p \in Producers : ~PlaceTaken(p)
  <2>o. Order' = Order
    BY <1>2, OrderStep
  <2>1. ASSUME NEW p \in Producers, Publish(p) PROVE Abstract!Next
    <3>1. PICK k \in DOMAIN Order : Order[k] = Line(p)
      BY <2>1, PublishReady
    <3>2. UNCHANGED taken
      BY <2>1 DEF Publish
    <3>. QED
      BY <2>o, <2>1, <3>1, <3>2, PublishReady DEF Abstract!Next, Abstract!Store
  <2>2. ASSUME NEW p \in Producers, Construct(p) PROVE UNCHANGED <<Published, taken>>
    <3>1. /\ write_index[p] \in Slots /\ at[p] \in Bufs
          /\ m_write_state[at[p]][write_index[p]] = 0
      BY <2>2, SlotHolders DEF Construct, HasSlot, QueueInv, SlotInv, SlotsExclusive, BufferOf, TypeOK
    <3>2. /\ UNCHANGED <<m_write_state, taken>>
          /\ \A b \in Bufs, i \in Slots : ~(b = at[p] /\ i = write_index[p]) => slot'[b][i] = slot[b][i]
      BY <2>2, <3>1 DEF Construct, TypeOK
    <3>3. \A l : l \in Published' <=> l \in Published
      BY <3>1, <3>2, PublishedLines
    <3>. QED
      BY <3>2, <3>3
  <2>3. ASSUME Take PROVE Abstract!Next
    <3>1. Len(taken) < Len(Order)
      <4>1. DOMAIN Order = 1 .. Places /\ Places \in Nat /\ Len(taken) \in Nat
        BY PlaceOfOrder, LenProperties DEF Order, TypeOK
      <4>2. Order \in [1 .. Places -> {Order[k] : k \in 1 .. Places}]
        BY DEF Order
      <4>3. Len(Order) = Places
        BY <4>1, <4>2, SeqDef
      <4>. QED
        BY <2>3, <4>1, <4>3, TakeNext
    <3>2. UNCHANGED Published
      BY <2>3 DEF Take, Published
    <3>. QED
      BY <2>o, <2>3, <3>1, <3>2, TakeNext DEF Abstract!Next, Abstract!Deliver
  <2>4. ASSUME NEW p \in Producers,
               \/ Log(p) \/ Claim(p) \/ Spin(p) \/ Load(p) \/ Count(p) \/ CountFreed(p)
               \/ SetUp(p) \/ LockToEnqueue(p) \/ Enqueue(p) \/ Reset(p) \/ Unlock(p)
        PROVE UNCHANGED <<Published, taken>>
    BY <2>4 DEF Log, Claim, Spin, Load, Count, CountFreed, SetUp, LockToEnqueue, Enqueue, Reset,
                Unlock, Published
  <2>5. ASSUME LockToLook \/ Front \/ NotYet \/ LockToPop \/ Pop \/ PopAgain \/ UNCHANGED vars
        PROVE UNCHANGED <<Published, taken>>
    BY <2>5 DEF LockToLook, Front, NotYet, LockToPop, Pop, PopAgain, vars, Published
  <2>. QED
    BY <2>o, <2>1, <2>2, <2>3, <2>4, <2>5
       DEF Next, LogStep, PushStep, Push, ReaderStep, TryPop
<1>. QED
  BY <1>1, <1>2

\* The queue implements LogQueue: a line of push gets one place, in the order in
\* which its producer logs, and try_pop hands the lines out in the order of their
\* places, each once, and none before it was stored.
THEOREM QueueImplementsLogQueue == Spec => ImplementsLogQueue
<1>1. Init => Abstract!Init /\ ClaimedInv
  <2>. SUFFICES ASSUME Init PROVE Abstract!Init /\ ClaimedInv
    OBVIOUS
  <2>1. Places = 0
    BY QueueAssumption DEF Init, Places, SettingUp, InBuffer
  <2>2. Order = <<>> /\ DOMAIN Order = {}
    BY <2>1 DEF Order
  <2>3. Published = {}
    <3>1. \A b \in Bufs, i \in Slots : m_write_state[b][i] # 1
      BY DEF Init
    <3>. QED
      BY <3>1, PublishedLines
  <2>4. ASSUME NEW p \in Producers PROVE Cardinality(PlacesOf(p)) + Unplaced(p) = sent[p]
    <3>1. PlacesOf(p) = {}
      BY <2>2 DEF PlacesOf
    <3>2. Unplaced(p) = 0 /\ sent[p] = 0
      BY DEF Init, Unplaced
    <3>. QED
      BY <3>1, <3>2, FS_EmptySet
  <2>. QED
    BY <2>2, <2>3, <2>4 DEF Abstract!Init, ClaimedInv, Init
<1>2. TypeOK /\ QueueInv /\ QueueInv' /\ ClaimedInv /\ [Next]_vars => ClaimedInv'
  BY ClaimedStep
<1>3. TypeOK /\ QueueInv /\ QueueInv' /\ ClaimedInv /\ [Next]_vars
        => [Abstract!Next]_<<Order, Published, taken>>
  BY ImplementsStep
<1>. QED
  BY <1>1, <1>2, <1>3, QueueInvariant, PTL
     DEF Spec, ImplementsLogQueue, Abstract!Spec, Abstract!absVars

=============================================================================
