-------------------------- MODULE RingBufferProofs --------------------------
(***************************************************************************)
(* Proofs about RingBuffer, for every number of producers and lines, every *)
(* Size of the ring and every Wrap of the indexes.  TypeOK and RingInv are *)
(* inductive together (RingInvariant), with one lemma for each part of     *)
(* RingInv; the properties of RingBuffer and the refinement of LossyLog    *)
(* follow.                                                                 *)
(***************************************************************************)
EXTENDS RingBuffer, TLAPS, FiniteSetTheorems, SequenceTheorems

\* The indexes wrap at Wrap and pick a slot of the ring.
LEMMA IndexTypes ==
  ASSUME TypeOK
  PROVE  /\ Item \in Slots /\ m_write_index % Size \in Slots
         /\ Advance(m_write_index) \in 0 .. Wrap - 1
         /\ Advance(m_read_index) \in 0 .. Wrap - 1
<1>1. /\ Size \in Nat \ {0} /\ Wrap \in Nat \ {0}
      /\ m_write_index \in Nat /\ m_read_index \in Nat
  BY RingAssumption DEF TypeOK
<1>2. Item \in 0 .. Size - 1 /\ m_write_index % Size \in 0 .. Size - 1
  BY <1>1 DEF Item
<1>. QED
  BY <1>1, <1>2 DEF Slots, Advance

\* A producer inside push has a line: a pair that is not None.
LEMMA LineTyped ==
  ASSUME TypeOK, PushHasLine, NEW p \in Producers, pc[p] # "idle"
  PROVE  Line(p) \in Lines /\ Line(p) # None
<1>1. sent[p] \in 1 .. MaxLines
  BY DEF TypeOK, PushHasLine
<1>. QED
  BY <1>1, RingAssumption DEF Line, Lines

\* Every step of push and try_pop keeps the types.
LEMMA TypeStep ==
  ASSUME TypeOK, RingInv, [Next]_vars
  PROVE  TypeOK'
<1>. USE DEF TypeOK, ring, producer, reader
<1>h. PushHasLine
  BY DEF RingInv
<1>1. ASSUME NEW p \in Producers, Log(p) PROVE TypeOK'
  <2>1. sent[p] + 1 \in 0 .. MaxLines
    BY <1>1, RingAssumption DEF Log
  <2>. QED
    BY <1>1, <2>1 DEF Log, Go
<1>2. ASSUME NEW p \in Producers, Claim(p) PROVE TypeOK'
  <2>1. order' \in Seq(Lines)
    BY <1>2, <1>h, LineTyped, AppendProperties DEF Claim
  <2>2. write_index' \in [Producers -> Slots] /\ m_write_index' \in 0 .. Wrap - 1
    BY <1>2, IndexTypes DEF Claim
  <2>. QED
    BY <1>2, <2>1, <2>2 DEF Claim, Go
<1>3. ASSUME NEW p \in Producers, Enter(p) PROVE TypeOK'
  BY <1>3 DEF Enter, EnterWhen, Lock, Go
<1>4. ASSUME NEW p \in Producers, MoveHead(p) PROVE TypeOK'
  <2>1. Line(p) \in MaybeLine
    BY <1>4, <1>h, LineTyped DEF MoveHead, MaybeLine
  <2>. QED
    BY <1>4, <2>1 DEF MoveHead, Go
<1>5. ASSUME NEW p \in Producers, MoveTail(p) PROVE TypeOK'
  <2>1. Line(p) \in MaybeLine
    BY <1>5, <1>h, LineTyped DEF MoveTail, MaybeLine
  <2>. QED
    BY <1>5, <2>1 DEF MoveTail, Go
<1>6. ASSUME NEW p \in Producers, Mark(p) PROVE TypeOK'
  BY <1>6 DEF Mark, Go
<1>7. ASSUME NEW p \in Producers, Leave(p) PROVE TypeOK'
  BY <1>7 DEF Leave, Go
<1>8. ASSUME LockToLook PROVE TypeOK'
  BY <1>8, IndexTypes DEF LockToLook, Lock
<1>9. ASSUME NothingThere PROVE TypeOK'
  BY <1>9, IndexTypes DEF NothingThere
<1>10. ASSUME TakeHead PROVE TypeOK'
  BY <1>10, IndexTypes DEF TakeHead, MaybeLine
<1>11. ASSUME TakeTail PROVE TypeOK'
  BY <1>11, IndexTypes DEF TakeTail
<1>12. ASSUME Clear PROVE TypeOK'
  <2>1. taken' \in Seq(MaybeLine \X MaybeLine)
    BY <1>12, AppendProperties DEF Clear, ClearTo
  <2>2. m_read_index' \in 0 .. Wrap - 1 /\ hand' \in MaybeLine \X MaybeLine
    BY <1>12, IndexTypes DEF Clear, ClearTo, MaybeLine
  <2>3. written' \in [Slots -> {0, 1}] /\ flag' \in [Slots -> Producers \cup {Reader, None}]
    BY <1>12, IndexTypes DEF Clear, ClearTo
  <2>. QED
    BY <1>12, <2>1, <2>2, <2>3 DEF Clear, ClearTo
<1>13. ASSUME PopAgain PROVE TypeOK'
  BY <1>13 DEF PopAgain, PopAgainUnless
<1>14. ASSUME Shutdown PROVE TypeOK'
  BY <1>14 DEF Shutdown
<1>15. CASE UNCHANGED vars
  BY <1>15 DEF vars
<1>. QED
  BY <1>1, <1>2, <1>3, <1>4, <1>5, <1>6, <1>7, <1>8, <1>9, <1>10, <1>11, <1>12, <1>13, <1>14, <1>15
     DEF Next, ProducerStep, Push, ReaderStep, TryPop

\* A thread enters push only with a line to log.
LEMMA LineOfPushStep ==
  ASSUME TypeOK, RingInv, [Next]_vars
  PROVE  PushHasLine'
<1>. USE DEF ring, producer, reader
<1>t. pc \in [Producers -> {"idle", "claim", "lock", "head", "tail", "mark", "unlock"}]
      /\ sent \in [Producers -> 0 .. MaxLines] /\ PushHasLine
  BY DEF TypeOK, RingInv
<1>1. ASSUME NEW p \in Producers, Log(p) PROVE PushHasLine'
  BY <1>1, <1>t DEF Log, Go, PushHasLine
<1>2. ASSUME NEW p \in Producers, Push(p) PROVE PushHasLine'
  BY <1>2, <1>t DEF Push, Claim, Enter, EnterWhen, MoveHead, MoveTail, Mark, Leave, Go, PushHasLine
<1>3. ASSUME ReaderStep \/ Shutdown \/ UNCHANGED vars PROVE PushHasLine'
  <2>1. UNCHANGED <<pc, sent>>
    BY <1>3 DEF ReaderStep, TryPop, LockToLook, NothingThere, TakeHead, TakeTail, Clear, ClearTo,
                PopAgain, PopAgainUnless, Shutdown, vars
  <2>. QED
    BY <1>t, <2>1 DEF PushHasLine
<1>. QED
  BY <1>1, <1>2, <1>3 DEF Next, ProducerStep

\* No step breaks LockInv: test_and_set gives a slot's lock to one thread.
LEMMA LockStep ==
  ASSUME TypeOK, RingInv, [Next]_vars
  PROVE  LockInv'
<1>. USE DEF ring, producer, reader, Item
<1>t. /\ pc \in [Producers -> {"idle", "claim", "lock", "head", "tail", "mark", "unlock"}]
      /\ flag \in [Slots -> Producers \cup {Reader, None}] /\ Item \in Slots
      /\ write_index \in [Producers -> Slots]
      /\ Reader \notin Producers /\ None \notin Producers /\ None # Reader
  BY IndexTypes, RingAssumption DEF TypeOK
<1>s. LockInv
  BY DEF RingInv
<1>1. ASSUME NEW p \in Producers, Log(p) \/ MoveHead(p) \/ MoveTail(p) \/ Mark(p) PROVE LockInv'
  BY <1>1, <1>t, <1>s DEF Log, MoveHead, MoveTail, Mark, Go, LockInv
<1>2. ASSUME NEW p \in Producers, Claim(p) PROVE LockInv'
  BY <1>2, <1>t, <1>s DEF Claim, Go, LockInv
<1>3. ASSUME NEW p \in Producers, Enter(p) PROVE LockInv'
  BY <1>3, <1>t, <1>s DEF Enter, EnterWhen, Lock, Go, LockInv
<1>7. ASSUME NEW p \in Producers, Leave(p) PROVE LockInv'
  BY <1>7, <1>t, <1>s DEF Leave, Go, LockInv
<1>8. ASSUME LockToLook PROVE LockInv'
  BY <1>8, <1>t, <1>s DEF LockToLook, Lock, LockInv
<1>9. ASSUME NothingThere PROVE LockInv'
  BY <1>9, <1>t, <1>s DEF NothingThere, LockInv
<1>10. ASSUME TakeHead \/ TakeTail PROVE LockInv'
  BY <1>10, <1>t, <1>s DEF TakeHead, TakeTail, LockInv
<1>12. ASSUME Clear PROVE LockInv'
  BY <1>12, <1>t, <1>s DEF Clear, ClearTo, LockInv
<1>13. ASSUME PopAgain PROVE LockInv'
  BY <1>13, <1>t, <1>s DEF PopAgain, PopAgainUnless, LockInv
<1>14. ASSUME Shutdown \/ UNCHANGED vars PROVE LockInv'
  BY <1>14, <1>t, <1>s DEF Shutdown, vars, LockInv
<1>. QED
  BY <1>1, <1>2, <1>3, <1>7, <1>8, <1>9, <1>10, <1>12, <1>13, <1>14
     DEF Next, ProducerStep, Push, ReaderStep, TryPop

\* Two threads inside the locks of slots are at two slots.
LEMMA Exclusive ==
  ASSUME TypeOK, LockInv, NEW p \in Producers, pc[p] \in {"head", "tail", "mark", "unlock"}
  PROVE  /\ write_index[p] \in Slots
         /\ \A q \in Producers \ {p} : pc[q] \in {"head", "tail", "mark", "unlock"} =>
              write_index[q] # write_index[p]
         /\ rpc \in {"look", "tail", "clear"} => Item # write_index[p]
  BY RingAssumption DEF TypeOK, LockInv

\* No step breaks HalvesInv.
LEMMA HalvesStep ==
  ASSUME TypeOK, RingInv, [Next]_vars
  PROVE  HalvesInv'
<1>. USE DEF ring, producer, reader, Item
<1>t. /\ pc \in [Producers -> {"idle", "claim", "lock", "head", "tail", "mark", "unlock"}]
      /\ head \in [Slots -> MaybeLine] /\ tail \in [Slots -> MaybeLine]
      /\ written \in [Slots -> {0, 1}] /\ Item \in Slots
      /\ write_index \in [Producers -> Slots]
  BY IndexTypes DEF TypeOK
<1>s. LockInv /\ HalvesInv /\ PushHasLine
  BY DEF RingInv
<1>1. ASSUME NEW p \in Producers, Log(p) PROVE HalvesInv'
  BY <1>1, <1>t, <1>s DEF Log, Go, HalvesInv, Line
<1>2. ASSUME NEW p \in Producers, Claim(p) PROVE HalvesInv'
  BY <1>2, <1>t, <1>s DEF Claim, Go, HalvesInv, Line
<1>3. ASSUME NEW p \in Producers, Enter(p) PROVE HalvesInv'
  BY <1>3, <1>t, <1>s DEF Enter, EnterWhen, Go, HalvesInv, Line
<1>4. ASSUME NEW p \in Producers, MoveHead(p) PROVE HalvesInv'
  <2>1. /\ \A q \in Producers \ {p} : pc[q] \in {"tail", "mark"} => write_index[q] # write_index[p]
        /\ rpc \in {"tail", "clear"} => Item # write_index[p]
    BY <1>4, <1>s, Exclusive DEF MoveHead
  <2>. QED
    BY <1>4, <1>t, <1>s, <2>1 DEF MoveHead, Go, HalvesInv, Line
<1>5. ASSUME NEW p \in Producers, MoveTail(p) PROVE HalvesInv'
  <2>1. /\ \A q \in Producers \ {p} : pc[q] \in {"tail", "mark"} => write_index[q] # write_index[p]
        /\ rpc \in {"tail", "clear"} => Item # write_index[p]
    BY <1>5, <1>s, Exclusive DEF MoveTail
  <2>2. Line(p) # None
    BY <1>5, <1>s, LineTyped DEF MoveTail
  <2>. QED
    BY <1>5, <1>t, <1>s, <2>1, <2>2 DEF MoveTail, Go, HalvesInv, Line
<1>6. ASSUME NEW p \in Producers, Mark(p) PROVE HalvesInv'
  <2>1. rpc \in {"tail", "clear"} => Item # write_index[p]
    BY <1>6, <1>s, Exclusive DEF Mark
  <2>2. tail[write_index[p]] # None
    BY <1>6, <1>s, LineTyped DEF Mark, HalvesInv
  <2>. QED
    BY <1>6, <1>t, <1>s, <2>1, <2>2 DEF Mark, Go, HalvesInv, Line
<1>7. ASSUME NEW p \in Producers, Leave(p) PROVE HalvesInv'
  BY <1>7, <1>t, <1>s DEF Leave, Go, HalvesInv, Line
<1>8. ASSUME LockToLook \/ NothingThere PROVE HalvesInv'
  BY <1>8, <1>t, <1>s DEF LockToLook, NothingThere, HalvesInv, Line
<1>10. ASSUME TakeHead PROVE HalvesInv'
  BY <1>10, <1>t, <1>s DEF TakeHead, HalvesInv, Line
<1>11. ASSUME TakeTail PROVE HalvesInv'
  BY <1>11, <1>t, <1>s DEF TakeTail, HalvesInv, Line
<1>12. ASSUME Clear PROVE HalvesInv'
  BY <1>12, <1>t, <1>s DEF Clear, ClearTo, HalvesInv, Line
<1>13. ASSUME PopAgain PROVE HalvesInv'
  BY <1>13, <1>t, <1>s DEF PopAgain, PopAgainUnless, HalvesInv, Line
<1>14. ASSUME Shutdown \/ UNCHANGED vars PROVE HalvesInv'
  BY <1>14, <1>t, <1>s DEF Shutdown, vars, HalvesInv, Line
<1>. QED
  BY <1>1, <1>2, <1>3, <1>4, <1>5, <1>6, <1>7, <1>8, <1>10, <1>11, <1>12, <1>13, <1>14
     DEF Next, ProducerStep, Push, ReaderStep, TryPop

\* LineInv is about the second halves, the lines handed out, and the producers whose
\* line is still to come.
LEMMA LineFrame ==
  ASSUME TypeOK, LineInv, UNCHANGED <<tail, taken, sent>>,
         \A i \in Slots : written'[i] = 1 => written[i] = 1,
         \A p \in Producers : (Unstored(p)' => Unstored(p)) /\ (pc'[p] = "mark" => pc[p] = "mark")
  PROVE  LineInv'
<1>1. \A i \in Slots : tail[i] # None => tail[i][1] \in Producers
  BY DEF TypeOK, MaybeLine, Lines
<1>2. \A k \in DOMAIN taken : taken[k][1] # None => taken[k][1][1] \in Producers
  <2>1. \A k \in DOMAIN taken : taken[k] \in MaybeLine \X MaybeLine
    BY ElementOfSeq, LenProperties DEF TypeOK
  <2>. QED
    BY <2>1 DEF MaybeLine, Lines
<1>3. \A l : Stored(l) /\ l[1] \in Producers => Stored(l)'
  BY DEF Stored
<1>4. \A l : HandedOut(l)' <=> HandedOut(l)
  BY DEF HandedOut
<1>5. \A p \in Producers : Line(p)' = Line(p)
  BY DEF Line
<1>. QED
  BY <1>1, <1>2, <1>3, <1>4, <1>5 DEF LineInv

\* No step breaks LineInv: a producer stores its line once, and what the reader
\* takes is marked as read before the slot is unlocked.
LEMMA LineStep ==
  ASSUME TypeOK, RingInv, [Next]_vars
  PROVE  LineInv'
<1>. USE DEF ring, producer, reader
<1>t. /\ pc \in [Producers -> {"idle", "claim", "lock", "head", "tail", "mark", "unlock"}]
      /\ tail \in [Slots -> MaybeLine] /\ written \in [Slots -> {0, 1}] /\ Item \in Slots
      /\ sent \in [Producers -> 0 .. MaxLines] /\ write_index \in [Producers -> Slots]
  BY IndexTypes DEF TypeOK
<1>s. LockInv /\ HalvesInv /\ LineInv /\ PushHasLine
  BY DEF RingInv
<1>l. /\ \A i \in Slots : tail[i] # None => tail[i][1] \in Producers /\ tail[i][2] \in Nat
      /\ \A k \in DOMAIN taken : taken[k][1][1] \in Producers /\ taken[k][1][2] \in Nat
  <2>1. \A k \in DOMAIN taken : taken[k] \in MaybeLine \X MaybeLine
    BY ElementOfSeq, LenProperties DEF TypeOK
  <2>2. \A k \in DOMAIN taken : taken[k][1] # None
    BY <1>s DEF LineInv
  <2>. QED
    BY <1>t, <2>1, <2>2 DEF MaybeLine, Lines
<1>1. ASSUME NEW p \in Producers, Log(p) PROVE LineInv'
  <2>1. /\ UNCHANGED <<tail, written, taken>>
        /\ \A q \in Producers : /\ sent[q] <= sent'[q] /\ sent[q] \in Nat /\ sent'[q] \in Nat
                                /\ (Unstored(q)' => Unstored(q) \/ sent[q] < sent'[q])
                                /\ (pc'[q] = "mark" => pc[q] = "mark" /\ sent'[q] = sent[q])
    BY <1>1, <1>t DEF Log, Go, Unstored
  <2>2. \A l : Stored(l) /\ l[1] \in Producers /\ l[2] \in Nat => Stored(l)'
    BY <2>1 DEF Stored
  <2>3. \A l : HandedOut(l)' <=> HandedOut(l)
    BY <2>1 DEF HandedOut
  <2>4. \A q \in Producers : pc'[q] = "mark" => Line(q)' = Line(q)
    BY <2>1 DEF Line
  <2>. QED
    BY <1>s, <1>l, <2>1, <2>2, <2>3, <2>4 DEF LineInv
<1>2. ASSUME NEW p \in Producers, Claim(p) \/ Enter(p) \/ MoveHead(p) \/ Leave(p) PROVE LineInv'
  BY <1>2, <1>s, <1>t, LineFrame DEF Claim, Enter, EnterWhen, MoveHead, Leave, Go, Unstored
<1>5. ASSUME NEW p \in Producers, MoveTail(p) PROVE LineInv'
  <2>1. Line(p) # None /\ Line(p)[1] = p /\ Line(p)[2] = sent[p] /\ Unstored(p) /\ sent[p] \in Nat
    BY <1>5, <1>s, <1>t, LineTyped DEF MoveTail, Line, Unstored
  <2>2. /\ \A i \in Slots : tail[i] # None => tail[i] # Line(p)
        /\ ~HandedOut(Line(p))
    BY <1>s, <2>1 DEF LineInv, Stored, HandedOut
  <2>3. /\ \A i \in Slots : tail'[i] = IF i = write_index[p] THEN Line(p) ELSE tail[i]
        /\ write_index[p] \in Slots /\ UNCHANGED <<written, taken, sent>>
        /\ \A q \in Producers : Unstored(q)' => Unstored(q) /\ q # p
        /\ \A q \in Producers : pc'[q] = "mark" => pc[q] = "mark" \/ q = p
    BY <1>5, <1>t DEF MoveTail, Go, Unstored
  <2>4. /\ \A l : Stored(l) /\ l[1] \in Producers => Stored(l)'
        /\ Stored(Line(p))'
    BY <2>1, <2>3 DEF Stored, Line
  <2>5. /\ \A l : HandedOut(l)' <=> HandedOut(l)
        /\ \A q \in Producers : Line(q)' = Line(q)
    BY <2>3 DEF HandedOut, Line
  <2>. QED
    BY <1>s, <1>l, <2>1, <2>2, <2>3, <2>4, <2>5 DEF LineInv
<1>6. ASSUME NEW p \in Producers, Mark(p) PROVE LineInv'
  <2>1. tail[write_index[p]] = Line(p) /\ ~HandedOut(Line(p))
    BY <1>6, <1>s DEF Mark, HalvesInv, LineInv
  <2>2. /\ UNCHANGED <<tail, taken, sent>>
        /\ \A i \in Slots : written'[i] = 1 => written[i] = 1 \/ i = write_index[p]
        /\ \A q \in Producers : (Unstored(q)' => Unstored(q)) /\ (pc'[q] = "mark" => pc[q] = "mark")
    BY <1>6, <1>t DEF Mark, Go, Unstored
  <2>3. \A l : Stored(l) /\ l[1] \in Producers => Stored(l)'
    BY <2>2 DEF Stored
  <2>4. /\ \A l : HandedOut(l)' <=> HandedOut(l)
        /\ \A q \in Producers : Line(q)' = Line(q)
    BY <2>2 DEF HandedOut, Line
  <2>. QED
    BY <1>s, <1>l, <2>1, <2>2, <2>3, <2>4 DEF LineInv
<1>12. ASSUME Clear PROVE LineInv'
  <2>1. PICK i \in Slots : i = Item
    BY <1>t
  <2>2. /\ written[i] = 1 /\ tail[i] # None /\ hand = <<tail[i], tail[i]>>
        /\ \A q \in Producers : pc[q] \in {"tail", "mark"} => write_index[q] # i
    <3>1. \A q \in Producers : pc[q] \in {"tail", "mark"} => write_index[q] # i
      BY <1>12, <1>s, <2>1, Exclusive DEF Clear, ClearTo
    <3>2. head[i] = tail[i] /\ hand[1] = head[i] /\ hand[2] = tail[i] /\ written[i] = 1
      BY <1>12, <1>s, <2>1, <3>1 DEF Clear, ClearTo, HalvesInv
    <3>3. hand \in MaybeLine \X MaybeLine
      BY DEF TypeOK
    <3>. QED
      BY <1>s, <3>1, <3>2, <3>3 DEF HalvesInv
  <2>3. Stored(tail[i]) /\ ~HandedOut(tail[i]) /\ \A j \in Slots : tail[j] = tail[i] => j = i
    BY <1>s, <2>2 DEF LineInv
  <2>4. /\ UNCHANGED <<tail, sent, pc, write_index>>
        /\ \A j \in Slots : written'[j] = 1 => written[j] = 1 /\ j # i
        /\ taken' = Append(taken, hand)
    BY <1>12, <1>t, <2>1 DEF Clear, ClearTo
  <2>5. /\ DOMAIN taken' = DOMAIN taken \cup {Len(taken) + 1} /\ Len(taken) + 1 \notin DOMAIN taken
        /\ \A k \in DOMAIN taken : taken'[k] = taken[k]
        /\ taken'[Len(taken) + 1] = <<tail[i], tail[i]>>
    BY <2>2, <2>4, AppendProperties, LenProperties DEF TypeOK
  <2>6. \A l : HandedOut(l)' <=> HandedOut(l) \/ l = tail[i]
    BY <2>5 DEF HandedOut
  <2>7. /\ \A l : Stored(l)' <=> Stored(l)
        /\ \A q \in Producers : Line(q)' = Line(q)
    BY <2>4 DEF Stored, Unstored, Line
  <2>8. \A q \in Producers : pc[q] = "mark" => Line(q) # tail[i]
    BY <1>t, <1>s, <2>2, <2>3 DEF HalvesInv
  <2>9. \A j, k \in DOMAIN taken' : taken'[j][1] = taken'[k][1] => j = k
    BY <1>s, <2>3, <2>5 DEF LineInv, HandedOut
  <2>10. \A k \in DOMAIN taken' : taken'[k][1] = taken'[k][2] /\ taken'[k][1] # None /\ Stored(taken'[k][1])
    BY <1>s, <2>2, <2>3, <2>5 DEF LineInv
  <2>. QED
    BY <1>s, <2>2, <2>3, <2>4, <2>6, <2>7, <2>8, <2>9, <2>10 DEF LineInv
<1>13. ASSUME \/ LockToLook \/ NothingThere \/ TakeHead \/ TakeTail \/ PopAgain \/ Shutdown
              \/ UNCHANGED vars
       PROVE  LineInv'
  <2>1. UNCHANGED <<tail, taken, sent, written, pc>>
    BY <1>13 DEF LockToLook, NothingThere, TakeHead, TakeTail, PopAgain, PopAgainUnless, Shutdown, vars
  <2>. QED
    BY <1>s, <2>1, LineFrame DEF Unstored
<1>. QED
  BY <1>1, <1>2, <1>5, <1>6, <1>12, <1>13 DEF Next, ProducerStep, Push, ReaderStep, TryPop

\* An index that counts on wraps as the count does.
LEMMA WrapNext ==
  ASSUME NEW n \in Nat
  PROVE  ((n % Wrap) + 1) % Wrap = (n + 1) % Wrap
<1>. DEFINE q == n \div Wrap
            r == n % Wrap
            d == (n + 1) \div Wrap
            m == (n + 1) % Wrap
<1>1. Wrap \in Nat \ {0}
  BY RingAssumption
<1>2. /\ q \in Nat /\ r \in 0 .. Wrap - 1 /\ n = Wrap * q + r
      /\ d \in Nat /\ m \in 0 .. Wrap - 1 /\ n + 1 = Wrap * d + m
  BY <1>1
<1>. HIDE DEF q, r, d, m
<1>3. CASE r + 1 < Wrap
  <2>1. d = q /\ m = r + 1
    BY <1>1, <1>2, <1>3
  <2>2. (r + 1) % Wrap = r + 1
    BY <1>1, <1>2, <1>3
  <2>. QED
    BY <2>1, <2>2 DEF r, m
<1>4. CASE r + 1 = Wrap
  <2>1. d = q + 1 /\ m = 0
    BY <1>1, <1>2, <1>4
  <2>2. (r + 1) % Wrap = 0
    BY <1>1, <1>4
  <2>. QED
    BY <2>1, <2>2 DEF r, m
<1>. QED
  BY <1>1, <1>2, <1>3, <1>4

\* The next line that is given a slot gets the one of m_write_index, the next that is
\* read is in the one of m_read_index.
LEMMA NextSlot ==
  ASSUME TypeOK, PlaceInv
  PROVE  /\ Len(order) \in Nat /\ Len(taken) \in Nat
         /\ SlotOf(Len(order) + 1) = m_write_index % Size
         /\ SlotOf(Len(taken) + 1) = Item
<1>1. Len(order) \in Nat /\ Len(taken) \in Nat
  BY LenProperties DEF TypeOK
<1>2. (Len(order) + 1) - 1 = Len(order) /\ (Len(taken) + 1) - 1 = Len(taken)
  BY <1>1
<1>. QED
  BY <1>1, <1>2 DEF SlotOf, PlaceInv, Item

\* PlaceInv is about the order, the second halves, the indexes and the producers on
\* their way to a slot.
LEMMA PlaceFrame ==
  ASSUME PlaceInv, UNCHANGED <<order, sent, m_write_index, m_read_index, tail, Len(taken)>>,
         TypeOK,
         \A p \in Producers : /\ (InFlight(p)' => InFlight(p) /\ write_index'[p] = write_index[p])
                             /\ (pc'[p] = "claim" => pc[p] = "claim")
  PROVE  PlaceInv'
<1>1. \A p \in Producers : Line(p)' = Line(p)
  BY DEF Line
<1>2. \A k \in DOMAIN order : order[k][1] \in Producers
  <2>1. \A k \in DOMAIN order : order[k] \in Lines
    BY ElementOfSeq, LenProperties DEF TypeOK
  <2>. QED
    BY <2>1 DEF Lines
<1>. QED
  BY <1>1, <1>2 DEF PlaceInv

\* No step breaks PlaceInv: the two indexes go round the ring in the same way.
LEMMA PlaceStep ==
  ASSUME TypeOK, RingInv, [Next]_vars
  PROVE  PlaceInv'
<1>. USE DEF ring, producer, reader
<1>t. /\ pc \in [Producers -> {"idle", "claim", "lock", "head", "tail", "mark", "unlock"}]
      /\ tail \in [Slots -> MaybeLine]
      /\ sent \in [Producers -> 0 .. MaxLines] /\ write_index \in [Producers -> Slots]
  BY DEF TypeOK
<1>s. PlaceInv /\ PushHasLine
  BY DEF RingInv
<1>o. \A k \in DOMAIN order : order[k][1] \in Producers /\ order[k][2] \in Nat
  <2>1. \A k \in DOMAIN order : order[k] \in Lines
    BY ElementOfSeq, LenProperties DEF TypeOK
  <2>. QED
    BY <2>1 DEF Lines
<1>1. ASSUME NEW p \in Producers, Log(p) PROVE PlaceInv'
  <2>1. /\ UNCHANGED <<order, taken, m_write_index, m_read_index, tail, write_index>>
        /\ \A q \in Producers : /\ sent[q] \in Nat /\ sent'[q] \in Nat /\ sent[q] <= sent'[q]
                                /\ (InFlight(q)' => InFlight(q) /\ sent'[q] = sent[q])
                                /\ (pc'[q] = "claim" => pc[q] = "claim" \/ sent[q] < sent'[q])
    BY <1>1, <1>t DEF Log, Go, InFlight
  <2>2. \A q \in Producers : InFlight(q)' => Line(q)' = Line(q)
    BY <2>1 DEF Line
  <2>3. \A k \in DOMAIN order :
          order[k][2] <= sent'[order[k][1]] /\ (pc'[order[k][1]] = "claim" => order[k][2] < sent'[order[k][1]])
    BY <1>s, <1>o, <2>1 DEF PlaceInv
  <2>. QED
    BY <1>s, <2>1, <2>2, <2>3 DEF PlaceInv
<1>2. ASSUME NEW p \in Producers, Claim(p) PROVE PlaceInv'
  <2>1. Line(p) \in Lines /\ Line(p)[1] = p /\ Line(p)[2] = sent[p] /\ sent[p] \in Nat
    BY <1>2, <1>s, <1>t, LineTyped DEF Claim, Line
  <2>2. /\ UNCHANGED <<sent, taken, m_read_index, tail>> /\ order' = Append(order, Line(p))
        /\ write_index' = [write_index EXCEPT ![p] = m_write_index % Size]
        /\ m_write_index' = Advance(m_write_index)
        /\ pc' = [pc EXCEPT ![p] = "lock"]
    BY <1>2 DEF Claim, Go
  <2>3. /\ DOMAIN order' = DOMAIN order \cup {Len(order) + 1} /\ Len(order) + 1 \notin DOMAIN order
        /\ \A k \in DOMAIN order : order'[k] = order[k]
        /\ order'[Len(order) + 1] = Line(p) /\ Len(order') = Len(order) + 1
    BY <2>1, <2>2, AppendProperties, LenProperties DEF TypeOK
  <2>4. m_write_index' = Len(order') % Wrap
    BY <1>s, <2>2, <2>3, WrapNext, NextSlot DEF PlaceInv, Advance
  <2>5. \A q \in Producers : /\ Line(q)' = Line(q)
                             /\ q # p => pc'[q] = pc[q] /\ write_index'[q] = write_index[q]
    BY <2>2 DEF Line
  <2>6. ASSUME NEW q \in Producers, InFlight(q)'
        PROVE  \E k \in DOMAIN order' : order'[k] = Line(q)' /\ SlotOf(k) = write_index'[q]
    <3>1. CASE q = p
      <4>1. write_index'[p] = SlotOf(Len(order) + 1)
        BY <1>s, <1>t, <2>2, NextSlot
      <4>. QED
        BY <2>3, <2>5, <3>1, <4>1
    <3>2. CASE q # p
      <4>1. InFlight(q)
        BY <2>5, <2>6, <3>2 DEF InFlight
      <4>. QED
        BY <1>s, <2>3, <2>5, <3>2, <4>1 DEF PlaceInv
    <3>. QED
      BY <3>1, <3>2
  <2>7. \A i \in Slots : tail'[i] # None => \E k \in DOMAIN order' : order'[k] = tail'[i] /\ SlotOf(k) = i
    BY <1>s, <2>2, <2>3 DEF PlaceInv
  <2>8. ASSUME NEW k \in DOMAIN order'
        PROVE  /\ order'[k][2] <= sent[order'[k][1]]
               /\ pc'[order'[k][1]] = "claim" => order'[k][2] < sent[order'[k][1]]
    <3>1. CASE k = Len(order) + 1
      BY <1>t, <2>1, <2>2, <2>3, <3>1
    <3>2. CASE k \in DOMAIN order
      <4>1. pc'[order[k][1]] = "claim" => pc[order[k][1]] = "claim"
        BY <1>o, <1>t, <2>2, <3>2
      <4>. QED
        BY <1>s, <2>3, <3>2, <4>1 DEF PlaceInv
    <3>. QED
      BY <2>3, <3>1, <3>2
  <2>. QED
    BY <1>s, <2>2, <2>4, <2>6, <2>7, <2>8 DEF PlaceInv
<1>3. ASSUME NEW p \in Producers, Enter(p) \/ MoveHead(p) \/ Mark(p) \/ Leave(p) PROVE PlaceInv'
  BY <1>3, <1>s, <1>t, PlaceFrame DEF Enter, EnterWhen, MoveHead, Mark, Leave, Go, InFlight
<1>5. ASSUME NEW p \in Producers, MoveTail(p) PROVE PlaceInv'
  <2>1. PICK k \in DOMAIN order : order[k] = Line(p) /\ SlotOf(k) = write_index[p]
    BY <1>5, <1>s DEF MoveTail, PlaceInv, InFlight
  <2>2. /\ \A i \in Slots : tail'[i] = IF i = write_index[p] THEN Line(p) ELSE tail[i]
        /\ UNCHANGED <<order, taken, sent, m_write_index, m_read_index, write_index>>
        /\ \A q \in Producers : (InFlight(q)' <=> InFlight(q)) /\ (pc'[q] = "claim" => pc[q] = "claim")
    BY <1>5, <1>t DEF MoveTail, Go, InFlight
  <2>3. \A q \in Producers : Line(q)' = Line(q)
    BY <2>2 DEF Line
  <2>. QED
    BY <1>s, <1>o, <2>1, <2>2, <2>3 DEF PlaceInv
<1>12. ASSUME Clear PROVE PlaceInv'
  <2>1. Len(taken') = Len(taken) + 1
    BY <1>12, AppendProperties DEF Clear, ClearTo, TypeOK
  <2>2. m_read_index' = Len(taken') % Wrap
    BY <1>12, <1>s, <2>1, WrapNext, NextSlot DEF Clear, ClearTo, PlaceInv, Advance
  <2>3. UNCHANGED <<order, sent, m_write_index, tail, write_index, pc>>
    BY <1>12 DEF Clear, ClearTo
  <2>4. \A q \in Producers : (InFlight(q)' <=> InFlight(q)) /\ Line(q)' = Line(q)
    BY <2>3 DEF InFlight, Line
  <2>. QED
    BY <1>s, <2>2, <2>3, <2>4 DEF PlaceInv
<1>13. ASSUME \/ LockToLook \/ NothingThere \/ TakeHead \/ TakeTail \/ PopAgain \/ Shutdown
              \/ UNCHANGED vars
       PROVE  PlaceInv'
  <2>1. UNCHANGED <<order, sent, m_write_index, m_read_index, tail, taken, pc, write_index>>
    BY <1>13 DEF LockToLook, NothingThere, TakeHead, TakeTail, PopAgain, PopAgainUnless, Shutdown, vars
  <2>. QED
    BY <1>s, <2>1, PlaceFrame DEF InFlight
<1>. QED
  BY <1>1, <1>2, <1>3, <1>5, <1>12, <1>13 DEF Next, ProducerStep, Push, ReaderStep, TryPop

\* The sets that CountInv counts are finite.
LEMMA CountsFinite ==
  ASSUME TypeOK, NEW S \in SUBSET Slots
  PROVE  /\ IsFiniteSet(TakenIn(S)) /\ Cardinality(TakenIn(S)) \in Nat
         /\ IsFiniteSet(WaitIn(S)) /\ Cardinality(WaitIn(S)) \in Nat
         /\ IsFiniteSet(InFlightTo(S)) /\ Cardinality(InFlightTo(S)) \in Nat
         /\ IsFiniteSet(GivenIn(S)) /\ Cardinality(GivenIn(S)) \in Nat
<1>1. /\ Len(order) \in Nat /\ DOMAIN order = 1 .. Len(order)
      /\ Len(taken) \in Nat /\ DOMAIN taken = 1 .. Len(taken)
  BY LenProperties DEF TypeOK
<1>2. IsFiniteSet(1 .. Len(order)) /\ IsFiniteSet(1 .. Len(taken)) /\ IsFiniteSet(Slots)
      /\ IsFiniteSet(Producers)
  BY <1>1, FS_Interval, RingAssumption DEF Slots
<1>3. /\ TakenIn(S) \subseteq 1 .. Len(taken) /\ GivenIn(S) \subseteq 1 .. Len(order)
      /\ WaitIn(S) \subseteq Slots /\ InFlightTo(S) \subseteq Producers
  BY <1>1 DEF TakenIn, GivenIn, WaitIn, InFlightTo
<1>. QED
  BY <1>2, <1>3, FS_Subset, FS_CardinalityType

\* No step breaks CountInv: Claim gives a slot and sends a line there, Mark turns a
\* line on its way into one that waits, Clear one that waits into one that was taken.
LEMMA CountStep ==
  ASSUME TypeOK, RingInv, [Next]_vars
  PROVE  CountInv'
<1>. USE DEF ring, producer, reader
<1>t. /\ pc \in [Producers -> {"idle", "claim", "lock", "head", "tail", "mark", "unlock"}]
      /\ written \in [Slots -> {0, 1}] /\ Item \in Slots
      /\ write_index \in [Producers -> Slots]
  BY IndexTypes DEF TypeOK
<1>s. CountInv /\ PlaceInv /\ HalvesInv /\ PushHasLine
  BY DEF RingInv
<1>. SUFFICES ASSUME NEW S \in SUBSET Slots
              PROVE  Cardinality(TakenIn(S)') + Cardinality(WaitIn(S)') + Cardinality(InFlightTo(S)')
                       <= Cardinality(GivenIn(S)')
  BY DEF CountInv
<1>c. Cardinality(TakenIn(S)) + Cardinality(WaitIn(S)) + Cardinality(InFlightTo(S))
        <= Cardinality(GivenIn(S))
  BY <1>s DEF CountInv
<1>n. /\ IsFiniteSet(TakenIn(S)) /\ Cardinality(TakenIn(S)) \in Nat
      /\ IsFiniteSet(WaitIn(S)) /\ Cardinality(WaitIn(S)) \in Nat
      /\ IsFiniteSet(InFlightTo(S)) /\ Cardinality(InFlightTo(S)) \in Nat
      /\ IsFiniteSet(GivenIn(S)) /\ Cardinality(GivenIn(S)) \in Nat
  BY CountsFinite
<1>f. ASSUME UNCHANGED <<order, taken, written>>,
             \A p \in Producers : InFlight(p)' <=> InFlight(p),
             \A p \in Producers : InFlight(p) => write_index'[p] = write_index[p]
      PROVE  Cardinality(TakenIn(S)') + Cardinality(WaitIn(S)') + Cardinality(InFlightTo(S)')
               <= Cardinality(GivenIn(S)')
  <2>1. TakenIn(S)' = TakenIn(S) /\ WaitIn(S)' = WaitIn(S) /\ GivenIn(S)' = GivenIn(S)
    BY <1>f DEF TakenIn, WaitIn, GivenIn
  <2>2. InFlightTo(S)' = InFlightTo(S)
    BY <1>f DEF InFlightTo
  <2>. QED
    BY <1>c, <2>1, <2>2
<1>1. ASSUME NEW p \in Producers, Claim(p)
      PROVE  Cardinality(TakenIn(S)') + Cardinality(WaitIn(S)') + Cardinality(InFlightTo(S)')
               <= Cardinality(GivenIn(S)')
  <2>1. /\ DOMAIN order' = DOMAIN order \cup {Len(order) + 1} /\ Len(order) + 1 \notin DOMAIN order
    <3>1. Line(p) \in Lines
      BY <1>1, <1>s, LineTyped DEF Claim
    <3>. QED
      BY <1>1, <3>1, AppendProperties, LenProperties DEF Claim, TypeOK
  <2>2. /\ ~InFlight(p) /\ InFlight(p)' /\ write_index'[p] = SlotOf(Len(order) + 1)
        /\ \A q \in Producers \ {p} : (InFlight(q)' <=> InFlight(q)) /\ write_index'[q] = write_index[q]
    BY <1>1, <1>s, <1>t, NextSlot DEF Claim, Go, InFlight
  <2>3. TakenIn(S)' = TakenIn(S) /\ WaitIn(S)' = WaitIn(S)
    BY <1>1 DEF Claim, TakenIn, WaitIn
  <2>4. CASE SlotOf(Len(order) + 1) \in S
    <3>1. InFlightTo(S)' = InFlightTo(S) \cup {p} /\ p \notin InFlightTo(S)
      BY <2>2, <2>4 DEF InFlightTo
    <3>2. GivenIn(S)' = GivenIn(S) \cup {Len(order) + 1} /\ Len(order) + 1 \notin GivenIn(S)
      BY <2>1, <2>4 DEF GivenIn
    <3>3. /\ Cardinality(InFlightTo(S)') = Cardinality(InFlightTo(S)) + 1
          /\ Cardinality(GivenIn(S)') = Cardinality(GivenIn(S)) + 1
      BY <1>n, <3>1, <3>2, FS_AddElement
    <3>. QED
      BY <1>c, <1>n, <2>3, <3>3
  <2>5. CASE SlotOf(Len(order) + 1) \notin S
    <3>1. InFlightTo(S)' = InFlightTo(S)
      BY <2>2, <2>5 DEF InFlightTo
    <3>2. GivenIn(S)' = GivenIn(S)
      BY <2>1, <2>5 DEF GivenIn
    <3>. QED
      BY <1>c, <2>3, <3>1, <3>2
  <2>. QED
    BY <2>4, <2>5
<1>2. ASSUME NEW p \in Producers, Mark(p)
      PROVE  Cardinality(TakenIn(S)') + Cardinality(WaitIn(S)') + Cardinality(InFlightTo(S)')
               <= Cardinality(GivenIn(S)')
  <2>1. TakenIn(S)' = TakenIn(S) /\ GivenIn(S)' = GivenIn(S)
    BY <1>2 DEF Mark, TakenIn, GivenIn
  <2>2. /\ InFlight(p) /\ ~InFlight(p)' /\ UNCHANGED write_index /\ write_index[p] \in Slots
        /\ \A q \in Producers \ {p} : (InFlight(q)' <=> InFlight(q))
        /\ \A i \in Slots : written'[i] = IF i = write_index[p] THEN 1 ELSE written[i]
    BY <1>2, <1>t DEF Mark, Go, InFlight
  <2>3. InFlightTo(S)' = InFlightTo(S) \ {p}
    BY <2>2 DEF InFlightTo
  <2>4. CASE write_index[p] \in S
    <3>1. WaitIn(S)' = WaitIn(S) \cup {write_index[p]} /\ p \in InFlightTo(S)
      BY <2>2, <2>4 DEF WaitIn, InFlightTo
    <3>2. Cardinality(InFlightTo(S)') = Cardinality(InFlightTo(S)) - 1
      BY <1>n, <2>3, <3>1, FS_RemoveElement
    <3>3. \/ Cardinality(WaitIn(S)') = Cardinality(WaitIn(S)) + 1
          \/ Cardinality(WaitIn(S)') = Cardinality(WaitIn(S))
      BY <1>n, <3>1, FS_AddElement
    <3>. QED
      BY <1>c, <1>n, <2>1, <3>2, <3>3
  <2>5. CASE write_index[p] \notin S
    <3>1. WaitIn(S)' = WaitIn(S) /\ InFlightTo(S)' = InFlightTo(S)
      BY <2>2, <2>3, <2>5 DEF WaitIn, InFlightTo
    <3>. QED
      BY <1>c, <2>1, <3>1
  <2>. QED
    BY <2>4, <2>5
<1>3. ASSUME Clear
      PROVE  Cardinality(TakenIn(S)') + Cardinality(WaitIn(S)') + Cardinality(InFlightTo(S)')
               <= Cardinality(GivenIn(S)')
  <2>1. /\ DOMAIN taken' = DOMAIN taken \cup {Len(taken) + 1} /\ Len(taken) + 1 \notin DOMAIN taken
    BY <1>3, AppendProperties, LenProperties DEF Clear, ClearTo, TypeOK
  <2>2. /\ written[Item] = 1 /\ SlotOf(Len(taken) + 1) = Item
        /\ \A i \in Slots : written'[i] = IF i = Item THEN 0 ELSE written[i]
    BY <1>3, <1>s, <1>t, NextSlot DEF Clear, ClearTo, HalvesInv
  <2>3. GivenIn(S)' = GivenIn(S) /\ InFlightTo(S)' = InFlightTo(S)
    BY <1>3 DEF Clear, ClearTo, GivenIn, InFlightTo, InFlight
  <2>4. WaitIn(S)' = WaitIn(S) \ {Item}
    BY <2>2 DEF WaitIn
  <2>5. CASE Item \in S
    <3>1. TakenIn(S)' = TakenIn(S) \cup {Len(taken) + 1} /\ Len(taken) + 1 \notin TakenIn(S)
      BY <2>1, <2>2, <2>5 DEF TakenIn
    <3>2. Item \in WaitIn(S)
      BY <2>2, <2>5 DEF WaitIn
    <3>3. Cardinality(TakenIn(S)') = Cardinality(TakenIn(S)) + 1
      BY <1>n, <3>1, FS_AddElement
    <3>4. Cardinality(WaitIn(S)') = Cardinality(WaitIn(S)) - 1
      BY <1>n, <2>4, <3>2, FS_RemoveElement
    <3>. QED
      BY <1>c, <1>n, <2>3, <3>3, <3>4
  <2>6. CASE Item \notin S
    <3>1. TakenIn(S)' = TakenIn(S) /\ WaitIn(S)' = WaitIn(S)
      BY <2>1, <2>2, <2>4, <2>6 DEF TakenIn, WaitIn
    <3>. QED
      BY <1>c, <2>3, <3>1
  <2>. QED
    BY <2>5, <2>6
<1>4. ASSUME NEW p \in Producers, Log(p) \/ Enter(p) \/ MoveHead(p) \/ MoveTail(p) \/ Leave(p)
      PROVE  Cardinality(TakenIn(S)') + Cardinality(WaitIn(S)') + Cardinality(InFlightTo(S)')
               <= Cardinality(GivenIn(S)')
  BY <1>4, <1>f, <1>t DEF Log, Enter, EnterWhen, MoveHead, MoveTail, Leave, Go, InFlight
<1>5. ASSUME \/ LockToLook \/ NothingThere \/ TakeHead \/ TakeTail \/ PopAgain \/ Shutdown
             \/ UNCHANGED vars
      PROVE  Cardinality(TakenIn(S)') + Cardinality(WaitIn(S)') + Cardinality(InFlightTo(S)')
               <= Cardinality(GivenIn(S)')
  <2>1. UNCHANGED <<order, taken, written, pc, write_index>>
    BY <1>5 DEF LockToLook, NothingThere, TakeHead, TakeTail, PopAgain, PopAgainUnless, Shutdown, vars
  <2>. QED
    BY <1>f, <2>1 DEF InFlight
<1>. QED
  BY <1>1, <1>2, <1>3, <1>4, <1>5 DEF Next, ProducerStep, Push, ReaderStep, TryPop

\* No step breaks DrainInv.
LEMMA DrainStep ==
  ASSUME TypeOK, RingInv, [Next]_vars
  PROVE  DrainInv'
<1>. USE DEF ring, producer, reader, Item
<1>t. /\ pc \in [Producers -> {"idle", "claim", "lock", "head", "tail", "mark", "unlock"}]
      /\ written \in [Slots -> {0, 1}] /\ Item \in Slots
  BY IndexTypes DEF TypeOK
<1>s. DrainInv
  BY DEF RingInv
<1>1. ASSUME NEW p \in Producers, ProducerStep(p) PROVE DrainInv'
  BY <1>1, <1>t, <1>s DEF ProducerStep, Push, Log, Claim, Enter, EnterWhen, MoveHead, MoveTail,
                          Mark, Leave, DrainInv
<1>2. ASSUME LockToLook \/ TakeHead \/ TakeTail \/ Clear PROVE DrainInv'
  BY <1>2, <1>s DEF LockToLook, TakeHead, TakeTail, Clear, ClearTo, DrainInv
<1>3. ASSUME NothingThere PROVE DrainInv'
  BY <1>3, <1>t, <1>s DEF NothingThere, DrainInv
<1>4. ASSUME PopAgain PROVE DrainInv'
  BY <1>4, <1>s DEF PopAgain, PopAgainUnless, DrainInv
<1>5. ASSUME Shutdown PROVE DrainInv'
  BY <1>5, <1>s DEF Shutdown, DrainInv
<1>6. CASE UNCHANGED vars
  BY <1>6, <1>s DEF vars, DrainInv
<1>. QED
  BY <1>1, <1>2, <1>3, <1>4, <1>5, <1>6 DEF Next, ReaderStep, TryPop

\* The constructor of RingBuffer establishes the types and RingInv.
LEMMA RingInvInit ==
  ASSUME Init
  PROVE  TypeOK /\ RingInv
<1>. USE RingAssumption DEF Init
<1>1. TypeOK
  <2>1. 0 \in Slots /\ 0 \in 0 .. Wrap - 1 /\ 0 \in 0 .. MaxLines
    BY DEF Slots
  <2>2. taken \in Seq(MaybeLine \X MaybeLine) /\ order \in Seq(Lines)
    OBVIOUS
  <2>3. hand \in MaybeLine \X MaybeLine /\ None \in MaybeLine
    BY DEF MaybeLine
  <2>4. /\ pc \in [Producers -> {"idle", "claim", "lock", "head", "tail", "mark", "unlock"}]
        /\ rpc \in {"call", "look", "tail", "clear", "hit", "miss", "done"}
    OBVIOUS
  <2>. QED
    BY <2>1, <2>2, <2>3, <2>4 DEF TypeOK
<1>2. PushHasLine /\ LockInv /\ HalvesInv /\ DrainInv
  BY DEF PushHasLine, LockInv, HalvesInv, DrainInv
<1>3. LineInv
  BY DEF LineInv
<1>4. PlaceInv
  <2>1. Len(order) = 0 /\ Len(taken) = 0 /\ 0 % Wrap = 0 /\ DOMAIN order = {}
    OBVIOUS
  <2>. QED
    BY <2>1 DEF PlaceInv, InFlight
<1>5. CountInv
  <2>. SUFFICES ASSUME NEW S \in SUBSET Slots
                PROVE  Cardinality(TakenIn(S)) + Cardinality(WaitIn(S)) + Cardinality(InFlightTo(S))
                         <= Cardinality(GivenIn(S))
    BY DEF CountInv
  <2>1. TakenIn(S) = {} /\ WaitIn(S) = {} /\ InFlightTo(S) = {} /\ GivenIn(S) = {}
    BY DEF TakenIn, WaitIn, InFlightTo, GivenIn, InFlight
  <2>. QED
    BY <2>1, FS_EmptySet
<1>. QED
  BY <1>1, <1>2, <1>3, <1>4, <1>5 DEF RingInv

\* TypeOK and RingInv are inductive: they hold of Init and every step keeps them.
THEOREM RingInvariant == Spec => [](TypeOK /\ RingInv)
<1>1. Init => TypeOK /\ RingInv
  BY RingInvInit
<1>2. TypeOK /\ RingInv /\ [Next]_vars => (TypeOK /\ RingInv)'
  BY TypeStep, LineOfPushStep, LockStep, HalvesStep, LineStep, PlaceStep, CountStep, DrainStep
     DEF RingInv
<1>. QED
  BY <1>1, <1>2, PTL DEF Spec

\* What try_pop hands out is a whole line, each once: the spin lock of a slot keeps a
\* producer out between the two halves of a move, and written keeps a line from being
\* read again.
THEOREM TakenIsWhole == Spec => []TakenWhole
<1>1. TypeOK /\ RingInv => TakenWhole
  <2>. SUFFICES ASSUME TypeOK, LineInv PROVE TakenWhole
    BY DEF RingInv
  <2>1. \A i, j \in DOMAIN taken : i # j => taken[i] # taken[j]
    BY DEF LineInv
  <2>. QED
    BY <2>1 DEF LineInv, TakenWhole
<1>. QED
  BY <1>1, RingInvariant, PTL

\* Counted over the whole ring, CountInv is about all lines.
LEMMA CountAll ==
  ASSUME TypeOK
  PROVE  /\ TakenIn(Slots) = 1 .. Len(taken) /\ Cardinality(TakenIn(Slots)) = Len(taken)
         /\ GivenIn(Slots) = 1 .. Len(order) /\ Cardinality(GivenIn(Slots)) = Len(order)
         /\ Len(taken) \in Nat /\ Len(order) \in Nat
<1>1. /\ Len(order) \in Nat /\ DOMAIN order = 1 .. Len(order)
      /\ Len(taken) \in Nat /\ DOMAIN taken = 1 .. Len(taken)
  BY LenProperties DEF TypeOK
<1>2. \A k \in Nat \ {0} : SlotOf(k) \in Slots
  BY RingAssumption DEF SlotOf, Slots
<1>3. \A k \in 1 .. Len(taken) : k \in Nat \ {0}
  BY <1>1
<1>4. \A k \in 1 .. Len(order) : k \in Nat \ {0}
  BY <1>1
<1>5. TakenIn(Slots) = 1 .. Len(taken)
  BY <1>1, <1>2, <1>3 DEF TakenIn
<1>6. GivenIn(Slots) = 1 .. Len(order)
  BY <1>1, <1>2, <1>4 DEF GivenIn
<1>7. ASSUME NEW n \in Nat PROVE Cardinality(1 .. n) = n
  <2>1. Cardinality(1 .. n) = IF 1 > n THEN 0 ELSE n - 1 + 1
    BY FS_Interval
  <2>. QED
    BY <2>1
<1>. QED
  BY <1>1, <1>5, <1>6, <1>7, Zenon

\* Two sets that have nothing in common.
LEMMA DisjointUnion ==
  ASSUME NEW S, IsFiniteSet(S), NEW T, IsFiniteSet(T), S \cap T = {}
  PROVE  Cardinality(S \cup T) = Cardinality(S) + Cardinality(T)
<1>1. Cardinality(S \cup T) = Cardinality(S) + Cardinality(T) - Cardinality({})
  BY FS_Union
<1>2. Cardinality(S) \in Nat /\ Cardinality(T) \in Nat
  BY FS_CardinalityType
<1>. QED
  BY <1>1, <1>2, FS_EmptySet

\* NanoLogger::pop leaves a line behind at shutdown only when another one was
\* overwritten: in every slot as many lines were stored as it has given out, so that
\* without a loss the slot of the next line is not empty while a line waits.
THEOREM DrainsUnlessDropped == Spec => []DrainedUnlessDropped
<1>1. TypeOK /\ RingInv => DrainedUnlessDropped
  <2>. SUFFICES ASSUME TypeOK, RingInv, rpc = "done", Held # {}
                PROVE  Len(order) > Len(taken) + Cardinality(Held)
    BY DEF DrainedUnlessDropped
  <2>. DEFINE others == Slots \ {Item}
  <2>1. written[Item] = 0 /\ Item \in Slots
    BY IndexTypes DEF RingInv, DrainInv
  <2>2. WaitIn(others) = WaitIn(Slots)
    BY <2>1 DEF WaitIn
  <2>w. /\ IsFiniteSet(WaitIn(Slots)) /\ Cardinality(WaitIn(Slots)) \in Nat
        /\ Cardinality(InFlightTo(Slots)) \in Nat /\ Cardinality(InFlightTo(others)) \in Nat
        /\ Cardinality(InFlightTo({Item})) \in Nat /\ Cardinality(WaitIn({Item})) \in Nat
        /\ IsFiniteSet(TakenIn({Item})) /\ Cardinality(TakenIn({Item})) \in Nat
        /\ IsFiniteSet(TakenIn(others)) /\ Cardinality(TakenIn(others)) \in Nat
        /\ IsFiniteSet(GivenIn({Item})) /\ Cardinality(GivenIn({Item})) \in Nat
        /\ IsFiniteSet(GivenIn(others)) /\ Cardinality(GivenIn(others)) \in Nat
    BY <2>1, CountsFinite
  <2>3. Cardinality(Held) <= Cardinality(WaitIn(Slots)) /\ Cardinality(Held) \in Nat
    <3>. DEFINE f == [i \in WaitIn(Slots) |-> tail[i]]
    <3>1. f \in Surjection(WaitIn(Slots), Held)
      BY DEF Surjection, Held, WaitIn
    <3>. QED
      BY <2>w, <3>1, FS_Surjection, FS_CardinalityType
  <2>4. Cardinality(WaitIn(Slots)) >= 1
    <3>1. WaitIn(Slots) # {}
      BY DEF Held, WaitIn
    <3>. QED
      BY <2>w, <3>1, FS_EmptySet
  <2>5. /\ Len(taken) + Cardinality(WaitIn(Slots)) + Cardinality(InFlightTo(Slots)) <= Len(order)
        /\ Len(taken) \in Nat /\ Len(order) \in Nat
    BY CountAll DEF RingInv, CountInv
  <2>6. Len(taken) + 1 \in 1 .. Len(order)
    BY <2>w, <2>4, <2>5
  <2>7. /\ Cardinality(TakenIn(others)) + Cardinality(WaitIn(Slots)) <= Cardinality(GivenIn(others))
        /\ Cardinality(TakenIn({Item})) <= Cardinality(GivenIn({Item}))
    <3>1. others \in SUBSET Slots /\ {Item} \in SUBSET Slots
      BY <2>1
    <3>2. /\ Cardinality(TakenIn(others)) + Cardinality(WaitIn(others)) + Cardinality(InFlightTo(others))
               <= Cardinality(GivenIn(others))
          /\ Cardinality(TakenIn({Item})) + Cardinality(WaitIn({Item})) + Cardinality(InFlightTo({Item}))
               <= Cardinality(GivenIn({Item}))
      BY <3>1 DEF RingInv, CountInv
    <3>. QED
      BY <2>2, <2>w, <3>2
  <2>8. Cardinality(TakenIn({Item})) + 1 <= Cardinality(GivenIn({Item}))
    <3>1. /\ TakenIn({Item}) \subseteq 1 .. Len(taken) /\ Len(taken) + 1 \notin TakenIn({Item})
          /\ GivenIn({Item}) = {k \in 1 .. Len(order) : SlotOf(k) = Item}
          /\ TakenIn({Item}) = {k \in 1 .. Len(taken) : SlotOf(k) = Item}
      BY <2>5, LenProperties DEF TakenIn, GivenIn, TypeOK
    <3>2. SlotOf(Len(taken) + 1) = Item /\ 1 .. Len(taken) \subseteq 1 .. Len(order)
      BY <2>5, <2>6, NextSlot DEF RingInv
    <3>3. TakenIn({Item}) \cup {Len(taken) + 1} \in SUBSET GivenIn({Item})
      BY <2>6, <3>1, <3>2
    <3>4. Cardinality(TakenIn({Item}) \cup {Len(taken) + 1}) = Cardinality(TakenIn({Item})) + 1
      BY <2>w, <3>1, FS_AddElement
    <3>5. Cardinality(TakenIn({Item}) \cup {Len(taken) + 1}) <= Cardinality(GivenIn({Item}))
      BY <2>w, <3>3, FS_Subset
    <3>. QED
      BY <3>4, <3>5
  <2>9. /\ Len(taken) = Cardinality(TakenIn({Item})) + Cardinality(TakenIn(others))
        /\ Len(order) = Cardinality(GivenIn({Item})) + Cardinality(GivenIn(others))
    <3>1. /\ TakenIn(Slots) = TakenIn({Item}) \cup TakenIn(others)
          /\ TakenIn({Item}) \cap TakenIn(others) = {}
          /\ GivenIn(Slots) = GivenIn({Item}) \cup GivenIn(others)
          /\ GivenIn({Item}) \cap GivenIn(others) = {}
      BY <2>1 DEF TakenIn, GivenIn
    <3>2. Cardinality(TakenIn(Slots)) = Cardinality(TakenIn({Item})) + Cardinality(TakenIn(others))
      <4>. HIDE DEF others
      <4>. QED
        BY <2>w, <3>1, DisjointUnion
    <3>3. Cardinality(GivenIn(Slots)) = Cardinality(GivenIn({Item})) + Cardinality(GivenIn(others))
      <4>. HIDE DEF others
      <4>. QED
        BY <2>w, <3>1, DisjointUnion
    <3>. QED
      BY <2>w, <3>2, <3>3, CountAll
  <2>. HIDE DEF others
  <2>10. Len(taken) + 1 + Cardinality(WaitIn(Slots)) <= Len(order)
    <3>. DEFINE a == Cardinality(TakenIn({Item}))
                b == Cardinality(TakenIn(others))
                c == Cardinality(GivenIn({Item}))
                d == Cardinality(GivenIn(others))
                w == Cardinality(WaitIn(Slots))
    <3>1. {a, b, c, d, w} \subseteq Nat /\ b + w <= d /\ a + 1 <= c
      BY <2>w, <2>7, <2>8
    <3>2. Len(taken) = a + b /\ Len(order) = c + d
      BY <2>9
    <3>. HIDE DEF a, b, c, d, w
    <3>3. a + b + 1 + w <= c + d
      BY ONLY <3>1
    <3>. QED
      BY <3>2, <3>3 DEF w
  <2>. QED
    BY <2>w, <2>3, <2>5, <2>10
<1>. QED
  BY <1>1, RingInvariant, PTL

\* For a ring of any size, one that does not divide the range of unsigned included: as
\* long as no two lines that wait share a slot, try_pop hands the lines out in the order
\* of their fetch_add.
THEOREM HandsOutInOrder == Spec => InOrderUntilLapped
<1>. DEFINE Ordered == \A i \in DOMAIN taken : taken[i][1] = order[i]
            Keeps == ~Lapped /\ Ordered => \A i \in DOMAIN taken' : taken'[i][1] = order'[i]
<1>1. TypeOK /\ RingInv /\ [Next]_vars => Keeps
  <2>. SUFFICES ASSUME TypeOK, RingInv, [Next]_vars, ~Lapped, Ordered PROVE Ordered'
    OBVIOUS
  <2>l. /\ Len(taken) \in Nat /\ Len(order) \in Nat /\ Size \in Nat
        /\ DOMAIN taken = 1 .. Len(taken) /\ DOMAIN order = 1 .. Len(order)
    BY LenProperties, RingAssumption DEF TypeOK
  <2>1. CASE \E p \in Producers : Claim(p)
    <3>1. PICK p \in Producers : Claim(p)
      BY <2>1
    <3>2. Line(p) \in Lines
      BY <3>1, LineTyped DEF Claim, RingInv
    <3>3. UNCHANGED taken /\ \A i \in 1 .. Len(order) : order'[i] = order[i]
      BY <3>1, <3>2, AppendProperties DEF Claim, TypeOK, reader
    <3>4. Len(taken) <= Len(order)
      <4>1. Cardinality(TakenIn(Slots)) <= Cardinality(GivenIn(Slots))
        BY CountsFinite DEF RingInv, CountInv
      <4>. QED
        BY <4>1, CountAll
    <3>5. \A i \in DOMAIN taken : i \in 1 .. Len(order)
      BY <2>l, <3>4
    <3>. QED
      BY <3>3, <3>5
  <2>2. CASE Clear
    <3>1. /\ UNCHANGED order /\ DOMAIN taken' = DOMAIN taken \cup {Len(taken) + 1}
          /\ \A i \in DOMAIN taken : taken'[i] = taken[i]
          /\ taken'[Len(taken) + 1] = hand
      BY <2>2, AppendProperties, LenProperties DEF Clear, ClearTo, TypeOK, producer
    <3>2. PICK i \in Slots : i = Item
      BY IndexTypes
    <3>3. hand[1] = tail[i] /\ tail[i] # None /\ ~HandedOut(tail[i])
      <4>1. \A p \in Producers : pc[p] = "tail" => write_index[p] # i
        BY <2>2, <3>2, Exclusive DEF RingInv, Clear, ClearTo
      <4>. QED
        BY <2>2, <3>2, <4>1 DEF Clear, ClearTo, RingInv, HalvesInv, LineInv
    <3>4. PICK k \in DOMAIN order : order[k] = tail[i] /\ SlotOf(k) = i
      BY <3>3 DEF RingInv, PlaceInv
    <3>5. k \notin DOMAIN taken
      BY <3>3, <3>4 DEF HandedOut
    <3>6. SlotOf(Len(taken) + 1) = SlotOf(k)
      BY <3>2, <3>4, NextSlot DEF RingInv
    <3>7. k = Len(taken) + 1
      <4>1. k \in Len(taken) + 1 .. Len(order) /\ Len(taken) + 1 \in Len(taken) + 1 .. Len(order)
        BY <2>l, <3>4, <3>5
      <4>2. ~(Len(taken) + 1 < k)
        BY <3>6, <4>1 DEF Lapped
      <4>. QED
        BY <2>l, <4>1, <4>2
    <3>. QED
      BY <3>1, <3>3, <3>4, <3>7
  <2>3. CASE ~Clear /\ \A p \in Producers : ~Claim(p)
    <3>1. UNCHANGED <<taken, order>>
      BY <2>3 DEF Next, ProducerStep, Push, Log, Enter, EnterWhen, MoveHead, MoveTail, Mark, Leave,
                  ReaderStep, TryPop, LockToLook, NothingThere, TakeHead, TakeTail, PopAgain,
                  PopAgainUnless, Shutdown, vars, producer, reader
    <3>. QED
      BY <3>1
  <2>. QED
    BY <2>1, <2>2, <2>3
<1>. QED
  BY <1>1, RingInvariant, PTL DEF Spec, InOrderUntilLapped

\* When the ring divides the range of the indexes, two lines get the same slot only
\* if they are a whole round apart,
LEMMA SameSlot ==
  ASSUME Wrap % Size = 0, NEW a \in Nat, NEW b \in a .. a + Size - 1,
         (a % Wrap) % Size = (b % Wrap) % Size
  PROVE  a = b
<1>1. Size \in Nat \ {0} /\ Wrap \in Nat \ {0} /\ b \in Nat
  BY RingAssumption
<1>2. \A n \in Nat : (n % Wrap) % Size = n % Size
  <2>. TAKE n \in Nat
  <2>. DEFINE c == Wrap \div Size
              q == n \div Wrap
              r == n % Wrap
              d == r \div Size
              m == r % Size
              e == n \div Size
              f == n % Size
  <2>1. /\ c \in Nat /\ Wrap = Size * c
        /\ q \in Nat /\ r \in Nat /\ n = Wrap * q + r
    BY <1>1
  <2>2. /\ d \in Nat /\ m \in 0 .. Size - 1 /\ r = Size * d + m
        /\ e \in Nat /\ f \in 0 .. Size - 1 /\ n = Size * e + f
    BY <1>1, <2>1
  <2>. DEFINE g == c * q + d
  <2>. HIDE DEF c, q, r, d, m, e, f
  <2>3. c * q \in Nat /\ Wrap * q = Size * (c * q)
    BY <1>1, <2>1
  <2>4. g \in Nat /\ n = Size * g + m
    BY <1>1, <2>1, <2>2, <2>3
  <2>. HIDE DEF g
  <2>5. m = f
    <3>1. g = e
      BY <1>1, <2>2, <2>4
    <3>. QED
      BY <1>1, <2>2, <2>4, <3>1
  <2>. QED
    BY <2>5 DEF m, f, r
<1>3. a % Size = b % Size
  BY <1>1, <1>2
<1>. DEFINE x == a \div Size
            y == b \div Size
            u == a % Size
<1>4. /\ x \in Nat /\ y \in Nat /\ u \in 0 .. Size - 1
      /\ a = Size * x + u /\ b = Size * y + u
  BY <1>1, <1>3
<1>. HIDE DEF x, y, u
<1>5. y = x
  BY <1>1, <1>4
<1>. QED
  BY <1>4, <1>5

\* so that it is full before a slot is given away twice.
COROLLARY LapsWhenFull ==
  ASSUME Wrap % Size = 0, Len(taken) \in Nat, Len(order) \in Nat
  PROVE  Lapped => Len(order) > Len(taken) + Size
<1>. SUFFICES ASSUME NEW j \in Len(taken) + 1 .. Len(order), NEW k \in Len(taken) + 1 .. Len(order),
                     j < k, SlotOf(j) = SlotOf(k), Len(order) <= Len(taken) + Size
              PROVE  FALSE
  BY RingAssumption DEF Lapped
<1>1. j - 1 \in Nat /\ k - 1 \in j - 1 .. j - 1 + Size - 1
  BY RingAssumption
<1>2. j - 1 = k - 1
  BY <1>1, SameSlot DEF SlotOf
<1>. QED
  BY <1>1, <1>2

\* The lines in the ring, and those that were put into it.
LEMMA HeldLines ==
  /\ \A l : l \in Held <=> \E i \in Slots : written[i] = 1 /\ l = tail[i]
  /\ \A l : l \in Held' <=> \E i \in Slots : written'[i] = 1 /\ l = tail'[i]
BY DEF Held

\* What the lines put into the ring are, spelled out before and after a step.
LEMMA PutInLines ==
  /\ \A l : l \in PutIn <=> /\ \E k \in DOMAIN order : order[k] = l
                           /\ ~ \E q \in Producers : Pending(q) /\ l = Line(q)
  /\ \A l : l \in PutIn' <=> /\ \E k \in DOMAIN order' : order'[k] = l
                            /\ ~ \E q \in Producers : Pending(q)' /\ l = Line(q)'
BY DEF PutIn

\* The slots t whose mark w is set hold at most as many lines as the ring has slots.
LEMMA ImageSize ==
  ASSUME NEW w, NEW t
  PROVE  Cardinality({t[i] : i \in {j \in Slots : w[j] = 1}}) <= Size
<1>. DEFINE W == {j \in Slots : w[j] = 1}
            H == {t[i] : i \in W}
            f == [i \in W |-> t[i]]
<1>1. IsFiniteSet(Slots) /\ Cardinality(Slots) = Size
  <2>1. 0 \in Int /\ Size - 1 \in Int /\ Size \in Nat \ {0}
    BY RingAssumption
  <2>2. IsFiniteSet(Slots) /\ Cardinality(Slots) = IF 0 > Size - 1 THEN 0 ELSE Size - 1 - 0 + 1
    BY <2>1, FS_Interval DEF Slots
  <2>. QED
    BY <2>1, <2>2
<1>2. W \in SUBSET Slots /\ f \in Surjection(W, H)
  BY DEF Surjection
<1>3. IsFiniteSet(W) /\ Cardinality(W) <= Cardinality(Slots)
  BY <1>1, <1>2, FS_Subset
<1>. HIDE DEF W, H, f
<1>4. IsFiniteSet(H) /\ Cardinality(H) <= Cardinality(W)
  BY <1>2, <1>3, FS_Surjection
<1>5. Cardinality(H) \in Nat /\ Cardinality(W) \in Nat
  BY <1>3, <1>4, FS_CardinalityType
<1>. QED
  BY <1>1, <1>3, <1>4, <1>5, RingAssumption DEF H, W

\* What LossyLog sees of the lines that were handed out.
AbsDelivered == [i \in DOMAIN taken |-> taken[i][1]]

\* A step that puts the line l into the ring, in the place of the lines dropped, is a
\* Put of LossyLog.
LEMMA PutStep ==
  ASSUME NEW l \in Lines, l \notin PutIn, PutIn' = PutIn \cup {l},
         NEW dropped \in SUBSET Held, Cardinality(dropped) <= 1,
         Held' = (Held \ dropped) \cup {l}, UNCHANGED taken
  PROVE  Abstract!Next
<1>1. \A S : Abstract!Cardinality(S) = Cardinality(S)
  BY DEF Abstract!Cardinality, Cardinality
<1>2. Cardinality(Held') <= Size
  BY ImageSize DEF Held
<1>3. Abstract!Put(l)
  BY <1>1, <1>2 DEF Abstract!Put
<1>. QED
  BY <1>3 DEF Abstract!Next

\* Every step of the ring is a step of LossyLog or leaves its variables alone.
LEMMA ImplementsStep ==
  ASSUME TypeOK, RingInv, [Next]_vars
  PROVE  [Abstract!Next]_<<PutIn, Held, AbsDelivered>>
<1>. USE DEF ring, producer, reader
<1>t. /\ pc \in [Producers -> {"idle", "claim", "lock", "head", "tail", "mark", "unlock"}]
      /\ tail \in [Slots -> MaybeLine] /\ written \in [Slots -> {0, 1}] /\ Item \in Slots
      /\ sent \in [Producers -> 0 .. MaxLines] /\ write_index \in [Producers -> Slots]
  BY IndexTypes DEF TypeOK
<1>s. LockInv /\ HalvesInv /\ LineInv /\ PlaceInv /\ PushHasLine
  BY DEF RingInv
<1>f. ASSUME UNCHANGED <<order, taken, tail, written>>,
             \A q \in Producers : Pending(q)' <=> Pending(q),
             \A q \in Producers : Pending(q) => Line(q)' = Line(q)
      PROVE  UNCHANGED <<PutIn, Held, AbsDelivered>>
  <2>1. Held' = Held /\ AbsDelivered' = AbsDelivered
    BY <1>f DEF Held, AbsDelivered
  <2>2. \A l : l \in PutIn' <=> l \in PutIn
    BY <1>f, PutInLines
  <2>. QED
    BY <2>1, <2>2
<1>1. ASSUME NEW p \in Producers, Log(p) \/ Enter(p) \/ MoveHead(p) \/ Leave(p)
      PROVE  UNCHANGED <<PutIn, Held, AbsDelivered>>
  <2>1. /\ UNCHANGED <<order, taken, tail, written, write_index>>
        /\ \A q \in Producers : (Pending(q)' <=> Pending(q)) /\ (Pending(q) => sent'[q] = sent[q])
    BY <1>1, <1>t DEF Log, Enter, EnterWhen, MoveHead, Leave, Go, Pending
  <2>2. \A q \in Producers : Pending(q) => Line(q)' = Line(q)
    BY <2>1 DEF Line
  <2>. QED
    BY <1>f, <2>1, <2>2
<1>2. ASSUME NEW p \in Producers, Claim(p) PROVE UNCHANGED <<PutIn, Held, AbsDelivered>>
  <2>1. Line(p) \in Lines /\ Line(p)[1] = p /\ Line(p)[2] = sent[p] /\ sent[p] \in Nat
    BY <1>2, <1>s, <1>t, LineTyped DEF Claim, Line
  <2>2. /\ UNCHANGED <<sent, taken, tail, written>>
        /\ DOMAIN order' = DOMAIN order \cup {Len(order) + 1}
        /\ \A k \in DOMAIN order : order'[k] = order[k]
        /\ order'[Len(order) + 1] = Line(p)
    BY <1>2, <2>1, AppendProperties, LenProperties DEF Claim, TypeOK
  <2>3. \A k \in DOMAIN order : order[k] # Line(p)
    BY <1>2, <1>s, <2>1 DEF Claim, PlaceInv
  <2>4. /\ Pending(p)'
        /\ \A q \in Producers \ {p} : (Pending(q)' <=> Pending(q))
        /\ \A q \in Producers : Line(q)' = Line(q)
        /\ ~Pending(p)
    BY <1>2, <1>t, <2>2 DEF Claim, Go, Pending, Line
  <2>5. \A l : l \in PutIn' <=> l \in PutIn
    BY <2>2, <2>3, <2>4, PutInLines
  <2>6. Held' = Held /\ AbsDelivered' = AbsDelivered
    BY <2>2 DEF Held, AbsDelivered
  <2>. QED
    BY <2>5, <2>6
<1>3. ASSUME NEW p \in Producers, MoveTail(p)
      PROVE  Abstract!Next \/ UNCHANGED <<PutIn, Held, AbsDelivered>>
  <2>1. PICK i \in Slots : i = write_index[p]
    BY <1>t
  <2>2. /\ UNCHANGED <<order, taken, written, sent, write_index>>
        /\ \A j \in Slots : tail'[j] = IF j = i THEN Line(p) ELSE tail[j]
        /\ Pending(p) /\ (Pending(p)' <=> written[i] = 0)
        /\ \A q \in Producers \ {p} : Pending(q)' <=> Pending(q)
    BY <1>3, <1>t, <2>1 DEF MoveTail, Go, Pending
  <2>3. \A q \in Producers : Line(q)' = Line(q)
    BY <2>2 DEF Line
  <2>4. AbsDelivered' = AbsDelivered
    BY <2>2 DEF AbsDelivered
  <2>5. CASE written[i] = 1
    <3>1. Line(p) \in Lines /\ Line(p) \notin PutIn
      BY <1>3, <1>s, <2>2, LineTyped, PutInLines DEF MoveTail
    <3>2. \E k \in DOMAIN order : order[k] = Line(p)
      BY <1>3, <1>s DEF MoveTail, PlaceInv, InFlight
    <3>3. \A q \in Producers \ {p} : Line(q) # Line(p)
      BY DEF Line
    <3>4. \A l : l \in PutIn' <=> l \in PutIn \/ l = Line(p)
      BY <2>2, <2>3, <2>5, <3>2, <3>3, PutInLines
    <3>5. tail[i] # None /\ \A j \in Slots : tail[j] = tail[i] => j = i
      BY <1>s, <2>5 DEF HalvesInv, LineInv
    <3>6. \A l : l \in Held' <=> (l \in Held /\ l # tail[i]) \/ l = Line(p)
      BY <2>2, <2>5, <3>5, HeldLines
    <3>7. tail[i] \in Held
      BY <2>5, HeldLines
    <3>8. Cardinality({tail[i]}) = 1
      BY FS_Singleton
    <3>9. {tail[i]} \in SUBSET Held /\ Cardinality({tail[i]}) <= 1
      BY <3>7, <3>8
    <3>10. PutIn' = PutIn \cup {Line(p)} /\ Held' = (Held \ {tail[i]}) \cup {Line(p)}
      BY <3>4, <3>6
    <3>. QED
      BY <2>2, <3>1, <3>9, <3>10, PutStep
  <2>6. CASE written[i] = 0
    <3>1. \A l : l \in PutIn' <=> l \in PutIn
      BY <2>2, <2>3, <2>6, PutInLines
    <3>2. \A l : l \in Held' <=> l \in Held
      BY <2>2, <2>6, HeldLines
    <3>. QED
      BY <2>4, <3>1, <3>2
  <2>. QED
    BY <1>t, <2>5, <2>6
<1>4. ASSUME NEW p \in Producers, Mark(p)
      PROVE  Abstract!Next \/ UNCHANGED <<PutIn, Held, AbsDelivered>>
  <2>1. PICK i \in Slots : i = write_index[p]
    BY <1>t
  <2>2. /\ UNCHANGED <<order, taken, tail, sent, write_index>>
        /\ \A j \in Slots : written'[j] = IF j = i THEN 1 ELSE written[j]
        /\ (Pending(p) <=> written[i] = 0) /\ ~Pending(p)'
        /\ tail[i] = Line(p)
    BY <1>4, <1>t, <1>s, <2>1 DEF Mark, Go, Pending, HalvesInv
  <2>3. \A q \in Producers \ {p} : Pending(q)' <=> Pending(q)
    <3>1. \A q \in Producers \ {p} : pc[q] = "mark" => write_index[q] # i
      BY <1>4, <1>s, <2>1, Exclusive DEF Mark
    <3>2. \A q \in Producers \ {p} : pc'[q] = pc[q] /\ write_index'[q] = write_index[q]
      BY <1>4, <1>t DEF Mark, Go
    <3>3. \A q \in Producers \ {p} : pc[q] = "mark" => written'[write_index[q]] = written[write_index[q]]
      BY <1>t, <2>2, <3>1
    <3>. QED
      BY <3>2, <3>3 DEF Pending
  <2>4. \A q \in Producers : Line(q)' = Line(q)
    BY <2>2 DEF Line
  <2>5. CASE written[i] = 0
    <3>1. Line(p) \in Lines /\ Line(p) \notin PutIn
      BY <1>4, <1>s, <2>2, <2>5, LineTyped, PutInLines DEF Mark
    <3>2. \E k \in DOMAIN order : order[k] = Line(p)
      BY <1>4, <1>s DEF Mark, PlaceInv, InFlight
    <3>3. \A q \in Producers \ {p} : Line(q) # Line(p)
      BY DEF Line
    <3>4. \A l : l \in PutIn' <=> l \in PutIn \/ l = Line(p)
      BY <2>2, <2>3, <2>4, <3>2, <3>3, PutInLines
    <3>5. \A l : l \in Held' <=> l \in Held \/ l = Line(p)
      BY <2>2, HeldLines
    <3>6. {} \in SUBSET Held /\ Cardinality({}) <= 1
      BY FS_EmptySet
    <3>7. PutIn' = PutIn \cup {Line(p)} /\ Held' = (Held \ {}) \cup {Line(p)}
      BY <3>4, <3>5
    <3>. QED
      BY <2>2, <3>1, <3>6, <3>7, PutStep
  <2>6. CASE written[i] = 1
    <3>1. \A l : l \in PutIn' <=> l \in PutIn
      BY <2>2, <2>3, <2>4, <2>6, PutInLines
    <3>2. \A l : l \in Held' <=> l \in Held
      BY <2>2, <2>6, HeldLines
    <3>. QED
      BY <2>2, <3>1, <3>2 DEF AbsDelivered
  <2>. QED
    BY <1>t, <2>5, <2>6
<1>5. ASSUME Clear PROVE Abstract!Next
  <2>1. PICK i \in Slots : i = Item
    BY <1>t
  <2>2. \A q \in Producers : pc[q] \in {"tail", "mark"} => write_index[q] # i
    BY <1>5, <1>s, <2>1, Exclusive DEF Clear, ClearTo
  <2>3. /\ UNCHANGED <<order, tail, sent, write_index, pc>>
        /\ \A j \in Slots : written'[j] = IF j = i THEN 0 ELSE written[j]
        /\ written[i] = 1 /\ hand[1] = tail[i] /\ taken' = Append(taken, hand)
    BY <1>5, <1>t, <1>s, <2>1, <2>2 DEF Clear, ClearTo, HalvesInv
  <2>4. \A q \in Producers : (Pending(q)' <=> Pending(q)) /\ Line(q)' = Line(q)
    <3>1. \A q \in Producers : pc[q] = "mark" => written'[write_index[q]] = written[write_index[q]]
      BY <1>t, <2>2, <2>3
    <3>. QED
      BY <2>3, <3>1 DEF Pending, Line
  <2>5. \A l : l \in PutIn' <=> l \in PutIn
    BY <2>3, <2>4, PutInLines
  <2>6. tail[i] \in Held /\ tail[i] \in Lines /\ \A j \in Slots : tail[j] = tail[i] => j = i
    BY <1>s, <1>t, <2>3, HeldLines DEF HalvesInv, LineInv, MaybeLine
  <2>7. \A l : l \in Held' <=> l \in Held /\ l # tail[i]
    BY <2>3, <2>6, HeldLines
  <2>8. AbsDelivered' = Append(AbsDelivered, tail[i])
    <3>1. /\ DOMAIN taken = 1 .. Len(taken) /\ Len(taken) \in Nat
          /\ DOMAIN taken' = 1 .. Len(taken) + 1
          /\ \A k \in 1 .. Len(taken) : taken'[k] = taken[k]
          /\ taken'[Len(taken) + 1] = hand
      BY <2>3, AppendProperties, LenProperties DEF TypeOK
    <3>2. \A k \in 1 .. Len(taken) : taken[k] \in MaybeLine \X MaybeLine
      BY ElementOfSeq DEF TypeOK
    <3>3. AbsDelivered \in [1 .. Len(taken) -> MaybeLine] /\ tail[i] \in MaybeLine
      BY <1>t, <3>1, <3>2 DEF AbsDelivered
    <3>4. AbsDelivered \in Seq(MaybeLine) /\ Len(AbsDelivered) = Len(taken)
      BY <3>1, <3>3, SeqDef
    <3>5. /\ Append(AbsDelivered, tail[i]) \in Seq(MaybeLine)
          /\ Len(Append(AbsDelivered, tail[i])) = Len(taken) + 1
          /\ \A k \in 1 .. Len(taken) : Append(AbsDelivered, tail[i])[k] = taken[k][1]
          /\ Append(AbsDelivered, tail[i])[Len(taken) + 1] = tail[i]
      BY <3>1, <3>3, <3>4, AppendProperties DEF AbsDelivered
    <3>6. AbsDelivered' \in [1 .. Len(taken) + 1 -> MaybeLine]
          /\ \A k \in 1 .. Len(taken) + 1 :
               AbsDelivered'[k] = IF k = Len(taken) + 1 THEN tail[i] ELSE taken[k][1]
      BY <2>3, <3>1, <3>2, <3>3 DEF AbsDelivered
    <3>7. AbsDelivered' \in Seq(MaybeLine) /\ Len(AbsDelivered') = Len(taken) + 1
      BY <3>1, <3>6, SeqDef
    <3>8. \A k \in 1 .. Len(taken) + 1 : AbsDelivered'[k] = Append(AbsDelivered, tail[i])[k]
      BY <3>1, <3>5, <3>6
    <3>. QED
      BY <3>5, <3>7, <3>8, SeqEqual
  <2>9. PutIn' = PutIn /\ Held' = Held \ {tail[i]}
    BY <2>5, <2>7
  <2>10. PICK l \in Lines : l = tail[i]
    BY <2>6
  <2>11. Abstract!Deliver(l)
    BY <2>6, <2>8, <2>9, <2>10 DEF Abstract!Deliver, AbsDelivered
  <2>. QED
    BY <2>11 DEF Abstract!Next
<1>6. ASSUME \/ LockToLook \/ NothingThere \/ TakeHead \/ TakeTail \/ PopAgain \/ Shutdown
             \/ UNCHANGED vars
      PROVE  UNCHANGED <<PutIn, Held, AbsDelivered>>
  <2>1. UNCHANGED <<order, taken, tail, written, pc, write_index, sent>>
    BY <1>6 DEF LockToLook, NothingThere, TakeHead, TakeTail, PopAgain, PopAgainUnless, Shutdown, vars
  <2>. QED
    BY <1>f, <2>1 DEF Pending, Line
<1>. QED
  BY <1>1, <1>2, <1>3, <1>4, <1>5, <1>6 DEF Next, ProducerStep, Push, ReaderStep, TryPop

\* The ring implements LossyLog: it never holds more than Size lines, a new line costs
\* at most one, and what try_pop hands out was in the ring and leaves it.
THEOREM RingImplementsLossyLog == Spec => ImplementsLossyLog
<1>1. Init => Abstract!Init
  <2>. SUFFICES ASSUME Init PROVE Abstract!Init
    OBVIOUS
  <2>1. PutIn = {} /\ Held = {}
    BY HeldLines, PutInLines DEF Init
  <2>2. AbsDelivered = <<>>
    BY DEF Init, AbsDelivered
  <2>. QED
    BY <2>1, <2>2 DEF Abstract!Init, AbsDelivered
<1>2. TypeOK /\ RingInv /\ [Next]_vars => [Abstract!Next]_<<PutIn, Held, AbsDelivered>>
  BY ImplementsStep
<1>. QED
  BY <1>1, <1>2, RingInvariant, PTL
     DEF Spec, ImplementsLossyLog, Abstract!Spec, Abstract!absVars, AbsDelivered
=============================================================================
