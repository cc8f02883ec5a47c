------------------------- MODULE NanoLogLineProofs --------------------------
(***************************************************************************)
(* Proofs about NanoLogLine, for any sizes of the buffers, any arguments   *)
(* and any number of them.  TypeOK and NeverOverruns together are          *)
(* inductive (LineInvariant).  PrintInv says that each buffer is read as   *)
(* the arguments of its line, one after the other, up to the first '\0' in *)
(* a string (PrintsArguments); Decode only adds to what it has written.    *)
(***************************************************************************)
EXTENDS NanoLogLine, SequenceLemmas

Inv == TypeOK /\ NeverOverruns

\* The minimum of a set of numbers that has a least one.
LEMMA MinIsLeast ==
  ASSUME NEW S, S \subseteq Int, NEW m \in S, \A j \in S : m <= j
  PROVE  Min(S) = m
<1>1. \A j \in S : (\A i \in S : j <= i) => j = m
  OBVIOUS
<1>. QED
  BY <1>1 DEF Min

\* A number and a string in full are sequences of cells.
LEMMA TextIsCells ==
  ASSUME NEW arg \in Args
  PROVE  /\ Text(arg) \in Seq(Cell)
         /\ arg.kind = "number" => /\ arg.type \in DOMAIN Sizes /\ Sizes[arg.type] \in Nat \ {0}
                                   /\ Len(Text(arg)) = Sizes[arg.type]
         /\ arg.kind # "number" => arg.text \in Seq(Nat) /\ Len(Text(arg)) = Len(arg.text)
         /\ LeftOut(arg) => Text(arg) = <<>> /\ arg.kind # "number"
<1> USE LineAssumption
<1>1. CASE arg \in Numbers
  <2>1. arg.kind = "number" /\ arg.type \in DOMAIN Sizes /\ arg.value \in Values
    BY <1>1 DEF Numbers
  <2>. DEFINE part == <<"part", arg.value>>
              w == Sizes[arg.type]
  <2>2. part \in Cell /\ w \in Nat \ {0}
    BY <2>1 DEF Cell
  <2>3. Text(arg) = [i \in 1 .. w |-> part]
    BY <2>1 DEF Text
  <2> HIDE DEF part, w
  <2>4. Text(arg) \in Seq(Cell) /\ Len(Text(arg)) = w
    BY <2>2, <2>3
  <2> QED
    BY <2>1, <2>2, <2>4 DEF w, LeftOut
<1>2. CASE arg \in Strings
  <2>1. arg.kind # "number" /\ arg.text \in Seq(Nat)
    BY <1>2 DEF Strings
  <2>. DEFINE n == Len(arg.text)
              text == arg.text
  <2>2. n \in Nat /\ DOMAIN text = 1 .. n /\ \A i \in 1 .. n : text[i] \in Nat
    BY <2>1, LenProperties, ElementOfSeq
  <2>3. Text(arg) = [i \in 1 .. n |-> Byte(text[i])]
    BY <2>1, <2>2 DEF Text
  <2>4. LeftOut(arg) => n = 0
    BY DEF LeftOut
  <2> HIDE DEF n, text
  <2>5. \A i \in 1 .. n : Byte(text[i]) \in Cell
    BY <2>2 DEF Byte, Cell
  <2>6. Text(arg) \in Seq(Cell) /\ Len(Text(arg)) = n
    BY <2>2, <2>3, <2>5
  <2>7. n = 0 => Text(arg) = <<>>
    BY <2>6
  <2> QED
    BY <2>1, <2>4, <2>6, <2>7 DEF n
<1> QED
  BY <1>1, <1>2 DEF Args

\* An argument is encoded to a sequence of cells, and takes what was reserved for it.
LEMMA CellsAreCells ==
  ASSUME NEW arg \in Args
  PROVE  Cells(arg) \in Seq(Cell) /\ Len(Cells(arg)) = Reserved(arg) /\ Reserved(arg) \in Nat
<1>. DEFINE t == Text(arg)
            id == Byte(arg.type)
<1>1. t \in Seq(Cell) /\ Len(t) \in Nat
  BY TextIsCells, LenProperties
<1>2. <<StringType>> \in Seq(Cell) /\ <<NUL>> \in Seq(Cell) /\ <<>> \in Seq(Cell)
  BY LineAssumption DEF Cell, StringType, NUL, Byte
<1>3. CASE LeftOut(arg)
  BY <1>2, <1>3 DEF Cells, Reserved
<1>4. CASE ~LeftOut(arg) /\ arg.kind = "number"
  <2>1. Cells(arg) = <<id>> \o t /\ Reserved(arg) = Sizes[arg.type] + 1
    BY <1>4 DEF Cells, Reserved
  <2>2. id \in Cell /\ Len(t) = Sizes[arg.type]
    BY <1>4, TextIsCells, LineAssumption DEF Cell, Byte
  <2>. HIDE DEF t, id
  <2>3. <<id>> \o t \in Seq(Cell) /\ Len(<<id>> \o t) = 1 + Len(t)
    BY <1>1, <2>2
  <2> QED
    BY <1>1, <2>1, <2>2, <2>3
<1>5. CASE ~LeftOut(arg) /\ arg.kind # "number"
  <2>1. Cells(arg) = <<StringType>> \o t \o <<NUL>> /\ Reserved(arg) = 1 + Len(arg.text) + 1
    BY <1>5 DEF Cells, Reserved
  <2>2. Len(t) = Len(arg.text)
    BY <1>5, TextIsCells
  <2>. HIDE DEF t
  <2>3. /\ <<StringType>> \o t \o <<NUL>> \in Seq(Cell)
        /\ Len(<<StringType>> \o t \o <<NUL>>) = 1 + Len(t) + 1
    BY <1>1, <1>2
  <2> QED
    BY <1>1, <2>1, <2>2, <2>3
<1> QED
  BY <1>3, <1>4, <1>5

\* The new buffer holds what is required, and is of the least size or larger.
LEMMA GrownIsEnough ==
  ASSUME NEW size \in Nat, NEW heap \in BOOLEAN, NEW required \in Nat,
         heap => size >= HeapSize
  PROVE  /\ Grown(size, heap, required) \in Nat
         /\ Grown(size, heap, required) >= required
         /\ Grown(size, heap, required) >= HeapSize
BY LineAssumption DEF Grown, Larger

\* operator<< keeps the invariant.
LEMMA InsertFits == ASSUME NEW arg \in Args, Inv, Insert(arg) PROVE Inv'
<1> USE LineAssumption
<1> DEFINE p == "temporary"
           used == m_bytes_used[p]
           size == m_buffer_size[p]
           required == used + Reserved(arg)
<1>1. Cells(arg) \in Seq(Cell) /\ Len(Cells(arg)) \in Nat /\ Reserved(arg) = Len(Cells(arg))
  BY CellsAreCells
<1>2. p \in Places /\ p \in live /\ used \in Nat /\ size \in Nat /\ required \in Nat
  <2>1. p \in Places /\ p \in live
    BY DEF Insert, Places
  <2>2. used \in Nat /\ size \in Nat
    BY <2>1 DEF Inv, TypeOK
  <2>. QED
    BY <1>1, <2>1, <2>2
<1>3. Buffer(p) \in Seq(Cell) /\ Len(Buffer(p)) = used
  BY <1>2 DEF Inv, TypeOK, NeverOverruns, Buffer
<1>4. \A b \in Seq(Cell) : /\ b \o Cells(arg) \in Seq(Cell)
                           /\ Len(b \o Cells(arg)) = Len(b) + Len(Cells(arg))
                           /\ b # <<>> => b \o Cells(arg) # <<>>
  BY <1>1
<1>9. m_bytes_used' = [m_bytes_used EXCEPT ![p] = required]
  BY <1>1 DEF Insert
<1>5. CASE required <= size /\ OnHeap(p)
  <2>1. /\ m_bytes_used' = [m_bytes_used EXCEPT ![p] = required]
        /\ m_heap_buffer' = [m_heap_buffer EXCEPT ![p] = m_heap_buffer[p] \o Cells(arg)]
        /\ UNCHANGED <<m_stack_buffer, m_buffer_size, live>>
    BY <1>5, <1>9 DEF Insert
  <2> QED
    BY <1>1, <1>2, <1>3, <1>4, <1>5, <2>1 DEF Inv, TypeOK, NeverOverruns, Buffer, OnHeap
<1>6. CASE required <= size /\ ~OnHeap(p)
  <2>1. /\ m_bytes_used' = [m_bytes_used EXCEPT ![p] = required]
        /\ m_stack_buffer' = [m_stack_buffer EXCEPT ![p] = m_stack_buffer[p] \o Cells(arg)]
        /\ UNCHANGED <<m_heap_buffer, m_buffer_size, live>>
    BY <1>6, <1>9 DEF Insert
  <2> QED
    BY <1>1, <1>2, <1>3, <1>4, <1>6, <2>1 DEF Inv, TypeOK, NeverOverruns, Buffer, OnHeap
<1>7. CASE ~(required <= size)
  <2> DEFINE grown == Grown(size, OnHeap(p), required)
             cells == Copied(Buffer(p), used) \o Cells(arg)
  <2>1. /\ m_bytes_used' = [m_bytes_used EXCEPT ![p] = required]
        /\ m_buffer_size' = [m_buffer_size EXCEPT ![p] = grown]
        /\ m_heap_buffer' = [m_heap_buffer EXCEPT ![p] = cells]
        /\ UNCHANGED <<m_stack_buffer, live>>
    BY <1>7, <1>9 DEF Insert
  <2>2. grown \in Nat /\ grown >= required /\ grown >= HeapSize
    <3>1. OnHeap(p) \in BOOLEAN /\ (OnHeap(p) => size >= HeapSize)
      BY <1>2 DEF Inv, TypeOK, OnHeap
    <3> QED
      BY <3>1, <1>2, GrownIsEnough
  <2>3. Copied(Buffer(p), used) = Buffer(p)
    BY <1>3 DEF Copied
  <2>4. cells \in Seq(Cell) /\ Len(cells) = required
    BY <2>3, <1>1, <1>2, <1>3, <1>4
  <2>5. cells # <<>>
    BY <2>4, <1>2, <1>7
  <2> HIDE DEF grown, cells
  <2> QED
    BY <1>2, <2>1, <2>2, <2>4, <2>5 DEF Inv, TypeOK, NeverOverruns, Buffer, OnHeap
<1> QED
  BY <1>5, <1>6, <1>7

\* A move keeps the invariant.
LEMMA MoveFits ==
  ASSUME NEW from \in Places, NEW to \in Places, Inv, Move(from, to) PROVE Inv'
<1>1. from # to /\ from \in live /\ live' = (live \ {from}) \cup {to}
  BY DEF Move
<1>2. /\ m_bytes_used[from] \in Nat /\ m_buffer_size[from] \in Nat
      /\ m_stack_buffer[from] \in Seq(Cell) /\ m_heap_buffer[from] \in Seq(Cell)
      /\ <<>> \in Seq(Cell)
  BY DEF Inv, TypeOK
<1>3. /\ m_bytes_used' \in [Places -> Nat] /\ m_buffer_size' \in [Places -> Nat]
      /\ m_stack_buffer' \in [Places -> Seq(Cell)] /\ m_heap_buffer' \in [Places -> Seq(Cell)]
  BY <1>2 DEF Inv, TypeOK, Move
<1>4. /\ m_bytes_used'[to] = m_bytes_used[from] /\ m_buffer_size'[to] = m_buffer_size[from]
      /\ m_stack_buffer'[to] = m_stack_buffer[from] /\ m_heap_buffer'[to] = m_heap_buffer[from]
      /\ m_heap_buffer'[from] = <<>>
  BY <1>1 DEF Inv, TypeOK, Move
<1>5. ASSUME NEW p \in Places, p # from, p # to
      PROVE  /\ m_bytes_used'[p] = m_bytes_used[p] /\ m_buffer_size'[p] = m_buffer_size[p]
             /\ m_stack_buffer'[p] = m_stack_buffer[p] /\ m_heap_buffer'[p] = m_heap_buffer[p]
  BY <1>5 DEF Inv, TypeOK, Move
<1>6. TypeOK'
  <2>1. ASSUME NEW p \in Places, m_heap_buffer'[p] # <<>> PROVE m_buffer_size'[p] >= HeapSize
    BY <2>1, <1>4, <1>5 DEF Inv, TypeOK
  <2> QED
    BY <1>1, <1>3, <2>1 DEF Inv, TypeOK
<1>7. NeverOverruns'
  <2> SUFFICES ASSUME NEW p \in live'
               PROVE  /\ Len(Buffer(p)') = m_bytes_used'[p]
                      /\ m_bytes_used'[p] <= m_buffer_size'[p]
                      /\ ~OnHeap(p)' => m_buffer_size'[p] <= StackSize
    BY DEF NeverOverruns, Buffer, OnHeap
  <2>1. CASE p = to
    BY <2>1, <1>1, <1>4 DEF Inv, NeverOverruns, Buffer, OnHeap
  <2>2. CASE p # to
    <3>1. p \in live /\ p # from /\ p \in Places
      BY <2>2, <1>1 DEF Inv, TypeOK
    <3> QED
      BY <2>2, <3>1, <1>5 DEF Inv, NeverOverruns, Buffer, OnHeap
  <2> QED
    BY <2>1, <2>2
<1> QED
  BY <1>6, <1>7 DEF Inv

\* TypeOK and NeverOverruns are an inductive invariant.
THEOREM LineInvariant == Spec => []Inv
<1> USE LineAssumption
<1>1. Init => Inv
  <2>1. NoCells \in [Places -> Seq(Cell)] /\ \A p \in Places : NoCells[p] = <<>>
    BY DEF NoCells
  <2>2. [p \in Places |-> 0] \in [Places -> Nat]
    OBVIOUS
  <2> QED
    BY <2>1, <2>2 DEF Init, Inv, TypeOK, NeverOverruns
<1>2. Inv /\ [Next]_vars => Inv'
  <2> SUFFICES ASSUME Inv, [Next]_vars PROVE Inv'
    OBVIOUS
  <2>1. CASE Construct
    <3>1. [i \in 1 .. Header |-> HeaderCell] \in Seq(Cell)
      BY DEF Cell
    <3>2. Len([i \in 1 .. Header |-> HeaderCell]) = Header
      OBVIOUS
    <3> QED
      <4>1. TypeOK'
        <5>. DEFINE header == [i \in 1 .. Header |-> HeaderCell]
        <5>1. "temporary" \in Places /\ <<>> \in Seq(Cell) /\ header \in Seq(Cell)
          BY <3>1 DEF Places
        <5>2. /\ m_bytes_used' = [m_bytes_used EXCEPT !["temporary"] = Header]
              /\ m_buffer_size' = [m_buffer_size EXCEPT !["temporary"] = StackSize]
              /\ m_stack_buffer' = [m_stack_buffer EXCEPT !["temporary"] = header]
              /\ m_heap_buffer' = [m_heap_buffer EXCEPT !["temporary"] = <<>>]
              /\ live' = {"temporary"}
          BY <2>1 DEF Construct
        <5>. HIDE DEF header
        <5>3. m_bytes_used' \in [Places -> Nat] /\ m_buffer_size' \in [Places -> Nat]
          BY <5>2 DEF Inv, TypeOK
        <5>4. /\ m_stack_buffer' \in [Places -> Seq(Cell)] /\ m_heap_buffer' \in [Places -> Seq(Cell)]
              /\ live' \subseteq Places
          BY <5>1, <5>2 DEF Inv, TypeOK
        <5>5. \A q \in Places : m_heap_buffer'[q] # <<>> => m_buffer_size'[q] >= HeapSize
          BY <5>2 DEF Inv, TypeOK
        <5>. QED
          BY <5>3, <5>4, <5>5 DEF TypeOK
      <4>2. live' = {"temporary"} /\ m_heap_buffer'["temporary"] = <<>>
            /\ Len(m_stack_buffer'["temporary"]) = Header /\ m_bytes_used'["temporary"] = Header
            /\ m_buffer_size'["temporary"] = StackSize
        BY <2>1, <3>2 DEF Construct, Inv, TypeOK, Places
      <4>3. NeverOverruns'
        BY <4>2 DEF NeverOverruns, Buffer, OnHeap
      <4>. QED
        BY <4>1, <4>3 DEF Inv
  <2>2. ASSUME NEW arg \in Args, Insert(arg) PROVE Inv'
    BY <2>2, InsertFits
  <2>3. CASE Move("temporary", "slot")
    BY <2>3, MoveFits DEF Places
  <2>4. CASE Move("slot", "logline")
    BY <2>4, MoveFits DEF Places
  <2>5. CASE Stringify
    BY <2>5 DEF Stringify, Inv, TypeOK, NeverOverruns, Buffer, OnHeap
  <2>6. CASE UNCHANGED vars
    BY <2>6 DEF vars, Inv, TypeOK, NeverOverruns, Buffer, OnHeap
  <2> QED
    BY <2>1, <2>2, <2>3, <2>4, <2>5, <2>6 DEF Next
<1> QED
  BY <1>1, <1>2, PTL DEF Spec

\* No argument is ever written beyond the buffer of its line, whatever the sizes.
THEOREM LinesFit == Spec => []NeverOverruns
<1>1. Inv => NeverOverruns
  BY DEF Inv
<1> QED
  BY <1>1, LineInvariant, PTL

-----------------------------------------------------------------------------
(* What stringify reads.                                                   *)

\* What stringify writes.
Printed == Cell \cup {Garbage}

\* stringify at one argument of b, and at the next, when it finds that argument.
Reader == [at : Nat \ {0}, text : Seq(Printed)]
Reads(b, r, s) ==
  /\ r.at \in 1 .. Len(b) /\ s.at \in r.at + 1 .. Len(b) + 1
  /\ \/ /\ b[r.at] = StringType /\ r.at + 1 < s.at
        /\ b[s.at - 1] = NUL /\ \A j \in r.at + 1 .. s.at - 2 : b[j] # NUL
        /\ s.text = r.text \o SubSeq(b, r.at + 1, s.at - 2)
     \/ \E id \in DOMAIN Sizes :
          /\ b[r.at] = Byte(id) /\ s.at = r.at + 1 + Sizes[id]
          /\ s.text = r.text \o SubSeq(b, r.at + 1, s.at - 1)

\* From the header on, n arguments of b.
Reading(b, n, r) ==
  /\ n \in 0 .. Len(b) /\ r \in [0 .. n -> Reader]
  /\ r[0] = [at |-> Header + 1, text |-> <<>>]
  /\ \A k \in 1 .. n : Reads(b, r[k - 1], r[k])

\* b is read as text and something more; and as text and nothing else.
Starts(b, text) == \E n, r : Reading(b, n, r) /\ r[n].text = text
Prints(b, text) == \E n, r : Reading(b, n, r) /\ r[n].text = text /\ r[n].at = Len(b) + 1

\* ReadNext reads that argument.
LEMMA ReadsOne ==
  ASSUME NEW b \in Seq(Cell), NEW r \in Reader, NEW s \in Reader, Reads(b, r, s)
  PROVE  ReadNext(b, r) = s
<1>1. /\ r.at \in Nat /\ s.at \in Nat /\ r.at >= 1 /\ r.at <= Len(b) /\ s.at >= r.at + 1
      /\ s.at <= Len(b) + 1 /\ Len(b) \in Nat
  BY LenProperties DEF Reads, Reader
<1>2. s = [at |-> s.at, text |-> s.text]
  BY DEF Reader
<1>3. CASE /\ b[r.at] = StringType /\ r.at + 1 < s.at
           /\ b[s.at - 1] = NUL /\ \A j \in r.at + 1 .. s.at - 2 : b[j] # NUL
           /\ s.text = r.text \o SubSeq(b, r.at + 1, s.at - 2)
  <2>. DEFINE ends == {j \in r.at + 1 .. Len(b) : b[j] = NUL} \cup {Len(b) + 1}
              m == s.at - 1
  <2>1. m \in ends /\ \A j \in ends : m <= j
    <3>1. ASSUME NEW j \in ends PROVE m <= j
      <4>1. j \notin r.at + 1 .. s.at - 2 /\ j \in r.at + 1 .. Len(b) + 1
        BY <1>1, <1>3
      <4>. QED
        BY <1>1, <4>1
    <3>2. m \in r.at + 1 .. Len(b)
      BY ONLY <1>1, <1>3
    <3>. QED
      BY <1>3, <3>1, <3>2
  <2>2. ends \subseteq Int /\ m \in Nat /\ m <= Len(b) /\ m + 1 = s.at /\ m - 1 = s.at - 2
    BY <1>1
  <2>3. StringEnd(b, r.at + 1) = m
    <3>1. StringEnd(b, r.at + 1) = Min(ends)
      BY DEF StringEnd
    <3>. HIDE DEF ends, m
    <3>. QED
      BY <2>1, <2>2, <3>1, MinIsLeast
  <2>4. PastString(b, r) = [at |-> m + 1, text |-> r.text \o SubSeq(b, r.at + 1, m - 1)]
    <3>. HIDE DEF m
    <3>1. ~(m > Len(b))
      BY <1>1, <2>2
    <3>. QED
      BY <2>3, <3>1 DEF PastString
  <2>5. ReadNext(b, r) = PastString(b, r)
    <3>1. b[r.at][1] = "byte"
      BY <1>3 DEF StringType, Byte
    <3>2. ~(r.at > Len(b))
      BY <1>1
    <3>. QED
      BY <1>3, <3>1, <3>2 DEF ReadNext
  <2>. HIDE DEF m
  <2>. QED
    BY <1>2, <1>3, <2>2, <2>4, <2>5
<1>4. ASSUME NEW id \in DOMAIN Sizes, b[r.at] = Byte(id), s.at = r.at + 1 + Sizes[id],
             s.text = r.text \o SubSeq(b, r.at + 1, s.at - 1)
      PROVE  ReadNext(b, r) = s
  <2>. DEFINE w == Sizes[id]
  <2>1. b[r.at][1] = "byte" /\ b[r.at][2] = id /\ w \in Nat \ {0}
    BY <1>4, LineAssumption DEF Byte
  <2>2. b[r.at] # StringType
    <3>1. StringType[2] = StringId /\ StringId # id
      BY LineAssumption DEF StringType, Byte
    <3>. QED
      BY <2>1, <3>1
  <2>3. ReadNext(b, r) = Past(b, r, w)
    <3>1. ~(r.at > Len(b)) /\ ~(b[r.at][1] # "byte") /\ b[r.at][2] \in DOMAIN Sizes
      BY <1>1, <2>1
    <3>2. ReadNext(b, r) = Past(b, r, Sizes[b[r.at][2]])
      BY <2>2, <3>1 DEF ReadNext
    <3>. QED
      BY <2>1, <3>2
  <2>4. s.at = r.at + w + 1 /\ s.at - 1 = r.at + w /\ ~(r.at + w > Len(b))
    <3>. DEFINE x == r.at
                y == s.at
                N == Len(b)
    <3>1. x \in Nat /\ y \in Nat /\ N \in Nat /\ w \in Nat /\ y <= N + 1 /\ y = x + 1 + w
      BY <1>1, <1>4, <2>1
    <3>. HIDE DEF x, y, N, w
    <3>2. y = x + w + 1 /\ y - 1 = x + w /\ ~(x + w > N)
      BY <3>1
    <3>. QED
      BY <3>2 DEF x, y, N
  <2>5. Past(b, r, w) = [at |-> r.at + w + 1, text |-> r.text \o SubSeq(b, r.at + 1, r.at + w)]
    BY <2>4 DEF Past
  <2>. HIDE DEF w
  <2>. QED
    BY <1>2, <1>4, <2>3, <2>4, <2>5
<1>. QED
  BY <1>3, <1>4 DEF Reads

\* Whatever ReadNext finds, it goes on from there and only adds to the text.
LEMMA ReadNextAdds ==
  ASSUME NEW b \in Seq(Cell), NEW r \in Reader
  PROVE  ReadNext(b, r) \in Reader /\ Begins(r.text, ReadNext(b, r).text)
<1>1. /\ r.at \in Nat \ {0} /\ r.text \in Seq(Printed) /\ Len(b) \in Nat /\ b \in Seq(Printed)
      /\ \A i \in 1 .. Len(b) : b[i] \in Printed
  <2>1. b \in Seq(Printed)
    BY SeqMonotonic DEF Printed
  <2>. QED
    BY <2>1, LenProperties, ElementOfSeq DEF Reader
<1>2. ASSUME NEW at \in Nat \ {0}, NEW more \in Seq(Printed), NEW s, s = [at |-> at, text |-> r.text \o more]
      PROVE  s \in Reader /\ Begins(r.text, s.text)
  <2>. DEFINE t == r.text
  <2>1. t \in Seq(Printed) /\ Len(t) \in Nat /\ Len(more) \in Nat
    BY <1>1, LenProperties
  <2>. HIDE DEF t
  <2>2. /\ t \o more \in Seq(Printed) /\ Len(t \o more) = Len(t) + Len(more)
        /\ \A i \in 1 .. Len(t) + Len(more) : (t \o more)[i] = IF i <= Len(t) THEN t[i] ELSE more[i - Len(t)]
    BY <2>1, ConcatProperties
  <2>3. \A i \in 1 .. Len(t) : i \in 1 .. Len(t) + Len(more) /\ i <= Len(t)
    BY <2>1
  <2>4. Begins(t, t \o more)
    BY <2>1, <2>2, <2>3 DEF Begins
  <2>. QED
    BY <1>2, <2>2, <2>4 DEF Reader, t
<1>3. Astray(b, r) \in Reader /\ Begins(r.text, Astray(b, r).text)
  <2>1. <<Garbage>> \in Seq(Printed) /\ Garbage \in Printed
    BY DEF Printed
  <2>2. Append(r.text, Garbage) = r.text \o <<Garbage>>
    BY <1>1, <2>1, AppendIsConcat
  <2>3. Len(b) + 1 \in Nat \ {0}
    BY <1>1
  <2>. QED
    BY <1>2, <2>1, <2>2, <2>3 DEF Astray
<1>4. ASSUME NEW e \in Int, e <= Len(b) PROVE SubSeq(b, r.at + 1, e) \in Seq(Printed)
  <2>1. r.at + 1 \in Int /\ \A i \in r.at + 1 .. e : i \in 1 .. Len(b)
    BY <1>1, <1>4
  <2>2. \A i \in r.at + 1 .. e : b[i] \in Printed
    BY <1>1, <2>1
  <2>. QED
    BY <2>1, <2>2, SubSeqProperties
<1>5. PastString(b, r) \in Reader /\ Begins(r.text, PastString(b, r).text)
  <2>. DEFINE ends == {j \in r.at + 1 .. Len(b) : b[j] = NUL} \cup {Len(b) + 1}
              end == StringEnd(b, r.at + 1)
  <2>1. ends \subseteq Nat /\ ends # {} /\ \A j \in ends : j = Len(b) + 1 \/ j \in r.at + 1 .. Len(b)
    BY <1>1
  <2>2. end \in ends
    <3>1. end = Min(ends)
      BY DEF StringEnd
    <3>. HIDE DEF end, ends
    <3>2. PICK m \in ends : \A j \in ends : ~(j < m)
      BY <2>1, LeastNumber
    <3>3. ends \subseteq Int /\ \A j \in ends : m <= j
      BY <2>1, <3>2
    <3>. QED
      BY <3>1, <3>2, <3>3, MinIsLeast
  <2>. HIDE DEF end
  <2>3. CASE end > Len(b)
    BY <1>3, <2>3 DEF PastString, end
  <2>4. CASE ~(end > Len(b))
    <3>1. end \in Nat /\ end + 1 \in Nat \ {0} /\ end - 1 \in Int /\ end - 1 <= Len(b)
      BY <1>1, <2>1, <2>2, <2>4
    <3>2. PastString(b, r) = [at |-> end + 1, text |-> r.text \o SubSeq(b, r.at + 1, end - 1)]
      BY <2>4 DEF PastString, end
    <3>. QED
      BY <1>2, <1>4, <3>1, <3>2
  <2>. QED
    BY <2>3, <2>4
<1>6. ASSUME NEW w \in Nat PROVE Past(b, r, w) \in Reader /\ Begins(r.text, Past(b, r, w).text)
  <2>1. CASE r.at + w > Len(b)
    BY <1>3, <2>1 DEF Past
  <2>2. CASE ~(r.at + w > Len(b))
    <3>1. r.at + w \in Int /\ r.at + w <= Len(b) /\ r.at + w + 1 \in Nat \ {0}
      BY <1>1, <2>2
    <3>2. Past(b, r, w) = [at |-> r.at + w + 1, text |-> r.text \o SubSeq(b, r.at + 1, r.at + w)]
      BY <2>2 DEF Past
    <3>. QED
      BY <1>2, <1>4, <3>1, <3>2
  <2>. QED
    BY <2>1, <2>2
<1>7. r \in Reader /\ Begins(r.text, r.text)
  <2>1. Len(r.text) \in Nat
    BY <1>1, LenProperties
  <2>. QED
    BY <2>1 DEF Begins
<1>. DEFINE id == b[r.at][2]
<1>8. CASE ReadNext(b, r) = r
  BY <1>7, <1>8
<1>9. CASE ReadNext(b, r) = Astray(b, r)
  BY <1>3, <1>9
<1>10. CASE ReadNext(b, r) = PastString(b, r)
  BY <1>5, <1>10
<1>11. CASE ReadNext(b, r) = Past(b, r, Sizes[id]) /\ id \in DOMAIN Sizes
  <2>1. Sizes[id] \in Nat
    BY <1>11, LineAssumption
  <2>. QED
    BY <1>6, <1>11, <2>1
<1>. QED
  BY <1>8, <1>9, <1>10, <1>11 DEF ReadNext

\* The values of the recursion of Decode.
Runs(b, read) ==
  /\ read \in [0 .. Len(b) -> Reader] /\ read[0] = [at |-> Header + 1, text |-> <<>>]
  /\ \A m \in 1 .. Len(b) : read[m] = ReadNext(b, read[m - 1])

LEMMA DecodeRuns ==
  ASSUME NEW b \in Seq(Cell)
  PROVE  \E read : Runs(b, read) /\ Decode(b) = read[Len(b)].text
<1>. DEFINE N == Len(b)
            first == [at |-> Header + 1, text |-> <<>>]
            Equation(f) == f = [m \in 0 .. N |-> IF m = 0 THEN first ELSE ReadNext(b, f[m - 1])]
            read == CHOOSE f : Equation(f)
            step == [x \in Reader \X (1 .. N) |-> ReadNext(b, x[1])]
<1>1. N \in Nat /\ first \in Reader
  BY LineAssumption, LenProperties DEF Reader
<1>2. Decode(b) = read[N].text
  BY DEF Decode
<1>3. step \in [Reader \X (1 .. N) -> Reader]
  BY ReadNextAdds
<1>4. PICK f : Solves(f, Reader, first, step, N)
  <2>. HIDE DEF N, first, step
  <2>. QED
    BY <1>1, <1>3, Recursion
<1>5. ASSUME NEW g, Solves(g, Reader, first, step, N), NEW m \in 1 .. N
      PROVE  g[m] = ReadNext(b, g[m - 1])
  <2>1. g[m - 1] \in Reader /\ g[m] = step[<<g[m - 1], m>>]
    <3>1. m - 1 \in 0 .. N
      BY <1>1
    <3>. HIDE DEF step, first
    <3>. QED
      BY <1>5, <3>1 DEF Solves
  <2>. QED
    BY <2>1
<1>6. Equation(f)
  <2>. DEFINE h == [m \in 0 .. N |-> IF m = 0 THEN first ELSE ReadNext(b, f[m - 1])]
  <2>1. f \in [0 .. N -> Reader] /\ f[0] = first
    <3>. HIDE DEF step, first
    <3>. QED
      BY <1>4 DEF Solves
  <2>2. ASSUME NEW m \in 0 .. N PROVE f[m] = h[m]
    <3>1. CASE m = 0
      BY <2>1, <3>1
    <3>2. CASE m \in 1 .. N
      <4>1. f[m] = ReadNext(b, f[m - 1])
        BY <1>4, <1>5, <3>2
      <4>2. h[m] = ReadNext(b, f[m - 1])
        BY <3>2
      <4>. QED
        BY <4>1, <4>2
    <3>. QED
      BY <1>1, <3>1, <3>2
  <2>3. f = h
    BY <2>1, <2>2
  <2>. QED
    BY <2>3
<1>7. Equation(read)
  BY <1>6
<1>8. read[0] = first /\ \A m \in 1 .. N : read[m] = ReadNext(b, read[m - 1])
  <2>. HIDE DEF read
  <2>1. read = [m \in 0 .. N |-> IF m = 0 THEN first ELSE ReadNext(b, read[m - 1])]
    BY <1>7
  <2>2. 0 \in 0 .. N /\ \A m \in 1 .. N : m \in 0 .. N /\ m # 0
    BY <1>1
  <2>. HIDE DEF first
  <2>. QED
    BY <2>1, <2>2
<1>9. read \in [0 .. N -> Reader]
  <2>. DEFINE Typed == {m \in Nat : m <= N => read[m] \in Reader}
  <2>. HIDE DEF read
  <2>1. 0 \in Typed
    <3>. HIDE DEF first
    <3>. QED
      BY <1>1, <1>8
  <2>2. ASSUME NEW m \in Nat, m \in Typed PROVE m + 1 \in Typed
    <3>. SUFFICES ASSUME m + 1 <= N PROVE read[m + 1] \in Reader
      OBVIOUS
    <3>1. m + 1 \in 1 .. N /\ (m + 1) - 1 = m /\ m <= N
      BY <1>1
    <3>2. read[m] \in Reader /\ read[m + 1] = ReadNext(b, read[m])
      BY <1>8, <2>2, <3>1
    <3>. QED
      BY <3>2, ReadNextAdds
  <2>3. Nat \subseteq Typed
    <3>. HIDE DEF Typed
    <3>. QED
      BY <2>1, <2>2, SetInduction
  <2>4. \A m \in 0 .. N : read[m] \in Reader
    BY <1>1, <2>3
  <2>5. read = [m \in 0 .. N |-> IF m = 0 THEN first ELSE ReadNext(b, read[m - 1])]
    <3>. USE DEF read
    <3>. QED
      BY <1>7
  <2>6. DOMAIN read = 0 .. N /\ read = [m \in DOMAIN read |-> read[m]]
    BY <2>5
  <2>. QED
    BY <2>4, <2>6
<1>. HIDE DEF read
<1>10. Runs(b, read)
  BY <1>8, <1>9 DEF Runs
<1>. QED
  BY <1>2, <1>10

\* So stringify writes what a reading writes, and more only if the reading is not at the
\* end of the line.
LEMMA DecodeReads ==
  ASSUME NEW b \in Seq(Cell), NEW n, NEW r, Reading(b, n, r)
  PROVE  /\ IsPrefix(r[n].text, Decode(b))
         /\ r[n].at = Len(b) + 1 => Decode(b) = r[n].text
<1>. DEFINE N == Len(b)
<1>1. /\ N \in Nat /\ n \in Nat /\ n <= N /\ n \in 0 .. n /\ r \in [0 .. n -> Reader]
      /\ r[0] = [at |-> Header + 1, text |-> <<>>]
      /\ \A k \in 1 .. n : Reads(b, r[k - 1], r[k])
  BY LenProperties DEF Reading
<1>2. PICK read : Runs(b, read) /\ Decode(b) = read[N].text
  BY DecodeRuns
<1>3. /\ read[0] = r[0] /\ \A m \in 0 .. N : read[m] \in Reader
      /\ \A m \in 1 .. N : read[m] = ReadNext(b, read[m - 1])
  BY <1>1, <1>2 DEF Runs
<1>. DEFINE Same == {m \in Nat : m <= n => read[m] = r[m]}
<1>4. 0 \in Same
  BY <1>3
<1>5. ASSUME NEW m \in Nat, m \in Same PROVE m + 1 \in Same
  <2>. SUFFICES ASSUME m + 1 <= n PROVE read[m + 1] = r[m + 1]
    OBVIOUS
  <2>1. /\ m + 1 \in 1 .. n /\ m + 1 \in 1 .. N /\ (m + 1) - 1 = m /\ m <= n
        /\ m \in 0 .. n /\ m + 1 \in 0 .. n
    BY <1>1
  <2>2. read[m + 1] = ReadNext(b, r[m])
    BY <1>3, <1>5, <2>1
  <2>3. Reads(b, r[m], r[m + 1]) /\ r[m] \in Reader /\ r[m + 1] \in Reader
    BY <1>1, <2>1
  <2>. QED
    BY <2>2, <2>3, ReadsOne
<1>6. read[n] = r[n]
  <2>1. n \in Same
    <3>. HIDE DEF Same
    <3>. QED
      BY <1>1, <1>4, <1>5, SetInduction
  <2>. QED
    BY <1>1, <2>1
<1>. DEFINE From(m) == /\ Begins(r[n].text, read[m].text)
                       /\ r[n].at = N + 1 => read[m] = r[n]
            Later == {j \in Nat : n + j <= N => From(n + j)}
<1>7. r[n] \in Reader /\ Len(r[n].text) \in Nat
  <2>1. r[n] \in Reader
    BY <1>1
  <2>. QED
    BY <2>1, LenProperties DEF Reader
<1>8. 0 \in Later
  <2>1. n + 0 = n /\ Begins(r[n].text, r[n].text)
    BY <1>1, <1>7 DEF Begins
  <2>. QED
    BY <1>6, <2>1
<1>9. ASSUME NEW j \in Nat, j \in Later PROVE j + 1 \in Later
  <2>. DEFINE m == n + j
  <2>. SUFFICES ASSUME n + (j + 1) <= N PROVE From(n + (j + 1))
    OBVIOUS
  <2>1. m \in 0 .. N /\ m + 1 \in 1 .. N /\ n + (j + 1) = m + 1 /\ (m + 1) - 1 = m /\ m <= N
        /\ m + 1 \in 0 .. N
    BY <1>1
  <2>2. From(m)
    BY <1>9, <2>1
  <2>. HIDE DEF m
  <2>3. /\ read[m] \in Reader /\ read[m + 1] \in Reader
        /\ read[m + 1] = ReadNext(b, read[m]) /\ Begins(read[m].text, read[m + 1].text)
    BY <1>3, <2>1, ReadNextAdds
  <2>4. Begins(r[n].text, read[m + 1].text)
    <3>. DEFINE x == r[n].text
                y == read[m].text
                z == read[m + 1].text
    <3>1. Len(x) \in Nat /\ Len(y) \in Nat /\ Len(z) \in Nat /\ Begins(x, y) /\ Begins(y, z)
      BY <1>7, <2>2, <2>3, LenProperties DEF Reader
    <3>. HIDE DEF x, y, z
    <3>2. Begins(x, z)
      BY <3>1 DEF Begins
    <3>. QED
      BY <3>2 DEF x, z
  <2>5. ASSUME r[n].at = N + 1 PROVE read[m + 1] = r[n]
    <3>1. read[m] = r[n] /\ r[n].at > N
      BY <1>1, <2>2, <2>5
    <3>2. ReadNext(b, r[n]) = r[n]
      BY <3>1 DEF ReadNext
    <3>. QED
      BY <2>3, <3>1, <3>2
  <2>. QED
    BY <2>1, <2>4, <2>5
<1>10. From(N)
  <2>1. N - n \in Nat /\ n + (N - n) = N
    BY <1>1
  <2>2. N - n \in Later
    <3>. HIDE DEF Later
    <3>. QED
      BY <1>8, <1>9, <2>1, SetInduction
  <2>. QED
    BY <1>1, <2>1, <2>2
<1>11. IsPrefix(r[n].text, read[N].text)
  <2>. DEFINE x == r[n].text
              z == read[N].text
  <2>1. /\ x \in Seq(Printed) /\ z \in Seq(Printed) /\ Begins(x, z)
        /\ Len(x) \in Nat /\ Len(z) \in Nat
    BY <1>1, <1>3, <1>7, <1>10, LenProperties DEF Reader
  <2>. HIDE DEF x, z
  <2>2. Len(x) <= Len(z) /\ \A k \in 1 .. Len(x) : z[k] = x[k]
    BY <2>1 DEF Begins
  <2>3. SubSeq(x, 1, Len(x)) = SubSeq(z, 1, Len(x))
    BY <2>1, <2>2
  <2>4. IsPrefix(x, z)
    BY <2>2, <2>3 DEF IsPrefix
  <2>. QED
    BY <2>4 DEF x, z
<1>. QED
  BY <1>2, <1>10, <1>11

\* Cells behind do not change what was read before.
LEMMA ReadsFurther ==
  ASSUME NEW b \in Seq(Cell), NEW c \in Seq(Cell), NEW r \in Reader, NEW s \in Reader, Reads(b, r, s)
  PROVE  Reads(b \o c, r, s)
<1>. DEFINE d == b \o c
<1>1. /\ d \in Seq(Cell) /\ Len(d) = Len(b) + Len(c) /\ Len(b) \in Nat /\ Len(c) \in Nat
      /\ \A j \in 1 .. Len(b) : d[j] = b[j]
  BY ConcatProperties, LenProperties
<1>. HIDE DEF d
<1>2. /\ r.at \in Nat /\ s.at \in Nat /\ r.at \in 1 .. Len(b) /\ s.at \in r.at + 1 .. Len(b) + 1
  BY DEF Reads, Reader
<1>3. r.at \in 1 .. Len(d) /\ s.at \in r.at + 1 .. Len(d) + 1 /\ d[r.at] = b[r.at]
  BY <1>1, <1>2
<1>4. ASSUME NEW m \in Nat \ {0}, NEW n \in Int, n <= Len(b) PROVE SubSeq(d, m, n) = SubSeq(b, m, n)
  <2>1. n <= Len(d) /\ \A j \in m .. n : j \in 1 .. Len(b) /\ d[j] = b[j]
    <3>. DEFINE N == Len(b)
    <3>1. N \in Nat /\ n <= N
      BY <1>1, <1>4
    <3>. HIDE DEF N
    <3>2. \A j \in m .. n : j \in 1 .. N
      BY ONLY <3>1, m \in Nat \ {0}, n \in Int
    <3>3. n <= Len(d)
      BY <1>1, <1>4
    <3>. QED
      BY <1>1, <3>2, <3>3 DEF N
  <2>2. \A i \in 1 .. n - m + 1 : i + m - 1 \in m .. n
    OBVIOUS
  <2>3. /\ SubSeq(d, m, n) = [i \in 1 .. n - m + 1 |-> d[i + m - 1]]
        /\ SubSeq(b, m, n) = [i \in 1 .. n - m + 1 |-> b[i + m - 1]]
    BY <1>1, <1>4, <2>1
  <2>4. \A i \in 1 .. n - m + 1 : d[i + m - 1] = b[i + m - 1]
    BY <2>1, <2>2
  <2>. QED
    BY <2>3, <2>4
<1>5. CASE /\ b[r.at] = StringType /\ r.at + 1 < s.at
           /\ b[s.at - 1] = NUL /\ \A j \in r.at + 1 .. s.at - 2 : b[j] # NUL
           /\ s.text = r.text \o SubSeq(b, r.at + 1, s.at - 2)
  <2>1. /\ s.at - 1 \in 1 .. Len(b) /\ \A j \in r.at + 1 .. s.at - 2 : j \in 1 .. Len(b)
        /\ s.at - 2 <= Len(b) /\ r.at + 1 \in Nat \ {0} /\ s.at - 2 \in Int
    <3>. DEFINE x == r.at
                y == s.at
                N == Len(b)
    <3>1. x \in Nat /\ y \in Nat /\ N \in Nat /\ x \in 1 .. N /\ y \in x + 1 .. N + 1 /\ x + 1 < y
      BY <1>1, <1>2, <1>5
    <3>. HIDE DEF x, y, N
    <3>2. /\ y - 1 \in 1 .. N /\ \A j \in x + 1 .. y - 2 : j \in 1 .. N
          /\ y - 2 <= N /\ x + 1 \in Nat \ {0} /\ y - 2 \in Int
      BY <3>1
    <3>. QED
      BY <3>2 DEF x, y, N
  <2>2. SubSeq(d, r.at + 1, s.at - 2) = SubSeq(b, r.at + 1, s.at - 2)
    BY <1>4, <2>1
  <2>3. d[s.at - 1] = NUL /\ \A j \in r.at + 1 .. s.at - 2 : d[j] # NUL
    <3>1. d[s.at - 1] = b[s.at - 1] /\ \A j \in r.at + 1 .. s.at - 2 : d[j] = b[j]
      BY <1>1, <2>1
    <3>. QED
      BY <1>5, <3>1
  <2>. QED
    BY <1>3, <1>5, <2>2, <2>3 DEF Reads, d
<1>6. ASSUME NEW id \in DOMAIN Sizes, b[r.at] = Byte(id), s.at = r.at + 1 + Sizes[id],
             s.text = r.text \o SubSeq(b, r.at + 1, s.at - 1)
      PROVE  Reads(d, r, s)
  <2>1. r.at + 1 \in Nat \ {0} /\ s.at - 1 \in Int /\ s.at - 1 <= Len(b)
    BY <1>1, <1>2
  <2>2. SubSeq(d, r.at + 1, s.at - 1) = SubSeq(b, r.at + 1, s.at - 1)
    BY <1>4, <2>1
  <2>. QED
    BY <1>3, <1>6, <2>2 DEF Reads
<1>. QED
  BY <1>5, <1>6 DEF Reads, d

\* Where a string ends: at the first '\0', or behind its last character.
LEMMA EndsAtNUL ==
  ASSUME NEW t \in Seq(Cell)
  PROVE  /\ StringEnd(t, 1) \in 1 .. Len(t) + 1
         /\ \A j \in 1 .. StringEnd(t, 1) - 1 : t[j] # NUL
         /\ StringEnd(t, 1) <= Len(t) => t[StringEnd(t, 1)] = NUL
<1>. DEFINE n == Len(t)
            ends == {j \in 1 .. n : t[j] = NUL} \cup {n + 1}
            end == StringEnd(t, 1)
<1>1. n \in Nat
  BY LenProperties
<1>2. ends \subseteq Nat /\ ends # {}
  BY <1>1
<1>3. end = Min(ends)
  BY DEF StringEnd
<1>. HIDE DEF end
<1>4. end \in ends /\ \A j \in ends : end <= j
  <2>. HIDE DEF ends
  <2>1. PICK m \in ends : \A j \in ends : ~(j < m)
    BY <1>2, LeastNumber
  <2>2. ends \subseteq Int /\ \A j \in ends : m <= j
    BY <1>2, <2>1
  <2>. QED
    BY <1>3, <2>1, <2>2, MinIsLeast
<1>5. end \in 1 .. n + 1 /\ (end <= n => t[end] = NUL)
  BY <1>1, <1>4
<1>6. ASSUME NEW j \in 1 .. end - 1 PROVE t[j] # NUL
  <2>1. j \in 1 .. n /\ ~(end <= j)
    BY <1>1, <1>5
  <2>. QED
    BY <1>4, <2>1
<1>. QED
  BY <1>5, <1>6 DEF end

\* One more argument behind a line is read as far as it is printed for certain, and to
\* its end when that is all of it; or it is left out and has nothing to print.
LEMMA ReadsArgument ==
  ASSUME NEW b \in Seq(Cell), NEW text \in Seq(Printed), NEW arg \in Args
  PROVE  /\ Shown(arg) \in Seq(Cell)
         /\ \/ Cells(arg) = <<>> /\ Shown(arg) = <<>> /\ Whole(arg)
            \/ /\ Len(Cells(arg)) >= 1
               /\ \E s \in Reader :
                    /\ Reads(b \o Cells(arg), [at |-> Len(b) + 1, text |-> text], s)
                    /\ s.text = text \o Shown(arg)
                    /\ Whole(arg) => s.at = Len(b \o Cells(arg)) + 1
<1>. DEFINE c == Cells(arg)
            t == Text(arg)
            d == b \o c
            N == Len(b)
            n == Len(t)
            r == [at |-> N + 1, text |-> text]
<1>1. /\ c \in Seq(Cell) /\ Len(c) \in Nat /\ N \in Nat /\ t \in Seq(Cell) /\ n \in Nat
      /\ \A i \in 1 .. n : t[i] \in Cell
  BY CellsAreCells, TextIsCells, LenProperties, ElementOfSeq
<1>2. /\ d \in Seq(Cell) /\ Len(d) = N + Len(c)
      /\ \A i \in 1 .. Len(c) : d[N + i] = c[i]
  <2>. HIDE DEF c
  <2>1. /\ d \in Seq(Cell) /\ Len(d) = N + Len(c)
        /\ \A i \in 1 .. N + Len(c) : d[i] = IF i <= N THEN b[i] ELSE c[i - N]
    BY <1>1, ConcatProperties
  <2>2. ASSUME NEW i \in 1 .. Len(c) PROVE d[N + i] = c[i]
    <3>1. N + i \in 1 .. N + Len(c) /\ ~(N + i <= N) /\ (N + i) - N = i
      BY <1>1
    <3>. QED
      BY <2>1, <3>1
  <2>. QED
    BY <2>1, <2>2
<1>3. ASSUME NEW e \in 0 .. n, \A i \in 1 .. e : N + (i + 1) \in Nat /\ d[N + (i + 1)] = t[i]
      PROVE  SubSeq(d, N + 2, N + e + 1) = SubSeq(t, 1, e)
  <2>. HIDE DEF d, t, n
  <2>1. \A i \in N + 2 .. N + e + 1 : i - N - 1 \in 1 .. e /\ N + ((i - N - 1) + 1) = i
    <3>1. N \in Nat /\ e \in Int
      BY <1>1
    <3>. HIDE DEF N
    <3>. QED
      BY <3>1
  <2>2. ASSUME NEW i \in N + 2 .. N + e + 1 PROVE d[i] \in Cell
    <3>1. i - N - 1 \in 1 .. e /\ N + ((i - N - 1) + 1) = i
      BY <2>1
    <3>2. d[i] = t[i - N - 1]
      BY <1>3, <3>1
    <3>3. \A j \in 1 .. e : j \in 1 .. n
      BY <1>1
    <3>. QED
      BY <1>1, <3>1, <3>2, <3>3
  <2>3. /\ SubSeq(d, N + 2, N + e + 1) \in Seq(Cell) /\ Len(SubSeq(d, N + 2, N + e + 1)) = e
        /\ \A i \in 1 .. e : SubSeq(d, N + 2, N + e + 1)[i] = d[N + (i + 1)]
    <3>1. /\ N + 2 \in Int /\ N + e + 1 \in Int /\ (N + e + 1) - (N + 2) + 1 = e
          /\ (N + 2 <= N + e + 1 <=> e # 0) /\ e \in Nat
          /\ \A i \in 1 .. e : N + 2 + i - 1 = N + (i + 1)
      BY <1>1
    <3>2. /\ SubSeq(d, N + 2, N + e + 1) \in Seq(Cell)
          /\ Len(SubSeq(d, N + 2, N + e + 1)) = IF N + 2 <= N + e + 1 THEN N + e + 1 - (N + 2) + 1 ELSE 0
          /\ \A i \in 1 .. N + e + 1 - (N + 2) + 1 : SubSeq(d, N + 2, N + e + 1)[i] = d[N + 2 + i - 1]
      BY <2>2, <3>1, SubSeqProperties
    <3>. QED
      BY <3>1, <3>2
  <2>4. /\ SubSeq(t, 1, e) \in Seq(Cell) /\ Len(SubSeq(t, 1, e)) = e
        /\ \A i \in 1 .. e : SubSeq(t, 1, e)[i] = t[i]
    <3>1. e \in Nat /\ \A i \in 1 .. e : i \in 1 .. n
      BY <1>1
    <3>2. \A i \in 1 .. e : t[i] \in Cell
      BY <1>1, <3>1
    <3>. QED
      BY <1>1, <3>1, <3>2
  <2>. QED
    BY <1>3, <2>3, <2>4, SeqEqual
<1>4. CASE LeftOut(arg)
  <2>1. c = <<>> /\ t = <<>> /\ arg.kind # "number"
    BY <1>4, TextIsCells DEF Cells
  <2>2. Shown(arg) = <<>>
    <3>1. Shown(arg) = SubSeq(t, 1, StringEnd(t, 1) - 1) /\ StringEnd(t, 1) \in 1 .. n + 1 /\ n = 0
      <4>1. Shown(arg) = SubSeq(t, 1, StringEnd(t, 1) - 1)
        BY <2>1 DEF Shown
      <4>2. StringEnd(t, 1) \in 1 .. n + 1
        BY <1>1, EndsAtNUL
      <4>3. n = 0
        BY <2>1
      <4>. QED
        BY <4>1, <4>2, <4>3
    <3>. HIDE DEF t, n
    <3>. QED
      BY <3>1, SubSeqEmpty
  <2>. QED
    BY <2>1, <2>2 DEF Whole
<1>5. CASE arg.kind = "number"
  <2>. DEFINE w == Sizes[arg.type]
              id == Byte(arg.type)
              s == [at |-> N + 1 + 1 + w, text |-> text \o t]
  <2>1. arg.type \in DOMAIN Sizes /\ w \in Nat \ {0} /\ n = w
    BY <1>5, TextIsCells
  <2>2. c = <<id>> \o t /\ Shown(arg) = t /\ Whole(arg)
    BY <1>5 DEF Cells, LeftOut, Shown, Whole
  <2>3. id \in Cell
    BY <2>1, LineAssumption DEF Cell, Byte
  <2>. HIDE DEF c, t, n, id, w
  <2>4. Len(c) = w + 1 /\ c[1] = id /\ \A i \in 1 .. w : c[i + 1] = t[i]
    <3>1. n = Len(t)
      BY DEF n
    <3>. QED
      BY <1>1, <2>1, <2>2, <2>3, <3>1
  <2>5. d[N + 1] = id /\ \A i \in 1 .. w : N + (i + 1) \in Nat /\ d[N + (i + 1)] = t[i]
    <3>1. 1 \in 1 .. Len(c) /\ \A i \in 1 .. w : i + 1 \in 1 .. Len(c) /\ N + (i + 1) \in Nat
      BY <1>1, <2>1, <2>4
    <3>. QED
      BY <1>2, <2>4, <3>1
  <2>6. SubSeq(d, N + 2, N + w + 1) = t
    <3>1. w \in 0 .. n /\ SubSeq(t, 1, n) = t
      BY <1>1, <2>1, SubSeqFull DEF n
    <3>. HIDE DEF d
    <3>2. SubSeq(d, N + 2, N + w + 1) = SubSeq(t, 1, w)
      BY <1>3, <2>5, <3>1
    <3>. QED
      BY <2>1, <3>1, <3>2
  <2>7. /\ r.at = N + 1 /\ s.at = N + w + 2 /\ r.at \in 1 .. Len(d) /\ s.at = r.at + 1 + w
        /\ s.at \in r.at + 1 .. Len(d) + 1 /\ s.at = Len(d) + 1
        /\ r.at + 1 = N + 2 /\ s.at - 1 = N + w + 1 /\ s.at \in Nat \ {0}
    BY <1>1, <1>2, <2>1, <2>4
  <2>8. text \o t \in Seq(Printed)
    <3>1. t \in Seq(Printed)
      BY <1>1, SeqMonotonic DEF Printed
    <3>. QED
      BY <3>1, ConcatProperties
  <2>9. s \in Reader
    BY <2>7, <2>8 DEF Reader
  <2>10. Reads(d, r, s)
    <3>. HIDE DEF d
    <3>1. b \o c = d => Reads(d, r, s)
      <4>1. /\ d[r.at] = Byte(arg.type) /\ s.at = r.at + 1 + Sizes[arg.type]
            /\ s.text = r.text \o SubSeq(d, r.at + 1, s.at - 1)
        BY <2>5, <2>6, <2>7 DEF id, w
      <4>. QED
        BY <2>1, <2>7, <4>1 DEF Reads
    <3>. QED
      BY <3>1 DEF d
  <2>11. Len(c) >= 1 /\ s.text = text \o t /\ s.at = Len(d) + 1
    <3>1. s.text = text \o t
      OBVIOUS
    <3>. HIDE DEF s
    <3>. QED
      BY <2>1, <2>4, <2>7, <3>1
  <2>. HIDE DEF s
  <2>. QED
    BY <1>1, <2>2, <2>9, <2>10, <2>11 DEF c, t
<1>6. CASE ~LeftOut(arg) /\ arg.kind # "number"
  <2>. DEFINE e == StringEnd(t, 1)
              shown == SubSeq(t, 1, e - 1)
              s == [at |-> N + e + 2, text |-> text \o shown]
  <2>1. c = <<StringType>> \o t \o <<NUL>> /\ Shown(arg) = shown
    BY <1>6 DEF Cells, Shown
  <2>2. /\ e \in 1 .. n + 1 /\ \A j \in 1 .. e - 1 : t[j] # NUL
        /\ e <= n => t[e] = NUL
    BY <1>1, EndsAtNUL
  <2>3. <<StringType>> \in Seq(Cell) /\ <<NUL>> \in Seq(Cell)
    BY LineAssumption DEF Cell, StringType, NUL, Byte
  <2>. HIDE DEF c, t, n, e
  <2>4. /\ Len(c) = n + 2 /\ c[1] = StringType /\ c[n + 2] = NUL
        /\ \A i \in 1 .. n : c[i + 1] = t[i]
    <3>. DEFINE open == <<StringType>> \o t
    <3>1. n = Len(t) /\ StringType \in Cell /\ NUL \in Cell
      BY LineAssumption DEF n, Cell, StringType, NUL, Byte
    <3>2. /\ open \in Seq(Cell) /\ Len(open) = n + 1 /\ open[1] = StringType
          /\ \A i \in 1 .. n : open[i + 1] = t[i]
      BY <1>1, <3>1
    <3>3. c = open \o <<NUL>>
      BY <2>1
    <3>. HIDE DEF open
    <3>. QED
      BY <1>1, <3>1, <3>2, <3>3
  <2>5. /\ d[N + 1] = StringType /\ d[N + (n + 2)] = NUL
        /\ \A i \in 1 .. n : N + (i + 1) \in Nat /\ d[N + (i + 1)] = t[i]
    <3>1. /\ 1 \in 1 .. Len(c) /\ n + 2 \in 1 .. Len(c)
          /\ \A i \in 1 .. n : i + 1 \in 1 .. Len(c) /\ N + (i + 1) \in Nat
      BY <1>1, <2>4
    <3>. QED
      BY <1>2, <2>4, <3>1
  <2>6. /\ r.at = N + 1 /\ s.at = N + e + 2 /\ r.at \in 1 .. Len(d)
        /\ s.at \in r.at + 1 .. Len(d) + 1 /\ r.at + 1 < s.at
        /\ s.at - 1 = N + (e + 1) /\ s.at - 2 = N + e /\ r.at + 1 = N + 2
        /\ s.at \in Nat \ {0} /\ (e = n + 1 => s.at = Len(d) + 1)
    <3>1. N \in Nat /\ n \in Nat /\ e \in 1 .. n + 1 /\ Len(d) = N + (n + 2)
      BY <1>1, <1>2, <2>2, <2>4
    <3>2. r.at = N + 1 /\ s.at = N + e + 2
      OBVIOUS
    <3>. HIDE DEF r, s, d, N
    <3>. QED
      BY <3>1, <3>2
  <2>7. d[N + (e + 1)] = NUL
    <3>1. CASE e <= n
      <4>1. e \in 1 .. n
        BY <1>1, <2>2, <3>1
      <4>. QED
        BY <2>2, <2>5, <3>1, <4>1
    <3>2. CASE ~(e <= n)
      <4>1. e + 1 = n + 2
        BY <1>1, <2>2, <3>2
      <4>. QED
        BY <2>5, <4>1
    <3>. QED
      BY <3>1, <3>2
  <2>8. ASSUME NEW j \in N + 2 .. N + e PROVE d[j] # NUL
    <3>1. j - N - 1 \in 1 .. e - 1 /\ j - N - 1 \in 1 .. n /\ N + ((j - N - 1) + 1) = j
      BY <1>1, <2>2
    <3>2. d[j] = t[j - N - 1]
      BY <2>5, <3>1
    <3>. QED
      BY <2>2, <3>1, <3>2
  <2>9. SubSeq(d, N + 2, N + e) = shown
    <3>1. e - 1 \in 0 .. n /\ N + (e - 1) + 1 = N + e /\ \A i \in 1 .. e - 1 : i \in 1 .. n
      BY <1>1, <2>2
    <3>. HIDE DEF d
    <3>2. SubSeq(d, N + 2, N + (e - 1) + 1) = SubSeq(t, 1, e - 1)
      BY <1>3, <2>5, <3>1
    <3>. QED
      BY <3>1, <3>2
  <2>10. /\ shown \in Seq(Cell) /\ Len(shown) = e - 1
         /\ text \o shown \in Seq(Printed)
    <3>1. /\ e - 1 \in Nat /\ \A i \in 1 .. e - 1 : i \in 1 .. n
      BY <1>1, <2>2
    <3>2. shown \in Seq(Cell) /\ Len(shown) = e - 1
      <4>1. \A i \in 1 .. e - 1 : t[i] \in Cell
        BY <1>1, <3>1
      <4>. QED
        BY <3>1, <4>1
    <3>. HIDE DEF shown
    <3>3. shown \in Seq(Printed)
      BY <3>2, SeqMonotonic DEF Printed
    <3>. QED
      BY <3>2, <3>3, ConcatProperties
  <2>11. Whole(arg) => e = n + 1
    <3>1. Whole(arg) => shown = t
      BY <2>1 DEF Whole, t
    <3>2. Len(t) = n
      BY DEF n
    <3>. HIDE DEF shown
    <3>. QED
      BY <1>1, <2>2, <2>10, <3>1, <3>2
  <2>12. s \in Reader
    <3>. HIDE DEF shown
    <3>. QED
      BY <2>6, <2>10 DEF Reader
  <2>13. Reads(d, r, s)
    <3>1. r.text = text /\ s.text = text \o shown
      OBVIOUS
    <3>. HIDE DEF d, shown, r, s, N
    <3>2. /\ d[r.at] = StringType /\ d[s.at - 1] = NUL /\ \A j \in r.at + 1 .. s.at - 2 : d[j] # NUL
      BY <2>5, <2>6, <2>7, <2>8
    <3>3. s.text = r.text \o SubSeq(d, r.at + 1, s.at - 2)
      BY <2>6, <2>9, <3>1
    <3>. QED
      BY <2>6, <3>2, <3>3 DEF Reads
  <2>14. Len(c) >= 1 /\ s.text = text \o shown
    <3>1. s.text = text \o shown
      OBVIOUS
    <3>. HIDE DEF s
    <3>. QED
      BY <1>1, <2>4, <3>1
  <2>. HIDE DEF s, shown
  <2>. QED
    BY <2>1, <2>6, <2>10, <2>11, <2>12, <2>13, <2>14 DEF c
<1>. QED
  BY <1>4, <1>5, <1>6

\* A line that is read to its end as text is read as text and the argument behind it.
LEMMA PrintsMore ==
  ASSUME NEW b \in Seq(Cell), NEW text \in Seq(Cell), NEW arg \in Args, Prints(b, text)
  PROVE  /\ Starts(b \o Cells(arg), text \o Shown(arg))
         /\ Whole(arg) => Prints(b \o Cells(arg), text \o Text(arg))
<1>. DEFINE c == Cells(arg)
            d == b \o c
            more == text \o Shown(arg)
<1>1. PICK n, r : Reading(b, n, r) /\ r[n].text = text /\ r[n].at = Len(b) + 1
  BY DEF Prints
<1>2. /\ n \in Nat /\ n <= Len(b) /\ Len(b) \in Nat /\ r \in [0 .. n -> Reader] /\ r[n] \in Reader
      /\ r[n].at = Len(b) + 1 /\ r[0] = [at |-> Header + 1, text |-> <<>>]
      /\ \A k \in 1 .. n : Reads(b, r[k - 1], r[k])
  BY <1>1, LenProperties DEF Reading
<1>3. r[n] = [at |-> Len(b) + 1, text |-> text]
  BY <1>1, <1>2 DEF Reader
<1>4. c \in Seq(Cell) /\ Len(c) \in Nat /\ text \in Seq(Printed)
  BY CellsAreCells, SeqMonotonic DEF Printed
<1>5. d \in Seq(Cell) /\ Len(d) = Len(b) + Len(c) /\ Len(d) \in Nat
  <2>. HIDE DEF c
  <2>. QED
    BY <1>2, <1>4, ConcatProperties
<1>6. CASE c = <<>> /\ Shown(arg) = <<>> /\ Whole(arg)
  <2>1. d = b /\ more = text /\ text \o Text(arg) = text
    BY <1>6, ConcatEmptySeq DEF Whole
  <2>2. Starts(b, text) /\ Prints(b, text)
    BY <1>1 DEF Starts, Prints
  <2>. QED
    BY <2>1, <2>2
<1>7. ASSUME NEW last \in Reader, Len(c) >= 1,
             Reads(d, [at |-> Len(b) + 1, text |-> text], last),
             last.text = more, Whole(arg) => last.at = Len(d) + 1
      PROVE  Starts(d, more) /\ (Whole(arg) => Prints(d, text \o Text(arg)))
  <2>. HIDE DEF c, d, more
  <2>. DEFINE s == [k \in 0 .. n + 1 |-> IF k <= n THEN r[k] ELSE last]
  <2>2. /\ s \in [0 .. n + 1 -> Reader] /\ s[0] = r[0] /\ s[n] = r[n] /\ s[n + 1] = last
        /\ n + 1 \in 0 .. Len(d) /\ n + 1 \in Nat
    <3>1. n + 1 \in 0 .. Len(d) /\ n + 1 \in Nat
      BY <1>2, <1>4, <1>5, <1>7
    <3>2. 0 \in 0 .. n + 1 /\ n \in 0 .. n + 1 /\ n + 1 \in 0 .. n + 1 /\ ~(n + 1 <= n)
          /\ 0 <= n /\ n <= n
      BY <1>2
    <3>3. ASSUME NEW k \in 0 .. n + 1 PROVE s[k] \in Reader
      <4>1. k <= n => k \in 0 .. n
        BY <1>2
      <4>. QED
        BY <1>2, <1>7, <4>1
    <3>. QED
      BY <3>1, <3>2, <3>3
  <2>3. ASSUME NEW k \in 1 .. n + 1 PROVE Reads(d, s[k - 1], s[k])
    <3>1. CASE k = n + 1
      <4>1. s[k] = last /\ k - 1 = n /\ s[k - 1] = r[n]
        BY <1>2, <2>2, <3>1
      <4>. QED
        BY <1>3, <1>7, <4>1
    <3>2. CASE k # n + 1
      <4>1. k \in 1 .. n /\ k \in 0 .. n /\ k - 1 \in 0 .. n /\ k <= n /\ k - 1 <= n
            /\ k \in 0 .. n + 1 /\ k - 1 \in 0 .. n + 1
        BY <1>2, <3>2
      <4>2. s[k] = r[k] /\ s[k - 1] = r[k - 1]
        BY <4>1
      <4>3. Reads(b, r[k - 1], r[k]) /\ r[k] \in Reader /\ r[k - 1] \in Reader
        BY <1>2, <4>1
      <4>4. Reads(d, r[k - 1], r[k])
        BY <1>4, <4>3, ReadsFurther DEF d
      <4>. QED
        BY <4>2, <4>4
    <3>. QED
      BY <3>1, <3>2
  <2>. HIDE DEF s
  <2>4. Reading(d, n + 1, s) /\ s[n + 1].text = more
    BY <1>2, <1>7, <2>2, <2>3 DEF Reading
  <2>5. Starts(d, more)
    BY <2>4 DEF Starts
  <2>6. Whole(arg) => Prints(d, more)
    BY <1>7, <2>2, <2>4 DEF Prints
  <2>7. Whole(arg) => more = text \o Text(arg)
    BY DEF Whole, more
  <2>. QED
    BY <2>5, <2>6, <2>7
<1>. QED
  <2>1. CASE c = <<>> /\ Shown(arg) = <<>> /\ Whole(arg)
    BY <1>6, <2>1
  <2>2. CASE /\ Len(c) >= 1
             /\ \E s \in Reader : /\ Reads(d, [at |-> Len(b) + 1, text |-> text], s)
                                  /\ s.text = more
                                  /\ Whole(arg) => s.at = Len(d) + 1
    <3>. HIDE DEF c, d, more
    <3>1. Starts(d, more) /\ (Whole(arg) => Prints(d, text \o Text(arg)))
      BY <1>7, <2>2
    <3>. QED
      BY <3>1 DEF c, d, more
  <2>. QED
    BY <1>4, <2>1, <2>2, ReadsArgument

\* An argument behind a line does not change how the line starts.
LEMMA StartsTheSame ==
  ASSUME NEW b \in Seq(Cell), NEW c \in Seq(Cell), NEW text, Starts(b, text)
  PROVE  Starts(b \o c, text)
<1>1. PICK n, r : Reading(b, n, r) /\ r[n].text = text
  BY DEF Starts
<1>2. Len(b \o c) = Len(b) + Len(c) /\ Len(b) \in Nat /\ Len(c) \in Nat
  BY ConcatProperties, LenProperties
<1>3. n \in 0 .. Len(b \o c)
  BY <1>1, <1>2 DEF Reading
<1>4. ASSUME NEW k \in 1 .. n PROVE Reads(b \o c, r[k - 1], r[k])
  <2>1. n \in Nat /\ k \in 0 .. n /\ k - 1 \in 0 .. n
    BY <1>1 DEF Reading
  <2>2. r[k] \in Reader /\ r[k - 1] \in Reader /\ Reads(b, r[k - 1], r[k])
    BY <1>1, <2>1 DEF Reading
  <2>. QED
    BY <2>2, ReadsFurther
<1>5. Reading(b \o c, n, r)
  BY <1>1, <1>3, <1>4 DEF Reading
<1>. QED
  BY <1>1, <1>5 DEF Starts

\* What is printed of one argument more.
LEMMA LineTextGrows ==
  ASSUME NEW as \in Seq(Args), NEW arg \in Args
  PROVE  /\ LineText(as) \in Seq(Cell)
         /\ LineText(Append(as, arg)) = LineText(as) \o Text(arg)
<1>. DEFINE n == Len(as)
            longer == Append(as, arg)
            seqs == [i \in DOMAIN as |-> Text(as[i])]
            more == [i \in DOMAIN longer |-> Text(longer[i])]
<1>1. n \in Nat /\ DOMAIN as = 1 .. n /\ \A i \in 1 .. n : as[i] \in Args
  BY LenProperties, ElementOfSeq
<1>2. /\ longer \in Seq(Args) /\ Len(longer) = n + 1 /\ DOMAIN longer = 1 .. n + 1
      /\ \A i \in 1 .. n : longer[i] = as[i] /\ i \in 1 .. n + 1
      /\ longer[n + 1] = arg /\ n + 1 \in 1 .. n + 1
      /\ \A i \in 1 .. n + 1 : longer[i] \in Args
  <2>. HIDE DEF seqs, more, n
  <2>1. /\ longer \in Seq(Args) /\ Len(longer) = n + 1
        /\ \A i \in 1 .. n : longer[i] = as[i]
        /\ longer[n + 1] = arg
    <3>1. longer \in Seq(Args)
      BY AppendProperties
    <3>2. Len(longer) = n + 1 /\ longer[n + 1] = arg
      BY AppendProperties DEF n
    <3>3. \A i \in 1 .. n : longer[i] = as[i]
      BY AppendProperties DEF n
    <3>. QED
      BY <3>1, <3>2, <3>3
  <2>. HIDE DEF longer
  <2>2. DOMAIN longer = 1 .. n + 1 /\ \A i \in 1 .. n + 1 : longer[i] \in Args
    BY <2>1, LenProperties, ElementOfSeq
  <2>3. n + 1 \in 1 .. n + 1 /\ \A i \in 1 .. n : i \in 1 .. n + 1
    BY <1>1
  <2>. QED
    BY <2>1, <2>2, <2>3
<1>3. \A a \in Args : Text(a) \in Seq(Cell)
  BY TextIsCells
<1>. HIDE DEF longer
<1>4. seqs \in [1 .. n -> Seq(Cell)] /\ more \in [1 .. n + 1 -> Seq(Cell)]
  BY <1>1, <1>2, <1>3
<1>5. Adds(seqs, more, n, Text(arg))
  BY <1>1, <1>2 DEF Adds
<1>6. Text(arg) \in Seq(Cell)
  BY <1>3
<1>7. LineText(as) = FlattenSeq(seqs) /\ LineText(longer) = FlattenSeq(more)
  BY DEF LineText
<1>. HIDE DEF seqs, more
<1>8. FlattenSeq(seqs) \in Seq(Cell) /\ FlattenSeq(more) = FlattenSeq(seqs) \o Text(arg)
  <2>. HIDE DEF n
  <2>. QED
    BY <1>1, <1>4, <1>5, <1>6, FlattenAppend
<1>. QED
  BY <1>7, <1>8 DEF longer

-----------------------------------------------------------------------------
(* The line on its way.                                                    *)

\* A buffer prints the arguments as: all of them, or up to the first '\0'.
Conveys(b, as) ==
  /\ AllWhole(as) => Prints(b, LineText(as))
  /\ \A n \in 1 .. Len(as) :
       AllWhole(SubSeq(as, 1, n - 1)) => Starts(b, LineText(SubSeq(as, 1, n - 1)) \o Shown(as[n]))

\* Every line prints its arguments.
PrintInv ==
  /\ args \in [Places -> Seq(Args)]
  /\ \A p \in live : Conveys(Buffer(p), args[p])

\* With one argument more it does so still.
LEMMA ConveysMore ==
  ASSUME NEW b \in Seq(Cell), NEW given \in Seq(Args), NEW arg \in Args, Conveys(b, given)
  PROVE  Conveys(b \o Cells(arg), Append(given, arg))
<1>. DEFINE N == Len(given)
            longer == Append(given, arg)
            d == b \o Cells(arg)
<1>1. N \in Nat /\ DOMAIN given = 1 .. N /\ Cells(arg) \in Seq(Cell)
  <2>1. N \in Nat /\ DOMAIN given = 1 .. N
    BY LenProperties
  <2>. QED
    BY <2>1, CellsAreCells
<1>2. /\ longer \in Seq(Args) /\ Len(longer) = N + 1 /\ DOMAIN longer = 1 .. N + 1
      /\ longer[N + 1] = arg /\ \A i \in 1 .. N : longer[i] = given[i]
  <2>. HIDE DEF N
  <2>1. longer \in Seq(Args)
    BY AppendProperties
  <2>2. Len(longer) = N + 1 /\ longer[N + 1] = arg
    BY AppendProperties DEF N
  <2>3. \A i \in 1 .. N : longer[i] = given[i]
    BY AppendProperties DEF N
  <2>. HIDE DEF longer
  <2>. QED
    BY <2>1, <2>2, <2>3, LenProperties
<1>3. ASSUME NEW n \in 0 .. N PROVE SubSeq(longer, 1, n) = SubSeq(given, 1, n)
  <2>1. N = Len(given)
    OBVIOUS
  <2>. HIDE DEF longer, N
  <2>2. n \in Nat /\ n <= N /\ N <= N + 1 /\ n <= N + 1 /\ \A i \in 1 .. n : i \in 1 .. N
    BY <1>1
  <2>3. /\ n <= Len(longer) /\ n <= Len(given) /\ \A i \in 1 .. n : longer[i] = given[i]
        /\ \A i \in 1 .. n : i \in 1 .. Len(given)
    BY <1>2, <2>1, <2>2
  <2>4. \A i \in 1 .. n : given[i] \in Args
    BY <2>3, ElementOfSeq
  <2>5. \A i \in 1 .. n : longer[i] \in Args
    BY <2>3, <2>4
  <2>6. /\ SubSeq(given, 1, n) \in Seq(Args) /\ Len(SubSeq(given, 1, n)) = n
        /\ \A i \in 1 .. n : SubSeq(given, 1, n)[i] = given[i]
    BY <2>2, <2>4
  <2>7. /\ SubSeq(longer, 1, n) \in Seq(Args) /\ Len(SubSeq(longer, 1, n)) = n
        /\ \A i \in 1 .. n : SubSeq(longer, 1, n)[i] = longer[i]
    BY <2>2, <2>5
  <2>. QED
    BY <2>3, <2>6, <2>7, SeqEqual
<1>4. SubSeq(given, 1, N) = given
  BY SubSeqFull
<1>5. /\ LineText(given) \in Seq(Cell) /\ LineText(longer) = LineText(given) \o Text(arg)
  BY LineTextGrows
<1>6. AllWhole(given) => /\ Starts(d, LineText(given) \o Shown(arg))
                         /\ Whole(arg) => Prints(d, LineText(given) \o Text(arg))
  <2>. SUFFICES ASSUME AllWhole(given)
                PROVE  /\ Starts(d, LineText(given) \o Shown(arg))
                       /\ Whole(arg) => Prints(d, LineText(given) \o Text(arg))
    OBVIOUS
  <2>1. Prints(b, LineText(given))
    BY DEF Conveys
  <2>. DEFINE text == LineText(given)
  <2>2. text \in Seq(Cell) /\ Prints(b, text)
    BY <1>5, <2>1
  <2>. HIDE DEF text
  <2>3. Starts(d, text \o Shown(arg)) /\ (Whole(arg) => Prints(d, text \o Text(arg)))
    BY <2>2, PrintsMore
  <2>. QED
    BY <2>3 DEF text
<1>. HIDE DEF longer, N, d
<1>7. AllWhole(longer) => AllWhole(given) /\ Whole(arg)
  <2>1. N + 1 \in 1 .. N + 1 /\ \A i \in 1 .. N : i \in 1 .. N + 1
    BY <1>1
  <2>2. AllWhole(longer) => \A i \in 1 .. N + 1 : Whole(longer[i])
    BY <1>2 DEF AllWhole
  <2>3. AllWhole(longer) => /\ Whole(longer[N + 1])
                            /\ \A i \in 1 .. N : Whole(longer[i])
    BY <2>1, <2>2
  <2>4. AllWhole(longer) => Whole(arg) /\ \A i \in 1 .. N : Whole(given[i])
    BY <1>2, <2>3
  <2>. QED
    BY <1>1, <2>4 DEF AllWhole
<1>8. ASSUME NEW n \in 1 .. Len(longer), AllWhole(SubSeq(longer, 1, n - 1))
      PROVE  Starts(d, LineText(SubSeq(longer, 1, n - 1)) \o Shown(longer[n]))
  <2>1. n \in 1 .. N + 1 /\ n - 1 \in 0 .. N
    BY <1>1, <1>2
  <2>2. SubSeq(longer, 1, n - 1) = SubSeq(given, 1, n - 1)
    BY <1>3, <2>1
  <2>3. CASE n = N + 1
    <3>1. n - 1 = N
      BY <1>1, <2>3
    <3>2. SubSeq(longer, 1, n - 1) = given /\ longer[n] = arg
      BY <1>2, <1>4, <2>2, <2>3, <3>1
    <3>3. AllWhole(given)
      BY <1>8, <3>2
    <3>. QED
      BY <1>6, <3>2, <3>3
  <2>4. CASE n \in 1 .. N
    <3>1. longer[n] = given[n]
      BY <1>2, <2>4
    <3>2. Starts(b, LineText(SubSeq(given, 1, n - 1)) \o Shown(given[n]))
      BY <1>8, <2>2, <2>4 DEF Conveys, N
    <3>. QED
      BY <1>1, <2>2, <3>1, <3>2, StartsTheSame DEF d
  <2>. QED
    BY <1>1, <2>1, <2>3, <2>4
<1>9. AllWhole(longer) => Prints(d, LineText(longer))
  <2>1. AllWhole(longer) => Prints(d, LineText(given) \o Text(arg))
    BY ONLY <1>6, <1>7
  <2>. QED
    BY ONLY <1>5, <2>1
<1>10. Conveys(d, longer)
  BY <1>8, <1>9 DEF Conveys
<1>. QED
  BY <1>10 DEF longer, d

\* The buffer of a line gets the cells of the argument at its end, wherever they go.
LEMMA InsertAppends ==
  ASSUME NEW arg \in Args, Inv, Insert(arg)
  PROVE  LET p == "temporary"
         IN  /\ Buffer(p)' = Buffer(p) \o Cells(arg)
             /\ \A q \in live : q # p => Buffer(q)' = Buffer(q)
<1>. DEFINE p == "temporary"
            used == m_bytes_used[p]
            required == used + Reserved(arg)
<1>1. /\ p \in Places /\ p \in live /\ live \subseteq Places /\ used \in Nat /\ m_buffer_size[p] \in Nat
      /\ m_stack_buffer \in [Places -> Seq(Cell)] /\ m_heap_buffer \in [Places -> Seq(Cell)]
  BY DEF Inv, TypeOK, Insert, Places
<1>2. Buffer(p) \in Seq(Cell) /\ Len(Buffer(p)) = used
  BY <1>1 DEF Inv, NeverOverruns, Buffer
<1>3. Cells(arg) \in Seq(Cell) /\ Len(Cells(arg)) \in Nat /\ Reserved(arg) = Len(Cells(arg))
  BY CellsAreCells
<1>4. /\ required \in Nat /\ Buffer(p) \o Cells(arg) \in Seq(Cell)
      /\ Len(Buffer(p) \o Cells(arg)) = required
  <2>. DEFINE b == Buffer(p)
              c == Cells(arg)
  <2>1. b \in Seq(Cell) /\ c \in Seq(Cell) /\ Len(b) = used /\ Len(c) \in Nat
    BY <1>2, <1>3
  <2>. HIDE DEF b, c
  <2>2. b \o c \in Seq(Cell) /\ Len(b \o c) = Len(b) + Len(c)
    BY <2>1, ConcatProperties
  <2>3. required \in Nat /\ required = used + Len(c)
    BY <1>1, <1>3 DEF c
  <2>. QED
    BY <2>1, <2>2, <2>3 DEF b, c
<1>5. ASSUME NEW q \in live, q # p PROVE Buffer(q)' = Buffer(q)
  BY <1>1, <1>5 DEF Insert, Buffer, OnHeap
<1>6. Buffer(p)' = Buffer(p) \o Cells(arg)
  <2>1. CASE required <= m_buffer_size[p] /\ ~OnHeap(p)
    BY <1>1, <2>1 DEF Insert, Buffer, OnHeap
  <2>2. CASE required <= m_buffer_size[p] /\ OnHeap(p)
    <3>1. /\ m_heap_buffer' = [m_heap_buffer EXCEPT ![p] = @ \o Cells(arg)]
          /\ Buffer(p) = m_heap_buffer[p] /\ Buffer(p) # <<>>
      BY <2>2 DEF Insert, Buffer, OnHeap
    <3>2. Buffer(p) \o Cells(arg) # <<>>
      BY <1>2, <1>3, <3>1
    <3>3. m_heap_buffer'[p] = Buffer(p) \o Cells(arg)
      BY <1>1, <3>1
    <3>. QED
      BY <3>2, <3>3 DEF Buffer, OnHeap
  <2>3. CASE ~(required <= m_buffer_size[p])
    <3>1. m_heap_buffer' = [m_heap_buffer EXCEPT ![p] = Copied(Buffer(p), used) \o Cells(arg)]
      BY <2>3 DEF Insert
    <3>2. Copied(Buffer(p), used) = Buffer(p)
      BY <1>2 DEF Copied
    <3>3. Buffer(p) \o Cells(arg) # <<>>
      <4>1. required > 0
        BY <1>1, <1>4, <2>3
      <4>. QED
        BY <1>4, <4>1
    <3>4. m_heap_buffer'[p] = Buffer(p) \o Cells(arg)
      BY <1>1, <3>1, <3>2
    <3>. QED
      BY <3>3, <3>4 DEF Buffer, OnHeap
  <2>. QED
    BY <2>1, <2>2, <2>3
<1>. QED
  BY <1>5, <1>6

\* operator<< keeps PrintInv.
LEMMA InsertPrints == ASSUME NEW arg \in Args, Inv, PrintInv, Insert(arg) PROVE PrintInv'
<1>. DEFINE p == "temporary"
<1>1. /\ args \in [Places -> Seq(Args)] /\ p \in Places /\ p \in live /\ live' = live
      /\ live \subseteq Places /\ args' = [args EXCEPT ![p] = Append(@, arg)]
      /\ args[p] \in Seq(Args)
  BY DEF Inv, TypeOK, PrintInv, Insert, Places
<1>2. Append(args[p], arg) \in Seq(Args)
  BY <1>1, AppendProperties
<1>3. args' \in [Places -> Seq(Args)] /\ args'[p] = Append(args[p], arg)
  BY <1>1, <1>2
<1>4. /\ Buffer(p)' = Buffer(p) \o Cells(arg)
      /\ \A q \in live : q # p => Buffer(q)' = Buffer(q)
  BY InsertAppends
<1>5. Buffer(p) \in Seq(Cell)
  BY <1>1 DEF Inv, TypeOK, Buffer
<1>6. Conveys(Buffer(p), args[p])
  BY <1>1 DEF PrintInv
<1>8. Conveys(Buffer(p) \o Cells(arg), Append(args[p], arg))
  BY <1>1, <1>5, <1>6, ConveysMore
<1>9. ASSUME NEW q \in live' PROVE Conveys(Buffer(q)', args'[q])
  <2>1. CASE q = p
    BY <1>3, <1>4, <1>8, <2>1
  <2>2. CASE q # p
    <3>1. Buffer(q)' = Buffer(q) /\ args'[q] = args[q] /\ q \in live
      BY <1>1, <1>4, <2>2
    <3>. QED
      BY <3>1 DEF PrintInv
  <2>. QED
    BY <2>1, <2>2
<1>. QED
  BY <1>3, <1>9 DEF PrintInv

\* A move keeps PrintInv: the buffer and the arguments go together.
LEMMA MovePrints ==
  ASSUME NEW from \in Places, NEW to \in Places, Inv, PrintInv, Move(from, to) PROVE PrintInv'
<1>1. /\ from # to /\ from \in live /\ live' = (live \ {from}) \cup {to} /\ live \subseteq Places
      /\ args \in [Places -> Seq(Args)] /\ args' = [args EXCEPT ![to] = args[from], ![from] = <<>>]
  BY DEF Inv, TypeOK, PrintInv, Move
<1>2. args' \in [Places -> Seq(Args)] /\ args'[to] = args[from]
      /\ \A q \in Places : q # from /\ q # to => args'[q] = args[q]
  <2>1. <<>> \in Seq(Args)
    OBVIOUS
  <2>. QED
    BY <1>1, <2>1
<1>3. /\ Buffer(to)' = Buffer(from)
      /\ \A q \in Places : q # from /\ q # to => Buffer(q)' = Buffer(q)
  BY <1>1 DEF Move, Inv, TypeOK, Buffer, OnHeap
<1>4. ASSUME NEW q \in live' PROVE Conveys(Buffer(q)', args'[q])
  <2>1. CASE q = to
    BY <1>1, <1>2, <1>3, <2>1 DEF PrintInv
  <2>2. CASE q # to
    <3>1. q \in live /\ q \in Places /\ q # from
      BY <1>1, <2>2
    <3>. QED
      BY <1>2, <1>3, <2>2, <3>1 DEF PrintInv
  <2>. QED
    BY <2>1, <2>2
<1>. QED
  BY <1>2, <1>4 DEF PrintInv

\* A new line has no arguments, and nothing to read behind its header.
LEMMA ConstructPrints == ASSUME Inv, PrintInv, Construct PROVE PrintInv'
<1>. DEFINE p == "temporary"
            b == [i \in 1 .. Header |-> HeaderCell]
            r == [k \in 0 .. 0 |-> [at |-> Header + 1, text |-> <<>>]]
<1>1. Header \in Nat \ {0}
  BY LineAssumption
<1>2. b \in Seq(Cell) /\ Len(b) = Header
  BY <1>1 DEF Cell
<1>3. LineText(<<>>) = <<>>
  <2>1. [i \in DOMAIN <<>> |-> Text(<<>>[i])] = <<>>
    OBVIOUS
  <2>2. FlattenSeq(<<>>) = <<>>
    BY DEF FlattenSeq
  <2>. QED
    BY <2>1, <2>2 DEF LineText
<1>4. Prints(b, <<>>)
  <2>1. r \in [0 .. 0 -> Reader] /\ r[0] = [at |-> Header + 1, text |-> <<>>]
    BY <1>1 DEF Reader
  <2>2. r[0].at = Header + 1 /\ r[0].text = <<>>
    OBVIOUS
  <2>. HIDE DEF r, b
  <2>3. 0 \in 0 .. Len(b) /\ \A k \in 1 .. 0 : Reads(b, r[k - 1], r[k])
    BY <1>1, <1>2
  <2>4. Reading(b, 0, r) /\ r[0].text = <<>>
    BY <1>2, <2>1, <2>2, <2>3 DEF Reading
  <2>. QED
    BY <1>2, <2>2, <2>4 DEF Prints
<1>. HIDE DEF b
<1>5. /\ live' = {p} /\ p \in Places
      /\ m_stack_buffer' = [m_stack_buffer EXCEPT ![p] = b]
      /\ m_heap_buffer' = [m_heap_buffer EXCEPT ![p] = <<>>]
      /\ args' = [args EXCEPT ![p] = <<>>]
  BY DEF Construct, Places, b
<1>6. Buffer(p)' = b
  BY <1>5 DEF Inv, TypeOK, Buffer, OnHeap
<1>7. args' \in [Places -> Seq(Args)] /\ args'[p] = <<>>
  <2>1. <<>> \in Seq(Args)
    OBVIOUS
  <2>. QED
    BY <1>5, <2>1 DEF PrintInv
<1>8. Conveys(Buffer(p)', args'[p])
  <2>1. Len(<<>>) = 0
    OBVIOUS
  <2>2. Conveys(b, <<>>)
    BY <1>3, <1>4, <2>1 DEF Conveys
  <2>. QED
    BY <1>6, <1>7, <2>2
<1>. QED
  BY <1>5, <1>7, <1>8 DEF PrintInv

\* stringify writes the arguments of the line, as they were logged and in their order,
\* for lines of any length: on the stack, on the heap, grown once or more, moved into
\* the queue and out of it.  Strings may hold any bytes: with a '\0' in one, the line is
\* written up to there at least.
THEOREM PrintsArguments == Spec => []PrintsWhatWasLogged
<1>1. Init => PrintInv
  <2>1. <<>> \in Seq(Args)
    OBVIOUS
  <2>2. NoCells \in [Places -> Seq(Args)]
    BY <2>1 DEF NoCells
  <2>. QED
    BY <2>2 DEF Init, PrintInv
<1>2. Inv /\ PrintInv /\ [Next]_vars => PrintInv'
  <2> SUFFICES ASSUME Inv, PrintInv, [Next]_vars PROVE PrintInv'
    OBVIOUS
  <2>1. CASE Construct
    BY <2>1, ConstructPrints
  <2>2. ASSUME NEW arg \in Args, Insert(arg) PROVE PrintInv'
    BY <2>2, InsertPrints
  <2>3. CASE Move("temporary", "slot")
    BY <2>3, MovePrints DEF Places
  <2>4. CASE Move("slot", "logline")
    BY <2>4, MovePrints DEF Places
  <2>5. CASE Stringify
    <3>1. /\ live' = live \ {"logline"} /\ args' = [args EXCEPT !["logline"] = <<>>]
          /\ live \subseteq Places /\ <<>> \in Seq(Args)
      BY <2>5 DEF Stringify, Inv, TypeOK
    <3>2. \A q \in Places : q # "logline" => Buffer(q)' = Buffer(q)
      BY <2>5 DEF Stringify, Inv, TypeOK, Buffer, OnHeap
    <3>3. args' \in [Places -> Seq(Args)] /\ \A q \in Places : q # "logline" => args'[q] = args[q]
      BY <3>1 DEF PrintInv
    <3>. QED
      BY <3>1, <3>2, <3>3 DEF PrintInv
  <2>6. CASE UNCHANGED vars
    BY <2>6 DEF vars, PrintInv, Buffer, OnHeap
  <2> QED
    BY <2>1, <2>2, <2>3, <2>4, <2>5, <2>6 DEF Next
<1>3. Inv /\ PrintInv => PrintsWhatWasLogged
  <2>. SUFFICES ASSUME Inv, PrintInv, NEW p \in live
                PROVE  /\ AllWhole(args[p]) => Decode(Buffer(p)) = LineText(args[p])
                       /\ \A n \in DOMAIN args[p] :
                            AllWhole(SubSeq(args[p], 1, n - 1)) =>
                              IsPrefix(LineText(SubSeq(args[p], 1, n - 1)) \o Shown(args[p][n]),
                                       Decode(Buffer(p)))
    BY DEF PrintsWhatWasLogged, Inv
  <2>1. Buffer(p) \in Seq(Cell) /\ args[p] \in Seq(Args) /\ Conveys(Buffer(p), args[p])
    BY DEF Inv, TypeOK, Buffer, PrintInv
  <2>2. DOMAIN args[p] = 1 .. Len(args[p])
    BY <2>1, LenProperties
  <2>3. ASSUME NEW text, Starts(Buffer(p), text) PROVE IsPrefix(text, Decode(Buffer(p)))
    BY <2>1, <2>3, DecodeReads DEF Starts
  <2>4. ASSUME NEW text, Prints(Buffer(p), text) PROVE Decode(Buffer(p)) = text
    BY <2>1, <2>4, DecodeReads DEF Prints
  <2>. QED
    BY <2>1, <2>2, <2>3, <2>4 DEF Conveys
<1>. QED
  BY <1>1, <1>2, <1>3, LineInvariant, PTL DEF Spec
=============================================================================
