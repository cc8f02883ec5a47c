---------------------------- MODULE NanoLogLine -----------------------------
(***************************************************************************)
(* The log line (NanoLogLine in src/log/NanoLog.h and NanoLog.cpp): a      *)
(* header and the arguments of the << operators, each behind a byte with   *)
(* its type, in a buffer inside the object until it is full and on the     *)
(* heap from then on.  The line is moved into the queue and out of it, and *)
(* stringify decodes it.  A buffer is a sequence of cells, from its start  *)
(* to the last cell written; a line that was moved from is not used again. *)
(* Types and characters are bytes, and nothing in the buffer tells the one *)
(* from the other: a string with a '\0' inside ends there for stringify,   *)
(* which takes the rest of it for arguments.                               *)
(***************************************************************************)
EXTENDS Integers, Sequences, SequencesExt, FiniteSetsExt

CONSTANTS
  Sizes,       \* the size of each type of SupportedTypes but char*, by its number
  StringId,    \* the number of char*
  Texts,       \* strings, as bytes; any of them may hold a '\0'
  Values,      \* numbers, and literals, which are pointers
  Header,      \* the cells the constructor writes
  StackSize,   \* sizeof(m_stack_buffer)
  HeapSize,    \* the least size on the heap
  MaxArgs      \* bound: arguments of a line

ASSUME LineAssumption ==
  /\ Header \in Nat \ {0} /\ StackSize \in Nat /\ HeapSize \in Nat /\ MaxArgs \in Nat
  /\ Header <= StackSize
  /\ DOMAIN Sizes \subseteq Nat /\ Sizes \in [DOMAIN Sizes -> Nat \ {0}]
  /\ StringId \in Nat \ DOMAIN Sizes
  /\ Texts \subseteq Seq(Nat)

\* Where a line may be: the temporary of a LOG_ macro, a slot of the queue, the
\* variable of the writer.
Places == {"temporary", "slot", "logline"}

Numbers == [kind : {"number"}, type : DOMAIN Sizes, value : Values]
Strings == [kind : {"string", "view"}, text : Texts]
Args == Numbers \cup Strings

VARIABLES
  m_bytes_used, m_buffer_size,
  m_stack_buffer, m_heap_buffer,  \* the cells written
  live,        \* the places with a line in them
  args         \* the arguments of the line there

vars == <<m_bytes_used, m_buffer_size, m_stack_buffer, m_heap_buffer, live, args>>

-----------------------------------------------------------------------------
(* What is encoded, and how stringify reads it.                            *)

Byte(n) == <<"byte", n>>
NUL == Byte(0)
StringType == Byte(StringId)
HeaderCell == <<"header", 0>>

\* A type or a character, a byte of a number, a byte of the header.
Cell == ({"byte"} \X Nat) \cup ({"part"} \X Values) \cup {HeaderCell}

\* An argument in full, as it was given to operator<<.
Text(arg) ==
  IF arg.kind = "number" THEN [i \in 1 .. Sizes[arg.type] |-> <<"part", arg.value>>]
  ELSE [i \in DOMAIN arg.text |-> Byte(arg.text[i])]

\* An empty std::string is left out, an empty std::string_view is not.
LeftOut(arg) == arg.kind = "string" /\ arg.text = <<>>

\* encode and encode_c_string
Cells(arg) ==
  IF LeftOut(arg) THEN <<>>
  ELSE IF arg.kind = "number" THEN <<Byte(arg.type)>> \o Text(arg)
  ELSE <<StringType>> \o Text(arg) \o <<NUL>>

\* Slip: the '\0' behind a string is forgotten.
ReservedUnended(arg) == IF LeftOut(arg) THEN 0 ELSE 1 + Len(Text(arg))

\* What they ask resize_buffer_if_needed for.
Reserved(arg) ==
  IF LeftOut(arg) THEN 0
  ELSE IF arg.kind = "number" THEN Sizes[arg.type] + 1
  ELSE 1 + Len(arg.text) + 1

\* The place of the first '\0' from i on; behind the end if there is none.
StringEnd(b, i) == Min({j \in i .. Len(b) : b[j] = NUL} \cup {Len(b) + 1})

\* stringify reads past the end of what was written, or takes a byte of a number for a
\* type: whatever it prints.
Garbage == <<"garbage", 0>>
Astray(b, r) == [at |-> Len(b) + 1, text |-> Append(r.text, Garbage)]

\* An argument of width cells is printed.  (Characters that are taken for a literal are
\* a pointer to anywhere; what following it does to the process is left out.)
Past(b, r, width) ==
  IF r.at + width > Len(b) THEN Astray(b, r)
  ELSE [at |-> r.at + width + 1, text |-> r.text \o SubSeq(b, r.at + 1, r.at + width)]

\* A string is printed up to its '\0'.
PastString(b, r) ==
  LET end == StringEnd(b, r.at + 1)
  IN  IF end > Len(b) THEN Astray(b, r)
      ELSE [at |-> end + 1, text |-> r.text \o SubSeq(b, r.at + 1, end - 1)]

\* stringify takes the argument that is next, unless it is at the end or at a type it
\* does not know, where it returns: where it stands, and what it has written.
ReadNext(b, r) ==
  IF r.at > Len(b) THEN r
  ELSE IF b[r.at][1] # "byte" THEN Astray(b, r)
  ELSE IF b[r.at] = StringType THEN PastString(b, r)
  ELSE IF b[r.at][2] \in DOMAIN Sizes THEN Past(b, r, Sizes[b[r.at][2]])
  ELSE r

\* All of them, behind the header.
Decode(b) ==
  LET read[n \in 0 .. Len(b)] ==
        IF n = 0 THEN [at |-> Header + 1, text |-> <<>>] ELSE ReadNext(b, read[n - 1])
  IN  read[Len(b)].text

OnHeap(p) == m_heap_buffer[p] # <<>>

\* buffer(), from its start
Buffer(p) == IF OnHeap(p) THEN m_heap_buffer[p] ELSE m_stack_buffer[p]

-----------------------------------------------------------------------------
(* The life of a line.                                                     *)

NoCells == [p \in Places |-> <<>>]

Init ==
  /\ m_bytes_used = [p \in Places |-> 0] /\ m_buffer_size = [p \in Places |-> 0]
  /\ m_stack_buffer = NoCells /\ m_heap_buffer = NoCells
  /\ live = {} /\ args = NoCells

\* NanoLogLine::NanoLogLine.  Lines do not share anything: one is under way at a time.
Construct ==
  /\ live = {}
  /\ live' = {"temporary"}
  /\ m_bytes_used' = [m_bytes_used EXCEPT !["temporary"] = Header]
  /\ m_buffer_size' = [m_buffer_size EXCEPT !["temporary"] = StackSize]
  /\ m_stack_buffer' = [m_stack_buffer EXCEPT !["temporary"] = [i \in 1 .. Header |-> HeaderCell]]
  /\ m_heap_buffer' = [m_heap_buffer EXCEPT !["temporary"] = <<>>]
  /\ args' = [args EXCEPT !["temporary"] = <<>>]

Larger(m, n) == IF m >= n THEN m ELSE n

\* The size of the new buffer when required cells do not fit.
Grown(size, heap, required) == Larger(required, IF heap THEN 2 * size ELSE HeapSize)

\* Slip: the new buffer starts with nothing in it.
CopiedNothing(cells, used) == [i \in 1 .. used |-> HeaderCell]

\* memcpy of what is used into the new buffer
Copied(cells, used) == SubSeq(cells, 1, used)

\* operator<<: resize_buffer_if_needed, the encoding, m_bytes_used.
Insert(arg) ==
  LET used == m_bytes_used["temporary"]
      size == m_buffer_size["temporary"]
      heap == OnHeap("temporary")
      required == used + Reserved(arg)
  IN  /\ "temporary" \in live /\ Len(args["temporary"]) < MaxArgs
      /\ args' = [args EXCEPT !["temporary"] = Append(@, arg)]
      /\ m_bytes_used' = [m_bytes_used EXCEPT !["temporary"] = used + Len(Cells(arg))]
      /\ IF required <= size
         THEN /\ IF heap
                 THEN /\ m_heap_buffer' = [m_heap_buffer EXCEPT !["temporary"] = @ \o Cells(arg)]
                      /\ UNCHANGED m_stack_buffer
                 ELSE /\ m_stack_buffer' = [m_stack_buffer EXCEPT !["temporary"] = @ \o Cells(arg)]
                      /\ UNCHANGED m_heap_buffer
              /\ UNCHANGED m_buffer_size
         ELSE /\ m_buffer_size' = [m_buffer_size EXCEPT !["temporary"] = Grown(size, heap, required)]
              /\ m_heap_buffer' = [m_heap_buffer EXCEPT
                   !["temporary"] = Copied(Buffer("temporary"), used) \o Cells(arg)]
              /\ UNCHANGED m_stack_buffer
      /\ UNCHANGED live

\* The defaulted move, and the end of the line that was moved from.
Move(from, to) ==
  /\ from \in live /\ to \notin live
  /\ live' = (live \ {from}) \cup {to}
  /\ m_bytes_used' = [m_bytes_used EXCEPT ![to] = m_bytes_used[from], ![from] = 0]
  /\ m_buffer_size' = [m_buffer_size EXCEPT ![to] = m_buffer_size[from], ![from] = 0]
  /\ m_stack_buffer' = [m_stack_buffer EXCEPT ![to] = m_stack_buffer[from], ![from] = <<>>]
  /\ m_heap_buffer' = [m_heap_buffer EXCEPT ![to] = m_heap_buffer[from], ![from] = <<>>]
  /\ args' = [args EXCEPT ![to] = args[from], ![from] = <<>>]

\* The writer is done with the line and goes on to the next.
Stringify ==
  /\ "logline" \in live
  /\ live' = live \ {"logline"}
  /\ m_bytes_used' = [m_bytes_used EXCEPT !["logline"] = 0]
  /\ m_buffer_size' = [m_buffer_size EXCEPT !["logline"] = 0]
  /\ m_stack_buffer' = [m_stack_buffer EXCEPT !["logline"] = <<>>]
  /\ m_heap_buffer' = [m_heap_buffer EXCEPT !["logline"] = <<>>]
  /\ args' = [args EXCEPT !["logline"] = <<>>]

Next ==
  \/ Construct
  \/ \E arg \in Args : Insert(arg)
  \/ Move("temporary", "slot")
  \/ Move("slot", "logline")
  \/ Stringify

Spec == Init /\ [][Next]_vars

-----------------------------------------------------------------------------
(* Properties.                                                             *)

\* The types, and that a buffer on the heap has the least size at least.
TypeOK ==
  /\ m_bytes_used \in [Places -> Nat] /\ m_buffer_size \in [Places -> Nat]
  /\ m_stack_buffer \in [Places -> Seq(Cell)] /\ m_heap_buffer \in [Places -> Seq(Cell)]
  /\ live \subseteq Places
  /\ \A p \in Places : m_heap_buffer[p] # <<>> => m_buffer_size[p] >= HeapSize

\* No write goes beyond the buffer it is made in, for the one in the object and for
\* every one on the heap, and m_bytes_used is where the next write goes.
NeverOverruns ==
  \A p \in live :
    /\ Len(Buffer(p)) = m_bytes_used[p]
    /\ m_bytes_used[p] <= m_buffer_size[p]
    /\ ~OnHeap(p) => m_buffer_size[p] <= StackSize

\* What is printed of an argument for certain: a string up to the first '\0' in it.
Shown(arg) ==
  IF arg.kind = "number" THEN Text(arg)
  ELSE SubSeq(Text(arg), 1, StringEnd(Text(arg), 1) - 1)
Whole(arg) == Shown(arg) = Text(arg)
AllWhole(as) == \A i \in DOMAIN as : Whole(as[i])

\* The arguments one after the other, as a reader of the log expects them.
LineText(as) == FlattenSeq([i \in DOMAIN as |-> Text(as[i])])

\* Wherever the line is, and however often its buffer was changed, stringify writes
\* its arguments as they were logged when no string has a '\0' in it.  When one has,
\* the line is printed as it was logged up to the first '\0' at least.
PrintsWhatWasLogged ==
  /\ TypeOK
  /\ \A p \in live :
       /\ AllWhole(args[p]) => Decode(Buffer(p)) = LineText(args[p])
       /\ \A n \in DOMAIN args[p] :
            AllWhole(SubSeq(args[p], 1, n - 1)) =>
              IsPrefix(LineText(SubSeq(args[p], 1, n - 1)) \o Shown(args[p][n]), Decode(Buffer(p)))
=============================================================================
