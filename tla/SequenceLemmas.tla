--------------------------- MODULE SequenceLemmas ---------------------------
(***************************************************************************)
(* Lemmas about sequences that proofs about several components share:      *)
(* induction on the natural numbers, stated for a set because the provers  *)
(* cannot instantiate an operator, what Without leaves of a sequence, and  *)
(* what FlattenSeq yields and where its parts end.                         *)
(***************************************************************************)
EXTENDS Selection, SequencesExt, TLAPS, SequenceTheorems, WellFoundedInduction

\* Of numbers there is a least one.
LEMMA LeastNumber ==
  ASSUME NEW S, S \subseteq Nat, S # {}
  PROVE  \E i \in S : \A j \in S : ~(j < i)
<1>. DEFINE Less == {pair \in Nat \X Nat : pair[1] < pair[2]}
<1>1. IsWellFoundedOn(Less, Nat)
  BY NatLessThanWellFounded DEF OpToRel
<1>2. PICK i \in S : \A j \in S : <<j, i>> \notin Less
  <2>. HIDE DEF Less
  <2>. QED
    BY <1>1, WFMin
<1>. QED
  BY <1>2

\* A set that has 0 and with each number the next has all the natural numbers: a least
\* number that is missing cannot be.
LEMMA SetInduction ==
  ASSUME NEW S, 0 \in S, \A n \in Nat : n \in S => n + 1 \in S
  PROVE  Nat \subseteq S
<1>. DEFINE Missing == Nat \ S
<1>1. SUFFICES ASSUME Missing # {} PROVE FALSE
  OBVIOUS
<1>2. PICK n \in Missing : \A m \in Missing : ~(m < n)
  <2>1. Missing \subseteq Nat
    OBVIOUS
  <2>. HIDE DEF Missing
  <2>. QED
    BY <1>1, <2>1, LeastNumber
<1>3. n \in Nat \ {0} /\ n - 1 \in Nat /\ n - 1 + 1 = n /\ n - 1 < n
  BY <1>2
<1>4. n - 1 \notin Missing
  BY <1>2, <1>3
<1>. QED
  BY <1>2, <1>3, <1>4

\* A sequence of two.
LEMMA Pair == \A x, y : <<x>> \o <<y>> = <<x, y>>
<1>. SUFFICES ASSUME NEW x, NEW y PROVE <<x>> \o <<y>> = <<x, y>>
  OBVIOUS
<1>. DEFINE A == {x, y}
            s == <<x>>
            t == <<y>>
            both == <<x, y>>
<1>1. /\ s \in Seq(A) /\ Len(s) = 1 /\ s[1] = x
      /\ t \in Seq(A) /\ Len(t) = 1 /\ t[1] = y
      /\ both \in Seq(A) /\ Len(both) = 2 /\ both[1] = x /\ both[2] = y
  OBVIOUS
<1>. HIDE DEF A, s, t, both
<1>2. /\ s \o t \in Seq(A) /\ Len(s \o t) = 2
      /\ \A i \in 1 .. 2 : (s \o t)[i] = both[i]
  <2>1. /\ s \o t \in Seq(A) /\ Len(s \o t) = 1 + 1
        /\ \A i \in 1 .. 1 + 1 : (s \o t)[i] = IF i <= 1 THEN s[i] ELSE t[i - 1]
    BY <1>1, ConcatProperties
  <2>2. \A i \in 1 .. 2 : i = 1 \/ i = 2
    OBVIOUS
  <2>. QED
    BY <1>1, <2>1, <2>2
<1>3. s \o t = both
  BY <1>1, <1>2, SeqEqual
<1>. QED
  BY <1>3 DEF s, t, both

\* The values f of a recursion over 0 .. n: the first one is given, and step yields the
\* i-th one from the one before.
Solves(f, S, first, step, n) ==
  /\ f \in [0 .. n -> S] /\ f[0] = first
  /\ \A i \in 1 .. n : f[i] = step[<<f[i - 1], i>>]

\* A recursion over 0 .. n, given by its first value and a function from one value to
\* the next, has a solution.
LEMMA Recursion ==
  ASSUME NEW S, NEW first \in S, NEW n \in Nat, NEW step \in [S \X (1 .. n) -> S]
  PROVE  \E f : Solves(f, S, first, step, n)
<1>. DEFINE Solved == {m \in Nat : m <= n => \E f : Solves(f, S, first, step, m)}
<1>1. 0 \in Solved
  <2>1. Solves([i \in 0 .. 0 |-> first], S, first, step, 0)
    BY DEF Solves
  <2>. QED
    BY <2>1
<1>2. ASSUME NEW m \in Nat, m \in Solved PROVE m + 1 \in Solved
  <2>. SUFFICES ASSUME m + 1 <= n PROVE \E f : Solves(f, S, first, step, m + 1)
    OBVIOUS
  <2>1. PICK f : Solves(f, S, first, step, m)
    BY <1>2
  <2>. DEFINE g == [i \in 0 .. m + 1 |-> IF i = m + 1 THEN step[<<f[m], m + 1>>] ELSE f[i]]
  <2>2. f[m] \in S /\ step[<<f[m], m + 1>>] \in S
    BY <2>1 DEF Solves
  <2>3. g \in [0 .. m + 1 -> S] /\ g[0] = first
    BY <2>1, <2>2 DEF Solves
  <2>4. ASSUME NEW i \in 1 .. m + 1 PROVE g[i] = step[<<g[i - 1], i>>]
    <3>1. CASE i = m + 1
      <4>1. g[i] = step[<<f[m], i>>] /\ g[i - 1] = f[m]
        BY <3>1
      <4>. QED
        BY <4>1
    <3>2. CASE i \in 1 .. m
      <4>1. g[i] = f[i] /\ g[i - 1] = f[i - 1]
        BY <3>2
      <4>2. f[i] = step[<<f[i - 1], i>>]
        BY <2>1, <3>2 DEF Solves
      <4>. QED
        BY <4>1, <4>2
    <3>. QED
      BY <3>1, <3>2
  <2>5. Solves(g, S, first, step, m + 1)
    BY <2>3, <2>4 DEF Solves
  <2>. QED
    BY <2>5
<1>3. n \in Solved
  <2>. HIDE DEF Solved
  <2>. QED
    BY <1>1, <1>2, SetInduction
<1>. QED
  BY <1>3

\* The sequences that FlattenSeq builds on its way.
Flattens(f, A, n, seqs) ==
  /\ f \in [1 .. n -> Seq(A)]
  /\ FlattenSeq(seqs) = f[n]
  /\ f[1] = seqs[1]
  /\ \A i \in 2 .. n : f[i] = f[i - 1] \o seqs[i]

\* What FlattenSeq computes, one sequence after the other.
LEMMA FlattenUnfolds ==
  ASSUME NEW A, NEW n \in Nat \ {0}, NEW seqs \in [1 .. n -> Seq(A)]
  PROVE  \E f : Flattens(f, A, n, seqs)
<1>. DEFINE Equation(f) == f = [i \in 1 .. Len(seqs) |-> IF i = 1 THEN seqs[i] ELSE f[i - 1] \o seqs[i]]
            flatten == CHOOSE f : Equation(f)
<1>1. seqs \in Seq(Seq(A)) /\ Len(seqs) = n
  BY SeqDef
<1>2. FlattenSeq(seqs) = flatten[n]
  BY <1>1 DEF FlattenSeq
<1>3. \E f : Equation(f)
  <2>. DEFINE step == [pair \in Seq(A) \X (1 .. n) |-> IF pair[2] = 1 THEN seqs[1] ELSE pair[1] \o seqs[pair[2]]]
  <2>1. step \in [Seq(A) \X (1 .. n) -> Seq(A)]
    BY ConcatProperties
  <2>2. PICK g \in [0 .. n -> Seq(A)] :
           g[0] = <<>> /\ \A i \in 1 .. n : g[i] = step[<<g[i - 1], i>>]
    <3>. DEFINE S == Seq(A)
                none == <<>>
    <3>1. n \in Nat /\ none \in S
      OBVIOUS
    <3>2. step \in [S \X (1 .. n) -> S]
      BY <2>1
    <3>. HIDE DEF step, S, none
    <3>3. PICK g : Solves(g, S, none, step, n)
      BY <3>1, <3>2, Recursion
    <3>. QED
      BY <3>3 DEF S, none, Solves
  <2>. DEFINE f == [i \in 1 .. n |-> g[i]]
  <2>3. ASSUME NEW i \in 1 .. n PROVE f[i] = IF i = 1 THEN seqs[i] ELSE f[i - 1] \o seqs[i]
    <3>0. g[i - 1] \in Seq(A) /\ i \in 1 .. n
      BY <2>2
    <3>1. g[i] = IF i = 1 THEN seqs[1] ELSE g[i - 1] \o seqs[i]
      BY <2>2, <3>0
    <3>2. i # 1 => i - 1 \in 1 .. n
      OBVIOUS
    <3>. QED
      BY <3>1, <3>2
  <2>4. Equation(f)
    BY <1>1, <2>3
  <2>. QED
    BY <2>4
<1>4. Equation(flatten)
  <2>. HIDE DEF Equation
  <2>. QED
    BY <1>3
<1>5. flatten = [i \in 1 .. n |-> IF i = 1 THEN seqs[i] ELSE flatten[i - 1] \o seqs[i]]
  BY <1>1, <1>4
<1>. HIDE DEF flatten
<1>6. /\ flatten[1] = seqs[1]
      /\ \A i \in 2 .. n : flatten[i] = flatten[i - 1] \o seqs[i]
  <2>1. \A i \in 1 .. n : flatten[i] = IF i = 1 THEN seqs[i] ELSE flatten[i - 1] \o seqs[i]
    BY <1>5
  <2>2. 1 \in 1 .. n /\ \A i \in 2 .. n : i \in 1 .. n /\ i # 1
    OBVIOUS
  <2>. QED
    BY <2>1, <2>2
<1>7. \A i \in 1 .. n : flatten[i] \in Seq(A)
  <2>. DEFINE Typed == {m \in Nat : m + 1 \in 1 .. n => flatten[m + 1] \in Seq(A)}
  <2>1. 0 \in Typed
    BY <1>6
  <2>2. ASSUME NEW m \in Nat, m \in Typed PROVE m + 1 \in Typed
    <3>. SUFFICES ASSUME m + 2 <= n PROVE flatten[m + 2] \in Seq(A)
      OBVIOUS
    <3>1. m + 2 \in 2 .. n /\ (m + 2) - 1 = m + 1 /\ seqs[m + 2] \in Seq(A)
      OBVIOUS
    <3>2. flatten[m + 1] \in Seq(A)
      BY <2>2, m + 1 \in 1 .. n
    <3>3. flatten[m + 2] = flatten[m + 1] \o seqs[m + 2]
      BY <1>6, <3>1
    <3>. QED
      BY <3>1, <3>2, <3>3, ConcatProperties
  <2>3. Nat \subseteq Typed
    <3>. HIDE DEF Typed
    <3>. QED
      BY <2>1, <2>2, SetInduction
  <2>4. \A i \in 1 .. n : i - 1 \in Nat /\ (i - 1) + 1 = i
    OBVIOUS
  <2>5. \A i \in 1 .. n : i - 1 \in Typed
    BY <2>3, <2>4
  <2>. QED
    BY <2>4, <2>5
<1>8. flatten \in [1 .. n -> Seq(A)]
  BY <1>5, <1>7
<1>. QED
  BY <1>2, <1>6, <1>8 DEF Flattens

\* Concatenation, from the right.
LEMMA Regroup ==
  \A A : \A s, t, u \in Seq(A) : s \o (t \o u) = (s \o t) \o u
BY ConcatAssociative

\* Where each of n sequences ends in the flattened one.
CutsAt(ends, all, n, seqs) ==
  /\ ends \in [0 .. n -> 0 .. Len(all)]
  /\ ends[0] = 0 /\ ends[n] = Len(all)
  /\ \A i \in 1 .. n :
       ends[i - 1] <= ends[i] /\ seqs[i] = SubSeq(all, ends[i - 1] + 1, ends[i])

\* t begins with s.
Begins(s, t) == Len(s) <= Len(t) /\ \A k \in 1 .. Len(s) : t[k] = s[k]

\* s stands in all where both has more than before.
Stands(s, before, both, all) ==
  Len(before) <= Len(both) /\ s = SubSeq(all, Len(before) + 1, Len(both))

\* What stands behind before, where all begins with both.
LEMMA Piece ==
  ASSUME NEW A, NEW all \in Seq(A), NEW before \in Seq(A), NEW s \in Seq(A), NEW both,
         both = before \o s, Begins(both, all)
  PROVE  Stands(s, before, both, all)
<1>. DEFINE a == Len(before)
            b == Len(both)
            m == Len(s)
            piece == SubSeq(all, a + 1, b)
<1>1. a \in Nat /\ m \in Nat /\ Len(all) \in Nat
  OBVIOUS
<1>2. b = a + m /\ \A k \in 1 .. a + m : both[k] = IF k <= a THEN before[k] ELSE s[k - a]
  BY ConcatProperties
<1>3. \A k \in 1 .. b : all[k] = both[k]
  BY DEF Begins
<1>4. \A k \in a + 1 .. b : all[k] \in A
  <2>1. b <= Len(all)
    BY DEF Begins
  <2>2. \A k \in 1 .. Len(all) : all[k] \in A
    BY ElementOfSeq
  <2>. HIDE DEF a, b
  <2>. QED
    BY <1>1, <1>2, <2>1, <2>2
<1>. HIDE DEF a, b, m
<1>5. /\ piece \in Seq(A)
      /\ Len(piece) = IF a + 1 <= b THEN b - (a + 1) + 1 ELSE 0
      /\ \A k \in 1 .. b - (a + 1) + 1 : piece[k] = all[a + 1 + k - 1]
  <2>1. a + 1 \in Int /\ b \in Int
    BY <1>1, <1>2
  <2>. QED
    BY <1>4, <2>1, SubSeqProperties
<1>. HIDE DEF piece
<1>6. Len(piece) = m
  BY <1>1, <1>2, <1>5
<1>7. \A k \in 1 .. m : piece[k] = s[k]
  <2>1. \A k \in 1 .. m :
          /\ k \in 1 .. b - (a + 1) + 1 /\ a + 1 + k - 1 = a + k
          /\ a + k \in 1 .. a + m /\ ~(a + k <= a) /\ a + k - a = k
    BY <1>1, <1>2
  <2>2. SUFFICES ASSUME NEW k \in 1 .. m PROVE piece[k] = s[k]
    OBVIOUS
  <2>3. piece[k] = all[a + k]
    BY <1>5, <2>1
  <2>4. all[a + k] = both[a + k] /\ both[a + k] = s[k]
    <3>. DEFINE j == a + k
    <3>1. j \in 1 .. a + m /\ ~(j <= a) /\ j - a = k
      BY ONLY <1>1, k \in 1 .. m
    <3>. HIDE DEF j
    <3>2. both[j] = s[j - a]
      BY <1>2, <3>1
    <3>3. all[j] = both[j] /\ both[j] = s[k]
      BY <1>2, <1>3, <3>1, <3>2
    <3>. QED
      BY <3>3 DEF j
  <2>. QED
    BY <2>3, <2>4
<1>8. piece = s
  BY <1>5, <1>6, <1>7, SeqEqual DEF m
<1>9. a <= b
  BY <1>1, <1>2
<1>. QED
  BY <1>8, <1>9 DEF a, b, piece, Stands

\* Of sequences that each begin with the one before, the last begins with all.
LEMMA LastBegins ==
  ASSUME NEW n \in Nat \ {0}, NEW f, \A i \in 1 .. n : Len(f[i]) \in Nat,
         \A i \in 2 .. n : Begins(f[i - 1], f[i])
  PROVE  \A i \in 1 .. n : Begins(f[i], f[n])
<1>. DEFINE Later == {j \in Nat : \A i \in 1 .. n : i + j <= n => Begins(f[i], f[i + j])}
<1>1. 0 \in Later
  BY DEF Begins
<1>2. ASSUME NEW j \in Nat, j \in Later PROVE j + 1 \in Later
  <2>1. ASSUME NEW i \in 1 .. n, i + (j + 1) <= n PROVE Begins(f[i], f[i + (j + 1)])
    <3>1. /\ i + j \in 1 .. n /\ i + (j + 1) \in 2 .. n /\ i + (j + 1) - 1 = i + j
          /\ i + (j + 1) \in 1 .. n /\ i + j <= n
      BY <2>1
    <3>2. Begins(f[i], f[i + j]) /\ Begins(f[i + j], f[i + (j + 1)])
      BY <1>2, <3>1
    <3>3. Len(f[i]) \in Nat /\ Len(f[i + j]) \in Nat /\ Len(f[i + (j + 1)]) \in Nat
      BY <3>1
    <3>. QED
      BY <3>2, <3>3 DEF Begins
  <2>. QED
    BY <2>1
<1>3. SUFFICES ASSUME NEW i \in 1 .. n PROVE Begins(f[i], f[n])
  OBVIOUS
<1>4. n - i \in Later
  <2>1. Nat \subseteq Later
    <3>. HIDE DEF Later
    <3>. QED
      BY <1>1, <1>2, SetInduction
  <2>. HIDE DEF Later
  <2>. QED
    BY <2>1
<1>5. i + (n - i) = n /\ n <= n
  OBVIOUS
<1>. QED
  BY <1>4, <1>5

\* FlattenSeq can be cut into the sequences it was made of.
LEMMA FlattenCuts ==
  ASSUME NEW A, NEW n \in Nat, NEW seqs \in [1 .. n -> Seq(A)]
  PROVE  FlattenSeq(seqs) \in Seq(A) /\ \E ends : CutsAt(ends, FlattenSeq(seqs), n, seqs)
<1>1. seqs \in Seq(Seq(A)) /\ Len(seqs) = n
  BY SeqDef
<1>2. CASE n = 0
  <2>1. seqs = <<>> /\ FlattenSeq(seqs) = seqs
    <3>1. seqs = <<>>
      BY <1>1, <1>2, EmptySeq
    <3>. QED
      BY <1>1, <1>2, <3>1 DEF FlattenSeq
  <2>2. FlattenSeq(seqs) \in Seq(A) /\ Len(FlattenSeq(seqs)) = 0
    <3>. DEFINE all == FlattenSeq(seqs)
                none == <<>>
    <3>1. all = none /\ none \in Seq(A) /\ Len(none) = 0
      BY <2>1
    <3>. HIDE DEF all, none
    <3>2. all \in Seq(A) /\ Len(all) = 0
      BY <3>1
    <3>. QED
      BY <3>2 DEF all
  <2>. DEFINE ends == [i \in 0 .. 0 |-> 0]
  <2>3. ends \in [0 .. 0 -> 0 .. 0] /\ ends[0] = 0 /\ \A i \in 1 .. 0 : FALSE
    OBVIOUS
  <2>. HIDE DEF ends
  <2>4. CutsAt(ends, FlattenSeq(seqs), 0, seqs)
    BY <2>2, <2>3 DEF CutsAt
  <2>. QED
    BY <1>2, <2>2, <2>4
<1>3. CASE n # 0
  <2>1. PICK f : Flattens(f, A, n, seqs)
    BY <1>3, FlattenUnfolds
  <2>. DEFINE all == FlattenSeq(seqs)
              ends == [i \in 0 .. n |-> IF i = 0 THEN 0 ELSE Len(f[i])]
  <2>2. /\ \A i \in 1 .. n : f[i] \in Seq(A) /\ Len(f[i]) \in Nat /\ seqs[i] \in Seq(A)
        /\ all = f[n] /\ f[1] = seqs[1]
        /\ \A i \in 2 .. n : i - 1 \in 1 .. n /\ f[i] = f[i - 1] \o seqs[i]
    <3>1. /\ f \in [1 .. n -> Seq(A)] /\ all = f[n] /\ f[1] = seqs[1]
          /\ \A i \in 2 .. n : f[i] = f[i - 1] \o seqs[i]
      BY <2>1 DEF Flattens
    <3>2. \A i \in 1 .. n : f[i] \in Seq(A) /\ seqs[i] \in Seq(A)
      BY <3>1
    <3>3. \A i \in 1 .. n : Len(f[i]) \in Nat
      BY <3>2, LenProperties
    <3>4. \A i \in 2 .. n : i - 1 \in 1 .. n
      OBVIOUS
    <3>. QED
      BY <3>1, <3>2, <3>3, <3>4
  <2>3. \A i \in 1 .. n : Begins(f[i], all)
    <3>1. ASSUME NEW i \in 2 .. n PROVE Begins(f[i - 1], f[i])
      <4>. DEFINE s == f[i - 1]
                  t == seqs[i]
      <4>1. s \in Seq(A) /\ t \in Seq(A) /\ f[i] = s \o t
        <5>1. i \in 1 .. n
          BY <3>1
        <5>. QED
          BY <2>2, <3>1, <5>1
      <4>0. Len(s) \in Nat /\ Len(t) \in Nat
        BY <4>1, LenProperties
      <4>. HIDE DEF s, t
      <4>2. /\ Len(s \o t) = Len(s) + Len(t)
            /\ \A k \in 1 .. Len(s) + Len(t) : (s \o t)[k] = IF k <= Len(s) THEN s[k] ELSE t[k - Len(s)]
        BY <4>1, ConcatProperties
      <4>3. Len(s) <= Len(f[i]) /\ \A k \in 1 .. Len(s) : f[i][k] = s[k]
        BY <4>0, <4>1, <4>2
      <4>. QED
        BY <4>3 DEF s, Begins
    <3>. QED
      BY <1>3, <2>2, <3>1, LastBegins
  <2>4. all \in Seq(A) /\ Len(all) \in Nat
    BY <1>3, <2>2
  <2>. HIDE DEF all
  <2>5. ends \in [0 .. n -> 0 .. Len(all)] /\ ends[0] = 0 /\ ends[n] = Len(all)
    BY <1>3, <2>2, <2>3, <2>4 DEF Begins
  <2>6. ASSUME NEW i \in 1 .. n
        PROVE  ends[i - 1] <= ends[i] /\ seqs[i] = SubSeq(all, ends[i - 1] + 1, ends[i])
    <3>1. CASE i = 1
      <4>. DEFINE none == <<>>
      <4>1. none \in Seq(A) /\ Len(none) = 0 /\ f[1] = none \o f[1] /\ f[1] \in Seq(A)
        BY <2>2, ConcatEmptySeq
      <4>2. ends[0] = Len(none) /\ ends[1] = Len(f[1]) /\ seqs[1] = f[1]
        BY <2>2, <4>1
      <4>. HIDE DEF none, ends
      <4>3. Begins(f[1], all)
        BY <2>3
      <4>4. Stands(f[1], none, f[1], all)
        BY <2>4, <4>1, <4>3, Piece
      <4>5. Len(none) <= Len(f[1]) /\ f[1] = SubSeq(all, Len(none) + 1, Len(f[1]))
        BY <4>4 DEF Stands
      <4>6. i - 1 = 0 /\ i = 1
        BY <3>1
      <4>. QED
        BY <4>2, <4>5, <4>6
    <3>2. CASE i \in 2 .. n
      <4>0. i \in 1 .. n /\ i - 1 \in 1 .. n /\ i - 1 # 0 /\ i # 0
        BY <3>2
      <4>1. /\ ends[i - 1] = Len(f[i - 1]) /\ ends[i] = Len(f[i])
            /\ f[i - 1] \in Seq(A) /\ seqs[i] \in Seq(A) /\ f[i] = f[i - 1] \o seqs[i]
        <5>1. ends[i - 1] = Len(f[i - 1]) /\ ends[i] = Len(f[i])
          BY <4>0
        <5>. QED
          BY <2>2, <3>2, <4>0, <5>1
      <4>. HIDE DEF ends
      <4>2. Begins(f[i], all)
        BY <2>3
      <4>. DEFINE before == f[i - 1]
                  s == seqs[i]
                  both == f[i]
      <4>3. before \in Seq(A) /\ s \in Seq(A) /\ both = before \o s /\ Begins(both, all)
        BY <4>1, <4>2
      <4>4. ends[i - 1] = Len(before) /\ ends[i] = Len(both)
        BY <4>1
      <4>. HIDE DEF before, both, s
      <4>5. Stands(s, before, both, all)
        BY <2>4, <4>3, Piece
      <4>6. ends[i - 1] <= ends[i] /\ s = SubSeq(all, ends[i - 1] + 1, ends[i])
        BY <4>4, <4>5 DEF Stands
      <4>. QED
        BY <4>6 DEF s
    <3>3. i = 1 \/ i \in 2 .. n
      OBVIOUS
    <3>. HIDE DEF ends
    <3>. QED
      BY <3>1, <3>2, <3>3
  <2>7. CutsAt(ends, all, n, seqs)
    <3>. HIDE DEF ends
    <3>. QED
      BY <2>5, <2>6 DEF CutsAt
  <2>. QED
    BY <2>4, <2>7 DEF all
<1>. QED
  BY <1>2, <1>3

\* FlattenSeq of nothing but empty sequences is empty.
LEMMA FlattenEmpty ==
  ASSUME NEW n \in Nat \ {0}, NEW seqs, seqs = [i \in 1 .. n |-> <<>>]
  PROVE  FlattenSeq(seqs) = <<>>
<1>1. seqs \in [1 .. n -> Seq({})]
  OBVIOUS
<1>2. FlattenSeq(seqs) \in Seq({})
  <2>1. PICK f : Flattens(f, {}, n, seqs)
    BY <1>1, FlattenUnfolds
  <2>. QED
    BY <2>1 DEF Flattens
<1>. QED
  BY <1>2

\* grown has the text behind the d-th sequence, and all the sequences behind are empty.
Grows(seqs, grown, n, d, text) ==
  /\ \A i \in 1 .. n : i > d => seqs[i] = <<>>
  /\ grown = [i \in 1 .. n |-> IF i = d THEN seqs[i] \o text ELSE seqs[i]]

\* Text that is appended to the last sequence that is not empty ends up at the end.
LEMMA FlattenGrows ==
  ASSUME NEW A, NEW n \in Nat \ {0}, NEW seqs \in [1 .. n -> Seq(A)],
         NEW d \in 1 .. n, NEW text \in Seq(A), NEW grown,
         Grows(seqs, grown, n, d, text)
  PROVE  /\ FlattenSeq(seqs) \in Seq(A)
         /\ FlattenSeq(grown) = FlattenSeq(seqs) \o text
<1>. USE DEF Grows
<1>1. PICK f : Flattens(f, A, n, seqs)
  BY FlattenUnfolds
<1>2. grown \in [1 .. n -> Seq(A)] /\ grown[d] = seqs[d] \o text
  BY ConcatProperties
<1>3. PICK g : Flattens(g, A, n, grown)
  BY <1>2, FlattenUnfolds
<1>. DEFINE Claim(i) == g[i] = IF i < d THEN f[i] ELSE f[i] \o text
            Claimed == {m \in Nat : m + 1 \in 1 .. n => Claim(m + 1)}
<1>4. 0 \in Claimed
  BY <1>1, <1>2, <1>3 DEF Flattens
<1>5. ASSUME NEW m \in Nat, m \in Claimed PROVE m + 1 \in Claimed
  <2>. SUFFICES ASSUME m + 2 <= n PROVE Claim(m + 2)
    OBVIOUS
  <2>0. m + 1 \in 1 .. n /\ m + 2 \in 2 .. n /\ m + 2 \in 1 .. n /\ (m + 2) - 1 = m + 1
    OBVIOUS
  <2>1. /\ m + 1 \in 1 .. n /\ m + 2 \in 2 .. n /\ m + 2 \in 1 .. n /\ (m + 2) - 1 = m + 1
        /\ seqs[m + 2] \in Seq(A) /\ f[m + 1] \in Seq(A) /\ g[m + 1] \in Seq(A)
    BY <1>1, <1>3, <2>0 DEF Flattens
  <2>2. Claim(m + 1)
    BY <1>5, <2>1
  <2>3. f[m + 2] = f[m + 1] \o seqs[m + 2]
    BY <1>1, <2>1 DEF Flattens
  <2>4. g[m + 2] = g[m + 1] \o grown[m + 2]
    BY <1>3, <2>1 DEF Flattens
  <2>5. CASE m + 2 < d
    <3>1. grown[m + 2] = seqs[m + 2] /\ g[m + 1] = f[m + 1]
      BY <2>1, <2>2, <2>5
    <3>. QED
      BY <2>3, <2>4, <2>5, <3>1
  <2>6. CASE m + 2 = d
    <3>0. grown[m + 2] = seqs[m + 2] \o text /\ g[m + 1] = f[m + 1]
      BY <1>2, <2>1, <2>2, <2>6
    <3>1. g[m + 2] = f[m + 1] \o (seqs[m + 2] \o text)
      BY <2>4, <3>0
    <3>2. f[m + 1] \o (seqs[m + 2] \o text) = (f[m + 1] \o seqs[m + 2]) \o text
      <4>. DEFINE before == f[m + 1]
                  here == seqs[m + 2]
      <4>1. before \in Seq(A) /\ here \in Seq(A) /\ text \in Seq(A)
        BY <2>1
      <4>. HIDE DEF before, here
      <4>2. before \o (here \o text) = (before \o here) \o text
        BY <4>1, Regroup, SMTT(30)
      <4>. QED
        BY <4>2 DEF before, here
    <3>3. g[m + 2] = f[m + 2] \o text
      BY <2>3, <3>1, <3>2
    <3>. QED
      BY <2>6, <3>3
  <2>7. CASE m + 2 > d
    <3>1. seqs[m + 2] = <<>> /\ grown[m + 2] = <<>>
      BY <2>1, <2>7
    <3>2. f[m + 1] \o <<>> = f[m + 1] /\ g[m + 1] \o <<>> = g[m + 1]
      BY <2>1, ConcatEmptySeq
    <3>4. f[m + 2] = f[m + 1] /\ g[m + 2] = g[m + 1]
      BY <2>3, <2>4, <3>1, <3>2
    <3>3. m + 1 >= d
      BY <2>7
    <3>. QED
      BY <2>2, <2>7, <3>3, <3>4
  <2>. QED
    BY <2>5, <2>6, <2>7
<1>6. Nat \subseteq Claimed
  <2>. HIDE DEF Claimed
  <2>. QED
    BY <1>4, <1>5, SetInduction
<1>7. Claim(n)
  <2>1. n - 1 \in Nat /\ (n - 1) + 1 = n /\ n \in 1 .. n
    OBVIOUS
  <2>2. n - 1 \in Claimed
    BY <1>6, <2>1
  <2>. QED
    BY <2>1, <2>2
<1>8. n \in 1 .. n /\ f[n] \in Seq(A) /\ g[n] = f[n] \o text
  <2>1. n \in 1 .. n /\ f[n] \in Seq(A)
    BY <1>1 DEF Flattens
  <2>. QED
    BY <1>7, <2>1
<1>. QED
  BY <1>1, <1>3, <1>8 DEF Flattens

\* longer is seqs with one more sequence behind.
Adds(seqs, longer, n, text) ==
  /\ \A i \in 1 .. n : longer[i] = seqs[i]
  /\ longer[n + 1] = text

\* A sequence more ends up at the end.
LEMMA FlattenAppend ==
  ASSUME NEW A, NEW n \in Nat, NEW seqs \in [1 .. n -> Seq(A)], NEW text \in Seq(A),
         NEW longer \in [1 .. n + 1 -> Seq(A)], Adds(seqs, longer, n, text)
  PROVE  /\ FlattenSeq(seqs) \in Seq(A)
         /\ FlattenSeq(longer) = FlattenSeq(seqs) \o text
<1>1. PICK g : Flattens(g, A, n + 1, longer)
  <2>1. n + 1 \in Nat \ {0}
    OBVIOUS
  <2>. QED
    BY <2>1, FlattenUnfolds
<1>2. g[n + 1] = FlattenSeq(longer) /\ g[1] = longer[1]
  BY <1>1 DEF Flattens
<1>3. CASE n = 0
  <2>1. Len(seqs) = 0 /\ seqs = <<>>
    BY <1>3
  <2>2. FlattenSeq(seqs) = <<>> /\ <<>> \in Seq(A)
    BY <2>1 DEF FlattenSeq
  <2>3. <<>> \o text = text
    BY ConcatEmptySeq
  <2>. QED
    BY <1>2, <1>3, <2>2, <2>3 DEF Adds
<1>4. CASE n \in Nat \ {0}
  <2>1. PICK f : Flattens(f, A, n, seqs)
    BY <1>4, FlattenUnfolds
  <2>. DEFINE Same == {m \in Nat : m + 1 <= n => g[m + 1] = f[m + 1]}
  <2>2. 0 \in Same
    BY <1>2, <1>4, <2>1 DEF Flattens, Adds
  <2>3. ASSUME NEW m \in Nat, m \in Same PROVE m + 1 \in Same
    <3>0. m + 1 \in Nat /\ (m + 1) + 1 = m + 2
      OBVIOUS
    <3>. SUFFICES ASSUME m + 2 <= n PROVE g[m + 2] = f[m + 2]
      BY <3>0
    <3>1. /\ m + 2 \in 2 .. n /\ m + 2 \in 2 .. n + 1 /\ m + 2 \in 1 .. n /\ (m + 2) - 1 = m + 1
          /\ m + 1 <= n
      OBVIOUS
    <3>2. g[m + 1] = f[m + 1]
      BY <2>3, <3>1
    <3>3. f[m + 2] = f[m + 1] \o seqs[m + 2]
      BY <2>1, <3>1 DEF Flattens
    <3>4. g[m + 2] = g[m + 1] \o longer[m + 2]
      BY <1>1, <3>1 DEF Flattens
    <3>. QED
      BY <3>1, <3>2, <3>3, <3>4 DEF Adds
  <2>4. Nat \subseteq Same
    <3>. HIDE DEF Same
    <3>. QED
      BY <2>2, <2>3, SetInduction
  <2>5. n - 1 \in Nat /\ (n - 1) + 1 = n /\ n \in 1 .. n /\ n + 1 \in 2 .. n + 1 /\ (n + 1) - 1 = n
    BY <1>4
  <2>6. g[n] = f[n]
    <3>1. n - 1 \in Same
      BY <2>4, <2>5
    <3>. QED
      BY <2>5, <3>1
  <2>7. f[n] \in Seq(A) /\ FlattenSeq(seqs) = f[n]
    BY <2>1, <2>5 DEF Flattens
  <2>8. g[n + 1] = g[n] \o longer[n + 1]
    BY <1>1, <2>5 DEF Flattens
  <2>. QED
    BY <1>2, <2>6, <2>7, <2>8 DEF Adds
<1>. QED
  BY <1>3, <1>4

\* The sequences that Without builds on its way.
Sifts(f, A, s, dropped) ==
  /\ f \in [0 .. Len(s) -> Seq(A)]
  /\ Without(s, dropped) = f[Len(s)]
  /\ f[0] = <<>>
  /\ \A i \in 1 .. Len(s) :
       f[i] = IF s[i] \in dropped THEN f[i - 1] ELSE Append(f[i - 1], s[i])

\* What Without computes, one element after the other.
LEMMA WithoutUnfolds ==
  ASSUME NEW A, NEW s \in Seq(A), NEW dropped
  PROVE  \E f : Sifts(f, A, s, dropped)
<1>. DEFINE Equation(f) ==
              f = [i \in 0 .. Len(s) |->
                     IF i = 0 THEN <<>>
                     ELSE IF s[i] \in dropped THEN f[i - 1] ELSE Append(f[i - 1], s[i])]
            left == CHOOSE f : Equation(f)
            n == Len(s)
            step == [pair \in Seq(A) \X (1 .. n) |->
                       IF s[pair[2]] \in dropped THEN pair[1] ELSE Append(pair[1], s[pair[2]])]
<1>1. Without(s, dropped) = left[Len(s)]
  BY DEF Without
<1>2. n \in Nat /\ \A i \in 1 .. n : s[i] \in A
  BY LenProperties, ElementOfSeq
<1>3. step \in [Seq(A) \X (1 .. n) -> Seq(A)]
  <2>1. \A pair \in Seq(A) \X (1 .. n) :
          pair[1] \in Seq(A) /\ s[pair[2]] \in A /\ Append(pair[1], s[pair[2]]) \in Seq(A)
    BY <1>2, AppendProperties
  <2>. QED
    BY <2>1
<1>4. PICK g : Solves(g, Seq(A), <<>>, step, n)
  <2>. DEFINE S == Seq(A)
              none == <<>>
  <2>1. none \in S
    OBVIOUS
  <2>2. step \in [S \X (1 .. n) -> S]
    BY <1>3
  <2>. HIDE DEF step, S, none, n
  <2>3. \E g : Solves(g, S, none, step, n)
    BY <1>2, <2>1, <2>2, Recursion
  <2>. QED
    BY <2>3 DEF S, none
<1>5. /\ g \in [0 .. n -> Seq(A)] /\ g[0] = <<>>
      /\ \A i \in 1 .. n : g[i] = step[<<g[i - 1], i>>]
  <2>. HIDE DEF step, n
  <2>. QED
    BY <1>4 DEF Solves
<1>6. \A i \in 1 .. n : g[i - 1] \in Seq(A) /\ i - 1 \in 0 .. n
  <2>. HIDE DEF step, n
  <2>. QED
    BY <1>2, <1>5
<1>7. \A i \in 1 .. n : g[i] = IF s[i] \in dropped THEN g[i - 1] ELSE Append(g[i - 1], s[i])
  <2>1. ASSUME NEW i \in 1 .. n
        PROVE  step[<<g[i - 1], i>>] = IF s[i] \in dropped THEN g[i - 1] ELSE Append(g[i - 1], s[i])
    <3>1. <<g[i - 1], i>> \in Seq(A) \X (1 .. n)
      BY <1>6
    <3>. QED
      BY <3>1
  <2>. HIDE DEF step
  <2>. QED
    BY <1>5, <2>1
<1>8. Equation(g)
  <2>. HIDE DEF step
  <2>1. \A i \in 0 .. n : i # 0 => i \in 1 .. n
    BY <1>2
  <2>2. g = [i \in 0 .. n |-> g[i]]
    BY <1>5
  <2>3. \A i \in 0 .. n :
          g[i] = IF i = 0 THEN <<>>
                 ELSE IF s[i] \in dropped THEN g[i - 1] ELSE Append(g[i - 1], s[i])
    BY <1>5, <1>7, <2>1
  <2>. QED
    BY <2>2, <2>3
<1>9. Equation(left)
  <2>. HIDE DEF Equation
  <2>. QED
    BY <1>8
<1>. HIDE DEF left
<1>10. /\ left[0] = <<>>
       /\ \A i \in 1 .. n : left[i] = IF s[i] \in dropped THEN left[i - 1] ELSE Append(left[i - 1], s[i])
  <2>1. 0 \in 0 .. n /\ \A i \in 1 .. n : i \in 0 .. n /\ i # 0
    BY <1>2
  <2>. HIDE DEF step
  <2>. QED
    BY <1>9, <2>1
<1>11. \A i \in 0 .. n : left[i] \in Seq(A)
  <2>. DEFINE Typed == {m \in Nat : m <= n => left[m] \in Seq(A)}
  <2>1. 0 \in Typed
    <3>1. left[0] \in Seq(A)
      <4>. HIDE DEF step, Equation
      <4>. QED
        BY <1>10
    <3>. QED
      BY <3>1
  <2>2. ASSUME NEW m \in Nat, m \in Typed PROVE m + 1 \in Typed
    <3>. SUFFICES ASSUME m + 1 <= n PROVE left[m + 1] \in Seq(A)
      OBVIOUS
    <3>1. m + 1 \in 1 .. n /\ (m + 1) - 1 = m /\ left[m] \in Seq(A) /\ s[m + 1] \in A
      BY <1>2, <2>2
    <3>2. left[m + 1] = IF s[m + 1] \in dropped THEN left[m] ELSE Append(left[m], s[m + 1])
      BY <1>10, <3>1
    <3>3. Append(left[m], s[m + 1]) \in Seq(A)
      BY <3>1, AppendProperties
    <3>. QED
      BY <3>1, <3>2, <3>3
  <2>3. Nat \subseteq Typed
    <3>. HIDE DEF Typed
    <3>. QED
      BY <2>1, <2>2, SetInduction
  <2>. QED
    BY <1>2, <2>3
<1>12. left \in [0 .. n -> Seq(A)]
  <2>. HIDE DEF step
  <2>. QED
    BY <1>9, <1>11
<1>. QED
  BY <1>1, <1>10, <1>12 DEF Sifts

\* The first n elements of s and t are the same, and so is what is dropped of them.
Alike(s, t, dropped, gone, n) ==
  /\ n <= Len(s) /\ n <= Len(t)
  /\ \A i \in 1 .. n : s[i] = t[i] /\ (s[i] \in dropped <=> t[i] \in gone)

\* Sequences that agree up to n, and on what is dropped of it, leave the same up to n.
LEMMA SiftsAgree ==
  ASSUME NEW A, NEW s \in Seq(A), NEW t \in Seq(A), NEW dropped, NEW gone,
         NEW n \in Nat, Alike(s, t, dropped, gone, n),
         NEW f, Sifts(f, A, s, dropped), NEW g, Sifts(g, A, t, gone)
  PROVE  f[n] = g[n]
<1>. DEFINE Same == {m \in Nat : m <= n => f[m] = g[m]}
<1>1. 0 \in Same
  BY DEF Sifts
<1>2. ASSUME NEW m \in Nat, m \in Same PROVE m + 1 \in Same
  <2>. SUFFICES ASSUME m + 1 <= n PROVE f[m + 1] = g[m + 1]
    OBVIOUS
  <2>1. /\ m + 1 \in 1 .. Len(s) /\ m + 1 \in 1 .. Len(t) /\ m + 1 \in 1 .. n
        /\ (m + 1) - 1 = m /\ f[m] = g[m]
    BY <1>2, LenProperties DEF Alike
  <2>2. f[m + 1] = IF s[m + 1] \in dropped THEN f[m] ELSE Append(f[m], s[m + 1])
    BY <2>1 DEF Sifts
  <2>3. g[m + 1] = IF t[m + 1] \in gone THEN g[m] ELSE Append(g[m], t[m + 1])
    BY <2>1 DEF Sifts
  <2>. QED
    BY <2>1, <2>2, <2>3 DEF Alike
<1>3. Nat \subseteq Same
  <2>. HIDE DEF Same
  <2>. QED
    BY <1>1, <1>2, SetInduction
<1>. QED
  BY <1>3

\* Without keeps the type, and of nothing it leaves nothing.
LEMMA WithoutType ==
  /\ \A A, dropped : \A s \in Seq(A) : Without(s, dropped) \in Seq(A)
  /\ \A dropped : Without(<<>>, dropped) = <<>>
<1>1. ASSUME NEW A, NEW dropped, NEW s \in Seq(A) PROVE Without(s, dropped) \in Seq(A)
  <2>1. PICK f : Sifts(f, A, s, dropped)
    BY WithoutUnfolds
  <2>2. Len(s) \in 0 .. Len(s)
    BY LenProperties
  <2>. QED
    BY <2>1, <2>2 DEF Sifts
<1>2. ASSUME NEW dropped PROVE Without(<<>>, dropped) = <<>>
  <2>1. <<>> \in Seq({}) /\ Len(<<>>) = 0
    OBVIOUS
  <2>2. PICK f : Sifts(f, {}, <<>>, dropped)
    BY <2>1, WithoutUnfolds
  <2>. QED
    BY <2>1, <2>2 DEF Sifts
<1>. QED
  BY <1>1, <1>2

\* An element at the end stays there unless it is dropped.
LEMMA WithoutAppend ==
  ASSUME NEW A, NEW s \in Seq(A), NEW x \in A, NEW dropped
  PROVE  Without(Append(s, x), dropped) =
           IF x \in dropped THEN Without(s, dropped) ELSE Append(Without(s, dropped), x)
<1>. DEFINE t == Append(s, x)
            n == Len(s)
<1>1. /\ t \in Seq(A) /\ Len(t) = n + 1 /\ t[n + 1] = x /\ n \in Nat
      /\ \A i \in 1 .. n : t[i] = s[i]
  BY AppendProperties, LenProperties
<1>2. PICK f : Sifts(f, A, s, dropped)
  BY WithoutUnfolds
<1>. HIDE DEF t
<1>3. PICK g : Sifts(g, A, t, dropped)
  BY <1>1, WithoutUnfolds
<1>4. f[n] = g[n]
  <2>1. Alike(s, t, dropped, dropped, n)
    BY <1>1 DEF Alike
  <2>. QED
    BY <1>1, <1>2, <1>3, <2>1, SiftsAgree
<1>5. n + 1 \in 1 .. Len(t) /\ (n + 1) - 1 = n
  BY <1>1
<1>6. g[n + 1] = IF x \in dropped THEN g[n] ELSE Append(g[n], x)
  BY <1>1, <1>3, <1>5 DEF Sifts
<1>7. Without(t, dropped) = g[n + 1] /\ Without(s, dropped) = f[n]
  BY <1>1, <1>2, <1>3 DEF Sifts
<1>. QED
  BY <1>4, <1>6, <1>7 DEF t

\* Only what is dropped of the sequence matters.
LEMMA WithoutSame ==
  ASSUME NEW A, NEW s \in Seq(A), NEW dropped, NEW gone,
         \A i \in DOMAIN s : s[i] \in dropped <=> s[i] \in gone
  PROVE  Without(s, dropped) = Without(s, gone)
<1>1. PICK f : Sifts(f, A, s, dropped)
  BY WithoutUnfolds
<1>2. PICK g : Sifts(g, A, s, gone)
  BY WithoutUnfolds
<1>3. Len(s) \in Nat /\ Alike(s, s, dropped, gone, Len(s))
  BY LenProperties DEF Alike
<1>4. f[Len(s)] = g[Len(s)]
  BY <1>1, <1>2, <1>3, SiftsAgree
<1>. QED
  BY <1>1, <1>2, <1>4 DEF Sifts

\* All of s is dropped but its p-th element; nothing of it stays if p is 0.
AllBut(s, dropped, p) ==
  \A i \in 1 .. Len(s) : s[i] \in dropped <=> i # p

\* A sequence of which one element stays, and one of which none does.
LEMMA WithoutAllBut ==
  ASSUME NEW A, NEW s \in Seq(A), NEW dropped, NEW p \in 0 .. Len(s), AllBut(s, dropped, p)
  PROVE  Without(s, dropped) = IF p = 0 THEN <<>> ELSE <<s[p]>>
<1>1. PICK f : Sifts(f, A, s, dropped)
  BY WithoutUnfolds
<1>. DEFINE n == Len(s)
            Claim(m) == f[m] = IF p = 0 \/ m < p THEN <<>> ELSE <<s[p]>>
            Claimed == {m \in Nat : m <= n => Claim(m)}
<1>2. n \in Nat /\ p \in Nat /\ p <= n
  BY LenProperties
<1>3. 0 \in Claimed
  BY <1>1, <1>2 DEF Sifts
<1>4. ASSUME NEW m \in Nat, m \in Claimed PROVE m + 1 \in Claimed
  <2>. SUFFICES ASSUME m + 1 <= n PROVE Claim(m + 1)
    OBVIOUS
  <2>1. m + 1 \in 1 .. n /\ (m + 1) - 1 = m /\ Claim(m)
    BY <1>2, <1>4
  <2>2. f[m + 1] = IF s[m + 1] \in dropped THEN f[m] ELSE Append(f[m], s[m + 1])
    BY <1>1, <2>1 DEF Sifts
  <2>3. s[m + 1] \in dropped <=> m + 1 # p
    BY <2>1 DEF AllBut
  <2>4. CASE m + 1 = p
    <3>0. m < p /\ p # 0
      BY <1>2, <2>4
    <3>1. f[m] = <<>> /\ f[m + 1] = Append(<<>>, s[p])
      <4>1. f[m] = <<>>
        BY <2>1, <3>0
      <4>2. f[m + 1] = Append(f[m], s[m + 1])
        BY <2>2, <2>3, <2>4
      <4>. QED
        BY <2>4, <4>1, <4>2
    <3>2. Append(<<>>, s[p]) = <<s[p]>>
      OBVIOUS
    <3>. QED
      BY <1>2, <2>4, <3>1, <3>2
  <2>5. CASE m + 1 # p
    <3>1. f[m + 1] = f[m]
      BY <2>2, <2>3, <2>5
    <3>2. (m + 1 < p) <=> (m < p)
      BY <1>2, <2>5
    <3>. QED
      BY <2>1, <3>1, <3>2
  <2>. QED
    BY <2>4, <2>5
<1>5. n \in Claimed
  <2>1. Nat \subseteq Claimed
    <3>. HIDE DEF Claimed
    <3>. QED
      BY <1>3, <1>4, SetInduction
  <2>. QED
    BY <1>2, <2>1
<1>. QED
  BY <1>1, <1>2, <1>5 DEF Sifts

\* A sequence of which nothing is dropped stays what it is.
LEMMA WithoutNone ==
  ASSUME NEW A, NEW s \in Seq(A), NEW dropped, \A i \in 1 .. Len(s) : s[i] \notin dropped
  PROVE  Without(s, dropped) = s
<1>1. PICK f : Sifts(f, A, s, dropped)
  BY WithoutUnfolds
<1>. DEFINE n == Len(s)
            Claim(m) == f[m] \in Seq(A) /\ Len(f[m]) = m /\ \A i \in 1 .. m : f[m][i] = s[i]
            Claimed == {m \in Nat : m <= n => Claim(m)}
<1>2. n \in Nat
  BY LenProperties
<1>3. 0 \in Claimed
  BY <1>1, <1>2, EmptySeq DEF Sifts
<1>4. ASSUME NEW m \in Nat, m \in Claimed PROVE m + 1 \in Claimed
  <2>. SUFFICES ASSUME m + 1 <= n PROVE Claim(m + 1)
    OBVIOUS
  <2>1. m + 1 \in 1 .. n /\ (m + 1) - 1 = m /\ Claim(m)
    BY <1>2, <1>4
  <2>. DEFINE x == s[m + 1]
              t == f[m]
  <2>2. f[m + 1] = Append(t, x) /\ x \in A /\ t \in Seq(A) /\ Len(t) = m
    <3>1. f[m + 1] = IF x \in dropped THEN t ELSE Append(t, x)
      BY <1>1, <2>1 DEF Sifts
    <3>. QED
      BY <2>1, <3>1, ElementOfSeq
  <2>. HIDE DEF x, t
  <2>3. /\ Append(t, x) \in Seq(A) /\ Len(Append(t, x)) = m + 1
        /\ Append(t, x)[m + 1] = x /\ \A i \in 1 .. m : Append(t, x)[i] = t[i]
    BY <2>2, AppendProperties
  <2>4. \A i \in 1 .. m + 1 : i = m + 1 \/ i \in 1 .. m
    OBVIOUS
  <2>5. \A i \in 1 .. m : t[i] = s[i]
    BY <2>1 DEF t
  <2>6. x = s[m + 1]
    BY DEF x
  <2>. QED
    BY <2>2, <2>3, <2>4, <2>5, <2>6
<1>5. n \in Claimed
  <2>1. Nat \subseteq Claimed
    <3>. HIDE DEF Claimed
    <3>. QED
      BY <1>3, <1>4, SetInduction
  <2>. QED
    BY <1>2, <2>1
<1>6. f[n] \in Seq(A) /\ Len(f[n]) = n /\ \A i \in 1 .. n : f[n][i] = s[i]
  BY <1>2, <1>5
<1>7. f[n] = s
  BY <1>6, SeqEqual
<1>. QED
  BY <1>1, <1>7 DEF Sifts
=============================================================================
