--------------------------- MODULE WordEndsProofs ---------------------------
(***************************************************************************)
(* Proofs about both builds of word_ends on one text, for data and blocks  *)
(* of any size.  Each build has an invariant of its own; that of the one   *)
(* with std::simd needs a separator that is not the character its last     *)
(* block is filled up with.                                                *)
(***************************************************************************)
EXTENDS WordEnds, WellFoundedInduction, TLAPS

-----------------------------------------------------------------------------
(* Lists of indices, on which both builds rest.                            *)

\* A list is continued by a larger index.
LEMMA ListsAppend ==
  ASSUME NEW S \in SUBSET Nat, NEW s \in Seq(Nat), Lists(s, S),
         NEW x \in Nat, \A y \in S : y < x
  PROVE  Append(s, x) \in Seq(Nat) /\ Lists(Append(s, x), S \cup {x})
<1> DEFINE t == Append(s, x)
           n == Len(s)
<1>1. /\ t \in Seq(Nat) /\ n \in Nat /\ Len(t) = n + 1 /\ t[n + 1] = x
      /\ \A p \in 1 .. n : t[p] = s[p]
  OBVIOUS
<1>2. /\ \A p, q \in 1 .. n : p < q => s[p] < s[q]
      /\ \A p \in 1 .. n : s[p] \in S
      /\ \A y \in S : \E p \in 1 .. n : s[p] = y
  BY DEF Lists, Increasing
<1> HIDE DEF n, t
<1>3. \A p \in 1 .. n + 1 : p = n + 1 \/ p \in 1 .. n
  BY <1>1
<1>4. ASSUME NEW p \in 1 .. n + 1, NEW q \in 1 .. n + 1, p < q
      PROVE  t[p] < t[q]
  <2>1. p \in 1 .. n
    BY <1>1, <1>4
  <2>2. CASE q = n + 1
    BY <1>1, <1>2, <2>1, <2>2
  <2>3. CASE q \in 1 .. n
    BY <1>1, <1>2, <1>4, <2>1, <2>3
  <2> QED BY <1>3, <2>2, <2>3
<1>5. \A p \in 1 .. n + 1 : t[p] \in S \cup {x}
  BY <1>1, <1>2, <1>3
<1>6. ASSUME NEW y \in S \cup {x} PROVE \E p \in 1 .. n + 1 : t[p] = y
  <2>1. CASE y \in S
    <3>1. PICK p \in 1 .. n : s[p] = y
      BY <1>2, <2>1
    <3>2. p \in 1 .. n + 1 /\ t[p] = y
      BY <1>1, <3>1
    <3> QED BY <3>2
  <2>2. CASE y = x
    <3>1. n + 1 \in 1 .. n + 1
      BY <1>1
    <3> QED BY <1>1, <2>2, <3>1
  <2> QED BY <2>1, <2>2
<1>7. Lists(t, S \cup {x})
  BY <1>1, <1>4, <1>5, <1>6 DEF Lists, Increasing
<1> QED BY <1>1, <1>7 DEF t

\* Two lists are joined if the second starts after the first.
LEMMA ListsConcat ==
  ASSUME NEW S \in SUBSET Nat, NEW s \in Seq(Nat), Lists(s, S),
         NEW T \in SUBSET Nat, NEW t \in Seq(Nat), Lists(t, T),
         \A x \in S, y \in T : x < y
  PROVE  s \o t \in Seq(Nat) /\ Lists(s \o t, S \cup T)
<1> DEFINE u == s \o t
           m == Len(s)
           n == Len(t)
<1>1. /\ u \in Seq(Nat) /\ m \in Nat /\ n \in Nat /\ Len(u) = m + n
      /\ \A p \in 1 .. m : u[p] = s[p]
      /\ \A p \in m + 1 .. m + n : u[p] = t[p - m]
  OBVIOUS
<1>2. /\ \A p, q \in 1 .. m : p < q => s[p] < s[q]
      /\ \A p \in 1 .. m : s[p] \in S
      /\ \A y \in S : \E p \in 1 .. m : s[p] = y
  BY DEF Lists, Increasing
<1>3. /\ \A p, q \in 1 .. n : p < q => t[p] < t[q]
      /\ \A p \in 1 .. n : t[p] \in T
      /\ \A y \in T : \E p \in 1 .. n : t[p] = y
  BY DEF Lists, Increasing
<1> HIDE DEF u, m, n
<1>4. \A p \in 1 .. m + n : p \in 1 .. m \/ (p \in m + 1 .. m + n /\ p - m \in 1 .. n)
  BY <1>1
<1>5. \A p \in 1 .. m + n : \/ p \in 1 .. m /\ u[p] = s[p] /\ u[p] \in S
                            \/ p \in m + 1 .. m + n /\ p - m \in 1 .. n
                               /\ u[p] = t[p - m] /\ u[p] \in T
  BY <1>1, <1>2, <1>3, <1>4
<1>6. ASSUME NEW p \in 1 .. m + n, NEW q \in 1 .. m + n, p < q
      PROVE  u[p] < u[q]
  <2>1. CASE p \in 1 .. m /\ q \in 1 .. m
    BY <1>1, <1>2, <1>6, <2>1
  <2>2. CASE u[p] \in S /\ u[q] \in T
    BY <2>2
  <2>3. CASE p \in m + 1 .. m + n /\ q \in m + 1 .. m + n
    <3>1. p - m \in 1 .. n /\ q - m \in 1 .. n /\ p - m < q - m
      BY <1>1, <1>6, <2>3
    <3> QED BY <1>1, <1>3, <2>3, <3>1
  <2>4. ~(p \in m + 1 .. m + n /\ q \in 1 .. m)
    BY <1>1, <1>6
  <2> QED BY <1>5, <2>1, <2>2, <2>3, <2>4
<1>7. \A p \in 1 .. m + n : u[p] \in S \cup T
  BY <1>5
<1>8. ASSUME NEW y \in S \cup T PROVE \E p \in 1 .. m + n : u[p] = y
  <2>1. CASE y \in S
    <3>1. PICK p \in 1 .. m : s[p] = y
      BY <1>2, <2>1
    <3>2. p \in 1 .. m + n /\ u[p] = y
      BY <1>1, <3>1
    <3> QED BY <3>2
  <2>2. CASE y \in T
    <3>1. PICK p \in 1 .. n : t[p] = y
      BY <1>3, <2>2
    <3>2. m + p \in m + 1 .. m + n /\ (m + p) - m = p /\ m + p \in 1 .. m + n
      BY <1>1, <3>1
    <3>3. u[m + p] = y
      BY <1>1, <3>1, <3>2
    <3> QED BY <3>2, <3>3
  <2> QED BY <2>1, <2>2
<1>9. Lists(u, S \cup T)
  BY <1>1, <1>6, <1>7, <1>8 DEF Lists, Increasing
<1> QED BY <1>1, <1>9 DEF u

\* Nothing lies between an index and itself.
LEMMA NoSeparators ==
  ASSUME NEW d, NEW a \in Nat
  PROVE  SeparatorsIn(d, a, a) = {} /\ Lists(<<>>, {})
BY DEF SeparatorsIn, Lists, Increasing

\* The separators before b are indices from a on, those of two adjoining
\* stretches are those of both.
LEMMA SeparatorsJoin ==
  ASSUME NEW d, NEW a \in Nat, NEW b \in Nat, NEW c \in Nat, a <= b, b <= c
  PROVE  /\ SeparatorsIn(d, a, c) = SeparatorsIn(d, a, b) \cup SeparatorsIn(d, b, c)
         /\ SeparatorsIn(d, a, b) \in SUBSET Nat
         /\ \A x \in SeparatorsIn(d, a, b) : a <= x /\ x < b
BY DEF SeparatorsIn

\* One more character adds its index if it is a separator.
LEMMA SeparatorsNext ==
  ASSUME NEW d, NEW a \in Nat, NEW b \in Nat, a <= b
  PROVE  SeparatorsIn(d, a, b + 1)
           = IF d[b + 1] = Separator THEN SeparatorsIn(d, a, b) \cup {b}
             ELSE SeparatorsIn(d, a, b)
BY DEF SeparatorsIn

\* word_ends completes a list of all separators.
LEMMA EndAdded ==
  ASSUME NEW d, Len(d) \in Nat, NEW s \in Seq(Nat),
         Lists(s, SeparatorsIn(d, 0, Len(d)))
  PROVE  /\ WithDataEnd(s, Len(d)) \in Seq(Nat)
         /\ IsWordEnds(WithDataEnd(s, Len(d)), d)
<1> DEFINE S == SeparatorsIn(d, 0, Len(d))
<1>1. S \in SUBSET Nat /\ \A x \in S : x < Len(d)
  BY DEF SeparatorsIn
<1>2. s = <<>> \/ s[Len(s)] # Len(d)
  <2>1. CASE s # <<>>
    <3>1. Len(s) \in 1 .. Len(s)
      BY <2>1
    <3>2. s[Len(s)] \in S
      BY <3>1 DEF Lists
    <3> QED BY <1>1, <3>2
  <2> QED BY <2>1
<1>3. WithDataEnd(s, Len(d)) = Append(s, Len(d))
  BY <1>2 DEF WithDataEnd
<1>4. /\ Append(s, Len(d)) \in Seq(Nat)
      /\ Lists(Append(s, Len(d)), S \cup {Len(d)})
  <2> HIDE DEF S
  <2> QED BY <1>1, ListsAppend DEF S
<1> QED BY <1>3, <1>4 DEF IsWordEnds

-----------------------------------------------------------------------------
(* The build without std::simd.                                            *)

BlockEnd == IF i + BlockSize < Len(data) THEN i + BlockSize ELSE Len(data)

TypeOK ==
  /\ data \in Data
  /\ pc \in {"blocks", "scan", "done"}
  /\ i \in Nat /\ j \in Nat
  /\ separatorC \in 0 .. BlockSize
  /\ buffer \in [0 .. BlockSize - 1 -> Nat]
  /\ separatorIdxs \in Seq(Nat)
  /\ wordEnds \in Seq(Nat)

\* What is flushed and what is in the buffer are the separators scanned.
Compacted ==
  /\ pc = "blocks" => Lists(separatorIdxs, SeparatorsIn(data, 0, IF i < Len(data) THEN i ELSE Len(data)))
  /\ pc = "scan" =>
       /\ Lists(separatorIdxs, SeparatorsIn(data, 0, i))
       /\ Lists([k \in 1 .. separatorC |-> buffer[k - 1]], SeparatorsIn(data, i, j))

ScalarExact == pc = "done" => IsWordEnds(wordEnds, data)

\* What the inner loop adds to the invariant: no more separators are counted
\* than characters scanned, so the count cannot pass the end of the buffer.
ScanBounds ==
  pc = "scan" => /\ i < Len(data)
                 /\ j \in i .. BlockEnd
                 /\ separatorC <= j - i

ScalarInv == TypeOK /\ ScanBounds /\ Compacted /\ ScalarExact

\* The entries of the buffer that count.
Found == [k \in 1 .. separatorC |-> buffer[k - 1]]

LEMMA Sizes ==
  ASSUME TypeOK
  PROVE  /\ data \in Seq(Char) /\ Len(data) \in Nat /\ BlockSize \in Nat \ {0}
         /\ i \in Nat /\ j \in Nat /\ separatorC \in Nat /\ separatorC <= BlockSize
         /\ BlockEnd \in Nat /\ BlockEnd <= i + BlockSize /\ BlockEnd <= Len(data)
         /\ Found \in Seq(Nat) /\ Len(Found) = separatorC
<1>1. data \in Seq(Char) /\ Len(data) \in Nat /\ BlockSize \in Nat \ {0}
  BY DataAssumption, BlockSizeAssumption DEF TypeOK
<1>2. i \in Nat /\ j \in Nat /\ separatorC \in Nat /\ separatorC <= BlockSize
  BY <1>1 DEF TypeOK
<1>3. BlockEnd \in Nat /\ BlockEnd <= i + BlockSize /\ BlockEnd <= Len(data)
  BY <1>1, <1>2 DEF BlockEnd
<1>4. \A k \in 1 .. separatorC : k - 1 \in 0 .. BlockSize - 1
  BY <1>1, <1>2
<1>5. \A k \in 1 .. separatorC : buffer[k - 1] \in Nat
  BY <1>4 DEF TypeOK
<1>6. Found \in [1 .. separatorC -> Nat]
  BY <1>5 DEF Found
<1>7. Found \in Seq(Nat) /\ Len(Found) = separatorC
  BY <1>2, <1>6
<1> QED BY <1>1, <1>2, <1>3, <1>7

LEMMA ScalarInit == Scalar!Init => ScalarInv
<1> SUFFICES ASSUME Scalar!Init PROVE ScalarInv
  OBVIOUS
<1>1. data \in Seq(Char) /\ Len(data) \in Nat
  BY DataAssumption DEF Scalar!Init
<1>2. TypeOK
  BY BlockSizeAssumption DEF Scalar!Init, TypeOK
<1>3. Compacted
  <2>1. (IF i < Len(data) THEN i ELSE Len(data)) = 0
    BY <1>1 DEF Scalar!Init
  <2> QED BY <2>1, NoSeparators DEF Scalar!Init, Compacted
<1> QED BY <1>2, <1>3 DEF Scalar!Init, ScalarInv, ScanBounds, ScalarExact

\* One character: its index is counted if it is a separator, else the entry
\* written is not among those that count.
LEMMA ScanStep ==
  ASSUME ScalarInv, Scalar!Scan
  PROVE  /\ TypeOK' /\ ScanBounds'
         /\ Lists(Found', SeparatorsIn(data, i, j'))
<1>1. /\ pc = "scan" /\ pc' = "scan" /\ j < BlockEnd /\ j' = j + 1
      /\ buffer' = [buffer EXCEPT ![separatorC] = j]
      /\ separatorC' = IF data[j + 1] = Separator THEN separatorC + 1 ELSE separatorC
      /\ UNCHANGED <<data, i, separatorIdxs, wordEnds>>
      /\ BlockEnd' = BlockEnd
  BY DEF Scalar!Scan, Scalar!BlockEnd, BlockEnd
<1>2. i < Len(data) /\ i <= j /\ separatorC <= j - i
  BY <1>1, Sizes DEF ScalarInv, ScanBounds
<1>3. separatorC < BlockSize /\ separatorC \in 0 .. BlockSize - 1
  BY <1>1, <1>2, Sizes DEF ScalarInv
<1>4. buffer' \in [0 .. BlockSize - 1 -> Nat]
  BY <1>1, <1>3, Sizes DEF ScalarInv, TypeOK
<1>5. separatorC' \in 0 .. BlockSize /\ separatorC' <= j' - i
  BY <1>1, <1>2, <1>3, Sizes DEF ScalarInv
<1>6. TypeOK'
  BY <1>1, <1>4, <1>5, Sizes DEF ScalarInv, TypeOK
<1>7. ScanBounds'
  BY <1>1, <1>2, <1>5, Sizes DEF ScalarInv, ScanBounds
<1>8. Lists(Found', SeparatorsIn(data, i, j'))
  <2>1. Lists(Found, SeparatorsIn(data, i, j))
    BY <1>1 DEF ScalarInv, Compacted, Found
  <2>2. \A k \in 1 .. separatorC : buffer'[k - 1] = buffer[k - 1]
    <3>1. \A k \in 1 .. separatorC : k - 1 \in 0 .. BlockSize - 1 /\ k - 1 # separatorC
      BY <1>3, Sizes DEF ScalarInv
    <3> QED BY <1>1, <3>1 DEF ScalarInv, TypeOK
  <2>3. CASE data[j + 1] = Separator
    <3>1. Found' = Append(Found, j)
      <4>1. separatorC' = separatorC + 1 /\ buffer'[separatorC] = j
        BY <1>1, <1>3, <2>3 DEF ScalarInv, TypeOK
      <4>2. Found' = [k \in 1 .. separatorC + 1 |-> buffer'[k - 1]]
        BY <4>1 DEF Found
      <4>3. ASSUME NEW k \in 1 .. separatorC + 1
            PROVE  buffer'[k - 1] = Append(Found, j)[k]
        <5>1. CASE k = separatorC + 1
          <6>1. k - 1 = separatorC
            BY <5>1, Sizes DEF ScalarInv
          <6>2. Append(Found, j)[k] = j
            BY <5>1, Sizes DEF ScalarInv
          <6> QED BY <4>1, <6>1, <6>2
        <5>2. CASE k # separatorC + 1
          <6>1. k \in 1 .. separatorC
            BY <5>2, Sizes DEF ScalarInv
          <6>2. Append(Found, j)[k] = Found[k]
            BY <6>1, Sizes DEF ScalarInv
          <6> QED BY <2>2, <6>1, <6>2 DEF Found
        <5> QED BY <5>1, <5>2
      <4>4. Found' \in Seq(Nat) /\ Len(Found') = separatorC + 1
        <5>1. \A k \in 1 .. separatorC + 1 : k - 1 \in 0 .. BlockSize - 1
          BY <1>3, Sizes DEF ScalarInv
        <5>2. Found' \in [1 .. separatorC + 1 -> Nat]
          BY <1>4, <4>2, <5>1
        <5> DEFINE n == separatorC + 1
                   f == Found'
        <5>3. n \in Nat /\ f \in [1 .. n -> Nat]
          BY <5>2, Sizes DEF ScalarInv
        <5> HIDE DEF n, f
        <5>4. f \in Seq(Nat) /\ Len(f) = n
          BY <5>3
        <5> QED BY <5>4 DEF n, f
      <4>5. Append(Found, j) \in Seq(Nat) /\ Len(Append(Found, j)) = separatorC + 1
        BY Sizes DEF ScalarInv
      <4>6. \A k \in 1 .. separatorC + 1 : Found'[k] = Append(Found, j)[k]
        BY <4>2, <4>3
      <4> DEFINE f == Found'
                 g == Append(Found, j)
      <4>7. f \in Seq(Nat) /\ g \in Seq(Nat) /\ Len(f) = Len(g)
            /\ \A k \in 1 .. Len(f) : f[k] = g[k]
        BY <4>4, <4>5, <4>6
      <4> HIDE DEF f, g
      <4>8. f = g
        BY <4>7
      <4> QED BY <4>8 DEF f, g
    <3>2. SeparatorsIn(data, i, j') = SeparatorsIn(data, i, j) \cup {j}
      BY <1>1, <1>2, <2>3, Sizes, SeparatorsNext DEF ScalarInv
    <3>3. SeparatorsIn(data, i, j) \in SUBSET Nat /\ \A x \in SeparatorsIn(data, i, j) : x < j
      BY <1>2, Sizes, SeparatorsJoin DEF ScalarInv
    <3> QED BY <2>1, <3>1, <3>2, <3>3, Sizes, ListsAppend DEF ScalarInv
  <2>4. CASE data[j + 1] # Separator
    <3>1. Found' = Found
      BY <1>1, <2>2, <2>4 DEF Found
    <3>2. SeparatorsIn(data, i, j') = SeparatorsIn(data, i, j)
      BY <1>1, <1>2, <2>4, Sizes, SeparatorsNext DEF ScalarInv
    <3> QED BY <2>1, <3>1, <3>2
  <2> QED BY <2>3, <2>4
<1> QED BY <1>6, <1>7, <1>8

\* A block that is scanned: its separators follow those before it.
LEMMA EndBlockStep ==
  ASSUME ScalarInv, Scalar!EndBlock
  PROVE  ScalarInv'
<1>1. /\ pc = "scan" /\ pc' = "blocks" /\ j = BlockEnd /\ i' = i + BlockSize
      /\ separatorIdxs' = separatorIdxs \o Found
      /\ UNCHANGED <<data, j, separatorC, buffer, wordEnds>>
  BY DEF Scalar!EndBlock, Scalar!BlockEnd, BlockEnd, Found
<1>2. /\ Lists(separatorIdxs, SeparatorsIn(data, 0, i))
      /\ Lists(Found, SeparatorsIn(data, i, j))
      /\ separatorIdxs \in Seq(Nat) /\ Found \in Seq(Nat)
      /\ i < Len(data) /\ i <= j
  BY <1>1, Sizes DEF ScalarInv, TypeOK, Compacted, Found, ScanBounds
<1>3. /\ SeparatorsIn(data, 0, j) = SeparatorsIn(data, 0, i) \cup SeparatorsIn(data, i, j)
      /\ SeparatorsIn(data, 0, i) \in SUBSET Nat /\ SeparatorsIn(data, i, j) \in SUBSET Nat
      /\ \A x \in SeparatorsIn(data, 0, i), y \in SeparatorsIn(data, i, j) : x < y
  <2>1. \A x \in SeparatorsIn(data, 0, i) : x < i
    BY Sizes DEF ScalarInv, SeparatorsIn
  <2>2. \A y \in SeparatorsIn(data, i, j) : i <= y
    BY Sizes DEF ScalarInv, SeparatorsIn
  <2>3. SeparatorsIn(data, 0, i) \in SUBSET Nat /\ SeparatorsIn(data, i, j) \in SUBSET Nat
    BY <1>2, Sizes DEF ScalarInv, SeparatorsIn
  <2>4. \A x \in SeparatorsIn(data, 0, i), y \in SeparatorsIn(data, i, j) : x < y
    BY <2>1, <2>2, <2>3, Sizes DEF ScalarInv
  <2>5. 0 \in Nat /\ i \in Nat /\ j \in Nat /\ 0 <= i /\ i <= j
    BY <1>2, Sizes DEF ScalarInv
  <2>6. SeparatorsIn(data, 0, j) = SeparatorsIn(data, 0, i) \cup SeparatorsIn(data, i, j)
    BY ONLY <2>5, SeparatorsJoin
  <2> QED BY <2>3, <2>4, <2>6
<1>4. separatorIdxs' \in Seq(Nat) /\ Lists(separatorIdxs', SeparatorsIn(data, 0, j))
  <2> DEFINE S == SeparatorsIn(data, 0, i)
             T == SeparatorsIn(data, i, j)
             t == Found
  <2>1. /\ Lists(separatorIdxs, S) /\ Lists(t, T)
        /\ separatorIdxs \in Seq(Nat) /\ t \in Seq(Nat)
        /\ S \in SUBSET Nat /\ T \in SUBSET Nat
        /\ \A x \in S, y \in T : x < y
        /\ separatorIdxs' = separatorIdxs \o t
        /\ SeparatorsIn(data, 0, j) = S \cup T
    BY <1>1, <1>2, <1>3
  <2> HIDE DEF S, T, t
  <2> QED BY <2>1, ListsConcat
<1>5. (IF i' < Len(data) THEN i' ELSE Len(data)) = j
  BY <1>1, Sizes DEF ScalarInv, BlockEnd
<1>6. TypeOK'
  BY <1>1, <1>4, Sizes DEF ScalarInv, TypeOK
<1>7. Compacted'
  BY <1>1, <1>4, <1>5 DEF Compacted
<1> QED BY <1>1, <1>6, <1>7 DEF ScalarInv, ScanBounds, ScalarExact

LEMMA ScalarNext == ScalarInv /\ [Scalar!Next]_<<data, scalarVars>> => ScalarInv'
<1> SUFFICES ASSUME ScalarInv, [Scalar!Next]_<<data, scalarVars>> PROVE ScalarInv'
  OBVIOUS
<1>1. CASE Scalar!BeginBlock
  <2>1. /\ pc = "blocks" /\ i < Len(data) /\ pc' = "scan" /\ separatorC' = 0 /\ j' = i
        /\ UNCHANGED <<data, i, buffer, separatorIdxs, wordEnds>>
    BY <1>1 DEF Scalar!BeginBlock
  <2>2. TypeOK'
    BY <2>1, Sizes DEF ScalarInv, TypeOK
  <2>3. ScanBounds'
    <3>1. BlockEnd' = BlockEnd /\ BlockEnd \in Nat /\ i <= BlockEnd
      BY <2>1, Sizes DEF ScalarInv, BlockEnd
    <3> QED BY <2>1, <3>1, Sizes DEF ScalarInv, ScanBounds
  <2>4. Compacted'
    <3>1. Lists(separatorIdxs', SeparatorsIn(data', 0, i'))
      BY <2>1 DEF ScalarInv, Compacted
    <3>2. [k \in 1 .. separatorC' |-> buffer'[k - 1]] = <<>>
      BY <2>1
    <3>3. SeparatorsIn(data', i', j') = {}
      BY <2>1, Sizes, NoSeparators DEF ScalarInv
    <3> QED BY <2>1, <3>1, <3>2, <3>3, NoSeparators DEF Compacted
  <2> QED BY <2>1, <2>2, <2>3, <2>4 DEF ScalarInv, ScalarExact
<1>2. CASE Scalar!Scan
  <2>1. pc' = "scan" /\ UNCHANGED <<data, i, separatorIdxs>> /\ pc = "scan"
    BY <1>2 DEF Scalar!Scan
  <2>2. Lists(separatorIdxs', SeparatorsIn(data', 0, i'))
    BY <2>1 DEF ScalarInv, Compacted
  <2>3. Lists([k \in 1 .. separatorC' |-> buffer'[k - 1]], SeparatorsIn(data', i', j'))
    BY <1>2, <2>1, ScanStep DEF Found
  <2>4. Compacted'
    BY <2>1, <2>2, <2>3 DEF Compacted
  <2> QED BY <1>2, <2>1, <2>4, ScanStep DEF ScalarInv, ScalarExact
<1>3. CASE Scalar!EndBlock
  BY <1>3, EndBlockStep
<1>4. CASE Scalar!WordEnds
  <2>1. /\ pc = "blocks" /\ i >= Len(data) /\ pc' = "done"
        /\ wordEnds' = WithDataEnd(separatorIdxs, Len(data))
        /\ UNCHANGED <<data, i, j, separatorC, buffer, separatorIdxs>>
    BY <1>4 DEF Scalar!WordEnds, Scalar!WithDataEnd, WithDataEnd
  <2>2. Lists(separatorIdxs, SeparatorsIn(data, 0, Len(data)))
    BY <2>1, Sizes DEF ScalarInv, Compacted
  <2>3. wordEnds' \in Seq(Nat) /\ IsWordEnds(wordEnds', data)
    BY <2>1, <2>2, Sizes, EndAdded DEF ScalarInv, TypeOK
  <2>4. TypeOK'
    BY <2>1, <2>3 DEF ScalarInv, TypeOK
  <2> QED BY <2>1, <2>3, <2>4 DEF ScalarInv, ScanBounds, Compacted, ScalarExact
<1>5. CASE UNCHANGED <<data, scalarVars>>
  BY <1>5 DEF scalarVars, ScalarInv, TypeOK, ScanBounds, Compacted, ScalarExact, BlockEnd
<1>6. CASE Scalar!Returned
  BY <1>5, <1>6 DEF Scalar!Returned, Scalar!vars, scalarVars
<1> QED BY <1>1, <1>2, <1>3, <1>4, <1>5, <1>6 DEF Scalar!Next

-----------------------------------------------------------------------------
(* The build with std::simd.                                               *)

UncheckedEnd == SimdBlockSize * (Len(data) \div SimdBlockSize)

Bit == 0 .. SimdBlockSize - 1

LastChars(b) == IF UncheckedEnd + b < Len(data) THEN data[UncheckedEnd + b + 1] ELSE Nul

LowestBit(m) == CHOOSE b \in m : \A c \in m : b <= c

SimdTypes ==
  /\ data \in Data
  /\ simdPc \in {"blocks", "extract", "tail", "done"}
  /\ simdI \in 0 .. UncheckedEnd
  /\ mask \in SUBSET Bit
  /\ simdSeparatorIdxs \in Seq(Nat)
  /\ simdWordEnds \in Seq(Nat)

\* The blocks are aligned and none reaches past the unchecked end.
Aligned ==
  /\ \E q \in Nat : simdI = SimdBlockSize * q
  /\ simdPc = "blocks" => mask = {}
  /\ simdPc = "extract" => simdI + SimdBlockSize <= UncheckedEnd
  /\ simdPc = "tail" => simdI = UncheckedEnd

\* Separators of a loaded block that are not extracted yet, and the index the
\* blocks loaded so far reach to.
Pending == { simdI + b : b \in mask }

LoadedTo == CASE simdPc = "blocks"  -> simdI
              [] simdPc = "extract" -> simdI + SimdBlockSize
              [] OTHER              -> Len(data)

\* What is loaded is extracted, in order, or a bit still set.
Extracted ==
  LET loaded == SeparatorsIn(data, 0, LoadedTo)
  IN /\ Lists(simdSeparatorIdxs, loaded \ Pending)
     /\ Pending \subseteq loaded
     /\ \A k \in 1 .. Len(simdSeparatorIdxs) : \A p \in Pending : simdSeparatorIdxs[k] < p

SimdExact == simdPc = "done" => IsWordEnds(simdWordEnds, data)

SimdInv == SimdTypes /\ Aligned /\ Extracted /\ SimdExact

LEMMA LowestIsLowest ==
  ASSUME NEW m \in SUBSET Nat, m # {}
  PROVE  LowestBit(m) \in m /\ \A c \in m : LowestBit(m) <= c
<1> DEFINE R == { ss \in Nat \X Nat : ss[1] < ss[2] }
<1>1. IsWellFoundedOn(R, Nat)
  BY NatLessThanWellFounded, Zenon DEF OpToRel
<1>2. PICK b \in m : \A c \in m : ~(<<c, b>> \in R)
  <2> HIDE DEF R
  <2> QED BY <1>1, WFMin
<1>3. ASSUME NEW c \in m PROVE b <= c
  <2>1. b \in Nat /\ c \in Nat /\ <<c, b>> \in Nat \X Nat
        /\ <<c, b>>[1] = c /\ <<c, b>>[2] = b
    OBVIOUS
  <2>2. ~(c < b)
    BY <1>2, <2>1
  <2> QED BY <2>1, <2>2
<1> QED BY <1>3 DEF LowestBit

\* No block begins in the unchecked part and ends beyond it.
LEMMA BlockFits ==
  ASSUME NEW B \in Nat \ {0}, NEW q \in Nat, NEW d \in Nat, B * q < B * d
  PROVE  B * q + B <= B * d
<1>1. q < d
  <2> SUFFICES ASSUME d <= q PROVE FALSE
    OBVIOUS
  <2>1. B * d <= B * q
    OBVIOUS
  <2>2. B * d \in Nat /\ B * q \in Nat
    OBVIOUS
  <2> QED BY <2>1, <2>2
<1> QED BY <1>1

LEMMA TailFits ==
  ASSUME NEW B \in Nat \ {0}, NEW n \in Nat
  PROVE  n \div B \in Nat /\ B * (n \div B) \in Nat
         /\ B * (n \div B) <= n /\ n < B * (n \div B) + B
OBVIOUS

LEMMA SimdSizes ==
  ASSUME SimdTypes
  PROVE  /\ data \in Seq(Char) /\ Len(data) \in Nat /\ SimdBlockSize \in Nat \ {0}
         /\ Len(data) \div SimdBlockSize \in Nat /\ UncheckedEnd \in Nat
         /\ UncheckedEnd <= Len(data) /\ Len(data) < UncheckedEnd + SimdBlockSize
         /\ simdI \in Nat /\ simdI <= UncheckedEnd /\ mask \in SUBSET Nat /\ simdSeparatorIdxs \in Seq(Nat)
<1>1. data \in Seq(Char) /\ Len(data) \in Nat /\ SimdBlockSize \in Nat \ {0}
  BY DataAssumption, SimdBlockSizeAssumption DEF SimdTypes
<1>2. /\ Len(data) \div SimdBlockSize \in Nat /\ UncheckedEnd \in Nat
      /\ UncheckedEnd <= Len(data) /\ Len(data) < UncheckedEnd + SimdBlockSize
  BY <1>1, TailFits DEF UncheckedEnd
<1>3. simdI \in Nat /\ simdI <= UncheckedEnd
  BY <1>2 DEF SimdTypes
<1> QED BY <1>1, <1>2, <1>3 DEF SimdTypes, Bit

\* The smallest pending index continues the list.
LEMMA PendingMoves ==
  ASSUME NEW L \in SUBSET Nat, NEW P \in SUBSET L, NEW s \in Seq(Nat), Lists(s, L \ P),
         \A k \in 1 .. Len(s) : \A p \in P : s[k] < p,
         NEW x \in P, \A p \in P : x <= p
  PROVE  /\ Append(s, x) \in Seq(Nat)
         /\ Lists(Append(s, x), L \ (P \ {x}))
         /\ \A k \in 1 .. Len(Append(s, x)) : \A p \in P \ {x} : Append(s, x)[k] < p
<1>1. \A y \in L \ P : y < x
  BY DEF Lists
<1>2. (L \ P) \cup {x} = L \ (P \ {x})
  OBVIOUS
<1> DEFINE R == L \ P
           t == Append(s, x)
<1>3. t \in Seq(Nat) /\ Lists(t, R \cup {x})
  <2>1. R \in SUBSET Nat /\ x \in Nat /\ Lists(s, R) /\ \A y \in R : y < x
    BY <1>1
  <2> HIDE DEF R
  <2> QED BY <2>1, ListsAppend
<1>4. \A k \in 1 .. Len(t) : t[k] \in R \cup {x}
  BY <1>3 DEF Lists
<1>5. \A p \in P \ {x} : x < p
  OBVIOUS
<1>6. \A k \in 1 .. Len(t) : \A p \in P \ {x} : t[k] < p
  <2>1. \A k \in 1 .. Len(t) : t[k] \in Nat /\ t[k] <= x
    <3>1. x \in Nat /\ \A y \in R \cup {x} : y \in Nat /\ y <= x
      BY <1>1
    <3> HIDE DEF t, R
    <3> QED BY <1>4, <3>1
  <2> HIDE DEF t
  <2> QED BY <1>5, <2>1
<1> QED BY <1>2, <1>3, <1>6

\* The indices of a mask's bits that no block has added before.
LEMMA PendingLoaded ==
  ASSUME NEW text, NEW a \in Nat, NEW b \in Nat, a <= b, NEW s \in Seq(Nat),
         Lists(s, SeparatorsIn(text, 0, a)),
         NEW P, P = SeparatorsIn(text, a, b)
  PROVE  /\ Lists(s, SeparatorsIn(text, 0, b) \ P)
         /\ P \subseteq SeparatorsIn(text, 0, b)
         /\ \A k \in 1 .. Len(s) : \A p \in P : s[k] < p
<1>1. SeparatorsIn(text, 0, b) \ P = SeparatorsIn(text, 0, a)
  BY DEF SeparatorsIn
<1>2. P \subseteq SeparatorsIn(text, 0, b)
  BY DEF SeparatorsIn
<1>3. \A k \in 1 .. Len(s) : s[k] \in Nat /\ s[k] < a
  BY DEF Lists, SeparatorsIn
<1>4. \A p \in P : p \in Nat /\ a <= p
  BY DEF SeparatorsIn
<1>5. ASSUME NEW k \in 1 .. Len(s), NEW p \in P PROVE s[k] < p
  <2>1. s[k] \in Nat /\ s[k] < a /\ p \in Nat /\ a <= p
    BY <1>3, <1>4
  <2> QED BY <2>1
<1>6. Lists(s, SeparatorsIn(text, 0, b) \ P)
  BY <1>1
<1> QED BY <1>2, <1>5, <1>6

LEMMA SimdInit == Simd!Init => SimdInv
<1> SUFFICES ASSUME Simd!Init PROVE SimdInv
  OBVIOUS
<1>1. data \in Seq(Char) /\ Len(data) \in Nat /\ SimdBlockSize \in Nat \ {0}
  BY DataAssumption, SimdBlockSizeAssumption DEF Simd!Init
<1>2. UncheckedEnd \in Nat
  BY <1>1, TailFits DEF UncheckedEnd
<1>3. SimdTypes
  BY <1>2 DEF Simd!Init, SimdTypes
<1>4. Aligned
  <2>1. simdI = SimdBlockSize * 0
    BY <1>1 DEF Simd!Init
  <2> QED BY <2>1 DEF Simd!Init, Aligned
<1>5. Extracted
  <2>1. Pending = {} /\ LoadedTo = 0
    BY DEF Simd!Init, Pending, LoadedTo
  <2>2. SeparatorsIn(data, 0, LoadedTo) = {} /\ Lists(simdSeparatorIdxs, {})
    BY <2>1, NoSeparators DEF Simd!Init
  <2> QED BY <2>1, <2>2 DEF Extracted
<1> QED BY <1>3, <1>4, <1>5 DEF Simd!Init, SimdInv, SimdExact

LEMMA LoadBlockKeeps == SimdInv /\ Simd!LoadBlock => SimdInv'
<1> SUFFICES ASSUME SimdInv, Simd!LoadBlock PROVE SimdInv'
  OBVIOUS
<1>1. /\ simdPc = "blocks" /\ simdI < UncheckedEnd /\ simdPc' = "extract"
      /\ mask' = { b \in Bit : data[simdI + b + 1] = Separator }
      /\ UNCHANGED <<data, simdI, simdSeparatorIdxs, simdWordEnds>>
      /\ UncheckedEnd' = UncheckedEnd
  BY DEF Simd!LoadBlock, Simd!UncheckedEnd, Simd!Bit, UncheckedEnd, Bit
<1>2. SimdTypes'
  BY <1>1 DEF SimdInv, SimdTypes
<1>3. simdI + SimdBlockSize <= UncheckedEnd
  <2>1. PICK q \in Nat : simdI = SimdBlockSize * q
    BY DEF SimdInv, Aligned
  <2> QED BY <1>1, <2>1, BlockFits, SimdSizes DEF SimdInv, UncheckedEnd
<1>4. Aligned'
  BY <1>1, <1>3 DEF SimdInv, Aligned
<1>5. Extracted'
  <2>1. Pending' = SeparatorsIn(data, simdI, simdI + SimdBlockSize)
    <3>1. \A x \in SeparatorsIn(data, simdI, simdI + SimdBlockSize) :
             x - simdI \in Bit /\ x = simdI + (x - simdI) /\ data[simdI + (x - simdI) + 1] = Separator
      <4>1. \A x \in SeparatorsIn(data, simdI, simdI + SimdBlockSize) :
              x \in Nat /\ simdI <= x /\ x < simdI + SimdBlockSize /\ data[x + 1] = Separator
        BY SimdSizes DEF SimdInv, SeparatorsIn
      <4>2. \A x \in Nat : x = simdI + (x - simdI)
        BY SimdSizes DEF SimdInv
      <4>3. \A x \in SeparatorsIn(data, simdI, simdI + SimdBlockSize) : x - simdI \in Bit
        BY <4>1, SimdSizes DEF SimdInv, Bit
      <4> QED BY <4>1, <4>2, <4>3
    <3>2. \A b \in mask' : simdI + b \in SeparatorsIn(data, simdI, simdI + SimdBlockSize)
      BY <1>1, SimdSizes DEF SimdInv, SeparatorsIn, Bit
    <3>3. \A x \in SeparatorsIn(data, simdI, simdI + SimdBlockSize) : x - simdI \in mask'
      BY <1>1, <3>1
    <3>4. Pending' = { simdI + b : b \in mask' }
      BY <1>1 DEF Pending
    <3> QED BY <3>1, <3>2, <3>3, <3>4
  <2>2. LoadedTo' = simdI + SimdBlockSize /\ LoadedTo = simdI /\ Pending = {}
    BY <1>1 DEF SimdInv, Aligned, LoadedTo, Pending
  <2>3. Lists(simdSeparatorIdxs, SeparatorsIn(data, 0, simdI))
    <3>1. SeparatorsIn(data, 0, simdI) \ {} = SeparatorsIn(data, 0, simdI)
      OBVIOUS
    <3> QED BY <2>2, <3>1 DEF SimdInv, Extracted
  <2> DEFINE b == simdI + SimdBlockSize
             P == Pending'
  <2>4. simdI \in Nat /\ b \in Nat /\ simdI <= b /\ simdSeparatorIdxs \in Seq(Nat)
        /\ P = SeparatorsIn(data, simdI, b)
    BY <2>1, SimdSizes DEF SimdInv
  <2> HIDE DEF b, P
  <2>5. /\ Lists(simdSeparatorIdxs, SeparatorsIn(data, 0, b) \ P)
        /\ P \subseteq SeparatorsIn(data, 0, b)
        /\ \A k \in 1 .. Len(simdSeparatorIdxs) : \A p \in P : simdSeparatorIdxs[k] < p
    BY <2>3, <2>4, PendingLoaded
  <2> QED BY <1>1, <2>2, <2>5 DEF Extracted, b, P
<1> QED BY <1>1, <1>2, <1>4, <1>5 DEF SimdInv, SimdExact

LEMMA LoadTailKeeps == Separator # Nul /\ SimdInv /\ Simd!LoadTail => SimdInv'
<1> SUFFICES ASSUME Separator # Nul, SimdInv, Simd!LoadTail PROVE SimdInv'
  OBVIOUS
<1>1. /\ simdPc = "blocks" /\ simdPc' = "tail"
      /\ mask' = { b \in Bit : LastChars(b) = Separator }
      /\ UNCHANGED <<data, simdI, simdSeparatorIdxs, simdWordEnds>>
      /\ UncheckedEnd' = UncheckedEnd /\ simdI = UncheckedEnd
  BY SimdSizes DEF SimdInv, Simd!LoadTail, Simd!UncheckedEnd, Simd!Bit, Simd!LastChars,
     LastChars, UncheckedEnd, Bit
<1>2. SimdTypes'
  BY <1>1 DEF SimdInv, SimdTypes
<1>3. Aligned'
  BY <1>1 DEF SimdInv, Aligned
<1>4. \A b \in Bit : b \in mask' <=> simdI + b < Len(data) /\ data[simdI + b + 1] = Separator
  BY <1>1 DEF LastChars
<1>5. Extracted'
  <2>1. Pending' = SeparatorsIn(data, simdI, Len(data))
    <3>1. \A x \in SeparatorsIn(data, simdI, Len(data)) :
             x - simdI \in Bit /\ x = simdI + (x - simdI) /\ simdI + (x - simdI) < Len(data)
             /\ data[simdI + (x - simdI) + 1] = Separator
      BY <1>1, SimdSizes DEF SimdInv, SeparatorsIn, Bit
    <3>2. \A b \in mask' : simdI + b \in SeparatorsIn(data, simdI, Len(data))
      <4>1. mask' \subseteq Bit
        BY <1>1
      <4> QED BY <1>4, <4>1, SimdSizes DEF SimdInv, SeparatorsIn, Bit
    <3>3. \A x \in SeparatorsIn(data, simdI, Len(data)) : x - simdI \in mask'
      BY <1>4, <3>1
    <3>4. Pending' = { simdI + b : b \in mask' }
      BY <1>1 DEF Pending
    <3> QED BY <3>1, <3>2, <3>3, <3>4
  <2>2. LoadedTo' = Len(data) /\ LoadedTo = simdI /\ Pending = {}
    BY <1>1 DEF SimdInv, Aligned, LoadedTo, Pending
  <2>3. Lists(simdSeparatorIdxs, SeparatorsIn(data, 0, simdI))
    <3>1. SeparatorsIn(data, 0, simdI) \ {} = SeparatorsIn(data, 0, simdI)
      OBVIOUS
    <3> QED BY <2>2, <3>1 DEF SimdInv, Extracted
  <2> DEFINE b == Len(data)
             P == Pending'
  <2>4. simdI \in Nat /\ b \in Nat /\ simdI <= b /\ simdSeparatorIdxs \in Seq(Nat)
        /\ P = SeparatorsIn(data, simdI, b)
    BY <1>1, <2>1, SimdSizes DEF SimdInv
  <2> HIDE DEF b, P
  <2>5. /\ Lists(simdSeparatorIdxs, SeparatorsIn(data, 0, b) \ P)
        /\ P \subseteq SeparatorsIn(data, 0, b)
        /\ \A k \in 1 .. Len(simdSeparatorIdxs) : \A p \in P : simdSeparatorIdxs[k] < p
    BY <2>3, <2>4, PendingLoaded
  <2> QED BY <1>1, <2>2, <2>5 DEF Extracted, b, P
<1> QED BY <1>1, <1>2, <1>3, <1>5 DEF SimdInv, SimdExact

LEMMA ExtractBitKeeps == SimdInv /\ Simd!ExtractBit => SimdInv'
<1> SUFFICES ASSUME SimdInv, Simd!ExtractBit PROVE SimdInv'
  OBVIOUS
<1> DEFINE m == LowestBit(mask)
           x == simdI + m
<1>1. /\ simdPc \in {"extract", "tail"} /\ mask # {}
      /\ simdSeparatorIdxs' = Append(simdSeparatorIdxs, x) /\ mask' = mask \ {m}
      /\ UNCHANGED <<data, simdPc, simdI, simdWordEnds>>
      /\ UncheckedEnd' = UncheckedEnd /\ LoadedTo' = LoadedTo
  BY DEF Simd!ExtractBit, Simd!LowestBit, LowestBit, UncheckedEnd, LoadedTo
<1>2. m \in mask /\ \A c \in mask : m <= c
  BY <1>1, LowestIsLowest, SimdSizes DEF SimdInv
<1> HIDE DEF m
<1>3. x \in Pending /\ \A p \in Pending : x <= p
  BY <1>2, SimdSizes DEF SimdInv, Pending
<1>4. Pending' = Pending \ {x}
  BY <1>1, <1>2, SimdSizes DEF SimdInv, Pending
<1> DEFINE L == SeparatorsIn(data, 0, LoadedTo)
           P == Pending
<1>5. /\ L \in SUBSET Nat /\ P \in SUBSET L
      /\ simdSeparatorIdxs \in Seq(Nat) /\ Lists(simdSeparatorIdxs, L \ P)
      /\ \A k \in 1 .. Len(simdSeparatorIdxs) : \A p \in P : simdSeparatorIdxs[k] < p
  <2>1. LoadedTo \in Nat
    BY SimdSizes DEF SimdInv, LoadedTo
  <2>2. L \in SUBSET Nat
    BY <2>1 DEF SeparatorsIn
  <2> QED BY <2>2, SimdSizes DEF SimdInv, Extracted
<1>6. x \in P /\ \A p \in P : x <= p
  BY <1>3
<1> HIDE DEF L, P, x
<1>7. /\ Append(simdSeparatorIdxs, x) \in Seq(Nat)
      /\ Lists(Append(simdSeparatorIdxs, x), L \ (P \ {x}))
      /\ \A k \in 1 .. Len(Append(simdSeparatorIdxs, x)) :
           \A p \in P \ {x} : Append(simdSeparatorIdxs, x)[k] < p
  BY <1>5, <1>6, PendingMoves
<1>8. Extracted'
  <2>1. SeparatorsIn(data, 0, LoadedTo)' = L /\ Pending' = P \ {x}
    BY <1>1, <1>4 DEF L, P
  <2> QED BY <1>1, <1>5, <1>7, <2>1 DEF Extracted
<1>9. SimdTypes'
  BY <1>1, <1>7 DEF SimdInv, SimdTypes
<1>10. Aligned'
  BY <1>1 DEF SimdInv, Aligned
<1> QED BY <1>1, <1>8, <1>9, <1>10 DEF SimdInv, SimdExact

LEMMA SimdEndBlockKeeps == SimdInv /\ Simd!EndBlock => SimdInv'
<1> SUFFICES ASSUME SimdInv, Simd!EndBlock PROVE SimdInv'
  OBVIOUS
<1>1. /\ simdPc = "extract" /\ mask = {} /\ simdI' = simdI + SimdBlockSize /\ simdPc' = "blocks"
      /\ UNCHANGED <<data, mask, simdSeparatorIdxs, simdWordEnds>>
      /\ UncheckedEnd' = UncheckedEnd
  BY DEF Simd!EndBlock, UncheckedEnd
<1>2. simdI' \in 0 .. UncheckedEnd
  BY <1>1, SimdSizes DEF SimdInv, Aligned
<1>3. SimdTypes'
  BY <1>1, <1>2 DEF SimdInv, SimdTypes
<1>4. Aligned'
  <2>1. PICK q \in Nat : simdI = SimdBlockSize * q
    BY DEF SimdInv, Aligned
  <2>2. simdI' = SimdBlockSize * (q + 1) /\ q + 1 \in Nat
    BY <1>1, <2>1, SimdBlockSizeAssumption
  <2> QED BY <1>1, <2>2 DEF Aligned
<1>5. Extracted'
  <2>1. Pending = {} /\ Pending' = {} /\ LoadedTo' = LoadedTo
    BY <1>1 DEF Pending, LoadedTo
  <2> QED BY <1>1, <2>1 DEF SimdInv, Extracted
<1> QED BY <1>1, <1>3, <1>4, <1>5 DEF SimdInv, SimdExact

LEMMA SimdWordEndsKeeps == SimdInv /\ Simd!WordEnds => SimdInv'
<1> SUFFICES ASSUME SimdInv, Simd!WordEnds PROVE SimdInv'
  OBVIOUS
<1>1. /\ simdPc = "tail" /\ mask = {} /\ simdPc' = "done"
      /\ simdWordEnds' = WithDataEnd(simdSeparatorIdxs, Len(data))
      /\ UNCHANGED <<data, simdI, mask, simdSeparatorIdxs>> /\ UncheckedEnd' = UncheckedEnd
  BY DEF Simd!WordEnds, Simd!WithDataEnd, WithDataEnd, UncheckedEnd
<1>2. Pending = {} /\ LoadedTo = Len(data) /\ Pending' = Pending /\ LoadedTo' = LoadedTo
  BY <1>1 DEF Pending, LoadedTo
<1>3. Lists(simdSeparatorIdxs, SeparatorsIn(data, 0, Len(data)))
  <2>1. SeparatorsIn(data, 0, Len(data)) \ {} = SeparatorsIn(data, 0, Len(data))
    OBVIOUS
  <2> QED BY <1>2, <2>1 DEF SimdInv, Extracted
<1>4. simdWordEnds' \in Seq(Nat) /\ IsWordEnds(simdWordEnds', data)
  BY <1>1, <1>3, SimdSizes, EndAdded DEF SimdInv
<1>5. SimdTypes'
  BY <1>1, <1>4 DEF SimdInv, SimdTypes
<1>6. Aligned'
  BY <1>1 DEF SimdInv, Aligned
<1>7. Extracted'
  BY <1>1, <1>2 DEF SimdInv, Extracted
<1> QED BY <1>1, <1>4, <1>5, <1>6, <1>7 DEF SimdInv, SimdExact

LEMMA SimdNext ==
  Separator # Nul /\ SimdInv /\ [Simd!Next]_<<data, simdVars>> => SimdInv'
<1>1. SimdInv /\ UNCHANGED <<data, simdVars>> => SimdInv'
  BY DEF simdVars, SimdInv, SimdTypes, Aligned, Extracted, SimdExact, Pending, LoadedTo,
    UncheckedEnd
<1>2. Simd!Returned => UNCHANGED <<data, simdVars>>
  BY DEF Simd!Returned, Simd!vars, simdVars
<1> QED BY <1>1, <1>2, LoadBlockKeeps, LoadTailKeeps, ExtractBitKeeps, SimdEndBlockKeeps,
           SimdWordEndsKeeps
        DEF Simd!Next

-----------------------------------------------------------------------------
(* Both builds.                                                            *)

\* Each build moves the variables of its own invariant only.
LEMMA InvNext ==
  ASSUME [Next]_<<data, scalarVars, simdVars>>
  PROVE  [Scalar!Next]_<<data, scalarVars>> /\ [Simd!Next]_<<data, simdVars>>
<1>1. ASSUME SplitWithoutSimd PROVE UNCHANGED data
  BY <1>1 DEF SplitWithoutSimd, Scalar!Next, Scalar!BeginBlock, Scalar!Scan, Scalar!EndBlock,
    Scalar!WordEnds, Scalar!Returned, Scalar!vars
<1>2. ASSUME SplitWithSimd PROVE UNCHANGED data
  BY <1>2 DEF SplitWithSimd, Simd!Next, Simd!LoadBlock, Simd!LoadTail, Simd!ExtractBit,
    Simd!EndBlock, Simd!WordEnds, Simd!Returned, Simd!vars
<1> QED BY <1>1, <1>2 DEF Next, Returned, SplitWithoutSimd, SplitWithSimd

\* The scalar build never writes behind its buffer (index.hpp:124), for every
\* text and every size of a block.
THEOREM BufferNeverOverrun == Spec => []RoomInBuffer
<1>1. Init => ScalarInv
  BY ScalarInit DEF Init
<1>2. ScalarInv => RoomInBuffer
  <2> SUFFICES ASSUME ScalarInv, pc = "scan", j < BlockEnd PROVE separatorC < BlockSize
    BY DEF RoomInBuffer, Scalar!RoomInBuffer, Scalar!BlockEnd, BlockEnd
  <2> QED BY Sizes DEF ScalarInv, ScanBounds
<1>3. ScalarInv /\ [Next]_<<data, scalarVars, simdVars>> => ScalarInv'
  BY InvNext, ScalarNext
<1> QED BY <1>1, <1>2, <1>3, PTL DEF Spec

\* Both builds answer the documented ends (index.hpp:28-30), for every text and
\* every two sizes of blocks, if the separator is not the filling character.
THEOREM BothEndsExact ==
  ASSUME Separator # Nul
  PROVE  Spec => []EndsExact
<1>1. Init => ScalarInv /\ SimdInv
  BY ScalarInit, SimdInit DEF Init
<1>2. ScalarInv => Scalar!EndsExact
  BY DEF ScalarInv, ScalarExact, IsWordEnds, Lists, Increasing, SeparatorsIn,
    Scalar!EndsExact, Scalar!IsWordEnds, Scalar!Lists, Scalar!Increasing, Scalar!SeparatorsIn
<1>3. SimdInv => Simd!EndsExact
  BY DEF SimdInv, SimdExact, IsWordEnds, Lists, Increasing, SeparatorsIn,
    Simd!EndsExact, Simd!IsWordEnds, Simd!Lists, Simd!Increasing, Simd!SeparatorsIn
<1>4. ScalarInv /\ SimdInv /\ [Next]_<<data, scalarVars, simdVars>> => ScalarInv' /\ SimdInv'
  BY InvNext, ScalarNext, SimdNext
<1> QED BY <1>1, <1>2, <1>3, <1>4, PTL DEF Spec, EndsExact

=============================================================================
