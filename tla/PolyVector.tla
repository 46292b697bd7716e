----------------------------- MODULE PolyVector -----------------------------
(***************************************************************************)
(* poly_vector: arrays of several types in one buffer, behind an array of  *)
(* their lengths (raw_poly_vector<size_t, Ts...>).  The buffer is          *)
(* allocated for the layout computed by realloc and copied as one piece.   *)
(***************************************************************************)
EXTENDS Integers, FiniteSets, Sequences

CONSTANTS
  Types,     \* sequence of [size, align], the size_t of the lengths first
  MinAlign,  \* alignof(std::max_align_t)
  Lengths,   \* lengths an array may have
  Objects

PolyVectorAssumption ==
  /\ MinAlign \in Nat \ {0} /\ Lengths \subseteq Nat
  /\ Types \in Seq([size : Nat \ {0}, align : Nat \ {0}]) /\ Len(Types) >= 2
  /\ \A i \in DOMAIN Types :   \* powers of two
       Types[i].align < MinAlign => MinAlign % Types[i].align = 0

VARIABLES
  vector  \* object that exists -> its buffer, of which the first bytes are written

vars == vector

Blocks == DOMAIN Types
Shapes == [2 .. Len(Types) -> Lengths]

TypeAlign(i) == IF Types[i].align > MinAlign THEN Types[i].align ELSE MinAlign

\* Mutant: rounded down, into the block before.
RoundUp_Down(offset, align) == (offset \div align) * align

RoundUp(offset, align) == ((offset + align - 1) \div align) * align

\* make_sizes_array: the first block holds one length for each other block.
SizesArray(shape) ==
  [i \in Blocks |-> IF i = 1 THEN Len(Types) - 1 ELSE shape[i]]

\* Where realloc lets each block end, and before the first.
Ends(sizes) ==
  LET end[i \in 0 .. Len(Types)] ==
        IF i = 0 THEN 0 ELSE RoundUp(end[i - 1], TypeAlign(i)) + Types[i].size * sizes[i]
  IN end

Realloc(shape) ==
  LET end == Ends(SizesArray(shape))
  IN [begins |-> [i \in Blocks |-> RoundUp(end[i - 1], TypeAlign(i))],
      bytes |-> end[Len(Types)]]

NoBuffer == [begins |-> <<>>, bytes |-> 0, written |-> 0, shape |-> <<>>]

With(buffer, shape, written) ==
  [begins |-> buffer.begins, bytes |-> buffer.bytes, written |-> written, shape |-> shape]

\* min_raw_size: up to the end of the last block.
MinRawSize(v) ==
  LET last == Len(Types)
  IN v.begins[last] + Types[last].size * v.shape[last]

-----------------------------------------------------------------------------

\* The lengths are written, the arrays are not.
Construct(o, shape) ==
  /\ o \notin DOMAIN vector
  /\ vector' = [x \in DOMAIN vector \cup {o} |->
                  IF x = o THEN With(Realloc(shape), shape, Types[1].size * SizesArray(shape)[1])
                  ELSE vector[x]]

Usable(o) == vector[o].bytes > 0

\* Copy construction and assignment: a buffer of the same lengths, then one
\* memcpy.  An object assigned to itself is left alone.
Copy(o, from) ==
  /\ Usable(from) /\ o # from
  /\ vector' = [x \in DOMAIN vector \cup {o} |->
                  IF x = o
                  THEN With(Realloc(vector[from].shape), vector[from].shape,
                            MinRawSize(vector[from]))
                  ELSE vector[x]]

\* The other object is left without a buffer; one that is moved to itself
\* as well.
Move(o, from) ==
  vector' = [x \in DOMAIN vector \cup {o} |->
               IF x = from THEN NoBuffer ELSE IF x = o THEN vector[from] ELSE vector[x]]

Destroy(o) == vector' = [x \in DOMAIN vector \ {o} |-> vector[x]]

Init == vector = <<>>

Next ==
  \/ \E o \in Objects, shape \in Shapes : Construct(o, shape)
  \/ \E o \in Objects, from \in DOMAIN vector : Copy(o, from) \/ Move(o, from)
  \/ \E o \in DOMAIN vector : Destroy(o)

Spec == Init /\ [][Next]_vars

-----------------------------------------------------------------------------
(* Properties.                                                             *)

Block(v, i) ==
  v.begins[i] .. v.begins[i] + (Types[i].size * SizesArray(v.shape)[i]) - 1

(***************************************************************************)
(* In every buffer each block is aligned for its type and the blocks share *)
(* no byte and stay inside; what a copy wrote fits in the buffer and       *)
(* covers every block, the lengths were written at the least.              *)
(***************************************************************************)
BlocksApart ==
  \A o \in DOMAIN vector : Usable(o) =>
    LET v == vector[o]
    IN /\ \A i \in Blocks :
            /\ v.begins[i] % Types[i].align = 0
            /\ Block(v, i) \subseteq 0 .. v.bytes - 1
            /\ \A j \in Blocks \ {i} : Block(v, i) \cap Block(v, j) = {}
       /\ v.written <= v.bytes
       /\ Block(v, 1) \subseteq 0 .. v.written - 1
       /\ \/ v.written = Cardinality(Block(v, 1))
          \/ \A i \in Blocks : Block(v, i) \subseteq 0 .. v.written - 1
=============================================================================
