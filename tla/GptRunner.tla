------------------------------ MODULE GptRunner ------------------------------
(***************************************************************************)
(* LetterBoxedSolver of the benchmarks (runner/bench/gpt_runner.hpp): a    *)
(* second solver, by iterative deepening over the words themselves, whose  *)
(* answer the benchmarks compare with the one of solve.  A mask of letters *)
(* is the set of them; a loop that ends with the first success is the      *)
(* choice of the first position that succeeds.                             *)
(***************************************************************************)
EXTENDS Integers, Sequences

CONSTANTS
  Letter,        \* a .. z
  Separator,     \* every character that ends a word
  CharsPerSide,  \* three
  MaxDepth       \* three

First(S) == CHOOSE k \in S : \A l \in S : k <= l

LettersIn(s) == { s[k] : k \in DOMAIN s }

\* char_to_side: the last place of a letter counts.
CharToSide(box) ==
  [c \in LettersIn(box) |->
     LET places == { k \in DOMAIN box : box[k] = c }
         last == CHOOSE k \in places : \A l \in places : l <= k
     IN (last - 1) \div CharsPerSide]

\* Where the scan of the text stands after it has skipped separators.
WordStarts(csv) ==
  { k \in 1 .. Len(csv) : csv[k] # Separator /\ (k = 1 \/ csv[k - 1] = Separator) }

\* The word it reads from there, up to the next separator or the end.
WordAt(csv, start) ==
  SubSeq(csv, start,
         First({ k \in start .. Len(csv) : k = Len(csv) \/ csv[k + 1] = Separator }))

\* Mutant: the side of a letter is not looked at.
IsValid_AnySide(box, word) ==
  /\ Len(word) >= 3
  /\ \A k \in 1 .. Len(word) : word[k] \in DOMAIN CharToSide(box)

IsValid(box, word) ==
  /\ Len(word) >= 3
  /\ \A k \in 1 .. Len(word) : word[k] \in DOMAIN CharToSide(box)
  /\ \A k \in 1 .. Len(word) - 1 : CharToSide(box)[word[k]] # CharToSide(box)[word[k + 1]]

\* valid_words_by_start, as places in the text.
ValidWords(box, csv, start) ==
  { k \in WordStarts(csv) : IsValid(box, WordAt(csv, k)) /\ csv[k] = start }

\* A call of dfs, the calls it makes being deeper: the words that it adds to
\* the path, as the set of the one way that is found or of none.
Dfs(box, csv, left, deeper, char, mask) ==
  LET ways(k) ==
        LET word == WordAt(csv, k)
        IN { <<word>> \o rest : rest \in deeper[word[Len(word)]][mask \cup LettersIn(word)] }
      good == { k \in ValidWords(box, csv, char) : ways(k) # {} }
  IN IF mask = LettersIn(box) THEN { <<>> }
     ELSE IF left = 0 \/ good = {} THEN {}
     ELSE ways(First(good))

\* dfs, with so many words left.
GptSearch(box, csv) ==
  LET dfs[left \in 0 .. MaxDepth] ==
        [char \in Letter |->
           [mask \in SUBSET Letter |-> Dfs(box, csv, left, dfs[left - 1], char, mask)]]
  IN dfs

GptRun(box, csv) ==
  LET ways(depth, k) == GptSearch(box, csv)[depth][box[k]][{}]
      starts(depth) == { k \in DOMAIN box : ways(depth, k) # {} }
      depths == { d \in 1 .. MaxDepth : starts(d) # {} }
  IN IF depths = {} THEN <<>>
     ELSE CHOOSE path \in ways(First(depths), First(starts(First(depths)))) : TRUE
=============================================================================
