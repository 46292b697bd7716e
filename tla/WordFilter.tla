----------------------------- MODULE WordFilter -----------------------------
(***************************************************************************)
(* filter_and_hash (lbs_solver/incl/solver/index.hpp:218-259): the words   *)
(* of the list that can be played in the box, with their letter masks.     *)
(***************************************************************************)
EXTENDS BoxIndex, Splitting

CONSTANT Inputs       \* boxes, word lists and the word ends of the lists

\* word_ends has found the ends (see SplitScalar and SplitSimd).
ASSUME InputsAssumption ==
  \A in \in Inputs :
    /\ in.characters \in BoxCharsView
    /\ in.csv \in Seq(Letter \cup {Separator})
    /\ in.wordEnds \in Seq(Nat)
    /\ IsWordEnds(in.wordEnds, in.csv)

ASSUME SeparatorAssumption == Separator \notin Letter

VARIABLES
  input,           \* the arguments; never modified
  filtering,       \* "words": at the head of the loop, "letters": of the inner
  w,               \* the position in wordEnds
  begin,           \* the first index of the word
  i,               \* the letter looked at next
  wordHash,        \* the mask of the letters so far
  words,           \* the views kept
  wordHashes       \* and their masks

filterVars == <<input, filtering, w, begin, i, wordHash, words, wordHashes>>

Index == CompressionIndex(input.characters)

End == input.wordEnds[w]

Size == End - begin

MoreWords == w <= Len(input.wordEnds)

CharAt(k) == input.csv[begin + k + 1]

\* The masks of the letter and of the one before it share a bit.
Overlap ==
  LET masks == CharFilterMasks(Index)
  IN masks[CharAt(i)] \cap masks[CharAt(i - 1)] # {}

InitFilter ==
  /\ filtering = "words"
  /\ w = 1 /\ begin = 0 /\ i = 0
  /\ wordHash = {}
  /\ words = <<>> /\ wordHashes = <<>>

Init == input \in Inputs /\ InitFilter

NextWord_OffByOne ==   \* mutant: a letter of the next word is skipped
  /\ filtering' = "words"
  /\ begin' = End + 2
  /\ w' = w + 1

NextWord ==
  /\ filtering' = "words"
  /\ begin' = End + 1
  /\ w' = w + 1

SkipEmpty ==
  /\ filtering = "words" /\ MoreWords
  /\ Size = 0
  /\ NextWord
  /\ UNCHANGED <<input, i, wordHash, words, wordHashes>>

TakeWord_KeepsHash ==   \* mutant: the mask is not reset
  /\ filtering = "words" /\ MoreWords
  /\ Size # 0
  /\ \E flag \in BitFlags(Index[CharAt(0)]) : wordHash' = wordHash \cup flag
  /\ i' = 1
  /\ filtering' = "letters"
  /\ UNCHANGED <<input, w, begin, words, wordHashes>>

\* size is unsigned: any other value is greater than zero.
TakeWord ==
  /\ filtering = "words" /\ MoreWords
  /\ Size # 0
  /\ wordHash' \in BitFlags(Index[CharAt(0)])
  /\ i' = 1
  /\ filtering' = "letters"
  /\ UNCHANGED <<input, w, begin, words, wordHashes>>

\* The mask is extended before the overlap is looked at.
HashLetter ==
  /\ filtering = "letters" /\ i < Size
  /\ \E flag \in BitFlags(Index[CharAt(i)]) : wordHash' = wordHash \cup flag
  /\ UNCHANGED <<input, words, wordHashes>>

NextLetter ==
  /\ HashLetter
  /\ ~Overlap
  /\ i' = i + 1
  /\ UNCHANGED <<filtering, w, begin>>

\* break: the word is dropped.
Drop ==
  /\ HashLetter
  /\ Overlap
  /\ NextWord
  /\ UNCHANGED i

Keep ==
  /\ filtering = "letters" /\ i = Size
  /\ words' = Append(words, [begin |-> begin, size |-> Size])
  /\ wordHashes' = Append(wordHashes, wordHash)
  /\ NextWord
  /\ UNCHANGED <<input, i, wordHash>>

Filtered == filtering = "words" /\ ~MoreWords

Filter == SkipEmpty \/ TakeWord \/ NextLetter \/ Drop \/ Keep

Next == Filter \/ (Filtered /\ UNCHANGED filterVars)

Spec == Init /\ [][Next]_filterVars

-----------------------------------------------------------------------------
\* The views into a list.
View(in) == [begin : 0 .. Len(in.csv), size : 0 .. Len(in.csv)]

\* No index leaves the list: in particular the unsigned difference of a word's
\* end and begin never wraps around, also after the last separator.
TypeOK ==
  /\ filtering \in {"words", "letters"}
  /\ w \in 1 .. Len(input.wordEnds) + 1
  /\ begin \in 0 .. Len(input.csv) + 1
  /\ MoreWords => begin <= End
  /\ i \in Nat
  /\ filtering = "letters" => MoreWords /\ i \in 1 .. Size
  /\ wordHash \in SUBSET (Node \cup 0 .. MaskBits - 1)
  /\ words \in Seq(View(input))
  /\ wordHashes \in Seq(SUBSET (Node \cup 0 .. MaskBits - 1))
  /\ Len(words) = Len(wordHashes)

(***************************************************************************)
(* The words of a list, from its text alone: between two separators, not   *)
(* empty.                                                                  *)
(***************************************************************************)
IsWord(csv, b, n) ==
  /\ n > 0 /\ b + n <= Len(csv)
  /\ b = 0 \/ csv[b] = Separator
  /\ b + n = Len(csv) \/ csv[b + n + 1] = Separator
  /\ \A k \in b + 1 .. b + n : csv[k] # Separator

\* The side a letter stands on.
SideOf(characters, c) == CompressionIndex(characters)[c] \div CharsPerSide

InBox(characters, c) == PlacesOf(characters, c) # {}

\* The rules of the game; a word of one letter passes any box.
Playable(in, b, n) ==
  n > 1 =>
    /\ \A k \in b + 1 .. b + n : InBox(in.characters, in.csv[k])
    /\ \A k \in b + 2 .. b + n :
         SideOf(in.characters, in.csv[k - 1]) # SideOf(in.characters, in.csv[k])

(***************************************************************************)
(* The filter is exact at every word: of the words before `begin' those    *)
(* are kept that can be played, each once and in the order of the list.    *)
(***************************************************************************)
FilterExact ==
  /\ \A k, l \in 1 .. Len(words) : k < l => words[k].begin < words[l].begin
  /\ \A b, n \in 0 .. Len(input.csv) :
       (\E k \in 1 .. Len(words) : words[k] = [begin |-> b, size |-> n])
         <=> (b < begin /\ IsWord(input.csv, b, n) /\ Playable(input, b, n))

\* The mask of a word of the box has the bit of each of its letters and no
\* other: nothing is left of a word that was dropped halfway.
HashesExact ==
  \A k \in 1 .. Len(words) :
    LET letters == { input.csv[words[k].begin + l] : l \in 1 .. words[k].size }
    IN (\A c \in letters : InBox(input.characters, c))
         => wordHashes[k] = { Index[c] : c \in letters }

\* index.hpp:177 "Invalid chars overlap with everything. Any overlap =>
\* invalid word": no word with a letter outside of the box is kept.
InvalidDropped ==
  \A k \in 1 .. Len(words) : \A l \in 1 .. words[k].size :
    InBox(input.characters, input.csv[words[k].begin + l])

=============================================================================
