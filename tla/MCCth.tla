-------------------------------- MODULE MCCth --------------------------------
(***************************************************************************)
(* Values for the parts of Cth.  Types stands for the lengths and arrays   *)
(* of a small, an over-aligned and a plain type; the jobs are all options  *)
(* of three a's over three b's in some order, and selections to choose one *)
(* element of each.                                                        *)
(***************************************************************************)
EXTENDS Cth

LOCAL INSTANCE SequencesExt

CONSTANTS a1, a2, b1

Example == INSTANCE CoroutinePrograms

MCPrograms == Example!MCPrograms
MCHome == Example!MCHome

MCUnits ==
  {"ram", "ring", "pool", "forest", "owner", "poly", "coro", "fence", "switch", "socket",
   "assign", "stream", "log"}

MCGroups == { <<>>, <<2>>, <<0, 1>>, <<1, 0, 3>>, <<0, 2, 1>>, <<3, 1, 2>> }

MCTypes ==
  << [size |-> 8, align |-> 8], [size |-> 3, align |-> 1],
     [size |-> 32, align |-> 32], [size |-> 4, align |-> 4] >>

Options == { SetToSortSeq(s, <) : s \in SUBSET (1 .. 3) } \cup {<<3, 1>>, <<2, 1, 3>>}

MCJobs ==
  [algorithm : {"assign"}, options : [1 .. 3 -> Options],
   bMax : {<<1, 1, 1>>, <<2, 1, 0>>, <<1, 3, 1>>}]
  \cup [algorithm : {"assign"}, options : [1 .. 2 -> Options], bMax : {<<3, 3, 3>>}]
  \cup [algorithm : {"unique"}, options : [1 .. 3 -> Options], bMax : {<<1, 1, 1>>}]
=============================================================================
