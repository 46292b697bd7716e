------------------------------ MODULE MiniRam ------------------------------
(***************************************************************************)
(* basic_miniram: an offset allocator.  RAM is cut into nodes, each free   *)
(* or used, that know their neighbours.  Free nodes hang in lists, one per *)
(* bin; a bin is a size rounded to a float of MantissaBits bits.  Node ids *)
(* are recycled over a stack: freeNodes[sp ..] are the free ones.          *)
(*                                                                         *)
(* The whole object is one record, so that a function of the class is an   *)
(* operator from the record before to the record after.  The two levels of *)
(* bit masks (top bins, leaf bins) are the set usedBins of the bins whose  *)
(* bits are set.  Fields that are written again before they are read (those *)
(* of an id on the stack, the list links of a used node) are reset at once.*)
(***************************************************************************)
EXTENDS Integers, FiniteSets, Sequences

CONSTANTS
  MantissaBits,   \* three in the code
  TopBins,        \* bits of a size_type
  Capacity,       \* of the constructor
  InitialAllocs,  \* initial_alloc_capacity of the constructor
  Sizes,          \* requested sizes, not zero
  MaxNodes        \* bound of the model: node ids that may be reserved

VARIABLES
  ram,    \* the object
  allocs  \* allocations handed out and not given back yet

Invalid == -1

\* 1 << n.
Power(n) == LET power[k \in 0 .. n] == IF k = 0 THEN 1 ELSE 2 * power[k - 1] IN power[n]

MiniRamAssumption ==
  /\ MantissaBits \in Nat \ {0} /\ TopBins \in Nat \ {0}
  /\ Capacity \in Nat /\ InitialAllocs \in Nat \ {0}
  /\ Sizes \subseteq Nat \ {0} /\ MaxNodes \in Nat
  /\ Capacity < Power(TopBins)   \* a size_type

MantissaValue == Power(MantissaBits)
Bin == 0 .. TopBins * MantissaValue - 1
NoSpace == [offset |-> Invalid, id |-> Invalid]

-----------------------------------------------------------------------------
(* The floats that bins are named by.                                      *)

HighestBit(number) ==
  CHOOSE b \in 0 .. number : Power(b) <= number /\ number < Power(b + 1)

\* Mutant: what is cut off is not rounded up, as in FloorToFloat.
CeilToFloat_Truncates(size) ==
  IF size < MantissaValue THEN size
  ELSE LET start == HighestBit(size) - MantissaBits
       IN ((start + 1) * MantissaValue) + ((size \div Power(start)) % MantissaValue)

CeilToFloat(size) ==
  IF size < MantissaValue THEN size
  ELSE LET start == HighestBit(size) - MantissaBits
           mantissa == (size \div Power(start)) % MantissaValue
           roundUp == IF size % Power(start) # 0 THEN 1 ELSE 0
       IN ((start + 1) * MantissaValue) + mantissa + roundUp

FloorToFloat(size) ==
  IF size < MantissaValue THEN size
  ELSE LET start == HighestBit(size) - MantissaBits
       IN ((start + 1) * MantissaValue) + ((size \div Power(start)) % MantissaValue)

ToUint(float) ==
  IF float < MantissaValue THEN float
  ELSE ((float % MantissaValue) + MantissaValue) * Power((float \div MantissaValue) - 1)

-----------------------------------------------------------------------------
(* Nodes.                                                                  *)

FreshNode ==
  [dataOffset |-> 0, dataSize |-> 0, binPrev |-> Invalid, binNext |-> Invalid,
   prev |-> Invalid, next |-> Invalid, used |-> FALSE]

NodeCount(r) == Cardinality(DOMAIN r.nodes)
RemainingAllocs(r) == NodeCount(r) - r.sp

\* Sets a field of a node, unless there is no such node.
Linked(nodes, id, field, value) ==
  IF id = Invalid THEN nodes ELSE [nodes EXCEPT ![id][field] = value]

ReserveNodes(r, count) ==
  IF count <= NodeCount(r) THEN r
  ELSE LET grown(old, fresh(_)) ==
             [i \in 0 .. count - 1 |-> IF i \in DOMAIN old THEN old[i] ELSE fresh(i)]
       IN [r EXCEPT !.nodes = grown(@, LAMBDA i : FreshNode),
                    !.freeNodes = grown(@, LAMBDA i : i)]

\* A pop of an empty stack is the critical check that ends the program.
InsertNode(r, size, offset) ==
  IF r.sp >= NodeCount(r) THEN [r EXCEPT !.aborted = TRUE]
  ELSE LET id == r.freeNodes[r.sp]
           bin == FloorToFloat(size)
           head == r.bins[bin]
           node == [FreshNode EXCEPT !.dataOffset = offset, !.dataSize = size,
                                     !.binNext = head]
       IN [r EXCEPT !.freeStorage = @ + size,
                    !.sp = @ + 1,
                    !.nodes = Linked([@ EXCEPT ![id] = node], head, "binPrev", id),
                    !.usedBins = IF head = Invalid THEN @ \cup {bin} ELSE @,
                    !.bins[bin] = id]

PushFreeNode(r, id) ==
  [r EXCEPT !.sp = @ - 1, !.freeNodes[r.sp - 1] = id, !.nodes[id] = FreshNode]

UnlinkHead(r, bin, next) ==
  [r EXCEPT !.bins[bin] = next,
            !.nodes = Linked(@, next, "binPrev", Invalid),
            !.usedBins = IF next = Invalid THEN @ \ {bin} ELSE @]

RemoveNode(r, id) ==
  LET node == r.nodes[id]
      unlinked ==
        IF node.binPrev # Invalid
        THEN [r EXCEPT !.nodes = Linked(Linked(@, node.binPrev, "binNext", node.binNext),
                                        node.binNext, "binPrev", node.binPrev)]
        ELSE UnlinkHead(r, FloorToFloat(node.dataSize), node.binNext)
  IN PushFreeNode([unlinked EXCEPT !.freeStorage = @ - node.dataSize], id)

\* The new node follows (precedes) its neighbours in the chain.
Join(r, prev, id, next) ==
  [r EXCEPT !.nodes =
     Linked(Linked([@ EXCEPT ![id].prev = prev, ![id].next = next],
                   next, "prev", id),
            prev, "next", id)]

\* The id that an insertion into r will take.
TopFreeNode(r) == r.freeNodes[r.sp]

-----------------------------------------------------------------------------
(* allocate                                                                *)

SliceTopBinNode(r, size, bin) ==
  LET id == r.bins[bin]
      node == r.nodes[id]
      reminder == node.dataSize - size
      taken == UnlinkHead([r EXCEPT !.freeStorage = @ - node.dataSize,
                                    !.nodes[id].dataSize = size,
                                    !.nodes[id].used = TRUE,
                                    !.nodes[id].binNext = Invalid],
                          bin, node.binNext)
      cut == InsertNode(taken, reminder, node.dataOffset + size)
  IN IF reminder = 0 THEN taken
     ELSE IF cut.aborted THEN cut
     ELSE Join(cut, id, TopFreeNode(taken), node.next)

\* No bin: the search of both mask levels came to nothing.
FittingBin(r, size) ==
  LET fitting == { b \in r.usedBins : b >= CeilToFloat(size) }
  IN IF fitting = {} THEN Invalid ELSE CHOOSE b \in fitting : \A c \in fitting : b <= c

AllocateResult(r, size) ==
  LET reserved == IF RemainingAllocs(r) # 0 THEN r
                  ELSE ReserveNodes(r, 2 * (NodeCount(r) - 1) + 1)
      bin == FittingBin(reserved, size)
      id == reserved.bins[bin]
  IN IF size > r.freeStorage THEN [ram |-> r, alloc |-> NoSpace]
     ELSE IF bin = Invalid THEN [ram |-> reserved, alloc |-> NoSpace]
     ELSE [ram |-> SliceTopBinNode(reserved, size, bin),
           alloc |-> [offset |-> reserved.nodes[id].dataOffset, id |-> id]]

MaxAlloc(r) ==
  IF r.freeStorage = 0 THEN 0
  ELSE ToUint(CHOOSE b \in r.usedBins : \A c \in r.usedBins : b >= c)

-----------------------------------------------------------------------------
(* free                                                                    *)

IsFree(r, id) == id # Invalid /\ ~r.nodes[id].used

FreeNode(r, id) ==
  LET node == r.nodes[id]
      before == IF IsFree(r, node.prev) THEN r.nodes[node.prev]
                ELSE [FreshNode EXCEPT !.dataOffset = node.dataOffset, !.prev = node.prev]
      after == IF IsFree(r, node.next) THEN r.nodes[node.next]
               ELSE [FreshNode EXCEPT !.next = node.next]
      merged1 == IF IsFree(r, node.prev) THEN RemoveNode(r, node.prev) ELSE r
      merged2 == IF IsFree(r, node.next) THEN RemoveNode(merged1, node.next) ELSE merged1
      returned == PushFreeNode(merged2, id)
      combined == InsertNode(returned, before.dataSize + node.dataSize + after.dataSize,
                             before.dataOffset)
  IN Join(combined, before.prev, TopFreeNode(returned), after.next)

-----------------------------------------------------------------------------
(* clear, defragment, resize                                               *)

DefragmentReset(r) ==
  [r EXCEPT !.usedBins = {}, !.bins = [b \in Bin |-> Invalid], !.freeStorage = 0]

\* maxAllocs is handed over once: later calls reserve nothing.
Clear(r) ==
  InsertNode(
    ReserveNodes([DefragmentReset(r) EXCEPT !.sp = 0, !.maxAllocs = 0], r.maxAllocs + 1),
    r.capacity, 0)

\* The members of S, sorted by a number that each has.
Sorted(S, number) ==
  CHOOSE order \in [1 .. Cardinality(S) -> S] :
    \A j, k \in DOMAIN order :
      j < k => order[j] # order[k] /\ number[order[j]] <= number[order[k]]

UsedNodes(r) ==
  Sorted({ i \in DOMAIN r.nodes : r.nodes[i].used },
         [i \in DOMAIN r.nodes |-> r.nodes[i].dataOffset])

Listed(updatedAllocs) == { updatedAllocs[k] : k \in DOMAIN updatedAllocs }

\* The last move takes more along.
Prolonged(moves, size) ==
  LET last == moves[Len(moves)]
  IN [moves EXCEPT ![Len(moves)] = [last EXCEPT !.size = last.size + size]]

\* Adds node id to the report: nodes are moved left one after the other, a
\* node that followed the one before it without a gap prolongs its move.
CompactNode(acc, id) ==
  LET node == acc.nodes[id]
      prev == acc.prevNode
      contiguous == /\ prev # Invalid /\ acc.moves # <<>>
                    /\ node.dataOffset = acc.prevOldOffset + acc.nodes[prev].dataSize
  IN [offset |-> acc.offset + node.dataSize,
      prevNode |-> id,
      prevOldOffset |-> node.dataOffset,
      updated |-> Append(acc.updated, [offset |-> acc.offset, id |-> id]),
      moves |-> IF node.dataOffset = acc.offset THEN acc.moves
                ELSE IF contiguous
                THEN Prolonged(acc.moves, node.dataSize)
                ELSE Append(acc.moves, [src |-> node.dataOffset, dst |-> acc.offset,
                                        size |-> node.dataSize]),
      nodes |-> Linked([acc.nodes EXCEPT ![id] = [@ EXCEPT !.dataOffset = acc.offset,
                                                           !.prev = prev]],
                       prev, "next", id)]

CompactUsedNodes(r) ==
  LET order == UsedNodes(r)
      start == [offset |-> 0, prevNode |-> Invalid, prevOldOffset |-> 0,
                updated |-> <<>>, moves |-> <<>>, nodes |-> r.nodes]
      compacted[k \in 0 .. Len(order)] ==
        IF k = 0 THEN start ELSE CompactNode(compacted[k - 1], order[k])
      all == compacted[Len(order)]
  IN [all EXCEPT !.nodes = Linked(@, all.prevNode, "next", Invalid)]

InsertBehind(r, size, offset, prev) ==
  LET inserted == InsertNode(r, size, offset)
  IN IF size = 0 THEN r
     ELSE IF inserted.aborted THEN inserted
     ELSE Join(inserted, prev, TopFreeNode(r), Invalid)

\* The free space behind the used nodes: a block as large as its bin, and
\* what is left of it.
ReconstructFreeSpace(r, offset, last) ==
  LET total == r.capacity - offset
      main == ToUint(FloorToFloat(total))
      withMain == InsertBehind(r, main, offset, last)
      mainNode == IF main = 0 THEN last ELSE TopFreeNode(r)
  IN IF withMain.aborted THEN withMain
     ELSE InsertBehind(withMain, total - main, offset + main, mainNode)

\* The ids that are not used are written to the front of freeNodes.
CollectFreeNodes(r) ==
  LET unused == Sorted({ i \in DOMAIN r.nodes : ~r.nodes[i].used }, [i \in DOMAIN r.nodes |-> i])
  IN [r EXCEPT !.sp = Len(unused),
               !.freeNodes = [i \in DOMAIN @ |->
                                IF i < Len(unused) THEN unused[i + 1] ELSE @[i]]]

Defragment(r, newSize) ==
  LET report == CompactUsedNodes(r)
      compacted == DefragmentReset([CollectFreeNodes(r) EXCEPT !.nodes = report.nodes,
                                                               !.capacity = newSize])
  IN [ram |-> IF newSize > report.offset
              THEN ReconstructFreeSpace(compacted, report.offset, report.prevNode)
              ELSE compacted,
      updatedAllocs |-> report.updated, moves |-> report.moves]

\* Mutant: the last chunk, shorter than the others, is forgotten.
DisjunctCopies_DropsRest(move) ==
  LET chunk == move.src - move.dst
  IN IF move.size <= chunk THEN <<move>>
     ELSE [k \in 1 .. move.size \div chunk |->
             [src |-> move.src + (k - 1) * chunk, dst |-> move.dst + (k - 1) * chunk,
              size |-> chunk]]

\* A move over a distance less than its size is cut into chunks of that size.
DisjunctCopies(move) ==
  LET chunk == move.src - move.dst
      count == (move.size + chunk - 1) \div chunk
  IN IF move.size <= chunk THEN <<move>>
     ELSE [k \in 1 .. count |->
             [src |-> move.src + (k - 1) * chunk, dst |-> move.dst + (k - 1) * chunk,
              size |-> IF k < count THEN chunk ELSE move.size - (count - 1) * chunk]]

ToDisjunctCopies(moves) ==
  LET copies[k \in 0 .. Len(moves)] ==
        IF k = 0 THEN <<>> ELSE copies[k - 1] \o DisjunctCopies(moves[k])
  IN copies[Len(moves)]

-----------------------------------------------------------------------------

Init ==
  /\ allocs = {}
  /\ ram = Clear([nodes |-> [i \in {} |-> FreshNode], freeNodes |-> [i \in {} |-> 0],
                  sp |-> 0, maxAllocs |-> InitialAllocs, capacity |-> Capacity,
                  bins |-> <<>>, usedBins |-> {}, freeStorage |-> 0, aborted |-> FALSE])

Allocate(size) ==
  LET result == AllocateResult(ram, size)
  IN /\ NodeCount(result.ram) <= MaxNodes
     /\ ram' = result.ram
     /\ allocs' = IF result.alloc = NoSpace THEN allocs
                  ELSE allocs \cup {[id |-> result.alloc.id, size |-> size,
                                     offset |-> result.alloc.offset]}

Free(a) ==
  /\ ram' = FreeNode(ram, a.id)
  /\ allocs' = allocs \ {a}

ReserveAllocations(count) ==
  /\ count + 1 <= MaxNodes
  /\ ram' = ReserveNodes(ram, count + 1)
  /\ UNCHANGED allocs

Next ==
  \/ \E size \in Sizes : Allocate(size)
  \/ \E a \in allocs : Free(a)
  \/ \E count \in 1 .. MaxNodes : ReserveAllocations(count)

vars == <<ram, allocs>>

Spec == Init /\ [][Next]_vars

\* With the calls that rebuild the object.
ClearAll ==
  /\ ram' = Clear(ram)
  /\ allocs' = {}

Resize(newSize) ==
  LET result == Defragment(ram, newSize)
  IN /\ ~ram.aborted
     /\ ram' = result.ram
     /\ allocs' = { [id |-> u.id, offset |-> u.offset, size |-> ram.nodes[u.id].dataSize] :
                      u \in Listed(result.updatedAllocs) }

MaintainedSpec ==
  Init /\ [][Next \/ ClearAll \/ Resize(ram.capacity)]_vars

-----------------------------------------------------------------------------
(* Properties.                                                             *)

LiveIds(r) == DOMAIN r.nodes \ { r.freeNodes[i] : i \in r.sp .. NodeCount(r) - 1 }

Holes(r) == { i \in LiveIds(r) : ~r.nodes[i].used }

HoleSizes(r) ==
  LET sum[n \in 0 .. NodeCount(r)] ==
        IF n = 0 THEN 0
        ELSE sum[n - 1] + (IF n - 1 \in Holes(r) THEN r.nodes[n - 1].dataSize ELSE 0)
  IN sum[NodeCount(r)]

(***************************************************************************)
(* No id is taken from an empty stack: the check in popFreeNode never      *)
(* fails.                                                                  *)
(***************************************************************************)
FreeNodeLeft == ~ram.aborted

\* The ids on the free stack are different and none of them is in use.
FreeStackHonest ==
  /\ \A i, j \in ram.sp .. NodeCount(ram) - 1 :
       i # j => ram.freeNodes[i] # ram.freeNodes[j]
  /\ \A i \in ram.sp .. NodeCount(ram) - 1 : ~ram.nodes[ram.freeNodes[i]].used

(***************************************************************************)
(* The nodes in use tile the RAM: each ends where its neighbour begins,    *)
(* the links agree in both directions, there is one first and one last     *)
(* node, no two holes are neighbours, the used nodes are exactly the       *)
(* allocations the caller holds, and the remaining storage is that of the  *)
(* holes.                                                                  *)
(***************************************************************************)
RamTiled ==
  LET node == ram.nodes
  IN /\ FreeNodeLeft /\ FreeStackHonest
     /\ \A i \in LiveIds(ram) :
          IF node[i].next = Invalid THEN node[i].dataOffset + node[i].dataSize = ram.capacity
          ELSE /\ node[i].next \in LiveIds(ram)
               /\ node[node[i].next].prev = i
               /\ node[node[i].next].dataOffset = node[i].dataOffset + node[i].dataSize
               /\ node[i].used \/ node[node[i].next].used
     /\ \E first \in LiveIds(ram) :
          /\ node[first].dataOffset = 0
          /\ { i \in LiveIds(ram) : node[i].prev = Invalid } = {first}
     /\ allocs = { [id |-> i, offset |-> node[i].dataOffset, size |-> node[i].dataSize] :
                     i \in LiveIds(ram) \ Holes(ram) }
     /\ ram.freeStorage = HoleSizes(ram)

\* The list of a bin, as free_regions follows it: Invalid behind its end.
BinList(r, bin) ==
  LET walk[k \in 0 .. NodeCount(r)] ==
        IF k = 0 THEN r.bins[bin]
        ELSE IF walk[k - 1] = Invalid THEN Invalid ELSE r.nodes[walk[k - 1]].binNext
  IN walk

Met(walk) == { k \in DOMAIN walk : walk[k] # Invalid }

FreeRegions(r) ==
  [b \in Bin |-> [size |-> ToUint(b), count |-> Cardinality(Met(BinList(r, b)))]]

(***************************************************************************)
(* Every hole is in the list of the bin of its size, once, and no other    *)
(* node is in a list; the bits say which lists are not empty.  So a region *)
(* that free_regions counts is at least as large as it says.               *)
(***************************************************************************)
BinsExact ==
  \A b \in Bin :
    LET holes == { i \in Holes(ram) : FloorToFloat(ram.nodes[i].dataSize) = b }
        list == BinList(ram, b)
    IN /\ { list[k] : k \in Met(list) } = holes
       /\ FreeRegions(ram)[b].count = Cardinality(holes)
       /\ b \in ram.usedBins <=> holes # {}
       /\ \A i \in holes : ram.nodes[i].dataSize >= FreeRegions(ram)[b].size

(***************************************************************************)
(* allocatable is right: a size up to max_alloc is allocated, a larger one *)
(* is refused, although bins are searched by a size rounded up and filled  *)
(* by a size rounded down.  A refusal takes nothing.                       *)
(***************************************************************************)
AllocatableExact ==
  \A size \in Sizes :
    LET result == AllocateResult(ram, size)
    IN IF size <= MaxAlloc(ram) /\ ram.usedBins # {}
       THEN result.alloc # NoSpace
       ELSE result.alloc = NoSpace /\ result.ram.nodes = ReserveNodes(ram, NodeCount(result.ram)).nodes

Copied(memory, copy) ==
  [x \in DOMAIN memory |->
     IF x \in copy.dst .. copy.dst + copy.size - 1
     THEN memory[x - copy.dst + copy.src] ELSE memory[x]]

\* What memory holds behind the copies, made one after the other.
CarriedOut(memory, copies) ==
  LET after[k \in 0 .. Len(copies)] ==
        IF k = 0 THEN memory ELSE Copied(after[k - 1], copies[k])
  IN after[Len(copies)]

(***************************************************************************)
(* A caller that carries out the moves of a defragmentation, cut by        *)
(* to_disjunct_copies and one after the other, finds the data of every     *)
(* allocation at its new offset; no copy overlaps with its source; the     *)
(* allocations stand at the left without a gap.                            *)
(***************************************************************************)
CompactionKeepsData ==
  LET report == Defragment(ram, ram.capacity)
      copies == ToDisjunctCopies(report.moves)
      before == [x \in 0 .. ram.capacity - 1 |->
                   { <<a.id, x - a.offset>> :
                       a \in { b \in allocs : x \in b.offset .. b.offset + b.size - 1 } }]
      after == CarriedOut(before, copies)
      moved == Listed(report.updatedAllocs)
  IN /\ \A k \in DOMAIN copies : copies[k].src >= copies[k].dst + copies[k].size
     /\ { u.id : u \in moved } = { a.id : a \in allocs }
     /\ \A u \in moved : \A a \in { b \in allocs : b.id = u.id } :
          \A x \in 0 .. a.size - 1 : after[u.offset + x] = {<<a.id, x>>}
     /\ \A u \in moved : \A x \in 0 .. u.offset - 1 :
          \E v \in moved : \E a \in { b \in allocs : b.id = v.id } :
            x \in v.offset .. v.offset + a.size - 1
=============================================================================
