------------------------------ MODULE SolveRaw ------------------------------
(***************************************************************************)
(* dev::solve_raw (lbs_solver/incl/solver/solver.hpp:81-149) and the dfs   *)
(* it runs (algorithm.hpp:34-84).                                          *)
(*                                                                         *)
(* One action is one turn of the dfs loop with the whole next_state        *)
(* callback it makes; every path of that callback is an action of its own. *)
(* The for loop over `depth' has no step of its own: it advances in the    *)
(* turn that makes dfs return.                                             *)
(*                                                                         *)
(* `depth' and the length of a path count the edge of the router, so a     *)
(* chain of k words is a path of length k + 1.                             *)
(***************************************************************************)
EXTENDS BoxGraph

CONSTANTS
  MinSolutionSize,       \* words of the shortest solutions looked for (1)
  MaxSearchSize,         \* words of the longest (3)
  MaxSolutions,          \* no new depth or turn once so many are found (20)
  StateCacheMinDepth,    \* no state is cached up to this depth (2)
  Graphs                 \* the instances

ASSUME SettingsAssumption ==
  /\ MinSolutionSize \in Nat \ {0}
  /\ MaxSearchSize \in Nat /\ MinSolutionSize <= MaxSearchSize
  /\ MaxSolutions \in Nat \ {0}
  /\ StateCacheMinDepth \in Nat

\* A path length and a depth are stored in the uint8_t of a cache entry, next
\* to the ceiling 255 of an entry never reached.
NotReached == 255

ASSUME CacheAssumption == MaxSearchSize + 1 < NotReached

ASSUME GraphsAssumption == \A g \in Graphs : WordGraph(g)

VARIABLES
  outgoing,    \* the `outgoing' vector of every node; never modified
  pc,          \* "start": not called yet, "dfs": in the loop, "done": returned
  depth,       \* the variable of the for loop
  stack,       \* dfs: one position in an `outgoing' vector per level
  states,      \* dfs: the letters used on the way to each level
  path,        \* dfs: the edges taken; overwritten, never shortened
  cache,       \* stateDepthCache
  solutions    \* what solve_raw returns

vars == <<outgoing, pc, depth, stack, states, path, cache, solutions>>

dfsVars == <<stack, states, path>>

(***************************************************************************)
(* A cache entry: the shortest path that expanded this state, and the      *)
(* depth of the search that expanded it.                                   *)
(***************************************************************************)
Entry == [ceiling : 0 .. NotReached, created : 0 .. NotReached]

\* delete_bit: the bits above idx move down by one.
DeleteBit(x, idx) ==
  { b \in x : b < idx } \cup { b - 1 : b \in { c \in x : c > idx } }

\* nextIdx * MAX_STATES + compress_hash(...) for masks of one bit less: the
\* index of a cache entry is a node and a compressed mask.
CacheKey == Node \X SUBSET (0 .. BoxChars - 2)

\* The key of a state: the bit of the node the path ends in carries no
\* information, it is deleted from the mask (compress_hash).
KeyOf(idx, hash) == <<idx, DeleteBit(hash, idx)>>

Top == stack[Len(stack)]

\* stack.back().empty()
AtEnd == Top.pos > Len(Outgoing(outgoing, Top.node))

NextEdge == EdgeAt(outgoing, Top)

PathWithTop_AppendsOnly ==   \* mutant: the level is not overwritten
  IF Len(path) < Len(stack) THEN Append(path, Top) ELSE path

\* The path with nextEdge on the level of the stack.
PathWithTop ==
  [i \in 1 .. (IF Len(path) < Len(stack) THEN Len(path) + 1 ELSE Len(path)) |->
     IF i = Len(stack) THEN Top ELSE path[i]]

\* The path the callback is shown: a view that ends at the stack's level.
PathView == SubSeq(PathWithTop, 1, Len(stack))

PathSize == Len(stack)

ExtendedHash_PrevOnly == states[Len(states)]   \* mutant: the edge is left out

\* prev | lastEdge->wordHash
ExtendedHash == states[Len(states)] \cup NextEdge.wordHash

Advanced(s) == [s EXCEPT ![Len(s)].pos = @ + 1]

\* early_terminate_instance: no word at all covers some letter.
EarlyTerminateInstance ==
  UNION { outgoing[r.node][r.pos].wordHash : r \in WordRefs(outgoing) } # SolutionMask

StopFn_TooLate == Len(solutions) > MaxSolutions   \* mutant: off by one

StopFn == Len(solutions) >= MaxSolutions

FirstDepth_SkipsOne == MinSolutionSize + 2   \* mutant: off by one

FirstDepth == MinSolutionSize + 1

MoreDepths_OneMore == depth <= MaxSearchSize + 1   \* mutant: off by one

\* After depth++: depth <= MAX_SEARCH_SIZE + 1.
MoreDepths == depth <= MaxSearchSize

-----------------------------------------------------------------------------
InitSearch ==
  /\ pc = "start"
  /\ depth = 0
  /\ stack = <<>> /\ states = <<>> /\ path = <<>>
  /\ cache = [k \in CacheKey |-> [ceiling |-> NotReached, created |-> 0]]
  /\ solutions = <<>>

Init == outgoing \in Graphs /\ InitSearch

\* A call of dfs: an iterator over the router's edges, the initial state.
CallDfs ==
  /\ stack' = <<[node |-> Router, pos |-> 1]>>
  /\ states' = << {} >>
  /\ path' = <<>>

EarlyTerminate ==
  /\ pc = "start"
  /\ EarlyTerminateInstance
  /\ pc' = "done"
  /\ UNCHANGED <<outgoing, depth, dfsVars, cache, solutions>>

StartSearch ==
  /\ pc = "start"
  /\ ~EarlyTerminateInstance
  /\ pc' = "dfs"
  /\ depth' = FirstDepth
  /\ CallDfs
  /\ UNCHANGED <<outgoing, cache, solutions>>

\* while(!stop_fn()) ends: dfs returns false, depth++, the for loop ends too.
StopDfs ==
  /\ pc = "dfs" /\ StopFn
  /\ pc' = "done"
  /\ depth' = depth + 1
  /\ UNCHANGED <<outgoing, dfsVars, cache, solutions>>

\* The router has no edge left: dfs returns true; depth++.
FinishDfs ==
  /\ pc = "dfs" /\ ~StopFn /\ AtEnd
  /\ Len(stack) = 1
  /\ depth' = depth + 1
  /\ UNCHANGED <<outgoing, cache, solutions>>

\* The for loop goes on (fewer than MaxSolutions are found: dfs was not
\* stopped) or it ends.
NextDepth ==
  /\ FinishDfs
  /\ MoreDepths
  /\ CallDfs
  /\ UNCHANGED pc

LastDepth ==
  /\ FinishDfs
  /\ ~MoreDepths
  /\ pc' = "done"
  /\ UNCHANGED dfsVars

Backtrack_KeepsState ==   \* mutant: the state of the level is not popped
  /\ pc = "dfs" /\ ~StopFn /\ AtEnd
  /\ Len(stack) > 1
  /\ stack' = Advanced(SubSeq(stack, 1, Len(stack) - 1))
  /\ UNCHANGED <<outgoing, pc, depth, states, path, cache, solutions>>

Backtrack_Stays ==   \* mutant: the parent does not move to its next edge
  /\ pc = "dfs" /\ ~StopFn /\ AtEnd
  /\ Len(stack) > 1
  /\ stack' = SubSeq(stack, 1, Len(stack) - 1)
  /\ states' = SubSeq(states, 1, Len(states) - 1)
  /\ UNCHANGED <<outgoing, pc, depth, path, cache, solutions>>

\* A node has no edge left: back to its parent, which moves to its next edge.
Backtrack ==
  /\ pc = "dfs" /\ ~StopFn /\ AtEnd
  /\ Len(stack) > 1
  /\ stack' = Advanced(SubSeq(stack, 1, Len(stack) - 1))
  /\ states' = SubSeq(states, 1, Len(states) - 1)
  /\ UNCHANGED <<outgoing, pc, depth, path, cache, solutions>>

\* The next edge is written into the path and shown to the callback.
TakeEdge ==
  /\ pc = "dfs" /\ ~StopFn /\ ~AtEnd
  /\ path' = PathWithTop
  /\ UNCHANGED <<outgoing, pc, depth>>

\* The callback returned a state: a new level over the destination's edges.
Push(hash) ==
  /\ stack' = Append(stack, [node |-> NextEdge.to, pos |-> 1])
  /\ states' = Append(states, hash)

\* The callback returned nothing: the edge is skipped.
Prune ==
  /\ stack' = Advanced(stack)
  /\ UNCHANGED states

\* The edge of the router does not count.
EnterBox ==
  /\ TakeEdge
  /\ PathSize <= 1
  /\ Push({})
  /\ UNCHANGED <<cache, solutions>>

\* A path of full length is a solution or it is not; it is never extended.
Leaf ==
  /\ TakeEdge
  /\ PathSize > 1 /\ PathSize = depth
  /\ solutions' = IF ExtendedHash = SolutionMask THEN Append(solutions, PathView)
                  ELSE solutions
  /\ Prune
  /\ UNCHANGED cache

ExpandUncached_StaleState ==   \* mutant: the state is passed on unchanged
  /\ TakeEdge
  /\ PathSize > 1 /\ PathSize # depth
  /\ depth <= StateCacheMinDepth
  /\ Push(states[Len(states)])
  /\ UNCHANGED <<cache, solutions>>

ExpandUncached ==
  /\ TakeEdge
  /\ PathSize > 1 /\ PathSize # depth
  /\ depth <= StateCacheMinDepth
  /\ Push(ExtendedHash)
  /\ UNCHANGED <<cache, solutions>>

Superseded_ByAnyIteration(e) == e.ceiling <= PathSize   \* mutant: no creationDepth

Superseded_SameLength(e) ==   \* mutant: a shorter path does not count
  e.ceiling = PathSize /\ e.created >= depth

\* The entry says: expanded by a shorter path, or by one of the same length
\* in this very iteration.
Superseded(e) ==
  e.ceiling < PathSize \/ (e.ceiling <= PathSize /\ e.created >= depth)

LookUp ==
  /\ TakeEdge
  /\ PathSize > 1 /\ PathSize # depth
  /\ depth > StateCacheMinDepth

NextKey == KeyOf(NextEdge.to, ExtendedHash)

CachePrune ==
  /\ LookUp
  /\ Superseded(cache[NextKey])
  /\ Prune
  /\ UNCHANGED <<cache, solutions>>

CacheExpand_DepthForSize ==   \* mutant: the ceiling is the depth
  /\ LookUp
  /\ ~Superseded(cache[NextKey])
  /\ cache' = [cache EXCEPT ![NextKey] = [ceiling |-> depth, created |-> depth]]
  /\ Push(ExtendedHash)
  /\ UNCHANGED solutions

CacheExpand ==
  /\ LookUp
  /\ ~Superseded(cache[NextKey])
  /\ cache' = [cache EXCEPT ![NextKey] = [ceiling |-> PathSize, created |-> depth]]
  /\ Push(ExtendedHash)
  /\ UNCHANGED solutions

Returned ==
  /\ pc = "done"
  /\ UNCHANGED vars

Next ==
  \/ EarlyTerminate \/ StartSearch
  \/ StopDfs \/ NextDepth \/ LastDepth \/ Backtrack
  \/ EnterBox \/ Leaf \/ ExpandUncached \/ CachePrune \/ CacheExpand
  \/ Returned

Spec == Init /\ [][Next]_vars /\ WF_vars(Next)

-----------------------------------------------------------------------------
(***************************************************************************)
(* Words: a path without the edge of the router.                           *)
(***************************************************************************)
WordsOf(p) == SubSeq(p, 2, Len(p))

\* The words of q end in the node and use the letters of state <<n, m>>.
Reaches(q, n, m) ==
  EdgeAt(outgoing, q[Len(q)]).to = n /\ PathHash(outgoing, q, Len(q)) = m

Chains(k) == { c \in [1 .. k -> WordRefs(outgoing)] : Linked(outgoing, c, k) }

-----------------------------------------------------------------------------
\* Every variable keeps its type: the stack is never empty while dfs runs
\* (stack.back() is defined), no level is past its end by more than one, and
\* every cache access is within the cache.
TypeOK ==
  /\ outgoing \in Graphs
  /\ pc \in {"start", "dfs", "done"}
  /\ depth \in 0 .. MaxSearchSize + 2
  /\ stack \in Seq(EdgeRef)
  /\ states \in Seq(SUBSET Node)
  /\ path \in Seq(EdgeRef)
  /\ cache \in [CacheKey -> Entry]
  /\ solutions \in Seq(Seq(EdgeRef))

(***************************************************************************)
(* The three stacks of dfs agree: `states' is as high as `stack', `path'   *)
(* is at most one level short (so path[stack.size() - 1] exists when it is *)
(* written), the part of `path' below the top of the stack is where the    *)
(* stack stands, and each state is exactly the set of letters of the path  *)
(* that leads to its level, whatever was overwritten or backtracked.       *)
(***************************************************************************)
StacksAgree ==
  pc = "dfs" =>
    /\ depth \in FirstDepth .. MaxSearchSize + 1
    /\ Len(stack) \in 1 .. depth
    /\ Len(states) = Len(stack)
    /\ Len(path) >= Len(stack) - 1
    /\ stack[1].node = Router
    /\ \A i \in 1 .. Len(stack) - 1 :
         /\ path[i] = stack[i]
         /\ Refers(outgoing, stack[i])
         /\ stack[i + 1].node = EdgeAt(outgoing, stack[i]).to
    /\ Top.pos \in Positions(outgoing, Top.node)
    /\ \A i \in 1 .. Len(states) : states[i] = PathHash(outgoing, stack, i - 1)

\* A path that solve_raw may return: from the router, along edges that exist
\* and meet, over every letter, with an allowed number of words.
IsSolution(g, p) ==
  /\ Len(p) \in MinSolutionSize + 1 .. MaxSearchSize + 1
  /\ p[1].node = Router
  /\ \A i \in 2 .. Len(p) : p[i].node # Router
  /\ \A i \in 1 .. Len(p) : Refers(g, p[i])
  /\ Linked(g, p, Len(p))
  /\ PathHash(g, p, Len(p)) = SolutionMask

\* Whatever is returned is a solution, although the mask it was accepted for
\* was put together on other levels and the path overwritten many times.
ReportsSolve == \A i \in 1 .. Len(solutions) : IsSolution(outgoing, solutions[i])

\* No solution is returned twice, by one iteration or by two, and no more
\* than MaxSolutions are: the loop looks at the limit after every report.
ReportedOnce ==
  /\ Len(solutions) <= MaxSolutions
  /\ \A i, j \in 1 .. Len(solutions) : i # j => solutions[i] # solutions[j]

\* Deleting a bit and closing the gap loses nothing: of all the masks a path
\* to the next node can have, only its own has the key that is looked up.
CacheKeyLossless ==
  (pc = "dfs" /\ ~AtEnd /\ Len(stack) > 1) =>
    { m \in SUBSET Node : NextEdge.to \in m /\ KeyOf(NextEdge.to, m) = NextKey } = {ExtendedHash}

(***************************************************************************)
(* A ceiling is the length of the shortest path to its state, not of the   *)
(* first one found: were it longer, a shorter path would still be searched,*)
(* were it shorter, one would be lost.  It holds while every iteration     *)
(* caches, i.e. in the shipped settings, where the threshold stops none.   *)
(***************************************************************************)
CeilingIsShortest ==
  \A n \in Node, m \in SUBSET Node :
    LET e == cache[KeyOf(n, m)] IN
      (n \in m /\ e.ceiling # NotReached) =>
        /\ \E c \in Chains(e.ceiling - 1) : Reaches(c, n, m)
        /\ \A k \in 1 .. e.ceiling - 2 : \A c \in Chains(k) : ~Reaches(c, n, m)

(***************************************************************************)
(* Pruning loses no answer: unless the limit was hit, for every covering   *)
(* chain some returned solution is no longer and ends in the same word.    *)
(***************************************************************************)
FinalWordsComplete ==
  (pc = "done" /\ ~StopFn) =>
    \A k \in MinSolutionSize .. MaxSearchSize :
      \A c \in CoveringChains(outgoing, k) :
        \E i \in 1 .. Len(solutions) :
          /\ Len(WordsOf(solutions[i])) <= k
          /\ solutions[i][Len(solutions[i])] = c[k]

\* README.md:18 promises more: only paths longer than the optimal one are
\* pruned, so every solution of the shortest length is returned.
EveryOptimalChainReported ==
  (pc = "done" /\ ~StopFn /\ solutions # <<>>) =>
    \A c \in CoveringChains(outgoing, Len(solutions[1]) - 1) :
      \E i \in 1 .. Len(solutions) : WordsOf(solutions[i]) = c

\* A state's ceiling never rises: a state once expanded by a short path is
\* not expanded by a longer one, in this iteration or in a later one.
CeilingsSink == [][\A k \in CacheKey : cache'[k].ceiling <= cache[k].ceiling]_cache

\* solve_raw keeps the promise of ChainSearch, which includes an end: the
\* cycles of the graph are no trap.
Answer == INSTANCE ChainSearch WITH
  MinWords <- MinSolutionSize,
  MaxWords <- MaxSearchSize,
  graph <- outgoing,
  found <- [i \in 1 .. Len(solutions) |-> WordsOf(solutions[i])],
  finished <- pc = "done"

AnswersRefine == Answer!Spec

=============================================================================
