------------------------------- MODULE Combine -------------------------------
(***************************************************************************)
(* assign: every a gets one of the b's it may have, no b more than b_max   *)
(* a's, and as few to one b as possible.  The capacity of the b's is a     *)
(* level that rises by one; at each level every a without a b looks for an *)
(* augmenting path.  unique_combine is the same search for one element out *)
(* of each selection: one level, and the first failure ends it.            *)
(***************************************************************************)
EXTENDS Integers, FiniteSets, Sequences

CONSTANT Jobs  \* records: algorithm ("assign" or "unique"), options, bMax

VARIABLES
  job,
  aToB,   \* the b of each a that has one
  bToA,   \* the a's of each b, in the order of the vector
  level,  \* current_b_max is this or b_max, whichever is less
  turn,   \* the a that is looked at next
  result  \* "none" until the end, then "assigned" or "empty"

vars == <<job, aToB, bToA, level, turn, result>>

As == DOMAIN job.options
Bs == DOMAIN job.bMax
Nothing == 0

Elements(seq) == { seq[k] : k \in DOMAIN seq }

\* Options are indices into b_max, checked at the beginning; without an a
\* there is nothing to do; a selection is for one of each element.
CombineAssumption ==
  \A j \in Jobs :
    /\ j.algorithm \in {"assign", "unique"}
    /\ j.bMax \in Seq(Nat) /\ j.options \in Seq(Seq(DOMAIN j.bMax)) /\ j.options # <<>>
    /\ j.algorithm = "unique" => \A b \in DOMAIN j.bMax : j.bMax[b] = 1

CurrentMax(b) == IF level < job.bMax[b] THEN level ELSE job.bMax[b]

-----------------------------------------------------------------------------
(* One search: breadth first from a over its options to the a's that hold  *)
(* them.  parentB and parentA record the way, queue all the a's that were  *)
(* visited, in order.                                                      *)

\* An a that was not visited is visited after b, which it holds.
Push(search, b, a) ==
  IF a \in Elements(search.queue) THEN search
  ELSE [search EXCEPT !.queue = Append(@, a), !.parentA = [@ EXCEPT ![a] = b]]

Displace(search, b) ==
  LET pushed[k \in 0 .. Len(bToA[b])] ==
        IF k = 0 THEN search ELSE Push(pushed[k - 1], b, bToA[b][k])
  IN pushed[Len(bToA[b])]

\* Mutant: the room of b is not bounded by the level.
Visit_AbsoluteMax(search, currentA, b) ==
  LET reached == [search EXCEPT !.parentB = [@ EXCEPT ![b] = currentA]]
  IN IF search.end # Nothing \/ search.parentB[b] # Nothing THEN search
     ELSE IF Len(bToA[b]) < job.bMax[b] THEN [reached EXCEPT !.end = b]
     ELSE Displace(reached, b)

Visit(search, currentA, b) ==
  LET reached == [search EXCEPT !.parentB = [@ EXCEPT ![b] = currentA]]
  IN IF search.end # Nothing \/ search.parentB[b] # Nothing THEN search
     ELSE IF Len(bToA[b]) < CurrentMax(b) THEN [reached EXCEPT !.end = b]
     ELSE Displace(reached, b)

\* The options of the next a of the queue.
VisitOptions(search, a) ==
  LET visited[k \in 0 .. Len(job.options[a])] ==
        IF k = 0 THEN search ELSE Visit(visited[k - 1], a, job.options[a][k])
  IN visited[Len(job.options[a])]

FindAugmentingPath(start) ==
  LET searched[n \in 0 .. Len(job.options)] ==
        LET last == searched[n - 1]
        IN IF n = 0 THEN [queue |-> <<start>>, end |-> Nothing,
                          parentB |-> [b \in Bs |-> Nothing],
                          parentA |-> [a \in As |-> Nothing]]
           ELSE IF n > Len(last.queue) \/ last.end # Nothing THEN last
           ELSE VisitOptions(last, last.queue[n])
  IN searched[Len(job.options)]

\* Swap and pop.
Without(seq, a) ==
  LET at == CHOOSE k \in DOMAIN seq : seq[k] = a
  IN [k \in 1 .. Len(seq) - 1 |-> IF k = at THEN seq[Len(seq)] ELSE seq[k]]

\* The a that b was reached from moves to b, away from the b it holds.
MoveUp(path, moved) ==
  LET a == path.parentB[moved.b]
      previous == path.parentA[a]
      left == IF previous = Nothing THEN moved.bToA
              ELSE [moved.bToA EXCEPT ![previous] = Without(@, a)]
  IN [b |-> previous,
      aToB |-> [moved.aToB EXCEPT ![a] = moved.b],
      bToA |-> [left EXCEPT ![moved.b] = Append(@, a)]]

\* Backtrack from the end of the path, to where no b was given up.
Flipped(path) ==
  LET moved[n \in 0 .. Len(job.options)] ==
        IF n = 0 THEN [b |-> path.end, aToB |-> aToB, bToA |-> bToA]
        ELSE IF moved[n - 1].b = Nothing THEN moved[n - 1]
        ELSE MoveUp(path, moved[n - 1])
  IN moved[Len(job.options)]

-----------------------------------------------------------------------------

Init ==
  /\ job \in Jobs
  /\ aToB = [a \in As |-> Nothing] /\ bToA = [b \in Bs |-> <<>>]
  /\ level = 0 /\ turn = Len(job.options) + 1
  /\ result = "none"

Unassigned == { a \in As : aToB[a] = Nothing }

Place ==
  LET path == FindAugmentingPath(turn)
      flipped == Flipped(path)
  IN /\ aToB[turn] = Nothing /\ path.end # Nothing
     /\ aToB' = flipped.aToB /\ bToA' = flipped.bToA
     /\ UNCHANGED result

\* assign tries again at the next level, unique_combine gives up.
DeadEnd ==
  /\ aToB[turn] = Nothing /\ FindAugmentingPath(turn).end = Nothing
  /\ result' = IF job.algorithm = "unique" THEN "empty" ELSE result
  /\ UNCHANGED <<aToB, bToA>>

Turn ==
  /\ result = "none" /\ turn \in As
  /\ \/ Place
     \/ DeadEnd
     \/ aToB[turn] # Nothing /\ UNCHANGED <<aToB, bToA, result>>
  /\ turn' = turn + 1
  /\ UNCHANGED <<job, level>>

CapacityIncreases == \E b \in Bs : level < job.bMax[b]

RaiseLevel ==
  /\ result = "none" /\ turn \notin As
  /\ Unassigned # {} /\ CapacityIncreases
  /\ level' = level + 1 /\ turn' = 1
  /\ UNCHANGED <<job, aToB, bToA, result>>

Finish ==
  /\ result = "none" /\ turn \notin As
  /\ Unassigned = {} \/ ~CapacityIncreases
  /\ result' = IF Unassigned = {} THEN "assigned" ELSE "empty"
  /\ UNCHANGED <<job, aToB, bToA, level, turn>>

Next == Turn \/ RaiseLevel \/ Finish

Spec == Init /\ [][Next]_vars

-----------------------------------------------------------------------------

\* The assignments in which no b holds more than a limit allows.
Assignments(limit) ==
  { f \in [As -> Bs] :
      /\ \A a \in As : f[a] \in Elements(job.options[a])
      /\ \A b \in Bs :
           Cardinality({ a \in As : f[a] = b })
             <= (IF limit < job.bMax[b] THEN limit ELSE job.bMax[b]) }

(***************************************************************************)
(* The result is empty only if there is no assignment at all; else it is   *)
(* one, and no assignment gets by with fewer a's on its fullest b: what    *)
(* assign calls spread.  Meanwhile the two vectors say the same and no b   *)
(* is above the level, however often an a was moved to make room.          *)
(***************************************************************************)
AssignedWithSpread ==
  /\ \A a \in As, b \in Bs : aToB[a] = b <=> a \in Elements(bToA[b])
  /\ \A b \in Bs :
       /\ \A j, k \in DOMAIN bToA[b] : bToA[b][j] = bToA[b][k] => j = k
       /\ Len(bToA[b]) <= CurrentMax(b)
  /\ result = "assigned" => aToB \in Assignments(level) /\ Assignments(level - 1) = {}
  /\ result = "empty" => Assignments(Len(job.options)) = {}
=============================================================================
