--------------------------------- MODULE Cth ---------------------------------
(***************************************************************************)
(* The parts of the packaged library (src/lib/cth) side by side.  They do  *)
(* not call each other in a way that the modules show, so a behaviour is   *)
(* one of a single part, chosen at the beginning; the variables of the     *)
(* others keep an initial value.                                           *)
(***************************************************************************)
EXTENDS Integers, FiniteSets, Sequences

CONSTANTS
  Units,                                                   \* the parts looked at
  Threads,                                                 \* of the concurrent parts
  MantissaBits, TopBins, Capacity, InitialAllocs, Sizes, MaxNodes,  \* MiniRam
  RingSize, AllocSizes, MaxPos,                            \* RingAlloc
  MaxStored,                                               \* ThreadPool
  Size, Groups,                                            \* UnionFind
  Kinds, Objects, MaxResources,                            \* Owners
  Types, MinAlign, Lengths,                                \* PolyVector
  Programs, Home, Main,                                    \* Coroutines
  MaxAcquires,                                             \* GlobalSwitch
  Readers, MaxMessages,                                    \* WebSocket
  Jobs,                                                    \* Combine
  Colors, MaxStack                                         \* Console

VARIABLES
  unit,                                                    \* the part chosen
  ram, allocs,
  head, tail, call, live,
  storage, inactive, bound, alive,
  forest, classes, grouped,
  kind, holds, freed, released,
  vector,
  program, frame, run, ready, pending, main, signaled, outcome,
  state, fenceCall,
  count, calling, held, powered, surplus,
  inbox, closed, sent, reader, read,
  job, aToB, bToA, level, turn, result,
  stream, depth, printed, wanted,
  build, check, at, report, reports

ramVars    == <<ram, allocs>>
ringVars   == <<head, tail, call, live>>
poolVars   == <<storage, inactive, bound, alive>>
forestVars == <<forest, classes, grouped>>
ownerVars  == <<kind, holds, freed, released>>
coroVars   == <<program, frame, run, ready, pending, main, signaled, outcome>>
fenceVars  == <<state, fenceCall>>
switchVars == <<count, calling, held, powered, surplus>>
socketVars == <<inbox, closed, sent, reader, read>>
assignVars == <<job, aToB, bToA, level, turn, result>>
streamVars == <<stream, depth, printed, wanted>>
checkVars  == <<build, check, at, report, reports>>

vars ==
  <<unit, ramVars, ringVars, poolVars, forestVars, ownerVars, vector, coroVars,
    fenceVars, switchVars, socketVars, assignVars, streamVars, checkVars>>

Ram    == INSTANCE MiniRam
Ring   == INSTANCE RingAlloc
Pool   == INSTANCE ThreadPool WITH Ids <- Threads
Forest == INSTANCE UnionFind
Owner  == INSTANCE Owners WITH closed <- freed
Poly   == INSTANCE PolyVector
Coro   == INSTANCE Coroutines
Fence  == INSTANCE AtomicFence WITH call <- fenceCall
Switch == INSTANCE GlobalSwitch
Socket == INSTANCE WebSocket
Assign == INSTANCE Combine
Stream == INSTANCE Console
Log    == INSTANCE Checks WITH printed <- reports

ASSUME CthAssumption ==
  /\ Ram!MiniRamAssumption /\ Ring!RingAllocAssumption /\ Poly!PolyVectorAssumption
  /\ Pool!ThreadPoolAssumption /\ Coro!CoroutinesAssumption /\ Forest!UnionFindAssumption
  /\ Assign!CombineAssumption
  /\ IsFiniteSet(Threads) /\ Readers # {}

-----------------------------------------------------------------------------

\* A part that is not looked at keeps one of its initial values.
AnyJob == CHOOSE value \in Jobs : TRUE
AnyProgram == CHOOSE value \in Programs : TRUE
AnyKind == CHOOSE value \in Kinds : TRUE
AnyBuild == CHOOSE value \in Log!Builds : TRUE
AnyCheck == CHOOSE value \in Log!Reachable : TRUE

Init ==
  /\ unit \in Units
  /\ Ram!Init /\ Ring!Init /\ Pool!Init /\ Forest!Init /\ Poly!Init /\ Socket!Init
  /\ Stream!Init
  /\ Owner!Init  /\ (unit # "owner" => kind = AnyKind)
  /\ Coro!Init   /\ (unit # "coro" => program = AnyProgram)
  /\ Fence!Init  /\ (unit # "fence" => ~state)
  /\ Switch!Init /\ (unit # "switch" => count = 0)
  /\ Assign!Init /\ (unit # "assign" => job = AnyJob)
  /\ Log!Init    /\ (unit # "log" => build = AnyBuild /\ check = AnyCheck)

\* The other parts stay as they are.
Only(name) ==
  /\ unit = name /\ UNCHANGED unit
  /\ IF name = "ram" THEN TRUE ELSE UNCHANGED ramVars
  /\ IF name = "ring" THEN TRUE ELSE UNCHANGED ringVars
  /\ IF name = "pool" THEN TRUE ELSE UNCHANGED poolVars
  /\ IF name = "forest" THEN TRUE ELSE UNCHANGED forestVars
  /\ IF name = "owner" THEN TRUE ELSE UNCHANGED ownerVars
  /\ IF name = "poly" THEN TRUE ELSE UNCHANGED vector
  /\ IF name = "coro" THEN TRUE ELSE UNCHANGED coroVars
  /\ IF name = "fence" THEN TRUE ELSE UNCHANGED fenceVars
  /\ IF name = "switch" THEN TRUE ELSE UNCHANGED switchVars
  /\ IF name = "socket" THEN TRUE ELSE UNCHANGED socketVars
  /\ IF name = "assign" THEN TRUE ELSE UNCHANGED assignVars
  /\ IF name = "stream" THEN TRUE ELSE UNCHANGED streamVars
  /\ IF name = "log" THEN TRUE ELSE UNCHANGED checkVars

RamCall    == Only("ram") /\ Ram!Next
RingStep   == Only("ring") /\ Ring!Next
PoolCall   == Only("pool") /\ Pool!Next
ForestCall == Only("forest") /\ Forest!Next
OwnerCall  == Only("owner") /\ Owner!Next
PolyCall   == Only("poly") /\ Poly!Next
CoroStep   == Only("coro") /\ Coro!Next
FenceStep  == Only("fence") /\ Fence!Next
SwitchStep == Only("switch") /\ Switch!Next
SocketStep == Only("socket") /\ Socket!Next
AssignTurn == Only("assign") /\ Assign!Next
StreamCall == Only("stream") /\ Stream!Next
LogStep    == Only("log") /\ Log!Next

Next ==
  \/ RamCall \/ RingStep \/ PoolCall \/ ForestCall \/ OwnerCall \/ PolyCall
  \/ CoroStep \/ FenceStep \/ SwitchStep \/ SocketStep \/ AssignTurn \/ StreamCall
  \/ LogStep

\* Workers go on as long as they have work, and a wait ends.
Spec == Init /\ [][Next]_vars /\ WF_vars(CoroStep)

-----------------------------------------------------------------------------
(* What is checked of each part.                                           *)

(***************************************************************************)
(* An allocator of many calls (miniram.inl) loses nothing: its nodes tile  *)
(* the RAM, every hole is in the list of its bin, what max_alloc promises  *)
(* is handed out, and no node id is taken that is in use.                  *)
(***************************************************************************)
RamSound == unit = "ram" => Ram!RamTiled /\ Ram!BinsExact /\ Ram!AllocatableExact

\* The moves that a defragmentation reports (miniram.inl:160-198), carried out
\* one after the other, keep the data of every allocation.
CompactionKeepsData == unit = "ram" => Ram!CompactionKeepsData

\* Two regions of the ring that are held at the same time share no byte
\* (ringalloc.hpp:49-106), and in a quiet moment max_alloc is exact.
RegionsDisjoint == unit = "ring" => Ring!RegionsDisjoint /\ Ring!MaxAllocExact

\* The ring refuses (ringalloc.hpp:72-74) for lack of room only, or when the
\* head that a call read is stale.
RefusalsHonest == Ring!RefusalsHonest

\* A resource of a thread_pool (thread_pool.hpp:54-79) is never with two
\* threads, and as new when it is handed out.
ResourcesApart == unit = "pool" => Pool!ResourcesApart

\* The groups of a union_find (union_find.hpp:65-117) are those merged, and
\* equal partitions made of pairs are equal objects.
ForestExact == unit = "forest" => Forest!GroupsExact /\ Forest!EqualityCanonical

\* The owning handles close what they own once, whatever is moved, swapped,
\* reset or assigned to itself (native_handle.hpp, unique_cohandle.hpp).
OwnedOnce == unit = "owner" => Owner!OwnedOnce

\* The arrays in the buffer of a poly_vector (poly_vector.hpp:50-82) are
\* aligned, apart and copied whole.
BlocksApart == unit = "poly" => Poly!BlocksApart

\* A suspended coroutine will be resumed from one place, a running one is on
\* one thread (schedule_awaiter.hpp, final_sync_awaiter.hpp).
OneResumer == unit = "coro" => Coro!OneResumer

\* After awaiting what is no task of the library a coroutine goes on where
\* its payload says (executor.hpp:30); exceptions apart, see MCCoroutines.
ComesHome == unit = "coro" => Coro!ComesHome

\* sync returns (sync.hpp:8-23), and throws exactly if its task fails.
SyncReturns == unit = "coro" => <>(main = "returned" /\ Coro!OutcomeExact)

\* No wake-up of the fence is lost (atomic_fence.hpp:15-28), and each on of
\* the switch has its off (global_switch.hpp:30-67).
WakesAndBalances ==
  /\ unit = "fence" => Fence!SleepersWoken
  /\ unit = "switch" => Switch!SwitchBalanced

\* Messages are read in order, each once; a reader gets another than the one it
\* waited for only if another reader has taken that one in between; and the
\* readers never block all of their workers (websocket.hpp:45-118).
MessagesReadOnce ==
  unit = "socket" => Socket!MessagesInOrder /\ Socket!OnlyOvertaken /\ Socket!SomeReaderRuns

\* assign finds an assignment if there is one, as even as possible
\* (combine.hpp:128-240).
AssignedWithSpread == unit = "assign" => Assign!AssignedWithSpread

\* Every chunk of a col_stream (console.hpp:222-330) comes out in the state
\* its caller asked for.
PrintedAsWanted == unit = "stream" => Stream!PrintedAsWanted

\* Failing checks (log.hpp) are reported once, and the critical ones end the
\* program.
FailuresReported == unit = "log" => Log!FailuresReported
=============================================================================
