----------------------------- MODULE ThreadPool -----------------------------
(***************************************************************************)
(* pool: a stack of pointers to the stored resources that nobody holds;    *)
(* and thread_pool: the pool behind a mutex, which binds what it hands out *)
(* to a thread id.  A call is one step (the mutex is held throughout), the *)
(* work a thread does on its resource is outside of the mutex.  Threads end *)
(* and the system gives their id to new ones.                              *)
(***************************************************************************)
EXTENDS Integers, SequencesExt

CONSTANTS
  Ids,        \* std::thread::id
  MaxStored   \* bound of the model: resources ever stored

ThreadPoolAssumption == MaxStored \in Nat

VARIABLES
  storage,   \* _storage: resource -> the ids that wrote it since its last reset
  inactive,  \* _inactive
  bound,     \* _bound: id -> resource
  alive      \* ids of running threads

vars == <<storage, inactive, bound, alive>>

Stored == DOMAIN storage

-----------------------------------------------------------------------------
(* pool                                                                    *)

\* count resources are constructed and put on top of the stack, in order.
AppendRange(count) ==
  LET size == Cardinality(Stored)
      fresh == [k \in 1 .. count |-> size + k]
  IN /\ size + count <= MaxStored
     /\ storage' = [r \in 1 .. size + count |-> IF r \in Stored THEN storage[r] ELSE {}]
     /\ inactive' = inactive \o fresh
     /\ UNCHANGED <<bound, alive>>

\* Mutant: the manipulator is not called.
PoolRelease_NoReset(r) ==
  /\ ~Contains(inactive, r)
  /\ UNCHANGED storage
  /\ inactive' = Append(inactive, r)

\* The resource goes on top of the stack, reset by the manipulator.
PoolRelease(r) ==
  /\ ~Contains(inactive, r)
  /\ storage' = [storage EXCEPT ![r] = {}]
  /\ inactive' = Append(inactive, r)

PoolClear ==
  /\ storage' = [r \in Stored |-> IF Contains(inactive, r) THEN storage[r] ELSE {}]
  /\ inactive' = [k \in 1 .. Cardinality(Stored) |-> k]

-----------------------------------------------------------------------------
(* thread_pool                                                             *)

\* What the id owns already, or the top of the stack.
Acquire(id) ==
  /\ id \in alive
  /\ \/ /\ id \in DOMAIN bound
        /\ UNCHANGED <<inactive, bound>>
     \/ /\ id \notin DOMAIN bound
        /\ inactive # <<>>
        /\ inactive' = Front(inactive)
        /\ bound' = [i \in DOMAIN bound \cup {id} |->
                       IF i = id THEN Last(inactive) ELSE bound[i]]
  /\ UNCHANGED <<storage, alive>>

Unbind(ids) == bound' = [i \in DOMAIN bound \ ids |-> bound[i]]

Release(id) ==
  /\ id \in alive /\ id \in DOMAIN bound
  /\ PoolRelease(bound[id])
  /\ Unbind({id})
  /\ UNCHANGED alive

Clear ==
  /\ PoolClear
  /\ Unbind(Ids)
  /\ UNCHANGED alive

Use(id) ==
  /\ id \in alive /\ id \in DOMAIN bound
  /\ storage' = [storage EXCEPT ![bound[id]] = @ \cup {id}]
  /\ UNCHANGED <<inactive, bound, alive>>

Exit(id) ==
  /\ id \in alive
  /\ alive' = alive \ {id}
  /\ UNCHANGED <<storage, inactive, bound>>

StartThread(id) ==
  /\ id \notin alive
  /\ alive' = alive \cup {id}
  /\ UNCHANGED <<storage, inactive, bound>>

Init ==
  /\ storage = <<>> /\ inactive = <<>> /\ bound = <<>>
  /\ alive = {}

Next ==
  \/ \E count \in 1 .. MaxStored : AppendRange(count)
  \/ Clear
  \/ \E id \in Ids : \/ Acquire(id) \/ Release(id) \/ Use(id)
                     \/ Exit(id) \/ StartThread(id)

Spec == Init /\ [][Next]_vars

-----------------------------------------------------------------------------
(* Properties.                                                             *)

(***************************************************************************)
(* Every stored resource is either once on the stack or bound to exactly   *)
(* one id, and a resource carries the marks of no thread but the one that  *)
(* holds it: a released or cleared one is as new when it is acquired.  (An *)
(* id that a new thread inherits keeps its resource, marks and all.)       *)
(***************************************************************************)
ResourcesApart ==
  /\ IsInjective(inactive)
  /\ \A i, j \in DOMAIN bound : i # j => bound[i] # bound[j]
  /\ Stored = ToSet(inactive) \cup { bound[i] : i \in DOMAIN bound }
  /\ \A i \in DOMAIN bound : ~Contains(inactive, bound[i])
  /\ \A r \in Stored : storage[r] \subseteq { i \in DOMAIN bound : bound[i] = r }
=============================================================================
