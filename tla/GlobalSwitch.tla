---------------------------- MODULE GlobalSwitch ----------------------------
(***************************************************************************)
(* global_switch: a counter of acquires; the first one calls the callback  *)
(* on, the last release the callback off.  The counter is atomic, the      *)
(* callbacks run outside of it.  The object is destroyed when no thread is *)
(* in a call: then force_off is one step.                                  *)
(***************************************************************************)
EXTENDS Integers, FiniteSets

CONSTANTS
  Threads,
  MaxAcquires  \* bound of the model: outstanding acquires

VARIABLES
  count,    \* _count
  calling,  \* thread -> the callback it is about to call, or none
  held,     \* acquires that have returned and were not released yet
  powered,  \* what the callbacks made of the global state
  surplus   \* calls of on less calls of off

vars == <<count, calling, held, powered, surplus>>

Call(t, callback) == calling' = [calling EXCEPT ![t] = callback]

\* Without a callback to call it returns at once.
Acquire(t) ==
  /\ calling[t] = "none" /\ count < MaxAcquires
  /\ count' = count + 1
  /\ held' = IF count = 0 THEN held ELSE held + 1
  /\ Call(t, IF count = 0 THEN "on" ELSE "none")
  /\ UNCHANGED <<powered, surplus>>

\* Mutant: the count that was read is taken for the one that is left.
Release_OldCount(t) ==
  /\ calling[t] = "none" /\ held > 0
  /\ count' = count - 1
  /\ held' = held - 1
  /\ Call(t, IF count = 0 THEN "off" ELSE "none")
  /\ UNCHANGED <<powered, surplus>>

\* Any thread may give back what an acquire that returned has taken.
Release(t) ==
  /\ calling[t] = "none" /\ held > 0
  /\ count' = count - 1
  /\ held' = held - 1
  /\ Call(t, IF count = 1 THEN "off" ELSE "none")
  /\ UNCHANGED <<powered, surplus>>

\* acquire returns behind the callback.
On(t) ==
  /\ calling[t] = "on"
  /\ powered' = TRUE /\ surplus' = surplus + 1
  /\ held' = held + 1
  /\ Call(t, "none")
  /\ UNCHANGED count

Off(t) ==
  /\ calling[t] = "off"
  /\ powered' = FALSE /\ surplus' = surplus - 1
  /\ Call(t, "none")
  /\ UNCHANGED <<count, held>>

Quiet == \A t \in Threads : calling[t] = "none"

ForceOff ==
  /\ Quiet /\ count # 0
  /\ count' = 0 /\ held' = 0
  /\ powered' = FALSE /\ surplus' = surplus - 1
  /\ UNCHANGED calling

\* The second constructor acquires.
Init ==
  /\ count \in {0, 1} /\ held = count
  /\ powered = (count = 1) /\ surplus = count
  /\ calling = [t \in Threads |-> "none"]

Next ==
  \/ \E t \in Threads : Acquire(t) \/ Release(t) \/ On(t) \/ Off(t)
  \/ ForceOff

Spec == Init /\ [][Next]_vars

-----------------------------------------------------------------------------

(***************************************************************************)
(* Each on has its off: at any moment the calls that were made and those   *)
(* still to be made add up to one on more than off exactly while somebody  *)
(* holds the switch or is about to, in whatever order the callbacks come,  *)
(* and the counter is the number of those.                                 *)
(***************************************************************************)
SwitchBalanced ==
  LET aboutToCall(callback) == Cardinality({ t \in Threads : calling[t] = callback })
  IN /\ surplus + aboutToCall("on") - aboutToCall("off") = IF count > 0 THEN 1 ELSE 0
     /\ count = held + aboutToCall("on")

(***************************************************************************)
(* global_switch.hpp:11 "this is designed to be thread safe": when no call *)
(* is under way the global state is on if and only if somebody holds the   *)
(* switch.                                                                 *)
(***************************************************************************)
StateFollowsCount == Quiet => (powered <=> held > 0)
=============================================================================
