------------------------------- MODULE Owners -------------------------------
(***************************************************************************)
(* The owning handles of the library: unique_native_handle (move           *)
(* assignment closes what it held), unique_cohandle (it swaps), the buffer *)
(* of raw_poly_vector (it frees) and move_ptr, which owns nothing: it is   *)
(* copied, and what it is assigned over is not deleted.                    *)
(***************************************************************************)
EXTENDS Integers, Sequences

CONSTANTS
  Kinds,         \* subset of {"native", "cohandle", "buffer", "move_ptr"}
  Objects,       \* the places where handle objects may live
  MaxResources   \* bound of the model: resources ever opened

None == 0

VARIABLES
  kind,     \* the class looked at
  holds,    \* object that exists -> the resource it refers to, or None
  closed,   \* resource -> how often it was closed, destroyed or freed
  released  \* resources given up without being closed

vars == <<kind, holds, closed, released>>

Opened == DOMAIN closed

\* close_handle, optDestroy and free look for the null value first.
Close(r) == IF r = None \/ kind = "move_ptr" THEN closed ELSE [closed EXCEPT ![r] = @ + 1]

With(o, r) == [x \in DOMAIN holds \cup {o} |-> IF x = o THEN r ELSE holds[x]]

Construct(o) ==
  /\ o \notin DOMAIN holds
  /\ Len(closed) < MaxResources
  /\ closed' = Append(closed, 0)
  /\ holds' = With(o, Len(closed) + 1)
  /\ UNCHANGED <<kind, released>>

Destroy(o) ==
  /\ closed' = Close(holds[o])
  /\ holds' = [x \in DOMAIN holds \ {o} |-> holds[x]]
  /\ UNCHANGED <<kind, released>>

MoveConstruct(o, from) ==
  /\ o \notin DOMAIN holds
  /\ holds' = [With(o, holds[from]) EXCEPT ![from] = None]
  /\ UNCHANGED <<kind, closed, released>>

\* Mutant: what a native handle held before is not closed.
MoveAssign_Leaks(o, from) ==
  /\ holds' = [holds EXCEPT ![from] = None, ![o] = holds[from]]
  /\ UNCHANGED <<kind, closed, released>>

\* Also of an object to itself; that of a buffer frees the buffer.
MoveAssign(o, from) ==
  /\ \/ /\ kind = "native"
        /\ closed' = Close(IF o = from THEN None ELSE holds[o])
        /\ holds' = [holds EXCEPT ![from] = None, ![o] = holds[from]]
     \/ /\ kind = "cohandle"
        /\ holds' = [holds EXCEPT ![o] = holds[from], ![from] = holds[o]]
        /\ UNCHANGED closed
     \/ /\ kind = "buffer"
        /\ closed' = Close(holds[o])
        /\ holds' = [holds EXCEPT ![o] = holds[from], ![from] = None]
     \/ /\ kind = "move_ptr"
        /\ holds' = [holds EXCEPT ![from] = None, ![o] = holds[from]]
        /\ UNCHANGED closed
  /\ UNCHANGED <<kind, released>>

CopyAssign(o, from) ==
  /\ kind = "move_ptr"
  /\ holds' = [holds EXCEPT ![o] = holds[from]]
  /\ UNCHANGED <<kind, closed, released>>

\* release, extract
Release(o) ==
  /\ kind # "buffer"
  /\ holds[o] # None
  /\ released' = released \cup {holds[o]}
  /\ holds' = [holds EXCEPT ![o] = None]
  /\ UNCHANGED <<kind, closed>>

\* reset(handle), realloc(sizes): the old one goes, a new one comes.
Reset(o) ==
  /\ kind \in {"native", "buffer"}
  /\ Len(closed) < MaxResources
  /\ closed' = Append(Close(holds[o]), 0)
  /\ holds' = [holds EXCEPT ![o] = Len(closed) + 1]
  /\ UNCHANGED <<kind, released>>

Swap(o, p) ==
  /\ kind # "native"
  /\ holds' = [holds EXCEPT ![o] = holds[p], ![p] = holds[o]]
  /\ UNCHANGED <<kind, closed, released>>

Init ==
  /\ kind \in Kinds
  /\ holds = <<>> /\ closed = <<>>
  /\ released = {}

Next ==
  \/ \E o \in Objects : Construct(o)
  \/ \E o \in Objects, from \in DOMAIN holds : MoveConstruct(o, from)
  \/ \E o \in DOMAIN holds : Destroy(o) \/ Release(o) \/ Reset(o)
  \/ \E o, from \in DOMAIN holds :
       MoveAssign(o, from) \/ CopyAssign(o, from) \/ Swap(o, from)

Spec == Init /\ [][Next]_vars

-----------------------------------------------------------------------------
(* Properties.                                                             *)

(***************************************************************************)
(* A resource is closed at most once, never while an object still refers   *)
(* to it, and every resource that is still open has exactly one owner or   *)
(* was given up on purpose.  A move_ptr promises the part about moves      *)
(* only: it never closes.                                                  *)
(***************************************************************************)
OwnedOnce ==
  \A r \in Opened :
    LET owners == { o \in DOMAIN holds : holds[o] = r }
    IN IF kind = "move_ptr" THEN closed[r] = 0
       ELSE /\ closed[r] + (IF r \in released THEN 1 ELSE 0)
                 + (IF owners # {} THEN 1 ELSE 0) = 1
            /\ \A o, p \in owners : o = p
=============================================================================
