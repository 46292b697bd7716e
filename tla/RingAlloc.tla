----------------------------- MODULE RingAlloc -----------------------------
(***************************************************************************)
(* ring_alloc: a ring allocator for several threads.  head and tail only   *)
(* grow; a position stands for the byte position % RingSize.  A call reads *)
(* one counter, then the other, then tries to commit with a compare and    *)
(* exchange: every atomic access is a step of its own.                     *)
(***************************************************************************)
EXTENDS Integers

CONSTANTS
  Threads,
  RingSize,    \* _size
  AllocSizes,  \* requested sizes
  MaxPos       \* bound of the model: positions handed out

RingAllocAssumption ==
  /\ RingSize \in Nat \ {0}
  /\ AllocSizes \subseteq Nat
  /\ MaxPos \in Nat

VARIABLES
  head,   \* _head
  tail,   \* _tail
  call,   \* thread -> the call it is in
  live    \* regions handed out and not freed, alone or with a later one

vars == <<head, tail, call, live>>

Idle == [op |-> "idle", head |-> 0, tail |-> 0, arg |-> 0]

-----------------------------------------------------------------------------
(* The arithmetic of alloc.                                                *)

Wraps(h, size) == (h % RingSize) + size > RingSize

Padding(h, size) == IF Wraps(h, size) THEN RingSize - (h % RingSize) ELSE 0

TotalSize(h, size) == size + Padding(h, size)

\* Mutant: a ring that would be full to the last byte counts as too full.
NotEnough_OffByOne(h, t, size) ==
  \/ h + TotalSize(h, size) < t
  \/ h + TotalSize(h, size) - t >= RingSize

\* head + totalSize - tail > _size; the difference is unsigned, below zero
\* it is huge.
NotEnough(h, t, size) ==
  \/ h + TotalSize(h, size) < t
  \/ h + TotalSize(h, size) - t > RingSize

MaxAlloc(h, t) ==
  LET actualHead == h % RingSize
      actualTail == t % RingSize
  IN IF h - t >= RingSize THEN 0
     ELSE IF actualHead < actualTail THEN actualTail - actualHead
     ELSE IF RingSize - actualHead > actualTail THEN RingSize - actualHead ELSE actualTail

-----------------------------------------------------------------------------
(* alloc                                                                   *)

StartAlloc(t, size) ==
  /\ call[t].op = "idle"
  /\ call' = [call EXCEPT ![t] = [op |-> "alloc", head |-> head, tail |-> 0, arg |-> size]]
  /\ UNCHANGED <<head, tail, live>>

\* The tail is read; without room the call returns nullopt.
Refuse(t) ==
  /\ call[t].op = "alloc"
  /\ NotEnough(call[t].head, tail, call[t].arg)
  /\ call' = [call EXCEPT ![t] = Idle]
  /\ UNCHANGED <<head, tail, live>>

Fits(t) ==
  /\ call[t].op = "alloc"
  /\ ~NotEnough(call[t].head, tail, call[t].arg)
  /\ call' = [call EXCEPT ![t].op = "commit", ![t].tail = tail]
  /\ UNCHANGED <<head, tail, live>>

Region(h, size) ==
  [begin |-> IF Wraps(h, size) THEN 0 ELSE h % RingSize,
   from |-> h + Padding(h, size), size |-> size, end |-> h + TotalSize(h, size)]

\* Mutant: the head is stored without a look at what it has become.
Commit_NoCompare(t) ==
  LET region == Region(call[t].head, call[t].arg)
  IN /\ call[t].op = "commit"
     /\ region.end <= MaxPos
     /\ head' = region.end
     /\ live' = live \cup {region}
     /\ call' = [call EXCEPT ![t] = Idle]
     /\ UNCHANGED tail

Commit(t) ==
  LET region == Region(head, call[t].arg)
  IN /\ call[t].op = "commit"
     /\ call[t].head = head
     /\ region.end <= MaxPos
     /\ head' = region.end
     /\ live' = live \cup {region}
     /\ call' = [call EXCEPT ![t] = Idle]
     /\ UNCHANGED tail

\* Another thread was faster, or the weak exchange failed for no reason.
RetryAlloc(t) ==
  /\ call[t].op = "commit"
  /\ call' = [call EXCEPT ![t].op = "alloc", ![t].head = head]
  /\ UNCHANGED <<head, tail, live>>

-----------------------------------------------------------------------------
(* free: with a region go all that were handed out before it.              *)

StartFree(t, region) ==
  /\ call[t].op = "idle"
  /\ live' = { r \in live : r.end > region.end }
  /\ call' = [call EXCEPT ![t] = [op |-> "free", head |-> 0, tail |-> tail,
                                  arg |-> region.end]]
  /\ UNCHANGED <<head, tail>>

AlreadyFree(t) ==
  /\ call[t].op = "free"
  /\ call[t].tail >= call[t].arg
  /\ call' = [call EXCEPT ![t] = Idle]
  /\ UNCHANGED <<head, tail, live>>

AdvanceTail(t) ==
  /\ call[t].op = "free"
  /\ call[t].tail < call[t].arg
  /\ call[t].tail = tail
  /\ tail' = call[t].arg
  /\ call' = [call EXCEPT ![t] = Idle]
  /\ UNCHANGED <<head, live>>

RetryFree(t) ==
  /\ call[t].op = "free"
  /\ call[t].tail < call[t].arg
  /\ call' = [call EXCEPT ![t].tail = tail]
  /\ UNCHANGED <<head, tail, live>>

-----------------------------------------------------------------------------

Init ==
  /\ head = 0 /\ tail = 0
  /\ call = [t \in Threads |-> Idle]
  /\ live = {}

Next ==
  \E t \in Threads :
    \/ \E size \in AllocSizes : StartAlloc(t, size)
    \/ Refuse(t) \/ Fits(t) \/ Commit(t) \/ RetryAlloc(t)
    \/ \E region \in live : StartFree(t, region)
    \/ AlreadyFree(t) \/ AdvanceTail(t) \/ RetryFree(t)

Spec == Init /\ [][Next]_vars

-----------------------------------------------------------------------------
(* Properties.                                                             *)

Bytes(region) == region.begin .. region.begin + region.size - 1

(***************************************************************************)
(* Two regions held at the same time share no byte, and each lies in the   *)
(* buffer in one piece, however the calls of the threads interleave: a     *)
(* commit with a tail read long ago must still be safe.                    *)
(***************************************************************************)
RegionsDisjoint ==
  /\ \A r \in live : Bytes(r) \subseteq 0 .. RingSize - 1
  /\ \A r, s \in live : r # s => Bytes(r) \cap Bytes(s) = {}

(***************************************************************************)
(* In a quiet moment max_alloc is exact: what it promises is handed out,   *)
(* and nothing larger.                                                     *)
(***************************************************************************)
MaxAllocExact ==
  \A size \in 1 .. RingSize + 1 :
    NotEnough(head, tail, size) <=> size > MaxAlloc(head, tail)

\* The bytes between tail and head, in use or padding.
Held == { p % RingSize : p \in tail .. head - 1 }

(***************************************************************************)
(* nullopt means that there was no room behind head, or a later allocation *)
(* had overtaken this call between its two reads.  (Then it may be wrong:  *)
(* a stale head that tail has passed refuses in an empty ring.)            *)
(***************************************************************************)
RefusalsHonest ==
  [][\A t \in Threads :
       Refuse(t) /\ call[t].head = head =>
         LET size == call[t].arg
             place == IF Wraps(head, size) THEN 0 ELSE head % RingSize
             padding == (head % RingSize) .. (head % RingSize) + Padding(head, size) - 1
             bytes == place .. place + size - 1
         IN (bytes \cup padding) \cap Held # {} \/ bytes \cap padding # {}]_vars

=============================================================================
