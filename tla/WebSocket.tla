------------------------------ MODULE WebSocket ------------------------------
(***************************************************************************)
(* The awaiters of a connection: read_text, read_bytes and wait suspend a  *)
(* coroutine until the fence of the connection is signaled; when it is     *)
(* resumed it calls wait(), got_text() and a read, one after the other, on *)
(* a connection that other coroutines read from.  The connection itself    *)
(* comes as a binary; it is modelled by what its header says: each call is *)
(* one step, the fence is signaled while a message is queued or the        *)
(* connection is closed, wait() blocks until then, a read consumes the     *)
(* first message.  got_text() and the reads of an empty queue read what is *)
(* not there.                                                              *)
(***************************************************************************)
EXTENDS Integers, Sequences

CONSTANTS
  Readers,     \* coroutines that read from the connection
  MaxMessages  \* bound of the model: messages the peer sends

VARIABLES
  inbox,   \* messages queued: their number and kind
  closed,
  sent,    \* messages the peer sent
  reader,  \* coroutine -> what it asked for, where it is, the number of the
           \* message that its wait() was for, and the kind it saw
  read     \* messages consumed: by whom, as what, and what its wait() was for

vars == <<inbox, closed, sent, reader, read>>

MessageKinds == {"text", "bytes"}

Idle == [wants |-> "nothing", at |-> "outside", waited |-> 0, saw |-> "nothing"]

Signaled == inbox # <<>> \/ closed

Move(r, place) == reader' = [reader EXCEPT ![r].at = place]

Leaves(r) == reader' = [reader EXCEPT ![r] = Idle]

-----------------------------------------------------------------------------
(* The peer.                                                               *)

Receive(kind) ==
  /\ ~closed /\ sent < MaxMessages
  /\ sent' = sent + 1
  /\ inbox' = Append(inbox, [number |-> sent + 1, kind |-> kind])
  /\ UNCHANGED <<closed, reader, read>>

\* Also by close() on this side; what is queued stays available.
Close ==
  /\ closed' = TRUE
  /\ UNCHANGED <<inbox, sent, reader, read>>

-----------------------------------------------------------------------------
(* The awaiters.                                                           *)

\* await_ready and await_suspend: with a signaled fence the coroutine goes on.
Await(r, wants) ==
  /\ reader[r].at = "outside"
  /\ reader' = [reader EXCEPT ![r].wants = wants,
                              ![r].at = IF Signaled THEN "resuming" ELSE "suspended"]
  /\ UNCHANGED <<inbox, closed, sent, read>>

\* The wait of the scheduler ends and the coroutine is posted.
Fire(r) ==
  /\ reader[r].at = "suspended" /\ Signaled
  /\ Move(r, "resuming")
  /\ UNCHANGED <<inbox, closed, sent, read>>

\* await_resume calls wait(), which blocks the worker without a message.
Block(r) ==
  /\ reader[r].at = "resuming" /\ ~Signaled
  /\ Move(r, "blocked")
  /\ UNCHANGED <<inbox, closed, sent, read>>

\* wait() returns true.
Waited(r) ==
  /\ reader[r].at \in {"resuming", "blocked"} /\ inbox # <<>>
  /\ reader' = [reader EXCEPT ![r].at = "waited", ![r].waited = Head(inbox).number]
  /\ UNCHANGED <<inbox, closed, sent, read>>

\* wait() returns false: a read throws, the caller of wait goes on.
FoundClosed(r) ==
  /\ reader[r].at \in {"resuming", "blocked"} /\ closed
  /\ Leaves(r)
  /\ UNCHANGED <<inbox, closed, sent, read>>

\* What got_text() may answer: the front of an empty queue is what is left
\* in memory.
FrontKinds == IF inbox = <<>> THEN MessageKinds ELSE {Head(inbox).kind}

\* Mutant: the kind is not compared with the one that was asked for.
LookAtKind_NoCheck(r) ==
  /\ reader[r].at = "waited"
  /\ \E kind \in FrontKinds :
       reader' = [reader EXCEPT ![r].at = "looked",
                    ![r].saw = IF reader[r].wants = "message" THEN kind ELSE reader[r].wants]
  /\ UNCHANGED <<inbox, closed, sent, read>>

\* got_text(), and the throw of a read that was for the other kind.
LookAtKind(r) ==
  /\ reader[r].at = "waited"
  /\ \E kind \in FrontKinds :
       IF reader[r].wants \in {"message", kind}
       THEN reader' = [reader EXCEPT ![r].at = "looked", ![r].saw = kind]
       ELSE Leaves(r)
  /\ UNCHANGED <<inbox, closed, sent, read>>

\* The caller of wait may leave the message where it is.
LeaveIt(r) ==
  /\ reader[r].at \in {"waited", "looked"} /\ reader[r].wants = "message"
  /\ Leaves(r)
  /\ UNCHANGED <<inbox, closed, sent, read>>

\* read_text() and read_bytes(), by the awaiter or as take_text and
\* take_bytes by the caller of wait, take the first message whatever it is.
Take(r) ==
  /\ reader[r].at = "looked" /\ inbox # <<>>
  /\ read' = Append(read, [number |-> Head(inbox).number, kind |-> Head(inbox).kind,
                           as |-> reader[r].saw, by |-> r, waited |-> reader[r].waited])
  /\ inbox' = Tail(inbox)
  /\ Leaves(r)
  /\ UNCHANGED <<closed, sent>>

\* They take a message out of an empty queue, which is none any more: the
\* model ends here.
TakeNothing(r) ==
  /\ reader[r].at = "looked" /\ inbox = <<>>
  /\ Move(r, "corrupting")
  /\ UNCHANGED <<inbox, closed, sent, read>>

Intact == \A r \in Readers : reader[r].at # "corrupting"

Init ==
  /\ inbox = <<>> /\ closed = FALSE /\ sent = 0 /\ read = <<>>
  /\ reader = [r \in Readers |-> Idle]

Next ==
  /\ Intact
  /\ \/ \E kind \in MessageKinds : Receive(kind)
     \/ Close
     \/ \E r \in Readers :
          \/ \E wants \in MessageKinds \cup {"message"} : Await(r, wants)
          \/ Fire(r) \/ Block(r) \/ Waited(r) \/ FoundClosed(r)
          \/ LookAtKind(r) \/ LeaveIt(r) \/ Take(r) \/ TakeNothing(r)

Spec == Init /\ [][Next]_vars

-----------------------------------------------------------------------------

(***************************************************************************)
(* Messages are read in the order they were sent, each once, and none is   *)
(* lost: not by a read of the other kind, which throws, and not by readers *)
(* that take from each other.                                              *)
(***************************************************************************)
MessagesInOrder ==
  /\ \A k \in DOMAIN read : read[k].number = k
  /\ \A k \in DOMAIN inbox : inbox[k].number = Len(read) + k
  /\ Len(read) + Len(inbox) = sent

\* The message that a wait() was for has been taken by another reader.
TakenByAnother(number, r) == number \in DOMAIN read /\ read[number].by # r

(***************************************************************************)
(* Between wait(), the look at the kind and the read another reader may    *)
(* take the message: then a read gets the next one, a text perhaps as      *)
(* bytes, or takes from an empty queue.  Nothing else may bring that       *)
(* about, not a closed connection nor messages that arrive in between: a   *)
(* reader that was not overtaken gets the message it waited for, as what   *)
(* it is.  So readers that take turns are safe.                            *)
(***************************************************************************)
OnlyOvertaken ==
  /\ \A k \in DOMAIN read :
       \/ read[k].waited = k /\ read[k].as = read[k].kind
       \/ TakenByAnother(read[k].waited, read[k].by)
  /\ \A r \in Readers : reader[r].at = "corrupting" => TakenByAnother(reader[r].waited, r)

(***************************************************************************)
(* wait() blocks its worker only while another reader does not: the one    *)
(* that took the message it was resumed for.  So a single reader never     *)
(* blocks, and several never block all of their workers, although a fence  *)
(* that was signaled for both of two readers is down for the second.       *)
(***************************************************************************)
SomeReaderRuns == \E r \in Readers : reader[r].at # "blocked"
=============================================================================
