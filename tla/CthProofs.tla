------------------------------ MODULE CthProofs ------------------------------
(***************************************************************************)
(* Proofs about parts of the library, for any number of threads, readers,  *)
(* messages and handles, and any size of the ring.  Each part has an       *)
(* invariant of its own; a step of one part leaves the others alone.       *)
(* Those of the coroutines are in CoroutineProofs.                         *)
(***************************************************************************)
EXTENDS Cth, FiniteSetTheorems, SequenceTheorems, TLAPS

\* A step of the library is one of the part that was chosen.
LEMMA StepOfPart ==
  ASSUME Next
  PROVE  /\ unit' = unit
         /\ unit = "ring" => Ring!Next
         /\ unit = "owner" => Owner!Next
         /\ unit = "fence" => Fence!Next
         /\ unit = "switch" => Switch!Next
         /\ unit = "socket" => Socket!Next
         /\ unit = "stream" => Stream!Next
         /\ unit = "pool" => Pool!Next
         /\ unit = "log" => Log!Next
         /\ unit = "poly" => Poly!Next
  BY DEF Next, RamCall, RingStep, PoolCall, ForestCall, OwnerCall, PolyCall, CoroStep,
         FenceStep, SwitchStep, SocketStep, AssignTurn, StreamCall, LogStep, Only

-----------------------------------------------------------------------------
(* The fence.                                                              *)

Calls == {"outside", "waiting", "asleep", "notifying"}

FenceInv == fenceCall \in [Threads -> Calls] /\ Fence!SleepersWoken

LEMMA FenceInit == Init => FenceInv
  BY DEF Init, Fence!Init, FenceInv, Fence!SleepersWoken, Calls

LEMMA FenceStepKeeps ==
  ASSUME FenceInv, Fence!Next
  PROVE  FenceInv'
<1>1. PICK t \in Threads :
        \/ Fence!Signal(t) \/ Fence!ForceSignal(t) \/ Fence!Notify(t) \/ Fence!Reset(t)
        \/ Fence!Wait(t) \/ Fence!LookAtFlag(t)
  BY DEF Fence!Next
<1> USE DEF FenceInv, Calls, Fence!SleepersWoken, Fence!Become
<1>2. CASE Fence!Signal(t)
  BY <1>2 DEF Fence!Signal
<1>3. CASE Fence!ForceSignal(t)
  BY <1>3 DEF Fence!ForceSignal
<1>4. CASE Fence!Notify(t)
  BY <1>4 DEF Fence!Notify
<1>5. CASE Fence!Reset(t)
  BY <1>5 DEF Fence!Reset
<1>6. CASE Fence!Wait(t)
  BY <1>6 DEF Fence!Wait
<1>7. CASE Fence!LookAtFlag(t)
  BY <1>7 DEF Fence!LookAtFlag
<1> QED BY <1>1, <1>2, <1>3, <1>4, <1>5, <1>6, <1>7

-----------------------------------------------------------------------------
(* The switch.                                                             *)

\* The threads that are about to call a callback.
About(callback) == { t \in Threads : calling[t] = callback }

SwitchInv ==
  /\ count \in Nat /\ held \in Nat /\ surplus \in Int
  /\ calling \in [Threads -> {"none", "on", "off"}]
  /\ Switch!SwitchBalanced

\* GlobalSwitch takes its cardinalities from an instance of its own.
LEMMA SameCardinality == \A S : Switch!Cardinality(S) = Cardinality(S)
  BY DEF Switch!Cardinality, Cardinality

\* How the calls balance, with the sets named.
LEMMA Balance ==
  /\ Switch!SwitchBalanced
       <=> /\ surplus + Cardinality(About("on")) - Cardinality(About("off"))
                = IF count > 0 THEN 1 ELSE 0
           /\ count = held + Cardinality(About("on"))
  /\ Switch!SwitchBalanced'
       <=> /\ surplus' + Cardinality(About("on")') - Cardinality(About("off")')
                = IF count' > 0 THEN 1 ELSE 0
           /\ count' = held' + Cardinality(About("on")')
  BY SameCardinality DEF Switch!SwitchBalanced, About

LEMMA AboutFinite ==
  ASSUME NEW callback
  PROVE  IsFiniteSet(About(callback)) /\ Cardinality(About(callback)) \in Nat
<1>1. About(callback) \subseteq Threads
  BY DEF About
<1> QED BY <1>1, CthAssumption, FS_Subset, FS_CardinalityType

\* What one thread's turn does to the number of those about to call.
LEMMA Recount ==
  ASSUME calling \in [Threads -> {"none", "on", "off"}], NEW t \in Threads,
         NEW to \in {"none", "on", "off"}, Switch!Call(t, to), NEW callback
  PROVE  Cardinality(About(callback)') =
           Cardinality(About(callback)) + (IF to = callback THEN 1 ELSE 0)
                                        - (IF calling[t] = callback THEN 1 ELSE 0)
<1>1. IsFiniteSet(About(callback)) /\ Cardinality(About(callback)) \in Nat
  BY AboutFinite
<1>2. CASE to = callback /\ calling[t] = callback
  <2>1. About(callback)' = About(callback)
    BY <1>2 DEF About, Switch!Call
  <2> QED BY <1>1, <1>2, <2>1
<1>3. CASE to = callback /\ calling[t] # callback
  <2>1. About(callback)' = About(callback) \cup {t} /\ t \notin About(callback)
    BY <1>3 DEF About, Switch!Call
  <2>2. Cardinality(About(callback) \cup {t}) = Cardinality(About(callback)) + 1
    BY <1>1, <2>1, FS_AddElement
  <2> QED BY <1>1, <1>3, <2>1, <2>2
<1>4. CASE to # callback /\ calling[t] = callback
  <2>1. About(callback)' = About(callback) \ {t} /\ t \in About(callback)
    BY <1>4 DEF About, Switch!Call
  <2>2. Cardinality(About(callback) \ {t}) = Cardinality(About(callback)) - 1
    BY <1>1, <2>1, FS_RemoveElement
  <2> QED BY <1>1, <1>4, <2>1, <2>2
<1>5. CASE to # callback /\ calling[t] # callback
  <2>1. About(callback)' = About(callback)
    BY <1>5 DEF About, Switch!Call
  <2> QED BY <1>1, <1>5, <2>1
<1> QED BY <1>2, <1>3, <1>4, <1>5

LEMMA SwitchInit == Init => SwitchInv
<1> SUFFICES ASSUME Init PROVE SwitchInv
  OBVIOUS
<1>1. About("on") = {} /\ About("off") = {}
  BY DEF Init, Switch!Init, About
<1>2. Cardinality(About("on")) = 0 /\ Cardinality(About("off")) = 0
  BY <1>1, FS_EmptySet
<1>3. /\ count \in Nat /\ held = count /\ surplus = count /\ count \in {0, 1}
      /\ calling \in [Threads -> {"none", "on", "off"}]
  BY DEF Init, Switch!Init
<1> QED BY <1>2, <1>3, Balance DEF SwitchInv

LEMMA SwitchStepKeeps ==
  ASSUME SwitchInv, Switch!Next
  PROVE  SwitchInv'
<1> DEFINE on == Cardinality(About("on"))
           off == Cardinality(About("off"))
<1>1. on \in Nat /\ off \in Nat
  BY AboutFinite
<1>2. /\ surplus + on - off = IF count > 0 THEN 1 ELSE 0
      /\ count = held + on
  BY Balance DEF SwitchInv
<1>3. SwitchInv' <=> /\ count' \in Nat /\ held' \in Nat /\ surplus' \in Int
                     /\ calling' \in [Threads -> {"none", "on", "off"}]
                     /\ surplus' + on' - off' = IF count' > 0 THEN 1 ELSE 0
                     /\ count' = held' + on'
  BY Balance DEF SwitchInv
<1>4. ASSUME NEW t \in Threads, NEW to \in {"none", "on", "off"}, Switch!Call(t, to)
      PROVE  /\ calling' \in [Threads -> {"none", "on", "off"}]
             /\ on' = on + (IF to = "on" THEN 1 ELSE 0) - (IF calling[t] = "on" THEN 1 ELSE 0)
             /\ off' = off + (IF to = "off" THEN 1 ELSE 0)
                            - (IF calling[t] = "off" THEN 1 ELSE 0)
  <2>1. calling \in [Threads -> {"none", "on", "off"}]
    BY DEF SwitchInv
  <2>2. calling' \in [Threads -> {"none", "on", "off"}]
    BY <1>4, <2>1 DEF Switch!Call
  <2> QED BY <1>4, <2>1, <2>2, Recount
<1> HIDE DEF on, off
<1>5. ASSUME NEW t \in Threads, Switch!Acquire(t) PROVE SwitchInv'
  <2>1. Switch!Call(t, IF count = 0 THEN "on" ELSE "none") /\ calling[t] = "none"
    BY <1>5 DEF Switch!Acquire
  <2>2. /\ calling' \in [Threads -> {"none", "on", "off"}]
        /\ on' = on + (IF count = 0 THEN 1 ELSE 0) /\ off' = off
    BY <1>1, <1>4, <2>1
  <2> QED BY <1>1, <1>2, <1>3, <1>5, <2>2 DEF SwitchInv, Switch!Acquire
<1>6. ASSUME NEW t \in Threads, Switch!Release(t) PROVE SwitchInv'
  <2>1. Switch!Call(t, IF count = 1 THEN "off" ELSE "none") /\ calling[t] = "none"
    BY <1>6 DEF Switch!Release
  <2>2. /\ calling' \in [Threads -> {"none", "on", "off"}]
        /\ off' = off + (IF count = 1 THEN 1 ELSE 0) /\ on' = on
    BY <1>1, <1>4, <2>1
  <2> QED BY <1>1, <1>2, <1>3, <1>6, <2>2 DEF SwitchInv, Switch!Release
<1>7. ASSUME NEW t \in Threads, Switch!On(t) PROVE SwitchInv'
  <2>1. Switch!Call(t, "none") /\ calling[t] = "on"
    BY <1>7 DEF Switch!On
  <2>2. calling' \in [Threads -> {"none", "on", "off"}] /\ on' = on - 1 /\ off' = off
    BY <1>1, <1>4, <2>1
  <2> QED BY <1>1, <1>2, <1>3, <1>7, <2>2 DEF SwitchInv, Switch!On
<1>8. ASSUME NEW t \in Threads, Switch!Off(t) PROVE SwitchInv'
  <2>1. Switch!Call(t, "none") /\ calling[t] = "off"
    BY <1>8 DEF Switch!Off
  <2>2. calling' \in [Threads -> {"none", "on", "off"}] /\ off' = off - 1 /\ on' = on
    BY <1>1, <1>4, <2>1
  <2> QED BY <1>1, <1>2, <1>3, <1>8, <2>2 DEF SwitchInv, Switch!Off
<1>9. CASE Switch!ForceOff
  <2>1. About("on") = {} /\ About("off") = {}
    BY <1>9 DEF Switch!ForceOff, Switch!Quiet, About
  <2>2. on = 0 /\ off = 0
    BY <2>1, FS_EmptySet DEF on, off
  <2>3. on' = on /\ off' = off /\ calling' = calling
    BY <1>9 DEF Switch!ForceOff, About, on, off
  <2> QED BY <1>2, <1>3, <1>9, <2>2, <2>3 DEF SwitchInv, Switch!ForceOff
<1> QED BY <1>5, <1>6, <1>7, <1>8, <1>9 DEF Switch!Next

-----------------------------------------------------------------------------
(* The awaiters of a connection.                                           *)

Message == [number : Nat, kind : Socket!MessageKinds]
Seen == Socket!MessageKinds \cup {"nothing"}
Reading == [number : Nat, kind : Socket!MessageKinds, as : Seen, by : Readers, waited : Nat]
Places == {"outside", "suspended", "resuming", "blocked", "waited", "looked", "corrupting"}
Positions == [wants : {"nothing", "text", "bytes", "message"}, at : Places, waited : Nat,
              saw : Seen]

SocketTypes ==
  /\ inbox \in Seq(Message) /\ closed \in BOOLEAN /\ sent \in Nat /\ read \in Seq(Reading)
  /\ reader \in [Readers -> Positions]

\* What is queued goes on where the messages read end.
QueueGoesOn ==
  /\ \A k \in 1 .. Len(read) : read[k].number = k
  /\ \A k \in 1 .. Len(inbox) : inbox[k].number = Len(read) + k
  /\ Len(read) + Len(inbox) = sent

\* Another reader has taken the message with that number.
Overtaken(number, r) == number \in 1 .. Len(read) /\ read[number].by # r

\* What a wait() was for is still the first message, and what got_text() said of
\* it is still so, unless another reader has taken it.
BetweenCalls(r) ==
  reader[r].at \in {"waited", "looked", "corrupting"} =>
    \/ Overtaken(reader[r].waited, r)
    \/ /\ reader[r].at # "corrupting" /\ inbox # <<>>
       /\ reader[r].waited = Len(read) + 1
       /\ reader[r].at = "looked" => reader[r].saw = Head(inbox).kind

\* Read as what it is by the one that waited for it, or by one overtaken.
ReadAsWaited(k) ==
  \/ read[k].waited = k /\ read[k].as = read[k].kind
  \/ Overtaken(read[k].waited, read[k].by)

\* Somebody must have taken the message that is no longer there.
SomeReaderFree ==
  /\ ~Socket!Signaled => \E r \in Readers : reader[r].at \in {"outside", "suspended"}
  /\ \E r \in Readers : reader[r].at # "blocked"

SocketInv ==
  /\ SocketTypes /\ QueueGoesOn /\ SomeReaderFree
  /\ \A r \in Readers : BetweenCalls(r)
  /\ \A k \in 1 .. Len(read) : ReadAsWaited(k)

LEMMA SocketInit == Init => SocketInv
<1> SUFFICES ASSUME Socket!Init PROVE SocketInv
  BY DEF Init
<1>1. Readers # {}
  BY CthAssumption
<1>2. inbox = <<>> /\ read = <<>> /\ Len(inbox) = 0 /\ Len(read) = 0 /\ sent = 0
  BY DEF Socket!Init
<1>3. \A r \in Readers : reader[r].at = "outside"
  BY DEF Socket!Init, Socket!Idle
<1>4. SocketTypes
  <2>1. Socket!Idle \in Positions
    BY DEF Socket!Idle, Positions, Places, Seen
  <2>2. closed \in BOOLEAN /\ reader \in [Readers -> Positions]
    BY <2>1 DEF Socket!Init
  <2> QED BY <1>2, <2>2, EmptySeq DEF SocketTypes
<1>5. QueueGoesOn
  BY <1>2 DEF QueueGoesOn
<1>6. SomeReaderFree
  BY <1>1, <1>3 DEF SomeReaderFree
<1>7. \A r \in Readers : BetweenCalls(r)
  BY <1>3 DEF BetweenCalls
<1> QED BY <1>2, <1>4, <1>5, <1>6, <1>7 DEF SocketInv

LEMMA SocketMeans ==
  ASSUME SocketInv
  PROVE  Socket!MessagesInOrder /\ Socket!OnlyOvertaken /\ Socket!SomeReaderRuns
<1>1. DOMAIN inbox = 1 .. Len(inbox) /\ DOMAIN read = 1 .. Len(read)
  <2>1. inbox \in Seq(Message) /\ read \in Seq(Reading)
    BY DEF SocketInv, SocketTypes
  <2> QED BY <2>1, LenProperties
<1>2. \A number, r : Overtaken(number, r) => Socket!TakenByAnother(number, r)
  BY <1>1 DEF Overtaken, Socket!TakenByAnother
<1>3. Socket!MessagesInOrder
  BY <1>1 DEF SocketInv, QueueGoesOn, Socket!MessagesInOrder
<1>4. Socket!OnlyOvertaken
  <2>1. \A k \in DOMAIN read : \/ read[k].waited = k /\ read[k].as = read[k].kind
                               \/ Socket!TakenByAnother(read[k].waited, read[k].by)
    BY <1>1, <1>2 DEF SocketInv, ReadAsWaited
  <2>2. \A r \in Readers :
          reader[r].at = "corrupting" => Socket!TakenByAnother(reader[r].waited, r)
    BY <1>2 DEF SocketInv, BetweenCalls
  <2> QED BY <2>1, <2>2 DEF Socket!OnlyOvertaken
<1> QED BY <1>3, <1>4 DEF SocketInv, SomeReaderFree, Socket!SomeReaderRuns

LEMMA ReceiveKeeps ==
  ASSUME SocketInv, NEW sort \in Socket!MessageKinds, Socket!Receive(sort)
  PROVE  SocketInv'
<1> DEFINE message == [number |-> sent + 1, kind |-> sort]
<1>1. /\ inbox \in Seq(Message) /\ read \in Seq(Reading) /\ sent \in Nat
      /\ sent' = sent + 1 /\ inbox' = Append(inbox, message)
      /\ UNCHANGED <<closed, reader, read>>
  BY DEF SocketInv, SocketTypes, Socket!Receive
<1>2. message \in Message
  BY <1>1 DEF Message
<1>3. /\ inbox' \in Seq(Message) /\ Len(inbox') = Len(inbox) + 1 /\ inbox' # <<>>
      /\ \A k \in 1 .. Len(inbox) : inbox'[k] = inbox[k]
      /\ inbox'[Len(inbox) + 1] = message
      /\ Len(inbox) \in Nat /\ Len(read) \in Nat
  BY <1>1, <1>2, AppendProperties, LenProperties
<1>4. Len(read) + Len(inbox) = sent
  BY DEF SocketInv, QueueGoesOn
<1>5. \A k \in 1 .. Len(inbox') : inbox'[k].number = Len(read) + k
  <2> TAKE k \in 1 .. Len(inbox')
  <2>1. CASE k = Len(inbox) + 1
    BY <1>1, <1>3, <1>4, <2>1
  <2>2. CASE k # Len(inbox) + 1
    <3>1. k \in 1 .. Len(inbox)
      BY <1>3, <2>2
    <3> QED BY <1>3, <3>1 DEF SocketInv, QueueGoesOn
  <2> QED BY <2>1, <2>2
<1>6. SocketTypes'
  <2>1. closed' \in BOOLEAN /\ read' \in Seq(Reading) /\ reader' \in [Readers -> Positions]
    BY <1>1 DEF SocketInv, SocketTypes
  <2>2. sent' \in Nat
    BY <1>1
  <2> QED BY <1>3, <2>1, <2>2 DEF SocketTypes
<1>7. QueueGoesOn'
  BY <1>1, <1>3, <1>4, <1>5 DEF SocketInv, QueueGoesOn
<1>8. SomeReaderFree'
  BY <1>1, <1>3 DEF SocketInv, SomeReaderFree, Socket!Signaled
<1>9. inbox # <<>> => Head(inbox') = Head(inbox)
  <2>1. CASE inbox # <<>>
    <3>1. 1 \in 1 .. Len(inbox) /\ Head(inbox) = inbox[1] /\ Head(inbox') = inbox'[1]
      BY <1>1, <1>3, <2>1
    <3> QED BY <1>3, <3>1
  <2> QED BY <2>1
<1>10. \A r \in Readers : BetweenCalls(r)'
  BY <1>1, <1>3, <1>9 DEF SocketInv, BetweenCalls, Overtaken
<1>11. \A k \in 1 .. Len(read') : ReadAsWaited(k)'
  BY <1>1 DEF SocketInv, ReadAsWaited, Overtaken
<1> QED BY <1>6, <1>7, <1>8, <1>10, <1>11 DEF SocketInv

LEMMA CloseKeeps ==
  ASSUME SocketInv, Socket!Close
  PROVE  SocketInv'
  BY DEF SocketInv, Socket!Close, SocketTypes, QueueGoesOn, SomeReaderFree, Socket!Signaled,
         BetweenCalls, ReadAsWaited, Overtaken

\* A reader's own step, which takes nothing.
LEMMA ReaderTurnKeeps ==
  ASSUME SocketInv, UNCHANGED <<inbox, closed, sent, read>>, NEW r \in Readers,
         NEW position \in Positions, reader' = [reader EXCEPT ![r] = position],
         BetweenCalls(r)',
         position.at = "blocked" =>
           \E other \in Readers : other # r /\ reader[other].at \in {"outside", "suspended"},
         \/ Socket!Signaled \/ position.at \in {"outside", "suspended"}
         \/ reader[r].at \notin {"outside", "suspended"}
  PROVE  SocketInv'
<1>1. SocketTypes /\ SocketTypes'
  BY DEF SocketInv, SocketTypes
<1>2. reader'[r] = position /\ \A other \in Readers \ {r} : reader'[other] = reader[other]
  BY <1>1 DEF SocketTypes
<1>3. QueueGoesOn'
  BY DEF SocketInv, QueueGoesOn
<1>4. \A other \in Readers : BetweenCalls(other)'
  <2> SUFFICES ASSUME NEW other \in Readers \ {r} PROVE BetweenCalls(other)'
    OBVIOUS
  <2> QED BY <1>2 DEF SocketInv, BetweenCalls, Overtaken
<1>5. \A k \in 1 .. Len(read') : ReadAsWaited(k)'
  BY DEF SocketInv, ReadAsWaited, Overtaken
<1>6. SomeReaderFree'
  <2>1. ~Socket!Signaled' => \E x \in Readers : reader'[x].at \in {"outside", "suspended"}
    BY <1>2 DEF SocketInv, SomeReaderFree, Socket!Signaled
  <2>2. \E x \in Readers : reader'[x].at # "blocked"
    BY <1>2
  <2> QED BY <2>1, <2>2 DEF SomeReaderFree
<1> QED BY <1>1, <1>3, <1>4, <1>5, <1>6 DEF SocketInv

\* A reader is outside after it.
LEMMA LeavesKeeps ==
  ASSUME SocketInv, UNCHANGED <<inbox, closed, sent, read>>, NEW r \in Readers,
         Socket!Leaves(r)
  PROVE  SocketInv'
<1>1. PICK position : position = Socket!Idle
  OBVIOUS
<1>2. position \in Positions /\ position.at = "outside"
  BY <1>1 DEF Socket!Idle, Positions, Places, Seen
<1>3. reader' = [reader EXCEPT ![r] = position]
  BY <1>1 DEF Socket!Leaves
<1>4. BetweenCalls(r)'
  BY <1>2, <1>3 DEF SocketInv, SocketTypes, BetweenCalls
<1> QED BY <1>2, <1>3, <1>4, ReaderTurnKeeps

LEMMA AwaitKeeps ==
  ASSUME SocketInv, NEW r \in Readers, NEW wants \in Socket!MessageKinds \cup {"message"},
         Socket!Await(r, wants)
  PROVE  SocketInv'
<1>1. PICK position :
        position = [reader[r] EXCEPT !.wants = wants,
                                     !.at = IF Socket!Signaled THEN "resuming" ELSE "suspended"]
  OBVIOUS
<1>2. reader[r] \in Positions /\ reader \in [Readers -> Positions]
  BY DEF SocketInv, SocketTypes
<1>3. /\ position \in Positions /\ position.at \in {"resuming", "suspended"}
      /\ position.at = "resuming" => Socket!Signaled
  BY <1>1, <1>2 DEF Positions, Places, Socket!MessageKinds
<1>4. reader' = [reader EXCEPT ![r] = position] /\ UNCHANGED <<inbox, closed, sent, read>>
  BY <1>1, <1>2 DEF Socket!Await
<1>5. BetweenCalls(r)'
  BY <1>2, <1>3, <1>4 DEF BetweenCalls
<1> QED BY <1>3, <1>4, <1>5, ReaderTurnKeeps

LEMMA MoveKeeps ==
  ASSUME SocketInv, NEW r \in Readers, Socket!Fire(r) \/ Socket!Block(r) \/ Socket!TakeNothing(r)
  PROVE  SocketInv'
<1>1. PICK place \in {"resuming", "blocked", "corrupting"} :
        /\ Socket!Move(r, place)
        /\ place = "resuming" => Socket!Fire(r)
        /\ place = "blocked" => Socket!Block(r)
        /\ place = "corrupting" => Socket!TakeNothing(r)
  BY DEF Socket!Fire, Socket!Block, Socket!TakeNothing
<1>2. PICK position : position = [reader[r] EXCEPT !.at = place]
  OBVIOUS
<1>3. reader[r] \in Positions /\ reader \in [Readers -> Positions]
  BY DEF SocketInv, SocketTypes
<1>4. /\ position \in Positions /\ position.at = place /\ position.waited = reader[r].waited
      /\ reader' = [reader EXCEPT ![r] = position] /\ reader'[r] = position
      /\ UNCHANGED <<inbox, closed, sent, read>>
  BY <1>1, <1>2, <1>3 DEF Positions, Places, Socket!Move, Socket!Fire, Socket!Block,
                          Socket!TakeNothing
<1>5. BetweenCalls(r)'
  <2>1. CASE place = "corrupting"
    <3>1. reader[r].at = "looked" /\ inbox = <<>>
      BY <1>1, <2>1 DEF Socket!TakeNothing
    <3>2. Overtaken(reader[r].waited, r)
      BY <3>1 DEF SocketInv, BetweenCalls
    <3> QED BY <1>4, <3>2 DEF BetweenCalls, Overtaken
  <2>2. CASE place # "corrupting"
    BY <1>1, <1>4, <2>2 DEF BetweenCalls
  <2> QED BY <2>1, <2>2
<1>6. /\ Socket!Signaled \/ reader[r].at \notin {"outside", "suspended"}
      /\ place = "blocked" => ~Socket!Signaled /\ reader[r].at = "resuming"
  BY <1>1 DEF Socket!Fire, Socket!Block, Socket!TakeNothing
<1>7. place = "blocked" =>
        \E other \in Readers : other # r /\ reader[other].at \in {"outside", "suspended"}
  BY <1>6 DEF SocketInv, SomeReaderFree
<1> QED BY <1>4, <1>5, <1>6, <1>7, ReaderTurnKeeps

LEMMA WaitedKeeps ==
  ASSUME SocketInv, NEW r \in Readers, Socket!Waited(r)
  PROVE  SocketInv'
<1>1. PICK position :
        position = [reader[r] EXCEPT !.at = "waited", !.waited = Head(inbox).number]
  OBVIOUS
<1>2. reader[r] \in Positions /\ reader \in [Readers -> Positions]
      /\ inbox \in Seq(Message) /\ inbox # <<>> /\ reader[r].at \in {"resuming", "blocked"}
      /\ read \in Seq(Reading)
  BY DEF SocketInv, SocketTypes, Socket!Waited
<1>3. Head(inbox).number = Len(read) + 1 /\ Len(read) + 1 \in Nat
  <2>1. 1 \in 1 .. Len(inbox) /\ Head(inbox) = inbox[1] /\ Len(read) \in Nat
    BY <1>2
  <2> QED BY <2>1 DEF SocketInv, QueueGoesOn
<1>4. /\ position \in Positions /\ position.at = "waited" /\ position.waited = Len(read) + 1
      /\ reader' = [reader EXCEPT ![r] = position] /\ reader'[r] = position
      /\ UNCHANGED <<inbox, closed, sent, read>>
  BY <1>1, <1>2, <1>3 DEF Positions, Places, Socket!Waited
<1>5. BetweenCalls(r)'
  BY <1>2, <1>4 DEF BetweenCalls
<1> QED BY <1>2, <1>4, <1>5, ReaderTurnKeeps DEF Socket!Signaled

LEMMA LookAtKindKeeps ==
  ASSUME SocketInv, NEW r \in Readers, Socket!LookAtKind(r)
  PROVE  SocketInv'
<1>1. CASE Socket!Leaves(r)
  BY <1>1, LeavesKeeps DEF Socket!LookAtKind
<1>2. CASE \E sort \in Socket!FrontKinds :
             reader' = [reader EXCEPT ![r].at = "looked", ![r].saw = sort]
  <2>1. PICK sort \in Socket!FrontKinds :
          reader' = [reader EXCEPT ![r].at = "looked", ![r].saw = sort]
    BY <1>2
  <2>2. PICK position : position = [reader[r] EXCEPT !.at = "looked", !.saw = sort]
    OBVIOUS
  <2>3. reader[r] \in Positions /\ reader \in [Readers -> Positions] /\ inbox \in Seq(Message)
        /\ reader[r].at = "waited" /\ UNCHANGED <<inbox, closed, sent, read>>
    BY DEF SocketInv, SocketTypes, Socket!LookAtKind
  <2>4. sort \in Socket!MessageKinds /\ (inbox # <<>> => sort = Head(inbox).kind)
    <3>1. CASE inbox = <<>>
      BY <3>1 DEF Socket!FrontKinds
    <3>2. CASE inbox # <<>>
      <4>1. Head(inbox) \in Message
        BY <2>3, <3>2
      <4> QED BY <3>2, <4>1 DEF Socket!FrontKinds, Message
    <3> QED BY <3>1, <3>2
  <2>5. /\ position \in Positions /\ position.at = "looked" /\ position.saw = sort
        /\ position.waited = reader[r].waited
        /\ reader' = [reader EXCEPT ![r] = position] /\ reader'[r] = position
    BY <2>1, <2>2, <2>3, <2>4 DEF Positions, Places, Seen
  <2>6. BetweenCalls(r)'
    BY <2>3, <2>4, <2>5 DEF SocketInv, BetweenCalls, Overtaken
  <2> QED BY <2>3, <2>5, <2>6, ReaderTurnKeeps
<1> QED BY <1>1, <1>2 DEF Socket!LookAtKind

\* The message at the head is read.
LEMMA TakeKeeps ==
  ASSUME SocketInv, NEW r \in Readers, Socket!Take(r)
  PROVE  SocketInv'
<1> DEFINE reading == [number |-> Head(inbox).number, kind |-> Head(inbox).kind,
                       as |-> reader[r].saw, by |-> r, waited |-> reader[r].waited]
<1>1. /\ inbox \in Seq(Message) /\ read \in Seq(Reading) /\ reader \in [Readers -> Positions]
      /\ reader[r] \in Positions /\ reader[r].at = "looked" /\ inbox # <<>>
      /\ inbox' = Tail(inbox) /\ read' = Append(read, reading)
      /\ reader' = [reader EXCEPT ![r] = Socket!Idle] /\ UNCHANGED <<closed, sent>>
  BY DEF SocketInv, SocketTypes, Socket!Take, Socket!Leaves
<1>2. /\ Len(inbox) \in Nat /\ Len(inbox) >= 1 /\ Head(inbox) = inbox[1]
      /\ Head(inbox) \in Message /\ Len(read) \in Nat
  BY <1>1
<1>3. /\ inbox' \in Seq(Message) /\ Len(inbox') = Len(inbox) - 1
      /\ \A k \in 1 .. Len(inbox') : inbox'[k] = inbox[k + 1]
  BY <1>1, <1>2, HeadTailProperties
<1>4. reading \in Reading
  BY <1>1, <1>2 DEF Reading, Positions, Message
<1>5. /\ read' \in Seq(Reading) /\ Len(read') = Len(read) + 1
      /\ \A k \in 1 .. Len(read) : read'[k] = read[k]
      /\ read'[Len(read) + 1] = reading
  BY <1>1, <1>2, <1>4, AppendProperties
<1>6. Head(inbox).number = Len(read) + 1
  <2>1. inbox[1].number = Len(read) + 1
    BY <1>2 DEF SocketInv, QueueGoesOn
  <2> QED BY <1>2, <2>1
<1>7. /\ reading.number = Len(read) + 1 /\ reading.kind = Head(inbox).kind
      /\ reading.as = reader[r].saw /\ reading.by = r /\ reading.waited = reader[r].waited
  BY <1>6
<1> HIDE DEF reading
<1>8. /\ reader' \in [Readers -> Positions] /\ reader'[r].at = "outside"
      /\ \A other \in Readers \ {r} : reader'[other] = reader[other]
  BY <1>1 DEF Socket!Idle, Positions, Places, Seen
<1>9. SocketTypes'
  BY <1>1, <1>3, <1>5, <1>8 DEF SocketInv, SocketTypes
<1>10. QueueGoesOn'
  <2>1. \A k \in 1 .. Len(read') : read'[k].number = k
    <3> TAKE k \in 1 .. Len(read')
    <3>1. CASE k = Len(read) + 1
      BY <1>5, <1>7, <3>1
    <3>2. CASE k # Len(read) + 1
      <4>1. k \in 1 .. Len(read)
        BY <1>2, <1>5, <3>2
      <4> QED BY <1>5, <4>1 DEF SocketInv, QueueGoesOn
    <3> QED BY <3>1, <3>2
  <2>2. \A k \in 1 .. Len(inbox') : inbox'[k].number = Len(read') + k
    <3> TAKE k \in 1 .. Len(inbox')
    <3>1. k + 1 \in 1 .. Len(inbox) /\ inbox'[k] = inbox[k + 1] /\ k \in Int
      BY <1>2, <1>3
    <3>2. inbox[k + 1].number = Len(read) + (k + 1)
      BY <3>1 DEF SocketInv, QueueGoesOn
    <3> QED BY <1>2, <1>5, <3>1, <3>2
  <2>3. Len(read') + Len(inbox') = sent'
    <3>1. Len(read) + Len(inbox) = sent
      BY DEF SocketInv, QueueGoesOn
    <3> QED BY <1>1, <1>2, <1>3, <1>5, <3>1
  <2> QED BY <2>1, <2>2, <2>3 DEF QueueGoesOn
<1>11. SomeReaderFree'
  BY <1>8 DEF SomeReaderFree
<1>12. ASSUME NEW number, NEW x, Overtaken(number, x) PROVE Overtaken(number, x)'
  <2>1. number \in 1 .. Len(read) /\ read[number].by # x
    BY <1>12 DEF Overtaken
  <2>2. number \in 1 .. Len(read') /\ read'[number] = read[number]
    BY <1>2, <1>5, <2>1
  <2> QED BY <2>1, <2>2 DEF Overtaken
<1>13. ASSUME NEW number, NEW x, number = Len(read) + 1, x # r PROVE Overtaken(number, x)'
  <2>1. number \in 1 .. Len(read') /\ read'[number] = reading
    BY <1>2, <1>5, <1>13
  <2> QED BY <1>7, <1>13, <2>1 DEF Overtaken
<1>14. \A x \in Readers : BetweenCalls(x)'
  <2> TAKE x \in Readers
  <2>1. CASE x = r \/ reader[x].at \notin {"waited", "looked", "corrupting"}
    <3>1. reader'[x].at \notin {"waited", "looked", "corrupting"}
      BY <1>8, <2>1
    <3> QED BY <3>1 DEF BetweenCalls
  <2>2. CASE x # r /\ reader[x].at \in {"waited", "looked", "corrupting"}
    <3>1. PICK number : number = reader[x].waited
      OBVIOUS
    <3>2. reader'[x].waited = number
      BY <1>8, <2>2, <3>1
    <3>3. Overtaken(number, x) \/ number = Len(read) + 1
      BY <2>2, <3>1 DEF SocketInv, BetweenCalls
    <3>4. Overtaken(number, x)'
      BY <1>12, <1>13, <2>2, <3>3
    <3> QED BY <3>2, <3>4 DEF BetweenCalls, Overtaken
  <2> QED BY <2>1, <2>2
<1>15. \A k \in 1 .. Len(read') : ReadAsWaited(k)'
  <2> TAKE k \in 1 .. Len(read')
  <2>1. CASE k = Len(read) + 1
    <3>1. /\ read'[k].waited = reader[r].waited /\ read'[k].as = reader[r].saw
          /\ read'[k].kind = Head(inbox).kind /\ read'[k].by = r
      BY <1>5, <1>7, <2>1
    <3>2. \/ Overtaken(reader[r].waited, r)
          \/ reader[r].waited = Len(read) + 1 /\ reader[r].saw = Head(inbox).kind
      BY <1>1 DEF SocketInv, BetweenCalls
    <3>3. CASE Overtaken(reader[r].waited, r)
      <4>1. PICK number : number = reader[r].waited
        OBVIOUS
      <4>2. Overtaken(number, r)'
        BY <1>12, <3>3, <4>1
      <4> QED BY <3>1, <4>1, <4>2 DEF ReadAsWaited, Overtaken
    <3> QED BY <2>1, <3>1, <3>2, <3>3 DEF ReadAsWaited
  <2>2. CASE k # Len(read) + 1
    <3>1. k \in 1 .. Len(read) /\ read'[k] = read[k]
      BY <1>2, <1>5, <2>2
    <3>2. ReadAsWaited(k)
      BY <3>1 DEF SocketInv
    <3>3. CASE Overtaken(read[k].waited, read[k].by)
      <4>1. PICK number, x : number = read[k].waited /\ x = read[k].by
        OBVIOUS
      <4>2. Overtaken(number, x)'
        BY <1>12, <3>3, <4>1
      <4> QED BY <3>1, <4>1, <4>2 DEF ReadAsWaited, Overtaken
    <3> QED BY <3>1, <3>2, <3>3 DEF ReadAsWaited
  <2> QED BY <2>1, <2>2
<1> QED BY <1>9, <1>10, <1>11, <1>14, <1>15 DEF SocketInv

LEMMA SocketStepKeeps ==
  ASSUME SocketInv, Socket!Next
  PROVE  SocketInv'
<1>1. ASSUME NEW r \in Readers, Socket!FoundClosed(r) \/ Socket!LeaveIt(r) PROVE SocketInv'
  BY <1>1, LeavesKeeps DEF Socket!FoundClosed, Socket!LeaveIt
<1> QED BY <1>1, ReceiveKeeps, CloseKeeps, AwaitKeeps, MoveKeeps, WaitedKeeps,
           LookAtKindKeeps, TakeKeeps DEF Socket!Next

-----------------------------------------------------------------------------
(* The checks.                                                             *)

Shown == IF Log!IsCheck /\ check.fails /\ Log!Severity[check.macro] >= build.level THEN 1 ELSE 0

\* Where the program is in a check tells who holds its report.
LogInv ==
  /\ build \in Log!Builds /\ check \in Log!Reachable
  /\ at \in {"reached", "block", "throwing", "leaving", "unwinding",
             "passed", "threw", "terminated", "undefined"}
  /\ at = "reached" => report = "none" /\ reports = 0
  /\ at \in {"block", "leaving"} =>
       Log!IsCheck /\ check.fails /\ report = "held" /\ reports = 0
  /\ at = "throwing" =>
       Log!IsCheck /\ check.fails /\ check.macro = "THROW" /\ report = "moved" /\ reports = 0
  /\ at = "unwinding" =>
       Log!IsCheck /\ check.fails /\ check.macro = "THROW" /\ report = "moved" /\ reports = Shown
  /\ Log!FailuresReported

LEMMA LogInit == Init => LogInv
  BY DEF Init, Log!Init, LogInv, Log!FailuresReported, Log!Ended

\* What each check is, as far as the steps look at it.
LEMMA CheckFacts ==
  ASSUME LogInv
  PROVE  /\ Log!Severity[check.macro] \in 0 .. 4 /\ build.level \in 0 .. 5
         /\ check.macro \in Log!Macros /\ check.stable \in BOOLEAN /\ check.fails \in BOOLEAN
         /\ Log!CriticalsOn \in BOOLEAN /\ Log!IsCheck \in BOOLEAN
         /\ check.macro = "CRITICAL" /\ ~Log!IsCheck => ~check.stable /\ ~Log!CriticalsOn
<1>1. /\ build.level \in 0 .. 5
      /\ check.macro \in Log!Macros /\ check.stable \in BOOLEAN /\ check.fails \in BOOLEAN
  BY DEF LogInv, Log!Builds, Log!Reachable, Log!LevelNone
<1>2. Log!Severity[check.macro] \in 0 .. 4
  BY <1>1 DEF Log!Severity, Log!Macros
<1>3. Log!CriticalsOn \in BOOLEAN
  BY DEF Log!CriticalsOn
<1>4. Log!IsCheck \in BOOLEAN
  BY <1>1 DEF Log!IsCheck, Log!Enabled
<1>5. check.macro = "CRITICAL" /\ ~Log!IsCheck => ~check.stable /\ ~Log!CriticalsOn
  BY DEF Log!IsCheck, Log!Enabled
<1> QED BY <1>1, <1>2, <1>3, <1>4, <1>5

LEMMA LogStepKeeps ==
  ASSUME LogInv, Log!Next
  PROVE  LogInv'
<1>1. UNCHANGED <<build, check>>
  BY DEF Log!Next, Log!Evaluate, Log!Disabled, Log!EndOfBlock, Log!LeaveBlock, Log!Throw,
         Log!Destroy, Log!Go
<1>2. /\ Log!IsCheck' = Log!IsCheck /\ Log!Severity'[check'.macro] = Log!Severity[check.macro]
      /\ Log!CriticalsOn' = Log!CriticalsOn /\ Shown' = Shown
  BY <1>1 DEF Log!IsCheck, Log!Enabled, Log!CriticalsOn, Log!ErrorsOn, Log!WarningsOn,
              Log!InfosOn, Log!LogsOn, Log!Severity, Shown
<1>3. /\ Log!Severity[check.macro] \in 0 .. 4 /\ build.level \in 0 .. 5
      /\ check.macro = "CRITICAL" /\ ~Log!IsCheck => ~check.stable /\ ~Log!CriticalsOn
  BY CheckFacts
<1>4. Log!PrintReport /\ reports = 0 /\ Log!IsCheck /\ check.fails => reports' = Shown
  BY <1>3 DEF Log!PrintReport, Shown
<1> USE DEF LogInv, Log!FailuresReported, Log!Ended, Log!Go
<1>5. CASE Log!Evaluate
  BY <1>1, <1>2, <1>5 DEF Log!Evaluate
<1>6. CASE Log!Disabled
  BY <1>1, <1>2, <1>3, <1>6 DEF Log!Disabled
<1>7. CASE Log!EndOfBlock
  BY <1>1, <1>2, <1>7 DEF Log!EndOfBlock
<1>8. CASE Log!LeaveBlock
  BY <1>1, <1>2, <1>8 DEF Log!LeaveBlock
<1>9. CASE Log!Throw
  BY <1>1, <1>2, <1>4, <1>9 DEF Log!Throw
<1>10. CASE Log!Destroy
  BY <1>1, <1>2, <1>4, <1>10 DEF Log!Destroy, Shown
<1> QED BY <1>5, <1>6, <1>7, <1>8, <1>9, <1>10 DEF Log!Next

-----------------------------------------------------------------------------
(* The ring.                                                               *)

\* A region as the invariant knows it: some laps, then its place in the buffer.
Regions == [begin : Nat, from : Nat, size : Nat, end : Nat]

InPlace(r) ==
  /\ r.end = r.from + r.size /\ r.begin + r.size <= RingSize
  /\ \E laps \in Nat : r.from = laps * RingSize + r.begin

RingTypes ==
  /\ head \in Nat /\ tail \in Nat /\ live \subseteq Regions
  /\ call \in [Threads -> [op : {"idle", "alloc", "commit", "free"}, head : Nat, tail : Nat,
                           arg : Nat]]

\* The live regions lie between tail and head, which are at most a lap apart.
BetweenCounters ==
  /\ tail <= head /\ head - tail <= RingSize
  /\ \A r \in live : InPlace(r) /\ tail <= r.from /\ r.end <= head
  /\ \A r, s \in live : r # s => r.end <= s.from \/ s.end <= r.from

\* What a thread knows in a call stays safe to act on.
CallSafe(t) ==
  /\ call[t].op = "commit" => /\ call[t].tail <= tail
                              /\ ~Ring!NotEnough(call[t].head, call[t].tail, call[t].arg)
  /\ call[t].op = "free" => call[t].arg <= head /\ \A r \in live : call[t].arg <= r.from

RingInv == RingTypes /\ BetweenCounters /\ \A t \in Threads : CallSafe(t)

LEMMA RingSizes == RingSize \in Nat \ {0} /\ AllocSizes \subseteq Nat
  BY CthAssumption DEF Ring!RingAllocAssumption

\* A position is some laps and its place in the buffer.
LEMMA Laps ==
  ASSUME NEW p \in Nat
  PROVE  /\ (p % RingSize) \in 0 .. RingSize - 1 /\ p \div RingSize \in Nat
         /\ p = (p \div RingSize) * RingSize + (p % RingSize)
  BY RingSizes

\* No two positions within a lap have the same place.
LEMMA SameLap ==
  ASSUME NEW a \in Nat, NEW b \in Nat, NEW u \in Int, NEW v \in Int,
         u \in 0 .. RingSize - 1, v \in 0 .. RingSize - 1,
         0 <= (a * RingSize + u) - (b * RingSize + v),
         (a * RingSize + u) - (b * RingSize + v) < RingSize
  PROVE  (a = b /\ v <= u) \/ (a = b + 1 /\ u < v)
<1> DEFINE d == a - b
<1>1. d \in Int /\ a * RingSize - b * RingSize = d * RingSize
  BY RingSizes
<1>2. d * RingSize > 0 - RingSize /\ d * RingSize < 2 * RingSize
  BY <1>1, RingSizes
<1>3. d \in {0, 1}
  <2>1. d > 0 - 1
    BY <1>1, <1>2, RingSizes
  <2>2. d < 2
    BY <1>1, <1>2, RingSizes
  <2> QED BY <1>1, <2>1, <2>2
<1> QED BY <1>1, <1>3, RingSizes

\* What alloc hands out at head.
LEMMA Placed ==
  ASSUME NEW h \in Nat, NEW size \in Nat, size <= RingSize
  PROVE  /\ Ring!Region(h, size) \in Regions /\ InPlace(Ring!Region(h, size))
         /\ h <= Ring!Region(h, size).from
         /\ Ring!Region(h, size).end = h + Ring!TotalSize(h, size)
         /\ Ring!TotalSize(h, size) \in Nat /\ size <= Ring!TotalSize(h, size)
<1>1. /\ (h % RingSize) \in 0 .. RingSize - 1 /\ h \div RingSize \in Nat
      /\ h = (h \div RingSize) * RingSize + (h % RingSize)
  BY Laps
<1> DEFINE laps == h \div RingSize
           u == h % RingSize
<1>2. CASE Ring!Wraps(h, size)
  <2>1. Ring!Padding(h, size) = RingSize - u /\ Ring!Padding(h, size) \in Nat
    BY <1>1, <1>2, RingSizes DEF Ring!Padding
  <2>2. Ring!Region(h, size) = [begin |-> 0, from |-> h + (RingSize - u), size |-> size,
                                end |-> h + (size + (RingSize - u))]
    BY <1>2, <2>1 DEF Ring!Region, Ring!TotalSize
  <2>3. h + (RingSize - u) = (laps + 1) * RingSize + 0 /\ laps + 1 \in Nat
    BY <1>1, RingSizes
  <2>4. InPlace(Ring!Region(h, size))
    <3>1. h + (size + (RingSize - u)) = (h + (RingSize - u)) + size
      BY <1>1, RingSizes
    <3>2. \E k \in Nat : h + (RingSize - u) = k * RingSize + 0
      BY <2>3
    <3> HIDE DEF u, laps
    <3> QED BY <2>2, <3>1, <3>2, RingSizes DEF InPlace
  <2> QED BY <1>1, <2>1, <2>2, <2>4, RingSizes DEF Regions, Ring!TotalSize
<1>3. CASE ~Ring!Wraps(h, size)
  <2>1. Ring!Padding(h, size) = 0 /\ u + size <= RingSize
    BY <1>1, <1>3, RingSizes DEF Ring!Padding, Ring!Wraps
  <2>2. Ring!Region(h, size) = [begin |-> u, from |-> h, size |-> size, end |-> h + size]
    BY <1>1, <1>3, <2>1 DEF Ring!Region, Ring!TotalSize
  <2>3. InPlace(Ring!Region(h, size))
    BY <1>1, <2>1, <2>2 DEF InPlace
  <2> QED BY <1>1, <2>1, <2>2, <2>3, RingSizes DEF Regions, Ring!TotalSize
<1> QED BY <1>2, <1>3

LEMMA RingInit == Init => RingInv
<1> SUFFICES ASSUME Ring!Init PROVE RingInv
  BY DEF Init
<1>1. /\ head = 0 /\ tail = 0 /\ live = {}
      /\ \A t \in Threads : call[t].op = "idle"
  BY DEF Ring!Init, Ring!Idle
<1>2. RingTypes
  BY <1>1 DEF RingTypes, Ring!Init, Ring!Idle
<1>3. BetweenCounters
  BY <1>1, RingSizes DEF BetweenCounters
<1> QED BY <1>1, <1>2, <1>3 DEF RingInv, CallSafe

\* Room that was there with an earlier tail is still there.
LEMMA StillRoom ==
  ASSUME NEW h \in Nat, NEW t \in Nat, NEW size \in Nat, ~Ring!NotEnough(h, t, size)
  PROVE  /\ size <= RingSize \/ t > h
         /\ t <= h + Ring!TotalSize(h, size) /\ h + Ring!TotalSize(h, size) - t <= RingSize
<1>1. /\ (h % RingSize) \in 0 .. RingSize - 1
  BY Laps
<1>2. Ring!TotalSize(h, size) \in Nat /\ size <= Ring!TotalSize(h, size)
  BY <1>1, RingSizes DEF Ring!TotalSize, Ring!Padding
<1> QED BY <1>2, RingSizes DEF Ring!NotEnough

LEMMA CommitKeeps ==
  ASSUME RingInv, NEW t \in Threads, Ring!Commit(t)
  PROVE  RingInv'
<1> DEFINE size == call[t].arg
           region == Ring!Region(head, size)
<1>1. /\ head \in Nat /\ tail \in Nat /\ live \subseteq Regions /\ size \in Nat
      /\ call[t].tail \in Nat
  BY DEF RingInv, RingTypes
<1>2. /\ call[t].head = head /\ head' = region.end /\ live' = live \cup {region}
      /\ call' = [call EXCEPT ![t] = Ring!Idle] /\ tail' = tail
      /\ call[t].op = "commit"
  BY DEF Ring!Commit
<1>3. call[t].tail <= tail /\ tail <= head /\ ~Ring!NotEnough(head, call[t].tail, size)
  BY <1>2 DEF RingInv, CallSafe, BetweenCounters
<1>4. size <= RingSize /\ head + Ring!TotalSize(head, size) - call[t].tail <= RingSize
  BY <1>1, <1>3, StillRoom
<1>5. /\ region \in Regions /\ InPlace(region) /\ head <= region.from
      /\ region.end = head + Ring!TotalSize(head, size) /\ Ring!TotalSize(head, size) \in Nat
  BY <1>1, <1>4, Placed
<1> HIDE DEF region, size
<1>6. region.end \in Nat /\ region.from <= region.end /\ region.from \in Nat
  BY <1>5 DEF InPlace, Regions
<1>7. RingTypes'
  BY <1>1, <1>2, <1>5, <1>6 DEF RingInv, RingTypes, Ring!Idle
<1>8. BetweenCounters'
  <2>1. tail' <= head' /\ head' - tail' <= RingSize /\ head <= head'
    BY <1>1, <1>2, <1>3, <1>4, <1>5, RingSizes
  <2>2. ASSUME NEW r \in live' PROVE InPlace(r) /\ tail' <= r.from /\ r.end <= head'
    <3>1. CASE r = region
      BY <1>1, <1>2, <1>3, <1>5, <1>6, <3>1
    <3>2. CASE r \in live
      <4>1. InPlace(r) /\ tail <= r.from /\ r.end <= head /\ r.end \in Nat
        BY <1>1, <3>2 DEF RingInv, BetweenCounters, Regions
      <4> QED BY <1>1, <1>2, <1>6, <2>1, <4>1
    <3> QED BY <1>2, <2>2, <3>1, <3>2
  <2>3. ASSUME NEW r \in live', NEW s \in live', r # s
        PROVE  r.end <= s.from \/ s.end <= r.from
    <3>1. ASSUME NEW x \in live PROVE x.end <= region.from
      BY <1>1, <1>5, <1>6, <3>1 DEF RingInv, BetweenCounters, Regions
    <3> QED BY <1>2, <2>3, <3>1 DEF RingInv, BetweenCounters
  <2> QED BY <2>1, <2>2, <2>3 DEF BetweenCounters, InPlace
<1>9. ASSUME NEW u \in Threads PROVE CallSafe(u)'
  <2>1. CASE u = t
    BY <1>2, <2>1 DEF CallSafe, Ring!Idle, RingInv, RingTypes
  <2>2. CASE u # t
    <3>1. call'[u] = call[u] /\ CallSafe(u) /\ call[u].arg \in Nat
      BY <1>2, <2>2 DEF RingInv, RingTypes
    <3>2. call[u].op = "commit" => /\ call'[u].tail <= tail'
             /\ ~Ring!NotEnough(call'[u].head, call'[u].tail, call'[u].arg)
      BY <1>2, <3>1 DEF CallSafe
    <3>3. call[u].op = "free" => call'[u].arg <= head' /\ \A r \in live' : call'[u].arg <= r.from
      BY <1>1, <1>2, <1>5, <1>6, <3>1 DEF CallSafe
    <3> QED BY <3>1, <3>2, <3>3 DEF CallSafe
  <2> QED BY <2>1, <2>2
<1> QED BY <1>7, <1>8, <1>9 DEF RingInv

\* The steps that leave the regions and the counters alone.
LEMMA CallKeeps ==
  ASSUME RingInv, NEW t \in Threads, UNCHANGED <<head, tail, live>>,
         NEW c \in [op : {"idle", "alloc", "commit", "free"}, head : Nat, tail : Nat, arg : Nat],
         call' = [call EXCEPT ![t] = c],
         c.op = "commit" => c.tail <= tail /\ ~Ring!NotEnough(c.head, c.tail, c.arg),
         c.op = "free" => call[t].op = "free" /\ c.arg = call[t].arg
  PROVE  RingInv'
<1>1. RingTypes'
  BY DEF RingInv, RingTypes
<1>2. BetweenCounters'
  BY DEF RingInv, BetweenCounters
<1>3. ASSUME NEW u \in Threads PROVE CallSafe(u)'
  <2>1. CASE u = t
    BY <2>1 DEF RingInv, RingTypes, CallSafe
  <2>2. CASE u # t
    BY <2>2 DEF RingInv, RingTypes, CallSafe
  <2> QED BY <2>1, <2>2
<1> QED BY <1>1, <1>2, <1>3 DEF RingInv

LEMMA StartFreeKeeps ==
  ASSUME RingInv, NEW t \in Threads, NEW region \in live, Ring!StartFree(t, region)
  PROVE  RingInv'
<1>1. /\ head \in Nat /\ tail \in Nat /\ live \subseteq Regions
      /\ live' = { r \in live : r.end > region.end } /\ UNCHANGED <<head, tail>>
      /\ call' = [call EXCEPT ![t] = [op |-> "free", head |-> 0, tail |-> tail,
                                     arg |-> region.end]]
  BY DEF RingInv, RingTypes, Ring!StartFree
<1>2. region.end \in Nat /\ region.from \in Nat /\ region.from <= region.end
      /\ region.end <= head
  BY <1>1 DEF RingInv, BetweenCounters, InPlace, Regions
<1>3. \A r \in live' : r \in live /\ region.end <= r.from
  BY <1>1, <1>2 DEF RingInv, BetweenCounters, Regions
<1>4. RingTypes'
  BY <1>1, <1>2 DEF RingInv, RingTypes
<1>5. BetweenCounters'
  BY <1>1 DEF RingInv, BetweenCounters
<1>6. ASSUME NEW u \in Threads PROVE CallSafe(u)'
  <2>1. CASE u = t
    BY <1>1, <1>2, <1>3, <2>1 DEF RingInv, RingTypes, CallSafe
  <2>2. CASE u # t
    BY <1>1, <2>2 DEF RingInv, RingTypes, CallSafe
  <2> QED BY <2>1, <2>2
<1> QED BY <1>4, <1>5, <1>6 DEF RingInv

LEMMA AdvanceTailKeeps ==
  ASSUME RingInv, NEW t \in Threads, Ring!AdvanceTail(t)
  PROVE  RingInv'
<1>1. /\ head \in Nat /\ tail \in Nat /\ live \subseteq Regions /\ call[t].arg \in Nat
      /\ tail' = call[t].arg /\ tail < tail' /\ UNCHANGED <<head, live>>
      /\ call' = [call EXCEPT ![t] = Ring!Idle]
  BY DEF RingInv, RingTypes, Ring!AdvanceTail
<1>2. call[t].arg <= head /\ \A r \in live : call[t].arg <= r.from
  BY DEF RingInv, CallSafe, Ring!AdvanceTail
<1>3. RingTypes'
  BY <1>1 DEF RingInv, RingTypes, Ring!Idle
<1>4. BetweenCounters'
  BY <1>1, <1>2, RingSizes DEF RingInv, BetweenCounters
<1>5. ASSUME NEW u \in Threads PROVE CallSafe(u)'
  <2>1. CASE u = t
    BY <1>1, <2>1 DEF RingInv, RingTypes, CallSafe, Ring!Idle
  <2>2. CASE u # t
    <3>1. call'[u] = call[u] /\ call[u].tail \in Nat /\ CallSafe(u)
      BY <1>1, <2>2 DEF RingInv, RingTypes
    <3> QED BY <1>1, <3>1 DEF CallSafe
  <2> QED BY <2>1, <2>2
<1> QED BY <1>3, <1>4, <1>5 DEF RingInv

LEMMA RingStepKeeps ==
  ASSUME RingInv, Ring!Next
  PROVE  RingInv'
<1>1. PICK t \in Threads :
        \/ \E size \in AllocSizes : Ring!StartAlloc(t, size)
        \/ Ring!Refuse(t) \/ Ring!Fits(t) \/ Ring!Commit(t) \/ Ring!RetryAlloc(t)
        \/ \E region \in live : Ring!StartFree(t, region)
        \/ Ring!AlreadyFree(t) \/ Ring!AdvanceTail(t) \/ Ring!RetryFree(t)
  BY DEF Ring!Next
<1> DEFINE Kept(c) ==
      /\ UNCHANGED <<head, tail, live>> /\ call' = [call EXCEPT ![t] = c]
      /\ c \in [op : {"idle", "alloc", "commit", "free"}, head : Nat, tail : Nat, arg : Nat]
      /\ c.op = "commit" => c.tail <= tail /\ ~Ring!NotEnough(c.head, c.tail, c.arg)
      /\ c.op = "free" => call[t].op = "free" /\ c.arg = call[t].arg
<1>2. head \in Nat /\ tail \in Nat
      /\ call[t] \in [op : {"idle", "alloc", "commit", "free"}, head : Nat, tail : Nat, arg : Nat]
      /\ call \in [Threads -> [op : {"idle", "alloc", "commit", "free"}, head : Nat, tail : Nat,
                               arg : Nat]]
  BY DEF RingInv, RingTypes
<1>3. ASSUME NEW c, Kept(c) PROVE RingInv'
  BY <1>3, CallKeeps
<1>4. ASSUME NEW size \in AllocSizes, Ring!StartAlloc(t, size) PROVE RingInv'
  <2>1. Kept([op |-> "alloc", head |-> head, tail |-> 0, arg |-> size])
    BY <1>2, <1>4, RingSizes DEF Ring!StartAlloc
  <2> QED BY <1>3, <2>1
<1>5. CASE Ring!Refuse(t) \/ Ring!AlreadyFree(t)
  <2>1. Kept(Ring!Idle)
    BY <1>5 DEF Ring!Refuse, Ring!AlreadyFree, Ring!Idle
  <2> QED BY <1>3, <2>1
<1>6. CASE Ring!Fits(t)
  <2> DEFINE c == [call[t] EXCEPT !.op = "commit", !.tail = tail]
  <2>1. /\ c \in [op : {"idle", "alloc", "commit", "free"}, head : Nat, tail : Nat, arg : Nat]
        /\ c.op = "commit" /\ c.tail = tail /\ c.head = call[t].head /\ c.arg = call[t].arg
    BY <1>2
  <2>2. UNCHANGED <<head, tail, live>> /\ call' = [call EXCEPT ![t] = c]
    BY <1>2, <1>6 DEF Ring!Fits
  <2>3. ~Ring!NotEnough(c.head, c.tail, c.arg)
    BY <1>6, <2>1 DEF Ring!Fits
  <2> HIDE DEF c
  <2>4. Kept(c)
    BY <1>2, <2>1, <2>2, <2>3
  <2> QED BY <1>3, <2>4
<1>7. CASE Ring!RetryAlloc(t)
  <2>1. Kept([call[t] EXCEPT !.op = "alloc", !.head = head])
    BY <1>2, <1>7 DEF Ring!RetryAlloc
  <2> QED BY <1>3, <2>1
<1>8. CASE Ring!RetryFree(t)
  <2>1. Kept([call[t] EXCEPT !.tail = tail])
    BY <1>2, <1>8 DEF Ring!RetryFree
  <2> QED BY <1>3, <2>1
<1> QED BY <1>1, <1>4, <1>5, <1>6, <1>7, <1>8, CommitKeeps, StartFreeKeeps, AdvanceTailKeeps

\* Live regions are a lap apart at most, so what differs in position differs in place.
LEMMA RegionsApart == RingInv => Ring!RegionsDisjoint
<1> SUFFICES ASSUME RingInv PROVE Ring!RegionsDisjoint
  OBVIOUS
<1>1. /\ head \in Nat /\ tail \in Nat /\ live \subseteq Regions
      /\ tail <= head /\ head - tail <= RingSize
      /\ \A r \in live : InPlace(r) /\ tail <= r.from /\ r.end <= head
      /\ \A r, s \in live : r # s => r.end <= s.from \/ s.end <= r.from
  BY DEF RingInv, RingTypes, BetweenCounters
<1>2. ASSUME NEW r \in live PROVE Ring!Bytes(r) \subseteq 0 .. RingSize - 1
  BY <1>1, RingSizes DEF InPlace, Regions, Ring!Bytes
<1>3. ASSUME NEW r \in live, NEW s \in live, r.end <= s.from, NEW b \in Ring!Bytes(r),
             b \in Ring!Bytes(s)
      PROVE  FALSE
  <2>1. PICK k \in Nat : r.from = k * RingSize + r.begin
    BY <1>1 DEF InPlace
  <2>2. PICK m \in Nat : s.from = m * RingSize + s.begin
    BY <1>1 DEF InPlace
  <2>3. /\ r.begin \in Nat /\ r.from \in Nat /\ r.size \in Nat /\ r.end = r.from + r.size
        /\ s.begin \in Nat /\ s.from \in Nat /\ s.size \in Nat /\ s.end = s.from + s.size
        /\ b \in r.begin .. r.begin + r.size - 1 /\ b \in s.begin .. s.begin + s.size - 1
        /\ b \in 0 .. RingSize - 1
    BY <1>1, <1>2, <1>3 DEF InPlace, Regions, Ring!Bytes
  <2> DEFINE x == m * RingSize + b
             y == k * RingSize + b
  <2>4. /\ k * RingSize \in Nat /\ m * RingSize \in Nat
        /\ x = s.from + (b - s.begin) /\ y = r.from + (b - r.begin)
    BY <2>1, <2>2, <2>3, RingSizes
  <2>5. y < r.end /\ r.end <= x /\ x < s.end /\ s.end <= head /\ tail <= y
    BY <1>1, <1>3, <2>3, <2>4
  <2>6. 0 <= x - y /\ x - y < RingSize /\ x # y
    BY <1>1, <2>3, <2>4, <2>5, RingSizes
  <2>7. b \in Int /\ b \in 0 .. RingSize - 1 /\ 0 <= (m * RingSize + b) - (k * RingSize + b)
        /\ (m * RingSize + b) - (k * RingSize + b) < RingSize
    BY <2>3, <2>6
  <2> HIDE DEF x, y
  <2>8. (m = k /\ b <= b) \/ (m = k + 1 /\ b < b)
    BY <2>7, SameLap
  <2> QED BY <2>6, <2>7, <2>8 DEF x, y
<1> QED BY <1>1, <1>2, <1>3 DEF Ring!RegionsDisjoint

\* max_alloc, by how head and tail lie in the buffer.
LEMMA MaxAllocIsExact == RingInv => Ring!MaxAllocExact
<1> SUFFICES ASSUME RingInv, NEW size \in 1 .. RingSize + 1
             PROVE  Ring!NotEnough(head, tail, size) <=> size > Ring!MaxAlloc(head, tail)
  BY DEF Ring!MaxAllocExact
<1> DEFINE u == head % RingSize
           v == tail % RingSize
           a == head \div RingSize
           b == tail \div RingSize
           total == Ring!TotalSize(head, size)
<1>1. head \in Nat /\ tail \in Nat /\ tail <= head /\ head - tail <= RingSize /\ size \in Nat
  BY RingSizes DEF RingInv, RingTypes, BetweenCounters
<1>2. /\ u \in 0 .. RingSize - 1 /\ a \in Nat /\ head = a * RingSize + u
      /\ v \in 0 .. RingSize - 1 /\ b \in Nat /\ tail = b * RingSize + v
  BY <1>1, Laps
<1>3. total = IF u + size > RingSize THEN size + (RingSize - u) ELSE size
  BY <1>1, <1>2, RingSizes DEF Ring!TotalSize, Ring!Padding, Ring!Wraps
<1>4. Ring!NotEnough(head, tail, size) <=> head - tail + total > RingSize
  BY <1>1, <1>2, <1>3, RingSizes DEF Ring!NotEnough
<1>5. Ring!MaxAlloc(head, tail) =
        IF head - tail >= RingSize THEN 0
        ELSE IF u < v THEN v - u ELSE IF RingSize - u > v THEN RingSize - u ELSE v
  BY DEF Ring!MaxAlloc
<1>6. CASE head - tail >= RingSize
  BY <1>1, <1>2, <1>3, <1>4, <1>5, <1>6, RingSizes
<1>7. CASE head - tail < RingSize
  <2> HIDE DEF u, v, a, b, total
  <2>1. /\ u \in Int /\ v \in Int /\ 0 <= (a * RingSize + u) - (b * RingSize + v)
        /\ (a * RingSize + u) - (b * RingSize + v) < RingSize
    BY <1>1, <1>2, <1>7
  <2>2. (a = b /\ v <= u) \/ (a = b + 1 /\ u < v)
    BY <1>2, <2>1, SameLap
  <2>3. head - tail = IF u < v THEN RingSize + u - v ELSE u - v
    BY <1>1, <1>2, <2>2, RingSizes
  <2> QED BY <1>1, <1>2, <1>3, <1>4, <1>5, <1>7, <2>3, RingSizes
<1> QED BY <1>1, <1>6, <1>7, RingSizes

\* What a thread asks for does not fit behind head: a byte of it, or of the padding it
\* would need, is held, or the two overlap.
NoRoomBehindHead(t) ==
  LET size == call[t].arg
      place == IF Ring!Wraps(head, size) THEN 0 ELSE head % RingSize
      padding == (head % RingSize) .. (head % RingSize) + Ring!Padding(head, size) - 1
      bytes == place .. place + size - 1
  IN (bytes \cup padding) \cap Ring!Held # {} \/ bytes \cap padding # {}

\* A refusal with a fresh head: the oldest byte held lies in what was asked for, or that
\* overlaps with the padding it would need.
LEMMA RefusedForRoom ==
  ASSUME RingInv, NEW t \in Threads, Ring!Refuse(t), call[t].head = head
  PROVE  NoRoomBehindHead(t)
<1> DEFINE size == call[t].arg
           u == head % RingSize
           a == head \div RingSize
           padding == u .. u + Ring!Padding(head, size) - 1
           oldest == tail % RingSize
<1>1. head \in Nat /\ tail \in Nat /\ tail <= head /\ head - tail <= RingSize /\ size \in Nat
  BY DEF RingInv, RingTypes, BetweenCounters
<1>2. /\ u \in 0 .. RingSize - 1 /\ a \in Nat /\ head = a * RingSize + u
      /\ oldest \in 0 .. RingSize - 1 /\ tail \div RingSize \in Nat
      /\ tail = (tail \div RingSize) * RingSize + oldest
  BY <1>1, Laps
<1>3. Ring!NotEnough(head, tail, size)
  BY DEF Ring!Refuse
<1>4. ASSUME tail < head PROVE oldest \in Ring!Held
  BY <1>1, <1>4 DEF Ring!Held, oldest
<1>5. ASSUME NEW v \in 0 .. RingSize - 1, NEW b \in Int, tail = b * RingSize + v PROVE v = oldest
  <2>1. b \in Nat
    BY <1>1, <1>5, RingSizes
  <2> DEFINE c == tail \div RingSize
  <2>2. c \in Nat /\ tail = c * RingSize + oldest
    BY <1>2
  <2> HIDE DEF c, oldest, u, a, padding
  <2>3. 0 <= (b * RingSize + v) - (c * RingSize + oldest)
        /\ 0 <= (c * RingSize + oldest) - (b * RingSize + v)
        /\ (b * RingSize + v) - (c * RingSize + oldest) < RingSize
        /\ (c * RingSize + oldest) - (b * RingSize + v) < RingSize
        /\ v \in Int /\ oldest \in Int
    BY <1>1, <1>2, <1>5, <2>2, RingSizes
  <2>4. (b = c /\ oldest <= v) \/ (b = c + 1 /\ v < oldest)
    BY <1>2, <1>5, <2>1, <2>2, <2>3, SameLap
  <2>5. (c = b /\ v <= oldest) \/ (c = b + 1 /\ oldest < v)
    BY <1>2, <1>5, <2>1, <2>2, <2>3, SameLap
  <2> QED BY <1>2, <1>5, <2>1, <2>2, <2>4, <2>5
<1> HIDE DEF u, a, oldest, padding
<1>6. (a - 1) * RingSize = a * RingSize - RingSize /\ a * RingSize \in Nat /\ a - 1 \in Int
  BY <1>2, RingSizes
<1>7. CASE ~Ring!Wraps(head, size)
  <2>1. Ring!TotalSize(head, size) = size /\ u + size <= RingSize
    BY <1>1, <1>2, <1>7, RingSizes DEF Ring!TotalSize, Ring!Padding, Ring!Wraps, u
  <2>2. size > RingSize - (head - tail)
    BY <1>1, <1>3, <2>1, RingSizes DEF Ring!NotEnough
  <2> DEFINE v == tail + RingSize - head + u
  <2>3. v \in u .. u + size - 1 /\ v \in 0 .. RingSize - 1 /\ tail < head
    BY <1>1, <1>2, <2>1, <2>2, RingSizes
  <2>4. tail = (a - 1) * RingSize + v /\ a - 1 \in Int
    BY <1>1, <1>2, <1>6, RingSizes
  <2> HIDE DEF v
  <2>5. v = oldest
    BY <1>5, <2>3, <2>4
  <2>6. oldest \in u .. u + size - 1 /\ oldest \in Ring!Held
    BY <1>4, <2>3, <2>5
  <2> QED BY <1>7, <2>6 DEF u, NoRoomBehindHead
<1>8. CASE Ring!Wraps(head, size)
  <2>1. /\ Ring!Padding(head, size) = RingSize - u /\ Ring!TotalSize(head, size) = size + (RingSize - u)
    BY <1>1, <1>2, <1>8, RingSizes DEF Ring!TotalSize, Ring!Padding, u
  <2>2. padding = u .. RingSize - 1
    BY <1>2, <2>1, RingSizes DEF padding
  <2>3. size + (RingSize - u) > RingSize - (head - tail)
    BY <1>1, <1>2, <1>3, <2>1, RingSizes DEF Ring!NotEnough
  <2>4. CASE size > u
    <3> HIDE DEF size
    <3>1. u \in 0 .. 0 + size - 1 /\ u \in padding
      BY <1>1, <1>2, <2>2, <2>4, RingSizes
    <3> QED BY <1>8, <2>1, <3>1 DEF u, padding, size, NoRoomBehindHead
  <2>5. CASE size <= u /\ tail < head - u
    <3> DEFINE v == tail + RingSize - head + u
    <3>1. v \in u .. RingSize - 1 /\ v \in 0 .. RingSize - 1 /\ tail < head
      BY <1>1, <1>2, <2>5, RingSizes
    <3>2. tail = (a - 1) * RingSize + v /\ a - 1 \in Int
      BY <1>1, <1>2, <1>6, RingSizes
    <3> HIDE DEF v
    <3>3. oldest \in padding /\ oldest \in Ring!Held
      BY <1>4, <1>5, <2>2, <3>1, <3>2
    <3> QED BY <1>8, <3>3 DEF u, padding, NoRoomBehindHead
  <2>6. CASE size <= u /\ tail >= head - u
    <3> DEFINE v == tail - (head - u)
    <3>1. v \in 0 .. 0 + size - 1 /\ v \in 0 .. RingSize - 1 /\ tail < head
      BY <1>1, <1>2, <2>3, <2>6, RingSizes
    <3>2. tail = a * RingSize + v /\ a \in Int
      BY <1>1, <1>2, <1>6, RingSizes
    <3> HIDE DEF v
    <3>3. oldest \in 0 .. 0 + size - 1 /\ oldest \in Ring!Held
      BY <1>4, <1>5, <3>1, <3>2
    <3> QED BY <1>8, <3>3 DEF u, padding, NoRoomBehindHead
  <2> QED BY <1>1, <1>2, <2>4, <2>5, <2>6
<1> QED BY <1>7, <1>8

-----------------------------------------------------------------------------
(* The owning handles.                                                     *)

Resources == 1 .. Len(freed)

OwnerTypes ==
  /\ freed \in Seq(Nat) /\ released \subseteq Resources
  /\ holds \in [DOMAIN holds -> Resources \cup {0}]

\* Objects refer to what is open and not given up, each to something of its own;
\* what is open and not given up is referred to.
RefersToOpen == \A o \in DOMAIN holds : holds[o] # 0 => freed[holds[o]] = 0 /\ holds[o] \notin released
OneOwner == \A o, p \in DOMAIN holds : holds[o] = holds[p] /\ holds[o] # 0 => o = p
Accounted ==
  \A r \in Resources : /\ freed[r] \in {0, 1} /\ (r \in released => freed[r] = 0)
                       /\ freed[r] = 0 /\ r \notin released => \E o \in DOMAIN holds : holds[o] = r

OwnedApart == RefersToOpen /\ OneOwner /\ Accounted

OwnerInv ==
  /\ OwnerTypes
  /\ IF kind = "move_ptr" THEN \A r \in Resources : freed[r] = 0 ELSE OwnedApart

LEMMA OwnerInit == Init => OwnerInv
<1> SUFFICES ASSUME Owner!Init PROVE OwnerInv
  BY DEF Init
<1>1. freed = <<>> /\ Len(freed) = 0 /\ DOMAIN holds = {} /\ released = {}
  BY DEF Owner!Init
<1>2. OwnerTypes
  <2>1. freed \in Seq(Nat)
    BY <1>1, EmptySeq
  <2>2. holds = [o \in DOMAIN holds |-> holds[o]]
    BY DEF Owner!Init
  <2>3. holds \in [DOMAIN holds -> Resources \cup {0}]
    BY <1>1, <2>2
  <2> QED BY <1>1, <2>1, <2>3 DEF OwnerTypes
<1> QED BY <1>1, <1>2 DEF OwnerInv, OwnedApart, RefersToOpen, OneOwner, Accounted, Resources

LEMMA OwnerMeans == OwnerInv => Owner!OwnedOnce
<1> SUFFICES ASSUME OwnerInv, NEW r \in Resources
             PROVE  LET owners == { o \in DOMAIN holds : holds[o] = r }
                    IN IF kind = "move_ptr" THEN freed[r] = 0
                       ELSE /\ freed[r] + (IF r \in released THEN 1 ELSE 0)
                                 + (IF owners # {} THEN 1 ELSE 0) = 1
                            /\ \A o, p \in owners : o = p
  <2>1. OwnerInv => DOMAIN freed = Resources
    BY LenProperties DEF OwnerInv, OwnerTypes, Resources
  <2> QED BY <2>1 DEF Owner!OwnedOnce, Owner!Opened
<1>1. r # 0 /\ freed[r] \in Nat
  BY DEF OwnerInv, OwnerTypes, Resources
<1> QED BY <1>1 DEF OwnerInv, OwnedApart, RefersToOpen, OneOwner, Accounted

\* Closing counts one resource once more, if there is one and the class closes.
LEMMA Closing ==
  ASSUME OwnerTypes, NEW r \in Resources \cup {0}
  PROVE  /\ Owner!Close(r) \in Seq(Nat) /\ Len(Owner!Close(r)) = Len(freed)
         /\ \A k \in Resources : Owner!Close(r)[k] =
              IF k = r /\ kind # "move_ptr" THEN freed[k] + 1 ELSE freed[k]
<1>1. freed \in Seq(Nat) /\ Len(freed) \in Nat
  BY LenProperties DEF OwnerTypes
<1>2. CASE r = 0 \/ kind = "move_ptr"
  BY <1>1, <1>2 DEF Owner!Close, Owner!None, Resources
<1>3. CASE r # 0 /\ kind # "move_ptr"
  <2>1. Owner!Close(r) = [freed EXCEPT ![r] = freed[r] + 1] /\ r \in 1 .. Len(freed)
    BY <1>3 DEF Owner!Close, Owner!None, Resources
  <2>2. freed[r] + 1 \in Nat
    BY <1>1, <2>1
  <2>3. Owner!Close(r) \in Seq(Nat) /\ Len(Owner!Close(r)) = Len(freed)
    BY <1>1, <2>1, <2>2, ExceptSeq
  <2> QED BY <1>1, <1>3, <2>1, <2>3 DEF Resources
<1> QED BY <1>2, <1>3

\* A new resource is open.
LEMMA Opening ==
  ASSUME NEW s \in Seq(Nat), Len(s) = Len(freed), freed' = Append(s, 0)
  PROVE  /\ freed' \in Seq(Nat) /\ Len(freed') = Len(freed) + 1 /\ Len(freed) \in Nat
         /\ \A k \in Resources : freed'[k] = s[k]
         /\ freed'[Len(freed) + 1] = 0
         /\ Resources' = Resources \cup {Len(freed) + 1}
         /\ Len(freed) + 1 \notin Resources /\ Len(freed) + 1 # 0
<1>1. /\ freed' \in Seq(Nat) /\ Len(freed') = Len(s) + 1 /\ Len(s) \in Nat
      /\ \A k \in 1 .. Len(s) : freed'[k] = s[k]
      /\ freed'[Len(s) + 1] = 0
  BY AppendProperties, LenProperties
<1> QED BY <1>1 DEF Resources

LEMMA ConstructKeeps ==
  ASSUME OwnerInv, NEW o \in Objects, Owner!Construct(o)
  PROVE  OwnerInv'
<1> DEFINE new == Len(freed) + 1
<1>1. /\ o \notin DOMAIN holds /\ freed' = Append(freed, 0) /\ UNCHANGED <<kind, released>>
      /\ holds' = [x \in DOMAIN holds \cup {o} |-> IF x = o THEN new ELSE holds[x]]
  BY DEF Owner!Construct, Owner!With
<1>2. freed \in Seq(Nat)
  BY DEF OwnerInv, OwnerTypes
<1>3. /\ freed' \in Seq(Nat) /\ \A k \in Resources : freed'[k] = freed[k]
      /\ freed'[new] = 0 /\ Resources' = Resources \cup {new} /\ new \notin Resources /\ new # 0
  BY <1>1, <1>2, Opening
<1> HIDE DEF new
<1>4. DOMAIN holds' = DOMAIN holds \cup {o} /\ holds'[o] = new
      /\ \A x \in DOMAIN holds : holds'[x] = holds[x]
  BY <1>1
<1>5. OwnerTypes'
  BY <1>1, <1>3, <1>4 DEF OwnerInv, OwnerTypes
<1>6. ASSUME kind # "move_ptr" PROVE OwnedApart'
  <2>1. OwnerTypes /\ OwnedApart /\ 0 \notin Resources
    BY <1>1, <1>3, <1>4, <1>6 DEF OwnerInv, Resources
  <2>2. RefersToOpen'
    <3>1. \A x \in DOMAIN holds : holds[x] # 0 => holds[x] \in Resources /\ freed'[holds[x]] = 0
      BY <1>3, <2>1 DEF OwnerTypes, OwnedApart, RefersToOpen
    <3>2. new \notin released' /\ freed'[new] = 0
      BY <1>1, <1>3, <2>1 DEF OwnerTypes
    <3> QED BY <1>1, <1>4, <2>1, <3>1, <3>2 DEF OwnedApart, RefersToOpen
  <2>3. OneOwner'
    BY <1>1, <1>3, <1>4, <2>1 DEF OwnerTypes, OwnedApart, RefersToOpen, OneOwner, Accounted
  <2>4. Accounted'
    BY <1>1, <1>3, <1>4, <2>1 DEF OwnerTypes, OwnedApart, RefersToOpen, OneOwner, Accounted
  <2> QED BY <2>2, <2>3, <2>4 DEF OwnedApart
<1>7. kind = "move_ptr" => \A r \in Resources' : freed'[r] = 0
  BY <1>3 DEF OwnerInv
<1> QED BY <1>1, <1>5, <1>6, <1>7 DEF OwnerInv

LEMMA DestroyKeeps ==
  ASSUME OwnerInv, NEW o \in DOMAIN holds, Owner!Destroy(o)
  PROVE  OwnerInv'
<1>1. /\ freed' = Owner!Close(holds[o]) /\ UNCHANGED <<kind, released>>
      /\ holds' = [x \in DOMAIN holds \ {o} |-> holds[x]]
      /\ holds[o] \in Resources \cup {0} /\ OwnerTypes
  BY DEF Owner!Destroy, OwnerInv, OwnerTypes
<1>2. /\ freed' \in Seq(Nat) /\ Resources' = Resources
      /\ \A k \in Resources :
           freed'[k] = IF k = holds[o] /\ kind # "move_ptr" THEN freed[k] + 1 ELSE freed[k]
  BY <1>1, Closing DEF Resources
<1>3. DOMAIN holds' = DOMAIN holds \ {o} /\ \A x \in DOMAIN holds' : holds'[x] = holds[x]
  BY <1>1
<1>4. OwnerTypes'
  BY <1>1, <1>2, <1>3 DEF OwnerTypes
<1>5. ASSUME kind # "move_ptr" PROVE OwnedApart'
  <2>1. OwnerTypes /\ OwnedApart /\ 0 \notin Resources
    BY <1>1, <1>2, <1>3, <1>5 DEF OwnerInv, Resources
  <2>2. RefersToOpen'
    BY <1>1, <1>2, <1>3, <2>1 DEF OwnerTypes, OwnedApart, RefersToOpen, OneOwner, Accounted
  <2>3. OneOwner'
    BY <1>1, <1>2, <1>3, <2>1 DEF OwnerTypes, OwnedApart, RefersToOpen, OneOwner, Accounted
  <2>4. Accounted'
    <3>1. ASSUME NEW r \in Resources, freed[r] = 0, r \notin released, r # holds[o]
          PROVE  \E x \in DOMAIN holds' : holds'[x] = r
      BY <1>3, <2>1, <3>1 DEF OwnedApart, Accounted
    <3>2. ASSUME NEW r \in Resources PROVE freed[r] \in {0, 1} /\ (r \in released => freed[r] = 0)
      BY <2>1, <3>2 DEF OwnedApart, Accounted
    <3>3. holds[o] # 0 => freed[holds[o]] = 0 /\ holds[o] \notin released
      BY <2>1 DEF OwnedApart, RefersToOpen
    <3> QED BY <1>1, <1>2, <1>5, <2>1, <3>1, <3>2, <3>3 DEF Accounted
  <2> QED BY <2>2, <2>3, <2>4 DEF OwnedApart
<1>6. kind = "move_ptr" => \A r \in Resources' : freed'[r] = 0
  BY <1>2 DEF OwnerInv
<1> QED BY <1>1, <1>4, <1>5, <1>6 DEF OwnerInv

LEMMA MoveConstructKeeps ==
  ASSUME OwnerInv, NEW o \in Objects, NEW from \in DOMAIN holds, Owner!MoveConstruct(o, from)
  PROVE  OwnerInv'
<1>1. /\ o \notin DOMAIN holds /\ UNCHANGED <<kind, freed, released>>
      /\ holds' = [[x \in DOMAIN holds \cup {o} |-> IF x = o THEN holds[from] ELSE holds[x]]
                     EXCEPT ![from] = 0]
  BY DEF Owner!MoveConstruct, Owner!With, Owner!None
<1>2. /\ DOMAIN holds' = DOMAIN holds \cup {o} /\ holds'[from] = 0 /\ holds'[o] = holds[from]
      /\ \A x \in DOMAIN holds : x # from => holds'[x] = holds[x]
  BY <1>1
<1>3. Resources' = Resources
  BY <1>1 DEF Resources
<1>4. OwnerTypes'
  BY <1>1, <1>2, <1>3 DEF OwnerInv, OwnerTypes
<1>5. ASSUME kind # "move_ptr" PROVE OwnedApart'
  <2>1. OwnerTypes /\ OwnedApart /\ 0 \notin Resources
    BY <1>1, <1>2, <1>3, <1>5 DEF OwnerInv, Resources
  <2>2. RefersToOpen'
    BY <1>1, <1>2, <1>3, <2>1 DEF OwnerTypes, OwnedApart, RefersToOpen, OneOwner, Accounted
  <2>3. OneOwner'
    BY <1>1, <1>2, <1>3, <2>1 DEF OwnerTypes, OwnedApart, RefersToOpen, OneOwner, Accounted
  <2>4. Accounted'
    BY <1>1, <1>2, <1>3, <2>1 DEF OwnerTypes, OwnedApart, RefersToOpen, OneOwner, Accounted
  <2> QED BY <2>2, <2>3, <2>4 DEF OwnedApart
<1> QED BY <1>1, <1>3, <1>4, <1>5 DEF OwnerInv

\* What the classes have in common when nothing is closed: the resources change places.
LEMMA PlacesChange ==
  ASSUME OwnerInv, NEW o \in DOMAIN holds, NEW p \in DOMAIN holds, UNCHANGED <<kind, freed, released>>,
         holds' = [holds EXCEPT ![o] = holds[p], ![p] = holds[o]]
  PROVE  OwnerInv'
<1>1. /\ DOMAIN holds' = DOMAIN holds /\ holds'[p] = holds[o] /\ holds'[o] = holds[p]
      /\ \A x \in DOMAIN holds : x # o /\ x # p => holds'[x] = holds[x]
  OBVIOUS
<1>2. Resources' = Resources
  BY DEF Resources
<1>3. OwnerTypes'
  BY <1>1, <1>2 DEF OwnerInv, OwnerTypes
<1>4. ASSUME kind # "move_ptr" PROVE OwnedApart'
  <2>1. OwnerTypes /\ OwnedApart /\ 0 \notin Resources
    BY <1>1, <1>2, <1>4 DEF OwnerInv, Resources
  <2>2. RefersToOpen'
    BY <1>1, <1>2, <2>1 DEF OwnerTypes, OwnedApart, RefersToOpen, OneOwner, Accounted
  <2>3. OneOwner'
    BY <1>1, <1>2, <2>1 DEF OwnerTypes, OwnedApart, RefersToOpen, OneOwner, Accounted
  <2>4. Accounted'
    BY <1>1, <1>2, <2>1 DEF OwnerTypes, OwnedApart, RefersToOpen, OneOwner, Accounted
  <2> QED BY <2>2, <2>3, <2>4 DEF OwnedApart
<1> QED BY <1>2, <1>3, <1>4 DEF OwnerInv

\* What o held is closed and it takes what from held, which is left with nothing.
LEMMA TakesOver ==
  ASSUME OwnerInv, NEW o \in DOMAIN holds, NEW from \in DOMAIN holds, UNCHANGED <<kind, released>>,
         o # from, freed' = Owner!Close(holds[o]),
         holds' = [holds EXCEPT ![from] = 0, ![o] = holds[from]]
           \/ holds' = [holds EXCEPT ![o] = holds[from], ![from] = 0]
  PROVE  OwnerInv'
<1>1. holds[o] \in Resources \cup {0} /\ OwnerTypes
  BY DEF OwnerInv, OwnerTypes
<1>2. /\ freed' \in Seq(Nat) /\ Resources' = Resources
      /\ \A k \in Resources :
           freed'[k] = IF k = holds[o] /\ kind # "move_ptr" THEN freed[k] + 1 ELSE freed[k]
  BY <1>1, Closing DEF Resources
<1>3. /\ DOMAIN holds' = DOMAIN holds /\ holds'[from] = 0 /\ holds'[o] = holds[from]
      /\ \A x \in DOMAIN holds : x # o /\ x # from => holds'[x] = holds[x]
  OBVIOUS
<1>4. OwnerTypes'
  BY <1>1, <1>2, <1>3 DEF OwnerTypes
<1>5. ASSUME kind # "move_ptr" PROVE OwnedApart'
  <2>1. OwnerTypes /\ OwnedApart /\ 0 \notin Resources
    BY <1>1, <1>2, <1>3, <1>5 DEF OwnerInv, Resources
  <2>2. RefersToOpen'
    BY <1>1, <1>2, <1>3, <2>1 DEF OwnerTypes, OwnedApart, RefersToOpen, OneOwner, Accounted
  <2>3. OneOwner'
    BY <1>1, <1>2, <1>3, <2>1 DEF OwnerTypes, OwnedApart, RefersToOpen, OneOwner, Accounted
  <2>4. Accounted'
    <3>1. ASSUME NEW r \in Resources, freed[r] = 0, r \notin released, r # holds[o]
          PROVE  \E x \in DOMAIN holds' : holds'[x] = r
      <4>1. PICK x \in DOMAIN holds : holds[x] = r
        BY <2>1, <3>1 DEF OwnedApart, Accounted
      <4>2. CASE x = from
        BY <1>3, <4>1, <4>2
      <4>3. CASE x # from
        BY <1>3, <3>1, <4>1, <4>3
      <4> QED BY <4>2, <4>3
    <3>2. ASSUME NEW r \in Resources PROVE freed[r] \in {0, 1} /\ (r \in released => freed[r] = 0)
      BY <2>1, <3>2 DEF OwnedApart, Accounted
    <3>3. holds[o] # 0 => freed[holds[o]] = 0 /\ holds[o] \notin released
      BY <2>1 DEF OwnedApart, RefersToOpen
    <3> QED BY <1>1, <1>2, <1>5, <2>1, <3>1, <3>2, <3>3 DEF Accounted
  <2> QED BY <2>2, <2>3, <2>4 DEF OwnedApart
<1>6. kind = "move_ptr" => \A r \in Resources' : freed'[r] = 0
  BY <1>2 DEF OwnerInv
<1> QED BY <1>4, <1>5, <1>6 DEF OwnerInv

LEMMA MoveAssignKeeps ==
  ASSUME OwnerInv, NEW o \in DOMAIN holds, NEW from \in DOMAIN holds, Owner!MoveAssign(o, from)
  PROVE  OwnerInv'
<1>1. UNCHANGED <<kind, released>>
  BY DEF Owner!MoveAssign
<1>2. CASE kind = "native"
  <2>1. /\ freed' = Owner!Close(IF o = from THEN 0 ELSE holds[o])
        /\ holds' = [holds EXCEPT ![from] = 0, ![o] = holds[from]]
    BY <1>2 DEF Owner!MoveAssign, Owner!None
  <2>2. CASE o # from
    BY <1>1, <2>1, <2>2, TakesOver
  <2>3. CASE o = from
    <3>1. freed' = freed /\ holds' = [holds EXCEPT ![o] = holds[from], ![from] = holds[o]]
      BY <2>1, <2>3 DEF Owner!Close, Owner!None
    <3> QED BY <1>1, <3>1, PlacesChange
  <2> QED BY <2>2, <2>3
<1>3. CASE kind = "cohandle"
  BY <1>1, <1>3, PlacesChange DEF Owner!MoveAssign
<1>4. CASE kind = "buffer"
  <2>1. /\ freed' = Owner!Close(holds[o])
        /\ holds' = [holds EXCEPT ![o] = holds[from], ![from] = 0]
    BY <1>4 DEF Owner!MoveAssign, Owner!None
  <2>2. CASE o # from
    BY <1>1, <2>1, <2>2, TakesOver
  <2>3. CASE o = from
    <3>1. OwnerTypes /\ holds[o] \in Resources \cup {0}
      BY DEF OwnerInv, OwnerTypes
    <3>2. /\ freed' \in Seq(Nat) /\ Resources' = Resources
          /\ \A k \in Resources : freed'[k] = IF k = holds[o] THEN freed[k] + 1 ELSE freed[k]
      BY <1>4, <2>1, <3>1, Closing DEF Resources
    <3>3. /\ DOMAIN holds' = DOMAIN holds /\ holds'[o] = 0 /\ holds' = [holds EXCEPT ![o] = 0]
          /\ \A x \in DOMAIN holds : x # o => holds'[x] = holds[x]
      BY <2>1, <2>3
    <3>4. OwnerTypes'
      BY <1>1, <3>1, <3>2, <3>3 DEF OwnerTypes
    <3>5. OwnedApart'
        <4>1. OwnerTypes /\ OwnedApart /\ 0 \notin Resources
          BY <1>1, <1>4, <3>1, <3>2, <3>3 DEF OwnerInv, Resources
        <4>2. RefersToOpen'
          BY <1>1, <1>4, <3>1, <3>2, <3>3, <4>1 DEF OwnerTypes, OwnedApart, RefersToOpen, OneOwner, Accounted
        <4>3. OneOwner'
          BY <1>1, <1>4, <3>1, <3>2, <3>3, <4>1 DEF OwnerTypes, OwnedApart, RefersToOpen, OneOwner, Accounted
        <4>4. Accounted'
          BY <1>1, <1>4, <3>1, <3>2, <3>3, <4>1 DEF OwnerTypes, OwnedApart, RefersToOpen, OneOwner, Accounted
        <4> QED BY <4>2, <4>3, <4>4 DEF OwnedApart
    <3> QED BY <1>1, <1>4, <3>4, <3>5 DEF OwnerInv
  <2> QED BY <2>2, <2>3
<1>5. CASE kind = "move_ptr"
  <2>1. freed' = freed /\ Resources' = Resources
        /\ holds' = [holds EXCEPT ![from] = 0, ![o] = holds[from]]
    BY <1>5 DEF Owner!MoveAssign, Owner!None, Resources
  <2> QED BY <1>1, <1>5, <2>1 DEF OwnerInv, OwnerTypes
<1> QED BY <1>2, <1>3, <1>4, <1>5 DEF Owner!MoveAssign

LEMMA ReleaseKeeps ==
  ASSUME OwnerInv, NEW o \in DOMAIN holds, Owner!Release(o)
  PROVE  OwnerInv'
<1>1. /\ UNCHANGED <<kind, freed>> /\ holds[o] # 0 /\ released' = released \cup {holds[o]}
      /\ holds' = [holds EXCEPT ![o] = 0] /\ Resources' = Resources
  BY DEF Owner!Release, Owner!None, Resources
<1>2. OwnerTypes'
  BY <1>1 DEF OwnerInv, OwnerTypes
<1>3. ASSUME kind # "move_ptr" PROVE OwnedApart'
  <2>1. OwnerTypes /\ OwnedApart /\ 0 \notin Resources
    BY <1>1, <1>3 DEF OwnerInv, Resources
  <2>2. RefersToOpen'
    BY <1>1, <2>1 DEF OwnerTypes, OwnedApart, RefersToOpen, OneOwner, Accounted
  <2>3. OneOwner'
    BY <1>1, <2>1 DEF OwnerTypes, OwnedApart, RefersToOpen, OneOwner, Accounted
  <2>4. Accounted'
    BY <1>1, <2>1 DEF OwnerTypes, OwnedApart, RefersToOpen, OneOwner, Accounted
  <2> QED BY <2>2, <2>3, <2>4 DEF OwnedApart
<1> QED BY <1>1, <1>2, <1>3 DEF OwnerInv

LEMMA ResetKeeps ==
  ASSUME OwnerInv, NEW o \in DOMAIN holds, Owner!Reset(o)
  PROVE  OwnerInv'
<1> DEFINE new == Len(freed) + 1
           rest == Owner!Close(holds[o])
<1>1. /\ kind # "move_ptr" /\ freed' = Append(rest, 0) /\ UNCHANGED <<kind, released>>
      /\ holds' = [holds EXCEPT ![o] = new] /\ holds[o] \in Resources \cup {0} /\ OwnerTypes
  BY DEF Owner!Reset, OwnerInv, OwnerTypes
<1>2. /\ rest \in Seq(Nat) /\ Len(rest) = Len(freed)
      /\ \A k \in Resources : rest[k] = IF k = holds[o] THEN freed[k] + 1 ELSE freed[k]
  BY <1>1, Closing
<1>3. /\ freed' \in Seq(Nat) /\ \A k \in Resources : freed'[k] = rest[k]
      /\ freed'[new] = 0 /\ Resources' = Resources \cup {new} /\ new \notin Resources /\ new # 0
  BY <1>1, <1>2, Opening
<1> HIDE DEF new, rest
<1>4. /\ DOMAIN holds' = DOMAIN holds /\ holds'[o] = new
      /\ \A x \in DOMAIN holds : x # o => holds'[x] = holds[x]
  BY <1>1
<1>5. OwnerTypes'
  BY <1>1, <1>3 DEF OwnerTypes
<1>6. OwnedApart'
  <2>1. OwnerTypes /\ OwnedApart /\ 0 \notin Resources
    BY <1>1, <1>2, <1>3 DEF OwnerInv, Resources
  <2>2. RefersToOpen'
    <3>1. ASSUME NEW x \in DOMAIN holds, x # o, holds[x] # 0
          PROVE  /\ holds[x] \in Resources /\ holds[x] # holds[o] /\ freed[holds[x]] = 0
                 /\ holds[x] \notin released
      BY <2>1, <3>1 DEF OwnerTypes, OwnedApart, RefersToOpen, OneOwner
    <3>2. ASSUME NEW x \in DOMAIN holds, x # o, holds[x] # 0 PROVE freed'[holds[x]] = 0
      BY <1>2, <1>3, <3>1, <3>2
    <3>3. new \notin released' /\ freed'[new] = 0
      BY <1>1, <1>3, <2>1 DEF OwnerTypes
    <3> QED BY <1>1, <1>4, <3>1, <3>2, <3>3 DEF RefersToOpen
  <2>3. OneOwner'
    BY <1>1, <1>2, <1>3, <2>1 DEF OwnerTypes, OwnedApart, RefersToOpen, OneOwner, Accounted
  <2>4. Accounted'
    <3>1. ASSUME NEW r \in Resources, freed[r] = 0, r \notin released, r # holds[o]
          PROVE  \E x \in DOMAIN holds' : holds'[x] = r
      BY <1>4, <2>1, <3>1 DEF OwnedApart, Accounted
    <3>2. ASSUME NEW r \in Resources PROVE freed[r] \in {0, 1} /\ (r \in released => freed[r] = 0)
      BY <2>1, <3>2 DEF OwnedApart, Accounted
    <3>3. holds[o] # 0 => freed[holds[o]] = 0 /\ holds[o] \notin released
      BY <2>1 DEF OwnedApart, RefersToOpen
    <3>4. ASSUME NEW r \in Resources
          PROVE  freed'[r] = IF r = holds[o] THEN freed[r] + 1 ELSE freed[r]
      BY <1>2, <1>3, <3>4
    <3>5. \E x \in DOMAIN holds' : holds'[x] = new
      BY <1>4
    <3>6. ASSUME NEW r \in Resources
          PROVE  /\ freed'[r] \in {0, 1} /\ (r \in released' => freed'[r] = 0)
                 /\ freed'[r] = 0 /\ r \notin released' => \E x \in DOMAIN holds' : holds'[x] = r
      <4>1. CASE r = holds[o]
        <5>1. freed[r] = 0 /\ r \notin released'
          BY <1>1, <2>1, <3>3, <4>1
        <5>2. freed'[r] = 1
          BY <3>4, <4>1, <5>1
        <5> QED BY <5>1, <5>2
      <4>2. CASE r # holds[o]
        <5>1. freed'[r] = freed[r] /\ released' = released
          BY <1>1, <3>4, <4>2
        <5> QED BY <3>1, <3>2, <4>2, <5>1
      <4> QED BY <4>1, <4>2
    <3> QED BY <1>3, <3>5, <3>6 DEF Accounted
  <2> QED BY <2>2, <2>3, <2>4 DEF OwnedApart
<1> QED BY <1>1, <1>5, <1>6 DEF OwnerInv

LEMMA CopyAssignKeeps ==
  ASSUME OwnerInv, NEW o \in DOMAIN holds, NEW from \in DOMAIN holds, Owner!CopyAssign(o, from)
  PROVE  OwnerInv'
<1>1. /\ kind = "move_ptr" /\ UNCHANGED <<kind, freed, released>> /\ Resources' = Resources
      /\ holds' = [holds EXCEPT ![o] = holds[from]]
  BY DEF Owner!CopyAssign, Resources
<1> QED BY <1>1 DEF OwnerInv, OwnerTypes

LEMMA OwnerStepKeeps ==
  ASSUME OwnerInv, Owner!Next
  PROVE  OwnerInv'
<1>1. ASSUME NEW o \in DOMAIN holds, NEW p \in DOMAIN holds, Owner!Swap(o, p) PROVE OwnerInv'
  BY <1>1, PlacesChange DEF Owner!Swap
<1> QED BY <1>1, ConstructKeeps, DestroyKeeps, MoveConstructKeeps, MoveAssignKeeps,
           ReleaseKeeps, ResetKeeps, CopyAssignKeeps
        DEF Owner!Next

-----------------------------------------------------------------------------
(* The colored stream.                                                     *)

Look == [color : Colors \cup {"default"}, bold : BOOLEAN, underline : BOOLEAN, italic : BOOLEAN]

\* A stream whose stack is f with state x on top, and whose cache is not stale.
On(s, f, x) ==
  /\ s \in [stack : Seq(Look), cache : Seq(Look)]
  /\ f \in Seq(Look) /\ x \in Look
  /\ s.stack = Append(f, x)
  /\ s.cache # <<>> => s.cache[1] = x

StreamInv ==
  /\ \E f \in Seq(Look), x \in Look : On(stream, f, x)
  /\ Len(stream.stack) = depth
  /\ printed = wanted

LEMMA Appended ==
  ASSUME NEW S, NEW f \in Seq(S), NEW x \in S
  PROVE  /\ Append(f, x) \in Seq(S) /\ Len(Append(f, x)) = Len(f) + 1 /\ Len(f) \in Nat
         /\ Append(f, x)[Len(f) + 1] = x
         /\ \A i \in 1 .. Len(f) : Append(f, x)[i] = f[i]
         /\ SubSeq(Append(f, x), 1, Len(f)) = f
         /\ \A y \in S : [Append(f, x) EXCEPT ![Len(f) + 1] = y] = Append(f, y)
<1>1. /\ Append(f, x) \in Seq(S) /\ Len(Append(f, x)) = Len(f) + 1 /\ Len(f) \in Nat
      /\ Append(f, x)[Len(f) + 1] = x
      /\ \A i \in 1 .. Len(f) : Append(f, x)[i] = f[i]
  OBVIOUS
<1>2. SubSeq(Append(f, x), 1, Len(f)) = f
  OBVIOUS
<1>3. ASSUME NEW y \in S PROVE [Append(f, x) EXCEPT ![Len(f) + 1] = y] = Append(f, y)
  <2> DEFINE n == Len(f)
             a == Append(f, x)
             b == Append(f, y)
  <2>0. /\ n \in Nat /\ a \in Seq(S) /\ Len(a) = n + 1 /\ b \in Seq(S) /\ Len(b) = n + 1
        /\ b[n + 1] = y /\ \A i \in 1 .. n : a[i] = b[i]
    OBVIOUS
  <2>1. /\ n \in Nat /\ a \in [1 .. n + 1 -> S] /\ b \in [1 .. n + 1 -> S]
        /\ b[n + 1] = y /\ \A i \in 1 .. n : a[i] = b[i]
    <3> HIDE DEF n, a, b
    <3> QED BY <2>0
  <2>2. \A i \in 1 .. n + 1 : i = n + 1 \/ i \in 1 .. n
    OBVIOUS
  <2> HIDE DEF n, a, b
  <2>3. [a EXCEPT ![n + 1] = y] = b
    BY <2>1, <2>2
  <2> QED BY <2>3 DEF n, a, b
<1> QED BY <1>1, <1>2, <1>3

LEMMA Split ==
  ASSUME NEW S, NEW t \in Seq(S), t # <<>>
  PROVE  \E f \in Seq(S), x \in S : t = Append(f, x)
<1> DEFINE n == Len(t)
           f == SubSeq(t, 1, n - 1)
           a == Append(f, t[n])
<1>1. n \in Nat \ {0} /\ t \in [1 .. n -> S] /\ t[n] \in S
  OBVIOUS
<1>2. f \in Seq(S) /\ Len(f) = n - 1 /\ \A i \in 1 .. n - 1 : f[i] = t[i]
  <2>1. \A i \in 1 .. n - 1 : t[i] \in S
    BY <1>1
  <2> QED BY <1>1, <2>1
<1> HIDE DEF f, n
<1>3. /\ a \in Seq(S) /\ Len(a) = n /\ a[n] = t[n]
      /\ \A i \in 1 .. n - 1 : a[i] = t[i]
  BY <1>1, <1>2, Appended
<1>4. \A i \in 1 .. n : i = n \/ i \in 1 .. n - 1
  BY <1>1
<1> HIDE DEF a
<1>5. a = t
  <2>1. a \in [1 .. n -> S]
    BY <1>3
  <2> QED BY <1>1, <1>3, <1>4, <2>1
<1> QED BY <1>1, <1>2, <1>5 DEF a

LEMMA OnTop ==
  ASSUME NEW s, NEW f, NEW x, On(s, f, x)
  PROVE  Stream!Top(s) = x /\ Len(s.stack) = Len(f) + 1 /\ Len(f) \in Nat
BY Appended DEF On, Stream!Top, Stream!Last

LEMMA StreamRecord ==
  ASSUME NEW s \in [stack : Seq(Look), cache : Seq(Look)], NEW t, NEW c
  PROVE  /\ [s EXCEPT !.stack = t] = [stack |-> t, cache |-> s.cache]
         /\ [s EXCEPT !.cache = c] = [stack |-> s.stack, cache |-> c]
         /\ [[s EXCEPT !.stack = t] EXCEPT !.cache = c] = [stack |-> t, cache |-> c]
<1>1. \A a, b : /\ [[stack |-> a, cache |-> b] EXCEPT !.stack = t] = [stack |-> t, cache |-> b]
               /\ [[stack |-> a, cache |-> b] EXCEPT !.cache = c] = [stack |-> a, cache |-> c]
  OBVIOUS
<1>2. s = [stack |-> s.stack, cache |-> s.cache]
  OBVIOUS
<1> DEFINE a == s.stack
           b == s.cache
<1>3. s = [stack |-> a, cache |-> b]
  BY <1>2
<1> HIDE DEF a, b
<1>4. /\ [s EXCEPT !.stack = t] = [stack |-> t, cache |-> b]
      /\ [s EXCEPT !.cache = c] = [stack |-> a, cache |-> c]
      /\ [[s EXCEPT !.stack = t] EXCEPT !.cache = c] = [stack |-> t, cache |-> c]
  BY <1>1, <1>3
<1> QED BY <1>4 DEF a, b

LEMMA UpdatedOn ==
  ASSUME NEW s, NEW f, NEW x, On(s, f, x),
         NEW a \in {"color", "bold", "underline", "italic"}, NEW v, [x EXCEPT ![a] = v] \in Look
  PROVE  On(Stream!Updated(s, a, v), f, [x EXCEPT ![a] = v])
<1> DEFINE y == [x EXCEPT ![a] = v]
           u == Stream!Updated(s, a, v)
<1>1. /\ Stream!Top(s) = x /\ Len(s.stack) = Len(f) + 1 /\ Len(f) \in Nat
      /\ s.stack[Len(s.stack)] = x
  BY OnTop DEF Stream!Top, Stream!Last
<1>2. s.stack = Append(f, x) /\ f \in Seq(Look) /\ x \in Look /\ s = [stack |-> s.stack, cache |-> s.cache]
      /\ s.cache \in Seq(Look)
  BY DEF On
<1>3. u = [stack |-> [s.stack EXCEPT ![Len(f) + 1] = y],
           cache |-> IF x[a] = v THEN s.cache ELSE <<>>]
  <2> DEFINE t == [s.stack EXCEPT ![Len(s.stack)] = [s.stack[Len(s.stack)] EXCEPT ![a] = v]]
             c == IF Stream!Top(s)[a] = v THEN s.cache ELSE <<>>
  <2>1. u = [[s EXCEPT !.stack = t] EXCEPT !.cache = c]
    BY DEF Stream!Updated
  <2>2. t = [s.stack EXCEPT ![Len(f) + 1] = y] /\ c = (IF x[a] = v THEN s.cache ELSE <<>>)
    BY <1>1
  <2> HIDE DEF t, c, u
  <2>3. u = [stack |-> t, cache |-> c]
    BY <2>1, StreamRecord DEF On
  <2> QED BY <2>2, <2>3
<1>4. [s.stack EXCEPT ![Len(f) + 1] = y] = Append(f, y)
  <2>1. y \in Look
    OBVIOUS
  <2> HIDE DEF y
  <2> QED BY <1>2, <2>1, Appended
<1>5. x[a] = v => y = x
  BY <1>2 DEF Look
<1> HIDE DEF y, u
<1>6. u.stack = Append(f, y) /\ u.cache = (IF x[a] = v THEN s.cache ELSE <<>>)
      /\ u = [stack |-> u.stack, cache |-> u.cache]
  BY <1>3, <1>4
<1>7. y \in Look
  BY DEF y
<1>8. u.stack \in Seq(Look) /\ u.cache \in Seq(Look)
  BY <1>2, <1>6, <1>7, Appended
<1>9. u.cache # <<>> => u.cache[1] = y
  BY <1>5, <1>6 DEF On
<1> QED BY <1>2, <1>6, <1>7, <1>8, <1>9 DEF On, y, u

LEMMA PushedOn ==
  ASSUME NEW s, NEW f, NEW x, On(s, f, x)
  PROVE  On(Stream!Pushed(s), s.stack, x)
<1>1. Stream!Top(s) = x
  BY OnTop
<1>2. s = [stack |-> s.stack, cache |-> s.cache] /\ s.stack \in Seq(Look) /\ s.cache \in Seq(Look)
      /\ x \in Look
  BY DEF On
<1>3. Stream!Pushed(s) = [stack |-> Append(s.stack, x), cache |-> s.cache]
  BY <1>1, StreamRecord DEF On, Stream!Pushed
<1>4. Append(s.stack, x) \in Seq(Look)
  BY <1>2, Appended
<1> QED BY <1>2, <1>3, <1>4 DEF On

LEMMA PoppedOn ==
  ASSUME NEW s, NEW f, NEW x, NEW g, NEW y, On(s, f, x), f = Append(g, y),
         g \in Seq(Look), y \in Look
  PROVE  On(Stream!Popped(s), g, y) /\ Stream!Popped(s).cache = <<>>
<1>1. Len(s.stack) = Len(f) + 1 /\ Len(f) \in Nat /\ Len(f) >= 1
  <2>1. Len(f) = Len(g) + 1 /\ Len(g) \in Nat
    BY Appended
  <2>2. Len(s.stack) = Len(f) + 1
    BY OnTop
  <2> QED BY <2>1, <2>2
<1>2. /\ s = [stack |-> s.stack, cache |-> s.cache] /\ s.stack \in Seq(Look) /\ s.cache \in Seq(Look)
      /\ s.stack = Append(f, x) /\ x \in Look /\ f \in Seq(Look)
  BY DEF On
<1>3. SubSeq(s.stack, 1, Len(s.stack) - 1) = f
  <2>1. SubSeq(s.stack, 1, Len(f)) = f
    BY <1>2, Appended
  <2>2. Len(s.stack) - 1 = Len(f)
    BY <1>1
  <2> QED BY <2>1, <2>2
<1>4. ~(Len(s.stack) <= 1)
  BY <1>1
<1>5. Stream!Popped(s) = [stack |-> f, cache |-> <<>>]
  BY <1>3, <1>4, StreamRecord DEF On, Stream!Popped, Stream!Front
<1> QED BY <1>2, <1>5 DEF On

LEMMA CachedOn ==
  ASSUME NEW s, NEW f, NEW x, On(s, f, x)
  PROVE  On(Stream!Cached(s), f, x) /\ Stream!Chunk(s) = x /\ Stream!Cached(s).stack = s.stack
<1>1. Stream!Top(s) = x
  BY OnTop
<1>2. s = [stack |-> s.stack, cache |-> s.cache] /\ s.stack \in Seq(Look) /\ s.cache \in Seq(Look)
      /\ x \in Look
  BY DEF On
<1>3. CASE s.cache = <<>>
  <2>1. Stream!Cached(s) = [stack |-> s.stack, cache |-> <<x>>]
    BY <1>1, <1>3, StreamRecord DEF On, Stream!Cached
  <2>2. <<x>> \in Seq(Look) /\ <<x>>[1] = x
    BY <1>2
  <2> QED BY <2>1, <2>2 DEF On, Stream!Chunk
<1>4. CASE s.cache # <<>>
  <2>1. Stream!Cached(s) = s
    BY <1>4 DEF Stream!Cached
  <2> QED BY <1>4, <2>1 DEF On, Stream!Chunk
<1> QED BY <1>3, <1>4

\* A print in another colour: the chunk has it, the stack is as before.
LEMMA InColorOn ==
  ASSUME NEW s, NEW f, NEW x, On(s, f, x), NEW color \in Colors
  PROVE  /\ On(Stream!AfterInColor(s, color), f, x)
         /\ Stream!Chunk(Stream!InColor(s, color)) = [x EXCEPT !.color = color]
<1>1. f \in Seq(Look) /\ x \in Look /\ s.stack = Append(f, x)
  BY DEF On
<1>2. [x EXCEPT !.color = color] \in Look
  BY <1>1 DEF Look
<1>3. On(Stream!InColor(s, color), s.stack, [x EXCEPT !.color = color])
  BY <1>2, PushedOn, UpdatedOn DEF Stream!InColor
<1>4. On(Stream!Cached(Stream!InColor(s, color)), s.stack, [x EXCEPT !.color = color])
      /\ Stream!Chunk(Stream!InColor(s, color)) = [x EXCEPT !.color = color]
  BY <1>3, CachedOn
<1> QED BY <1>1, <1>4, PoppedOn DEF Stream!AfterInColor

LEMMA LookRecord ==
  ASSUME NEW x \in Look, NEW color \in Colors \cup {"default"}
  PROVE  /\ [x EXCEPT !.color = color] \in Look /\ [x EXCEPT !.italic = TRUE] \in Look
         /\ [x EXCEPT !.underline = TRUE] \in Look /\ [x EXCEPT !.bold = TRUE] \in Look
         /\ [x EXCEPT !.italic = ~@] \in Look
  BY DEF Look

LEMMA LookOrder ==
  ASSUME NEW x \in Look, NEW color \in Colors
  PROVE  /\ [[[x EXCEPT !.italic = TRUE] EXCEPT !.underline = TRUE] EXCEPT !.color = color]
              = [x EXCEPT !.color = color, !.italic = TRUE, !.underline = TRUE]
         /\ [[x EXCEPT !.bold = TRUE] EXCEPT !.color = color]
              = [x EXCEPT !.color = color, !.bold = TRUE]
  BY DEF Look

\* A log message leaves the stack as it was.
LEMMA MessageOn ==
  ASSUME NEW s, NEW f, NEW x, On(s, f, x), NEW color \in Colors
  PROVE  /\ On(Stream!Message(s, color).stream, f, x)
         /\ Stream!Message(s, color).chunks =
              << [x EXCEPT !.color = color, !.italic = TRUE, !.underline = TRUE],
                 x, [x EXCEPT !.color = color, !.bold = TRUE] >>
<1> DEFINE label == Stream!Labelled(s)
           z == [[x EXCEPT !.italic = TRUE] EXCEPT !.underline = TRUE]
           after == Stream!AfterInColor(label, color)
           space == Stream!Popped(after)
           message == Stream!Updated(Stream!Pushed(Stream!Cached(space)), "bold", TRUE)
           b == [x EXCEPT !.bold = TRUE]
           last == Stream!AfterInColor(message, color)
<1>1. f \in Seq(Look) /\ x \in Look /\ s.stack = Append(f, x)
  BY DEF On
<1>2. [x EXCEPT !.italic = TRUE] \in Look /\ z \in Look /\ b \in Look
  BY <1>1, LookRecord
<1>3. On(label, Append(f, x), z)
  <2>1. On(Stream!Pushed(s), Append(f, x), x)
    BY <1>1, PushedOn
  <2>2. On(Stream!Updated(Stream!Pushed(s), "italic", TRUE), Append(f, x), [x EXCEPT !.italic = TRUE])
    BY <1>2, <2>1, UpdatedOn
  <2> QED BY <1>2, <2>2, UpdatedOn DEF Stream!Labelled
<1> HIDE DEF z, b, label
<1>4. On(after, Append(f, x), z) /\ Stream!Chunk(Stream!InColor(label, color)) = [z EXCEPT !.color = color]
  BY <1>3, InColorOn
<1> HIDE DEF after
<1>5. On(space, f, x)
  BY <1>1, <1>4, PoppedOn
<1> HIDE DEF space
<1>6. On(Stream!Cached(space), f, x) /\ Stream!Chunk(space) = x /\ Stream!Cached(space).stack = Append(f, x)
  <2>1. On(Stream!Cached(space), f, x) /\ Stream!Chunk(space) = x
    BY <1>5, CachedOn
  <2> QED BY <2>1 DEF On
<1>7. On(message, Append(f, x), b)
  <2>1. On(Stream!Pushed(Stream!Cached(space)), Append(f, x), x)
    BY <1>6, PushedOn
  <2> QED BY <1>2, <2>1, UpdatedOn DEF b
<1> HIDE DEF message
<1>8. On(last, Append(f, x), b) /\ Stream!Chunk(Stream!InColor(message, color)) = [b EXCEPT !.color = color]
  BY <1>7, InColorOn
<1>9. On(Stream!Popped(last), f, x)
  BY <1>1, <1>8, PoppedOn
<1>10. Stream!Message(s, color) =
         [stream |-> Stream!Popped(last),
          chunks |-> << Stream!Chunk(Stream!InColor(label, color)), Stream!Chunk(space),
                        Stream!Chunk(Stream!InColor(message, color)) >>]
  BY DEF Stream!Message, label, after, space, message, last
<1>11. /\ [z EXCEPT !.color = color] = [x EXCEPT !.color = color, !.italic = TRUE, !.underline = TRUE]
       /\ [b EXCEPT !.color = color] = [x EXCEPT !.color = color, !.bold = TRUE]
  BY <1>1, LookOrder DEF z, b
<1> QED BY <1>4, <1>6, <1>8, <1>9, <1>10, <1>11

\* The state on top swapped for another: the cache goes.
LEMMA ReplacedOn ==
  ASSUME NEW s, NEW f, NEW x, On(s, f, x), NEW y \in Look
  PROVE  On([s EXCEPT !.stack[Len(s.stack)] = y, !.cache = <<>>], f, y)
<1> DEFINE t == [s.stack EXCEPT ![Len(s.stack)] = y]
           r == [stack |-> t, cache |-> <<>>]
<1>1. [s EXCEPT !.stack[Len(s.stack)] = y, !.cache = <<>>]
        = [[s EXCEPT !.stack = t] EXCEPT !.cache = <<>>]
  OBVIOUS
<1>2. f \in Seq(Look) /\ x \in Look /\ s.stack = Append(f, x)
  BY DEF On
<1>3. Len(s.stack) = Len(f) + 1
  BY OnTop
<1>4. [Append(f, x) EXCEPT ![Len(f) + 1] = y] = Append(f, y)
  BY <1>2, Appended
<1>5. t = Append(f, y)
  BY <1>2, <1>3, <1>4
<1> HIDE DEF t
<1>6. t \in Seq(Look)
  BY <1>2, <1>5, Appended
<1>7. [[s EXCEPT !.stack = t] EXCEPT !.cache = <<>>] = r
  BY StreamRecord DEF On
<1>8. r \in [stack : Seq(Look), cache : Seq(Look)] /\ r.stack = t /\ r.cache = <<>>
  BY <1>6
<1> HIDE DEF r
<1>9. On(r, f, y)
  BY <1>2, <1>5, <1>8 DEF On
<1> QED BY <1>1, <1>7, <1>9

LEMMA StreamInit == Init => StreamInv
<1> SUFFICES ASSUME Init PROVE StreamInv
  OBVIOUS
<1>1. /\ stream = [stack |-> <<Stream!Plain>>, cache |-> <<>>]
      /\ depth = 1 /\ printed = wanted
  BY DEF Init, Stream!Init
<1>2. Stream!Plain \in Look
  BY DEF Stream!Plain, Look
<1>3. <<Stream!Plain>> = Append(<<>>, Stream!Plain) /\ <<Stream!Plain>> \in Seq(Look)
      /\ Len(<<Stream!Plain>>) = 1
  BY <1>2
<1>4. On(stream, <<>>, Stream!Plain)
  BY <1>1, <1>2, <1>3 DEF On
<1>5. <<>> \in Seq(Look)
  OBVIOUS
<1> QED BY <1>1, <1>2, <1>3, <1>4, <1>5 DEF StreamInv

LEMMA StreamStepKeeps ==
  ASSUME StreamInv, Stream!Next
  PROVE  StreamInv'
<1>1. PICK f \in Seq(Look), x \in Look : On(stream, f, x)
  BY DEF StreamInv
<1>2. /\ Stream!Top(stream) = x /\ Len(stream.stack) = Len(f) + 1 /\ Len(f) \in Nat
      /\ stream.stack = Append(f, x) /\ depth = Len(f) + 1 /\ Len(stream.stack) = depth
      /\ printed = wanted
  BY <1>1, OnTop DEF On, StreamInv
<1>3. ASSUME NEW g \in Seq(Look), NEW y \in Look, On(stream', g, y), depth' = Len(g) + 1,
             printed' = wanted'
      PROVE  StreamInv'
  <2>1. Len(stream'.stack) = Len(g) + 1
    BY <1>3, OnTop
  <2> QED BY <1>3, <2>1 DEF StreamInv
<1>4. CASE Stream!UpdateTop
  <2>1. ASSUME NEW s, Stream!Quietly(s), NEW y \in Look, On(s, f, y) PROVE StreamInv'
    BY <1>2, <1>3, <2>1 DEF Stream!Quietly
  <2>2. ASSUME NEW color \in Colors, Stream!Quietly(Stream!Updated(stream, "color", color))
        PROVE  StreamInv'
    <3>1. [x EXCEPT !["color"] = color] \in Look
      BY DEF Look
    <3> QED BY <1>1, <2>1, <2>2, <3>1, UpdatedOn
  <2>3. ASSUME NEW attribute \in {"bold", "underline", "italic"}, NEW on \in BOOLEAN,
               Stream!Quietly(Stream!Updated(stream, attribute, on))
        PROVE  StreamInv'
    <3>1. [x EXCEPT ![attribute] = on] \in Look
      BY DEF Look
    <3> QED BY <1>1, <2>1, <2>3, <3>1, UpdatedOn
  <2>4. ASSUME NEW y \in Look
        PROVE  On([stream EXCEPT !.stack[Len(stream.stack)] = y, !.cache = <<>>], f, y)
    BY <1>1, <2>4, ReplacedOn
  <2>5. ASSUME NEW new \in Stream!States, Stream!Quietly(Stream!UpdatedAll(stream, new))
        PROVE  StreamInv'
    <3>1. new \in Look
      BY DEF Stream!States, Look
    <3> QED BY <2>1, <2>4, <2>5, <3>1 DEF Stream!UpdatedAll
  <2>6. ASSUME Stream!Quietly(Stream!Toggled(stream)) PROVE StreamInv'
    <3> DEFINE y == [x EXCEPT !.italic = ~@]
    <3>1. y \in Look
      BY LookRecord
    <3>2. stream.stack[Len(stream.stack)] = x
      BY <1>2 DEF Stream!Top, Stream!Last
    <3>3. Stream!Toggled(stream) = [stream EXCEPT !.stack[Len(stream.stack)] = y, !.cache = <<>>]
      BY <3>2 DEF Stream!Toggled
    <3> HIDE DEF y
    <3> QED BY <2>1, <2>4, <2>6, <3>1, <3>3
  <2> QED BY <1>4, <2>2, <2>3, <2>5, <2>6 DEF Stream!UpdateTop
<1>5. CASE Stream!PushState
  <2>1. On(stream', stream.stack, x) /\ depth' = depth + 1 /\ printed' = wanted'
    BY <1>1, <1>2, <1>5, PushedOn DEF Stream!PushState
  <2>2. stream.stack \in Seq(Look)
    BY <1>1 DEF On
  <2> QED BY <1>2, <1>3, <2>1, <2>2
<1>6. CASE Stream!PopState
  <2>1. stream' = Stream!Popped(stream) /\ depth' = (IF depth = 1 THEN 1 ELSE depth - 1)
        /\ printed' = wanted'
    BY <1>2, <1>6 DEF Stream!PopState
  <2>2. CASE f = <<>>
    <3>1. depth = 1 /\ stream' = stream /\ depth' = 1
      BY <1>2, <2>1, <2>2 DEF Stream!Popped
    <3> QED BY <1>1, <1>2, <1>3, <2>1, <3>1
  <2>3. CASE f # <<>>
    <3>1. PICK g \in Seq(Look), y \in Look : f = Append(g, y)
      BY <2>3, Split
    <3>2. Len(f) = Len(g) + 1 /\ Len(g) \in Nat
      BY <3>1, Appended
    <3>3. depth' = Len(g) + 1
      BY <1>2, <2>1, <3>2
    <3> QED BY <1>1, <1>3, <2>1, <3>1, <3>3, PoppedOn
  <2> QED BY <2>2, <2>3
<1>7. CASE Stream!ClearStates
  <2>1. stream' = [[stream EXCEPT !.stack = <<x>>] EXCEPT !.cache = <<>>]
        /\ depth' = 1 /\ printed' = wanted'
    BY <1>2, <1>7 DEF Stream!ClearStates, Stream!Cleared
  <2>2. stream' = [stack |-> <<x>>, cache |-> <<>>]
    BY <1>1, <2>1, StreamRecord DEF On
  <2>3. <<x>> = Append(<<>>, x) /\ <<x>> \in Seq(Look) /\ <<>> \in Seq(Look)
        /\ Len(<<>>) = 0
    OBVIOUS
  <2>4. On(stream', <<>>, x)
    BY <2>2, <2>3 DEF On
  <2>5. depth' = Len(<<>>) + 1 /\ printed' = wanted'
    BY <2>1, <2>3
  <2> QED BY <1>3, <2>3, <2>4, <2>5
<1>8. CASE Stream!PrintText
  <2>1. On(stream', f, x) /\ depth' = depth /\ printed' = wanted'
    BY <1>1, <1>2, <1>8, CachedOn DEF Stream!PrintText
  <2> QED BY <1>2, <1>3, <2>1
<1>9. ASSUME NEW color \in Colors, Stream!PrintInColor(color) PROVE StreamInv'
  <2>1. On(stream', f, x) /\ depth' = depth /\ printed' = wanted'
    BY <1>1, <1>2, <1>9, InColorOn DEF Stream!PrintInColor
  <2> QED BY <1>2, <1>3, <2>1
<1>10. ASSUME NEW color \in Colors, Stream!Msg(color) PROVE StreamInv'
  <2>1. On(stream', f, x) /\ depth' = depth /\ printed' = wanted'
    BY <1>1, <1>2, <1>10, MessageOn DEF Stream!Msg
  <2> QED BY <1>2, <1>3, <2>1
<1> QED BY <1>4, <1>5, <1>6, <1>7, <1>8, <1>9, <1>10 DEF Stream!Next

LEMMA StreamMeans == StreamInv => Stream!PrintedAsWanted
<1> SUFFICES ASSUME StreamInv PROVE Stream!PrintedAsWanted
  OBVIOUS
<1>1. PICK f \in Seq(Look), x \in Look : On(stream, f, x)
  BY DEF StreamInv
<1> QED BY <1>1, OnTop DEF On, StreamInv, Stream!PrintedAsWanted

-----------------------------------------------------------------------------
(* The thread pool.                                                        *)

\* A resource is once on the stack or bound to one thread, which alone has left marks on it.
PoolInv ==
  /\ \E n \in Nat : DOMAIN storage = 1 .. n
  /\ storage \in [DOMAIN storage -> SUBSET Threads]
  /\ inactive \in Seq(DOMAIN storage)
  /\ DOMAIN bound \subseteq Threads /\ bound \in [DOMAIN bound -> DOMAIN storage]
  /\ Pool!ResourcesApart

\* What is on a stack, and how a stack without repetitions changes.
OnStack(s) == { s[k] : k \in 1 .. Len(s) }
Distinct(s) == \A j, k \in 1 .. Len(s) : s[j] = s[k] => j = k

LEMMA StackTerms ==
  ASSUME NEW S, NEW s \in Seq(S)
  PROVE  /\ Pool!ToSet(s) = OnStack(s) /\ OnStack(s) \subseteq S
         /\ Pool!IsInjective(s) <=> Distinct(s)
         /\ \A r : Pool!Contains(s, r) <=> r \in OnStack(s)
<1>1. DOMAIN s = 1 .. Len(s) /\ \A k \in 1 .. Len(s) : s[k] \in S
  OBVIOUS
<1> QED BY <1>1 DEF Pool!ToSet, Pool!IsInjective, Pool!Contains, OnStack, Distinct

LEMMA StackGrows ==
  ASSUME NEW S, NEW s \in Seq(S), NEW r \in S
  PROVE  /\ Append(s, r) \in Seq(S) /\ OnStack(Append(s, r)) = OnStack(s) \cup {r}
         /\ Distinct(Append(s, r)) <=> Distinct(s) /\ r \notin OnStack(s)
<1> DEFINE a == Append(s, r)
           n == Len(s)
<1>1. /\ a \in Seq(S) /\ Len(a) = n + 1 /\ n \in Nat /\ a[n + 1] = r
      /\ \A k \in 1 .. n : a[k] = s[k]
  BY Appended
<1>2. 1 .. n + 1 = 1 .. n \cup {n + 1} /\ n + 1 \notin 1 .. n
  BY <1>1
<1> HIDE DEF a, n
<1>3. OnStack(a) = OnStack(s) \cup {r}
  BY <1>1, <1>2 DEF OnStack, n
<1>4. Distinct(a) <=> Distinct(s) /\ r \notin OnStack(s)
  <2>1. Distinct(a) <=> \A j, k \in 1 .. n \cup {n + 1} : a[j] = a[k] => j = k
    BY <1>1, <1>2 DEF Distinct
  <2>2. Distinct(s) <=> \A j, k \in 1 .. n : s[j] = s[k] => j = k
    BY DEF Distinct, n
  <2>3. OnStack(s) = { s[k] : k \in 1 .. n }
    BY DEF OnStack, n
  <2> QED BY <1>1, <1>2, <2>1, <2>2, <2>3
<1> QED BY <1>1, <1>3, <1>4 DEF a

LEMMA Ascending ==
  ASSUME NEW m \in Nat, NEW n \in Nat, NEW s, s = [k \in 1 .. n |-> m + k]
  PROVE  /\ s \in Seq(m + 1 .. m + n) /\ Len(s) = n /\ OnStack(s) = m + 1 .. m + n
         /\ Distinct(s)
<1>1. s \in [1 .. n -> m + 1 .. m + n]
  OBVIOUS
<1>2. s \in Seq(m + 1 .. m + n) /\ Len(s) = n
  BY <1>1
<1>3. \A k \in 1 .. n : s[k] = m + k
  OBVIOUS
<1>4. ASSUME NEW r \in m + 1 .. m + n PROVE r \in OnStack(s)
  <2>1. r - m \in 1 .. n /\ r = m + (r - m)
    OBVIOUS
  <2> QED BY <1>2, <1>3, <2>1 DEF OnStack
<1>5. ASSUME NEW r \in OnStack(s) PROVE r \in m + 1 .. m + n
  <2>1. PICK k \in 1 .. n : r = m + k
    BY <1>2, <1>3, <1>5 DEF OnStack
  <2> QED BY <2>1
<1>6. Distinct(s)
  BY <1>2, <1>3 DEF Distinct
<1> QED BY <1>2, <1>4, <1>5, <1>6

LEMMA StackJoined ==
  ASSUME NEW S, NEW s \in Seq(S), NEW t \in Seq(S), Distinct(s), Distinct(t),
         OnStack(s) \cap OnStack(t) = {}
  PROVE  /\ s \o t \in Seq(S) /\ OnStack(s \o t) = OnStack(s) \cup OnStack(t)
         /\ Distinct(s \o t)
<1> DEFINE c == s \o t
           m == Len(s)
           n == Len(t)
<1>1. /\ c \in Seq(S) /\ Len(c) = m + n /\ m \in Nat /\ n \in Nat
      /\ \A k \in 1 .. m : c[k] = s[k]
      /\ \A k \in m + 1 .. m + n : k - m \in 1 .. n /\ c[k] = t[k - m]
  <2>1. c \in Seq(S) /\ Len(c) = m + n /\ m \in Nat /\ n \in Nat
    OBVIOUS
  <2>2. \A k \in 1 .. m + n : c[k] = IF k <= m THEN s[k] ELSE t[k - m]
    OBVIOUS
  <2> HIDE DEF c, m, n
  <2>3. \A k \in 1 .. m : k \in 1 .. m + n /\ k <= m
    BY <2>1
  <2>4. \A k \in m + 1 .. m + n : k \in 1 .. m + n /\ ~(k <= m) /\ k - m \in 1 .. n
    BY <2>1
  <2> QED BY <2>1, <2>2, <2>3, <2>4
<1>2. \A k \in 1 .. n : c[m + k] = t[k] /\ m + k \in m + 1 .. m + n
  <2> HIDE DEF c, m, n
  <2>1. \A k \in 1 .. n : m + k \in m + 1 .. m + n /\ (m + k) - m = k
    BY <1>1
  <2> QED BY <1>1, <2>1
<1>3. 1 .. m + n = 1 .. m \cup (m + 1 .. m + n)
  <2> HIDE DEF m, n
  <2> QED BY <1>1
<1>4. OnStack(s) = { s[k] : k \in 1 .. m } /\ OnStack(t) = { t[k] : k \in 1 .. n }
  BY DEF OnStack
<1> HIDE DEF c, m, n
<1>5. OnStack(c) = OnStack(s) \cup OnStack(t)
  <2>1. ASSUME NEW r \in OnStack(c) PROVE r \in OnStack(s) \cup OnStack(t)
    <3>1. PICK k \in 1 .. m \cup (m + 1 .. m + n) : c[k] = r
      BY <1>1, <1>3, <2>1 DEF OnStack
    <3> QED BY <1>1, <1>4, <3>1
  <2>2. ASSUME NEW r \in OnStack(s) PROVE r \in OnStack(c)
    <3>1. PICK k \in 1 .. m : s[k] = r
      BY <1>4, <2>2
    <3> QED BY <1>1, <1>3, <3>1 DEF OnStack
  <2>3. ASSUME NEW r \in OnStack(t) PROVE r \in OnStack(c)
    <3>1. PICK k \in 1 .. n : t[k] = r
      BY <1>4, <2>3
    <3> QED BY <1>1, <1>2, <1>3, <3>1 DEF OnStack
  <2> QED BY <2>1, <2>2, <2>3
<1>6. ASSUME NEW j \in 1 .. m + n, NEW k \in 1 .. m + n, c[j] = c[k] PROVE j = k
  <2>1. CASE j \in 1 .. m /\ k \in 1 .. m
    BY <1>1, <1>6, <2>1 DEF Distinct, m
  <2>2. CASE j \in m + 1 .. m + n /\ k \in m + 1 .. m + n
    <3>1. j - m \in 1 .. n /\ k - m \in 1 .. n /\ t[j - m] = t[k - m]
      BY <1>1, <1>6, <2>2
    <3>2. j - m = k - m
      BY <3>1 DEF Distinct, n
    <3> QED BY <1>1, <3>2
  <2>3. CASE j \in 1 .. m /\ k \in m + 1 .. m + n
    BY <1>1, <1>4, <1>6, <2>3
  <2>4. CASE k \in 1 .. m /\ j \in m + 1 .. m + n
    BY <1>1, <1>4, <1>6, <2>4
  <2> QED BY <1>3, <1>6, <2>1, <2>2, <2>3, <2>4
<1> QED BY <1>1, <1>5, <1>6 DEF Distinct, c

\* The top of the stack, and what remains without it.
LEMMA StackTop ==
  ASSUME NEW S, NEW s \in Seq(S), s # <<>>, Distinct(s)
  PROVE  /\ Pool!Front(s) \in Seq(S) /\ Pool!Last(s) \in OnStack(s)
         /\ OnStack(Pool!Front(s)) = OnStack(s) \ {Pool!Last(s)} /\ Distinct(Pool!Front(s))
<1>1. PICK f \in Seq(S), x \in S : s = Append(f, x)
  BY Split
<1>2. /\ SubSeq(s, 1, Len(f)) = f /\ Len(s) = Len(f) + 1 /\ Len(f) \in Nat /\ s[Len(f) + 1] = x
  BY <1>1, Appended
<1>3. Len(s) - 1 = Len(f)
  BY <1>2
<1>4. Pool!Front(s) = f /\ Pool!Last(s) = x
  BY <1>2, <1>3 DEF Pool!Front, Pool!Last
<1>5. OnStack(s) = OnStack(f) \cup {x} /\ Distinct(f) /\ x \notin OnStack(f)
  BY <1>1, StackGrows
<1> QED BY <1>1, <1>4, <1>5

\* ResourcesApart in these terms.
Apart ==
  /\ Distinct(inactive)
  /\ \A i, j \in DOMAIN bound : i # j => bound[i] # bound[j]
  /\ DOMAIN storage = OnStack(inactive) \cup { bound[i] : i \in DOMAIN bound }
  /\ \A i \in DOMAIN bound : bound[i] \notin OnStack(inactive)
  /\ \A r \in DOMAIN storage : storage[r] \subseteq { i \in DOMAIN bound : bound[i] = r }

LEMMA ApartTerms ==
  /\ inactive \in Seq(DOMAIN storage) => (Pool!ResourcesApart <=> Apart)
  /\ inactive' \in Seq(DOMAIN storage') => (Pool!ResourcesApart' <=> Apart')
<1>1. ASSUME inactive \in Seq(DOMAIN storage) PROVE Pool!ResourcesApart <=> Apart
  BY <1>1, StackTerms DEF Pool!ResourcesApart, Apart, Pool!Stored
<1>2. ASSUME inactive' \in Seq(DOMAIN storage') PROVE Pool!ResourcesApart' <=> Apart'
  <2>1. /\ Pool!ToSet(inactive') = OnStack(inactive')
        /\ Pool!IsInjective(inactive') <=> Distinct(inactive')
        /\ \A r : Pool!Contains(inactive', r) <=> r \in OnStack(inactive')
    BY <1>2, StackTerms
  <2> QED BY <2>1 DEF Pool!ResourcesApart, Apart, Pool!Stored
<1> QED BY <1>1, <1>2

\* A new stack, new bindings and new marks that fit.
LEMMA PoolKept ==
  ASSUME \E n \in Nat : DOMAIN storage' = 1 .. n,
         storage' \in [DOMAIN storage' -> SUBSET Threads],
         inactive' \in Seq(DOMAIN storage'),
         DOMAIN bound' \subseteq Threads, bound' \in [DOMAIN bound' -> DOMAIN storage'], Apart'
  PROVE  PoolInv'
  BY ApartTerms DEF PoolInv

LEMMA PoolInit == Init => PoolInv
<1> SUFFICES ASSUME Init PROVE PoolInv
  OBVIOUS
<1>1. storage = <<>> /\ inactive = <<>> /\ bound = <<>>
  BY DEF Init, Pool!Init
<1>2. DOMAIN storage = {} /\ DOMAIN bound = {} /\ DOMAIN storage = 1 .. 0 /\ Len(inactive) = 0
      /\ inactive \in Seq(DOMAIN storage)
  BY <1>1
<1>3. storage \in [DOMAIN storage -> SUBSET Threads] /\ bound \in [DOMAIN bound -> DOMAIN storage]
  BY <1>1, <1>2
<1>4. Apart
  BY <1>2 DEF Apart, Distinct, OnStack
<1>5. Pool!ResourcesApart
  BY <1>2, <1>4, ApartTerms
<1>6. \E n \in Nat : DOMAIN storage = 1 .. n
  BY <1>2
<1> QED BY <1>2, <1>3, <1>5, <1>6 DEF PoolInv

LEMMA PoolFacts ==
  ASSUME PoolInv
  PROVE  /\ \E n \in Nat : DOMAIN storage = 1 .. n /\ Cardinality(DOMAIN storage) = n
         /\ storage \in [DOMAIN storage -> SUBSET Threads]
         /\ inactive \in Seq(DOMAIN storage)
         /\ DOMAIN bound \subseteq Threads /\ bound \in [DOMAIN bound -> DOMAIN storage]
         /\ Apart /\ OnStack(inactive) \subseteq DOMAIN storage
<1>1. PICK n \in Nat : DOMAIN storage = 1 .. n
  BY DEF PoolInv
<1>2. Cardinality(1 .. n) = n
  BY FS_Interval
<1> QED BY <1>1, <1>2, ApartTerms, StackTerms DEF PoolInv

LEMMA SameCount == \A S : Pool!Cardinality(S) = Cardinality(S)
  BY DEF Pool!Cardinality, Cardinality

LEMMA AppendRangeKeeps ==
  ASSUME PoolInv, NEW new \in 1 .. MaxStored, Pool!AppendRange(new)
  PROVE  PoolInv'
<1>1. PICK n \in Nat : DOMAIN storage = 1 .. n /\ Cardinality(DOMAIN storage) = n
  BY PoolFacts
<1>2. /\ storage \in [DOMAIN storage -> SUBSET Threads] /\ inactive \in Seq(1 .. n)
      /\ DOMAIN bound \subseteq Threads /\ bound \in [DOMAIN bound -> 1 .. n]
      /\ Apart /\ OnStack(inactive) \subseteq 1 .. n
  BY <1>1, PoolFacts
<1> DEFINE fresh == [k \in 1 .. new |-> n + k]
<1>3. new \in Nat
  BY CthAssumption DEF Pool!ThreadPoolAssumption
<1>4. /\ storage' = [r \in 1 .. n + new |-> IF r \in 1 .. n THEN storage[r] ELSE {}]
      /\ inactive' = inactive \o fresh /\ bound' = bound
  BY <1>1, SameCount DEF Pool!AppendRange, Pool!Stored
<1>5. /\ fresh \in Seq(n + 1 .. n + new) /\ OnStack(fresh) = n + 1 .. n + new /\ Distinct(fresh)
  BY <1>3, Ascending
<1>6. /\ 1 .. n \subseteq 1 .. n + new /\ n + 1 .. n + new \subseteq 1 .. n + new
      /\ 1 .. n + new = 1 .. n \cup (n + 1 .. n + new) /\ n + new \in Nat
      /\ 1 .. n \cap (n + 1 .. n + new) = {}
  BY <1>3
<1> HIDE DEF fresh
<1>7. DOMAIN storage' = 1 .. n + new /\ DOMAIN bound' = DOMAIN bound
  BY <1>4
<1>8. inactive \in Seq(1 .. n + new) /\ fresh \in Seq(1 .. n + new)
  BY <1>2, <1>5, <1>6
<1>9. /\ inactive' \in Seq(1 .. n + new) /\ Distinct(inactive')
      /\ OnStack(inactive') = OnStack(inactive) \cup (n + 1 .. n + new)
  BY <1>2, <1>4, <1>5, <1>6, <1>8, StackJoined DEF Apart
<1>10. Apart'
  <2>1. DOMAIN storage = OnStack(inactive) \cup { bound[i] : i \in DOMAIN bound }
    BY <1>2 DEF Apart
  <2>2. 1 .. n + new = OnStack(inactive') \cup { bound[i] : i \in DOMAIN bound }
    BY <1>1, <1>6, <1>9, <2>1
  <2>3. ASSUME NEW i \in DOMAIN bound PROVE bound[i] \notin OnStack(inactive')
    BY <1>1, <1>2, <1>6, <1>9 DEF Apart
  <2>4. ASSUME NEW r \in 1 .. n + new PROVE storage'[r] \subseteq { i \in DOMAIN bound : bound[i] = r }
    BY <1>1, <1>2, <1>4 DEF Apart
  <2>5. \A i, j \in DOMAIN bound : i # j => bound[i] # bound[j]
    BY <1>2 DEF Apart
  <2> QED BY <1>4, <1>7, <1>9, <2>2, <2>3, <2>4, <2>5 DEF Apart
<1> QED BY <1>1, <1>2, <1>4, <1>6, <1>7, <1>9, <1>10, PoolKept

LEMMA PoolLeft ==
  ASSUME PoolInv, storage' = storage, inactive' = inactive, bound' = bound
  PROVE  PoolInv'
<1>1. Apart
  BY PoolFacts
<1>2. Apart'
  BY <1>1 DEF Apart
<1> QED BY <1>2, PoolKept DEF PoolInv

LEMMA AcquireKeeps ==
  ASSUME PoolInv, NEW t \in Threads, Pool!Acquire(t)
  PROVE  PoolInv'
<1> DEFINE S == DOMAIN storage
           top == Pool!Last(inactive)
<1>1. /\ \E n \in Nat : S = 1 .. n
      /\ storage \in [S -> SUBSET Threads] /\ inactive \in Seq(S)
      /\ DOMAIN bound \subseteq Threads /\ bound \in [DOMAIN bound -> S]
      /\ Apart /\ OnStack(inactive) \subseteq S
  BY PoolFacts
<1>2. CASE UNCHANGED <<inactive, bound>>
  <2>1. storage' = storage /\ inactive' = inactive /\ bound' = bound
    BY <1>2 DEF Pool!Acquire
  <2> QED BY <2>1, PoolLeft
<1>3. CASE t \notin DOMAIN bound /\ inactive # <<>>
  <2>1. /\ storage' = storage /\ inactive' = Pool!Front(inactive)
        /\ bound' = [i \in DOMAIN bound \cup {t} |-> IF i = t THEN top ELSE bound[i]]
    BY <1>3 DEF Pool!Acquire
  <2>2. /\ inactive' \in Seq(S) /\ top \in OnStack(inactive) /\ Distinct(inactive')
        /\ OnStack(inactive') = OnStack(inactive) \ {top}
    BY <1>1, <1>3, <2>1, StackTop DEF Apart
  <2> HIDE DEF top
  <2>3. /\ DOMAIN bound' = DOMAIN bound \cup {t} /\ bound'[t] = top
        /\ \A i \in DOMAIN bound : bound'[i] = bound[i]
        /\ bound' \in [DOMAIN bound' -> S]
    BY <1>1, <1>3, <2>1, <2>2
  <2>4. Apart'
    <3>1. { bound'[i] : i \in DOMAIN bound' } = { bound[i] : i \in DOMAIN bound } \cup {top}
      BY <2>3
    <3>2. S = OnStack(inactive) \cup { bound[i] : i \in DOMAIN bound }
      BY <1>1 DEF Apart
    <3>3. DOMAIN storage' = OnStack(inactive') \cup { bound'[i] : i \in DOMAIN bound' }
      BY <2>1, <2>2, <3>1, <3>2
    <3>4. \A i \in DOMAIN bound : bound[i] \notin OnStack(inactive) /\ bound[i] # top
      BY <1>1, <2>2 DEF Apart
    <3>5. \A i, j \in DOMAIN bound' : i # j => bound'[i] # bound'[j]
      BY <1>1, <2>3, <3>4 DEF Apart
    <3>6. \A i \in DOMAIN bound' : bound'[i] \notin OnStack(inactive')
      BY <2>2, <2>3, <3>4
    <3>7. \A r \in DOMAIN storage' : storage'[r] \subseteq { i \in DOMAIN bound' : bound'[i] = r }
      <4>1. \A r \in S : storage[r] \subseteq { i \in DOMAIN bound : bound[i] = r }
        BY <1>1 DEF Apart
      <4> QED BY <2>1, <2>3, <4>1
    <3> QED BY <2>2, <3>3, <3>5, <3>6, <3>7 DEF Apart
  <2>5. storage' \in [DOMAIN storage' -> SUBSET Threads] /\ DOMAIN storage' = S
    BY <1>1, <2>1
  <2> QED BY <1>1, <2>2, <2>3, <2>4, <2>5, PoolKept
<1> QED BY <1>2, <1>3 DEF Pool!Acquire

LEMMA ReleaseToPoolKeeps ==
  ASSUME PoolInv, NEW t \in Threads, Pool!Release(t)
  PROVE  PoolInv'
<1> DEFINE S == DOMAIN storage
           back == bound[t]
<1>1. /\ \E n \in Nat : S = 1 .. n
      /\ storage \in [S -> SUBSET Threads] /\ inactive \in Seq(S)
      /\ DOMAIN bound \subseteq Threads /\ bound \in [DOMAIN bound -> S]
      /\ Apart /\ OnStack(inactive) \subseteq S
  BY PoolFacts
<1>2. /\ t \in DOMAIN bound /\ back \in S /\ inactive' = Append(inactive, back)
      /\ storage' = [storage EXCEPT ![back] = {}]
      /\ bound' = [i \in DOMAIN bound \ {t} |-> bound[i]]
  BY <1>1 DEF Pool!Release, Pool!PoolRelease, Pool!Unbind
<1>3. back \notin OnStack(inactive)
  BY <1>1, <1>2 DEF Apart
<1>4. /\ inactive' \in Seq(S) /\ Distinct(inactive')
      /\ OnStack(inactive') = OnStack(inactive) \cup {back}
  BY <1>1, <1>2, <1>3, StackGrows DEF Apart
<1> HIDE DEF back
<1>5. /\ DOMAIN bound' = DOMAIN bound \ {t} /\ \A i \in DOMAIN bound' : bound'[i] = bound[i]
      /\ bound' \in [DOMAIN bound' -> S]
  BY <1>1, <1>2
<1>6. /\ DOMAIN storage' = S /\ storage' \in [S -> SUBSET Threads] /\ storage'[back] = {}
      /\ \A r \in S : r # back => storage'[r] = storage[r]
  BY <1>1, <1>2
<1>7. Apart'
  <2>1. /\ \A i, j \in DOMAIN bound : i # j => bound[i] # bound[j]
        /\ S = OnStack(inactive) \cup { bound[i] : i \in DOMAIN bound }
        /\ \A i \in DOMAIN bound : bound[i] \notin OnStack(inactive)
        /\ \A r \in S : storage[r] \subseteq { i \in DOMAIN bound : bound[i] = r }
    BY <1>1 DEF Apart
  <2>2. back = bound[t] /\ t \in DOMAIN bound
    BY <1>2 DEF back
  <2>3. \A i, j \in DOMAIN bound' : i # j => bound'[i] # bound'[j]
    BY <1>5, <2>1
  <2>4. S = OnStack(inactive') \cup { bound'[i] : i \in DOMAIN bound' }
    <3>1. { bound[i] : i \in DOMAIN bound } = { bound'[i] : i \in DOMAIN bound' } \cup {back}
      BY <1>5, <2>2
    <3> QED BY <1>4, <2>1, <3>1
  <2>5. \A i \in DOMAIN bound' : bound'[i] \notin OnStack(inactive')
    BY <1>4, <1>5, <2>1, <2>2
  <2>6. \A r \in S : storage'[r] \subseteq { i \in DOMAIN bound' : bound'[i] = r }
    <3>1. ASSUME NEW r \in S, r # back
          PROVE  { i \in DOMAIN bound : bound[i] = r } = { i \in DOMAIN bound' : bound'[i] = r }
      BY <1>5, <2>2, <3>1
    <3> QED BY <1>6, <2>1, <3>1
  <2> QED BY <1>4, <1>6, <2>3, <2>4, <2>5, <2>6 DEF Apart
<1> QED BY <1>1, <1>4, <1>5, <1>6, <1>7, PoolKept

LEMMA ClearKeeps ==
  ASSUME PoolInv, Pool!Clear
  PROVE  PoolInv'
<1>1. PICK n \in Nat : DOMAIN storage = 1 .. n /\ Cardinality(DOMAIN storage) = n
  BY PoolFacts
<1>2. /\ storage \in [1 .. n -> SUBSET Threads] /\ inactive \in Seq(1 .. n)
      /\ DOMAIN bound \subseteq Threads /\ bound \in [DOMAIN bound -> 1 .. n]
      /\ Apart
  BY <1>1, PoolFacts
<1>3. /\ storage' = [r \in 1 .. n |-> IF Pool!Contains(inactive, r) THEN storage[r] ELSE {}]
      /\ inactive' = [k \in 1 .. n |-> 0 + k]
      /\ bound' = [i \in DOMAIN bound \ Threads |-> bound[i]]
  <2>1. [k \in 1 .. n |-> k] = [k \in 1 .. n |-> 0 + k]
    OBVIOUS
  <2> QED BY <1>1, <2>1, SameCount DEF Pool!Clear, Pool!PoolClear, Pool!Unbind, Pool!Stored
<1>4. inactive' \in Seq(1 .. n) /\ OnStack(inactive') = 1 .. n /\ Distinct(inactive')
  <2>1. 0 + 1 .. 0 + n = 1 .. n
    OBVIOUS
  <2> QED BY <1>3, <2>1, Ascending
<1>5. DOMAIN bound' = {} /\ bound' \in [DOMAIN bound' -> 1 .. n]
  BY <1>2, <1>3
<1>6. DOMAIN storage' = 1 .. n /\ storage' \in [1 .. n -> SUBSET Threads]
      /\ \A r \in 1 .. n : storage'[r] = {}
  <2>1. ASSUME NEW r \in OnStack(inactive), r \in 1 .. n PROVE storage[r] = {}
    <3>1. storage[r] \subseteq { i \in DOMAIN bound : bound[i] = r }
      BY <1>1, <1>2, <2>1 DEF Apart
    <3>2. \A i \in DOMAIN bound : bound[i] # r
      BY <1>2, <2>1 DEF Apart
    <3> QED BY <3>1, <3>2
  <2>2. \A r : Pool!Contains(inactive, r) <=> r \in OnStack(inactive)
    BY <1>2, StackTerms
  <2> QED BY <1>2, <1>3, <2>1, <2>2
<1>7. Apart'
  BY <1>4, <1>5, <1>6 DEF Apart
<1> QED BY <1>1, <1>4, <1>5, <1>6, <1>7, PoolKept

LEMMA UseKeeps ==
  ASSUME PoolInv, NEW t \in Threads, Pool!Use(t)
  PROVE  PoolInv'
<1> DEFINE S == DOMAIN storage
           r == bound[t]
<1>1. /\ \E n \in Nat : S = 1 .. n
      /\ storage \in [S -> SUBSET Threads] /\ inactive \in Seq(S)
      /\ DOMAIN bound \subseteq Threads /\ bound \in [DOMAIN bound -> S]
      /\ Apart
  BY PoolFacts
<1>2. /\ t \in DOMAIN bound /\ r \in S /\ inactive' = inactive /\ bound' = bound
      /\ storage' = [storage EXCEPT ![r] = storage[r] \cup {t}]
  BY <1>1 DEF Pool!Use
<1>3. /\ DOMAIN storage' = S /\ storage' \in [S -> SUBSET Threads]
      /\ storage'[r] = storage[r] \cup {t} /\ \A q \in S : q # r => storage'[q] = storage[q]
  BY <1>1, <1>2
<1>4. Apart'
  <2>1. \A q \in S : storage'[q] \subseteq { i \in DOMAIN bound : bound[i] = q }
    <3>1. \A q \in S : storage[q] \subseteq { i \in DOMAIN bound : bound[i] = q }
      BY <1>1 DEF Apart
    <3> QED BY <1>2, <1>3, <3>1
  <2>2. /\ Distinct(inactive)
        /\ \A i, j \in DOMAIN bound : i # j => bound[i] # bound[j]
        /\ S = OnStack(inactive) \cup { bound[i] : i \in DOMAIN bound }
        /\ \A i \in DOMAIN bound : bound[i] \notin OnStack(inactive)
    BY <1>1 DEF Apart
  <2> QED BY <1>2, <1>3, <2>1, <2>2 DEF Apart
<1> QED BY <1>1, <1>2, <1>3, <1>4, PoolKept

LEMMA PoolStepKeeps ==
  ASSUME PoolInv, Pool!Next
  PROVE  PoolInv'
<1>1. ASSUME UNCHANGED <<storage, inactive, bound>> PROVE PoolInv'
  BY <1>1, PoolLeft
<1>2. ASSUME NEW t \in Threads, Pool!Exit(t) \/ Pool!StartThread(t) PROVE PoolInv'
  BY <1>1, <1>2 DEF Pool!Exit, Pool!StartThread
<1> QED BY <1>2, AppendRangeKeeps, ClearKeeps, AcquireKeeps, ReleaseToPoolKeeps, UseKeeps
        DEF Pool!Next

LEMMA PoolUnchanged ==
  ASSUME PoolInv, UNCHANGED poolVars
  PROVE  PoolInv'
  BY PoolLeft DEF poolVars

-----------------------------------------------------------------------------
(* The union-find forest.  The invariant names the root of each index and  *)
(* a depth that shrinks on the way to it; halving a path changes neither.  *)
(* The depth is below the size of the group, so a walk has ended after     *)
(* Size turns.                                                             *)

Forests == [Forest!Index -> [parent : Forest!Index, size : Nat]]

ClassOf(root, x) == { y \in Forest!Index : root[y] = root[x] }

Partition(root) == { ClassOf(root, x) : x \in Forest!Index }

\* The parents lead to the roots, and a root knows how many it is the root of.
LeadsTo(f, root, deep) ==
  /\ f \in Forests /\ root \in [Forest!Index -> Forest!Index] /\ deep \in [Forest!Index -> Nat]
  /\ \A x \in Forest!Index :
       /\ root[root[x]] = root[x]
       /\ Forest!IsRoot(f, x) <=> root[x] = x
       /\ root[f[x].parent] = root[x]
       /\ ~Forest!IsRoot(f, x) => deep[f[x].parent] < deep[x]
       /\ deep[x] < Cardinality(ClassOf(root, x))
       /\ f[root[x]].size = Cardinality(ClassOf(root, x))

ForestInv ==
  \E root \in [Forest!Index -> Forest!Index], deep \in [Forest!Index -> Nat] :
    /\ LeadsTo(forest, root, deep)
    /\ classes = Partition(root)
    /\ ~grouped => \A x \in Forest!Index : x <= root[x]

-----------------------------------------------------------------------------
(* Numbers and sets.                                                       *)

\* Induction, said of a set of numbers.
LEMMA InductionOnNat ==
  ASSUME NEW T, T \subseteq Nat, 0 \in T, \A n \in T : n + 1 \in T
  PROVE  T = Nat
<1> DEFINE R == OpToRel(<, Nat)
<1>1. IsWellFoundedOn(R, Nat)
  BY NatLessThanWellFounded
<1>2. \A x, y \in Nat : x < y => <<x, y>> \in R
  BY DEF OpToRel
<1> HIDE DEF R
<1>3. ASSUME Nat \ T # {} PROVE FALSE
  <2>1. PICK x \in Nat \ T : \A y \in Nat \ T : ~(<<y, x>> \in R)
    BY <1>1, <1>3, WFMin
  <2>2. x # 0 /\ x - 1 \in Nat /\ x - 1 < x
    OBVIOUS
  <2>3. x - 1 \in T
    BY <1>2, <2>1, <2>2
  <2> QED BY <2>1, <2>2, <2>3
<1> QED BY <1>3

Steps(S, N) == [1 .. N -> [S -> S]]

IsRun(w, S, N, first, step) ==
  /\ w \in [0 .. N -> S]
  /\ \A n \in 0 .. N : w[n] = IF n = 0 THEN first ELSE step[n][w[n - 1]]

\* Steps on S can be taken one after the other.
LEMMA Repeated ==
  ASSUME NEW S, NEW N \in Nat, NEW first \in S, NEW step \in Steps(S, N)
  PROVE  \E w : IsRun(w, S, N, first, step)
<1> USE DEF Steps
<1> DEFINE Fits(m, w) ==
             \A n \in 0 .. m : w[n] = IF n = 0 THEN first ELSE step[n][w[n - 1]]
           T == { m \in Nat : m <= N => \E w \in [0 .. m -> S] : Fits(m, w) }
<1>1. 0 \in T
  <2> DEFINE w == [n \in 0 .. 0 |-> first]
  <2>1. w \in [0 .. 0 -> S] /\ Fits(0, w)
    OBVIOUS
  <2> QED BY <2>1
<1>2. ASSUME NEW m \in T PROVE m + 1 \in T
  <2>1. m \in Nat /\ m + 1 \in Nat
    OBVIOUS
  <2> SUFFICES ASSUME m + 1 <= N
               PROVE  \E w \in [0 .. m + 1 -> S] : Fits(m + 1, w)
    BY <2>1
  <2>2. PICK v \in [0 .. m -> S] : Fits(m, v)
    BY <2>1
  <2>3. m \in 0 .. m /\ m + 1 \in 1 .. N
    BY <2>1
  <2>4. PICK p \in S : p = step[m + 1][v[m]]
    <3>1. v[m] \in S
      BY <2>2, <2>3
    <3>2. step[m + 1] \in [S -> S]
      BY <2>3, <3>1
    <3> QED BY <3>2
  <2> DEFINE w == [n \in 0 .. m + 1 |-> IF n = m + 1 THEN p ELSE v[n]]
  <2>5. w \in [0 .. m + 1 -> S]
    BY <2>1
  <2>6. w[m + 1] = p /\ \A n \in 0 .. m : w[n] = v[n]
    BY <2>1
  <2> HIDE DEF w
  <2>7. ASSUME NEW n \in 0 .. m + 1
        PROVE  w[n] = IF n = 0 THEN first ELSE step[n][w[n - 1]]
    <3>1. CASE n = m + 1
      <4>1. n # 0 /\ n - 1 = m
        BY <2>1, <3>1
      <4> QED BY <2>3, <2>4, <2>6, <3>1, <4>1
    <3>2. CASE n # m + 1
      <4>1. n \in 0 .. m /\ (n # 0 => n - 1 \in 0 .. m)
        BY <2>1, <3>2
      <4> QED BY <2>2, <2>6, <4>1
    <3> QED BY <3>1, <3>2
  <2> QED BY <2>5, <2>7
<1>3. N \in T
  <2>1. T \subseteq Nat
    OBVIOUS
  <2> HIDE DEF T
  <2> QED BY <1>1, <1>2, <2>1, InductionOnNat
<1> QED BY <1>3 DEF IsRun

\* What holds at first and is kept by each step holds up to the last.
LEMMA UpTo ==
  ASSUME NEW N \in Nat, NEW T \in SUBSET (0 .. N), 0 \in T,
         \A n \in 1 .. N : n - 1 \in T => n \in T
  PROVE  T = 0 .. N
<1> DEFINE U == { n \in Nat : n <= N => n \in T }
<1>1. 0 \in U
  OBVIOUS
<1>2. ASSUME NEW n \in U PROVE n + 1 \in U
  <2> SUFFICES ASSUME n + 1 <= N PROVE n + 1 \in T
    OBVIOUS
  <2>1. n \in Nat /\ n \in T /\ n + 1 \in 1 .. N /\ (n + 1) - 1 = n
    OBVIOUS
  <2> QED BY <2>1
<1>3. U = Nat
  <2>1. U \subseteq Nat
    OBVIOUS
  <2> HIDE DEF U
  <2> QED BY <1>1, <1>2, <2>1, InductionOnNat
<1>4. \A n \in 0 .. N : n \in U /\ n <= N
  BY <1>3
<1>5. \A n \in 0 .. N : n \in T
  BY <1>4
<1> HIDE DEF U
<1> QED BY <1>5

LEMMA ClassFacts ==
  ASSUME Size \in Nat, NEW root
  PROVE  /\ IsFiniteSet(Forest!Index) /\ Cardinality(Forest!Index) = Size
         /\ \A x \in Forest!Index : /\ IsFiniteSet(ClassOf(root, x))
                                    /\ Cardinality(ClassOf(root, x)) \in Nat
                                    /\ Cardinality(ClassOf(root, x)) <= Size
<1>1. IsFiniteSet(Forest!Index) /\ Cardinality(Forest!Index) = Size
  BY FS_Interval DEF Forest!Index
<1>2. ASSUME NEW x \in Forest!Index
      PROVE  /\ IsFiniteSet(ClassOf(root, x))
             /\ Cardinality(ClassOf(root, x)) \in Nat
             /\ Cardinality(ClassOf(root, x)) <= Size
  <2>1. ClassOf(root, x) \in SUBSET Forest!Index
    BY DEF ClassOf
  <2> QED BY <1>1, <2>1, FS_Subset, FS_CardinalityType
<1> QED BY <1>1, <1>2

-----------------------------------------------------------------------------
(* find.                                                                   *)

\* The parent of x becomes its grandparent: the roots stay (union_find.hpp:69-72).
LEMMA HalfTheWay ==
  ASSUME NEW f, NEW root, NEW deep, LeadsTo(f, root, deep), NEW x \in Forest!Index
  PROVE  LET w == Forest!Halve([forest |-> f, at |-> x])
         IN /\ LeadsTo(w.forest, root, deep)
            /\ w.at \in Forest!Index /\ root[w.at] = root[x]
            /\ Forest!IsRoot(w.forest, w.at) \/ deep[w.at] < deep[x]
<1> DEFINE p == f[x].parent
           g == f[p].parent
           h == [f EXCEPT ![x].parent = g]
<1>1. /\ f \in Forests /\ root \in [Forest!Index -> Forest!Index] /\ deep \in [Forest!Index -> Nat]
      /\ p \in Forest!Index /\ g \in Forest!Index
  BY DEF LeadsTo, Forests
<1>2. /\ h \in Forests
      /\ h[x].parent = g /\ h[x].size = f[x].size
      /\ \A y \in Forest!Index \ {x} : h[y] = f[y]
  BY <1>1 DEF Forests
<1>3. /\ root[p] = root[x] /\ root[g] = root[p]
      /\ Forest!IsRoot(f, x) <=> root[x] = x
      /\ ~Forest!IsRoot(f, x) => deep[p] < deep[x]
      /\ ~Forest!IsRoot(f, p) => deep[g] < deep[p]
  BY <1>1 DEF LeadsTo
<1>4. ~Forest!IsRoot(f, x) => deep[g] < deep[x] /\ g # x
  <2>1. deep[x] \in Nat /\ deep[p] \in Nat /\ deep[g] \in Nat
    BY <1>1
  <2>2. CASE Forest!IsRoot(f, p)
    BY <1>3, <2>1, <2>2 DEF Forest!IsRoot
  <2>3. CASE ~Forest!IsRoot(f, p)
    BY <1>3, <2>1, <2>3
  <2> QED BY <2>2, <2>3
<1>5. Forest!IsRoot(f, x) => g = x
  BY DEF Forest!IsRoot
<1>6. Forest!IsRoot(h, x) <=> Forest!IsRoot(f, x)
  BY <1>2, <1>4, <1>5 DEF Forest!IsRoot
<1>7. \A y \in Forest!Index : (Forest!IsRoot(h, y) <=> Forest!IsRoot(f, y)) /\ h[y].size = f[y].size
  BY <1>2, <1>6 DEF Forest!IsRoot
<1> HIDE DEF h
<1>8. LeadsTo(h, root, deep)
  <2>1. ASSUME NEW y \in Forest!Index
        PROVE  /\ root[h[y].parent] = root[y]
               /\ ~Forest!IsRoot(h, y) => deep[h[y].parent] < deep[y]
    <3>1. CASE y = x
      BY <1>2, <1>3, <1>4, <1>7, <3>1
    <3>2. CASE y # x
      BY <1>2, <1>7, <3>2 DEF LeadsTo
    <3> QED BY <3>1, <3>2
  <2> QED BY <1>1, <1>2, <1>7, <2>1 DEF LeadsTo
<1>9. Forest!IsRoot(h, g) \/ deep[g] < deep[x]
  BY <1>4, <1>5, <1>6
<1>10. Forest!Halve([forest |-> f, at |-> x]) = [forest |-> h, at |-> g]
  BY DEF Forest!Halve, h
<1> QED BY <1>1, <1>3, <1>8, <1>9, <1>10

(***************************************************************************)
(* A find gives the root, and leaves the forest with the same roots.       *)
(***************************************************************************)
LEMMA FindsRoot ==
  ASSUME Size \in Nat,
         NEW f, NEW root, NEW deep, LeadsTo(f, root, deep), NEW x \in Forest!Index
  PROVE  Forest!Find(f, x).at = root[x] /\ LeadsTo(Forest!Find(f, x).forest, root, deep)
<1> DEFINE Walks == { w \in [forest : Forests, at : Forest!Index] :
                        LeadsTo(w.forest, root, deep) /\ root[w.at] = root[x] }
           Turn(w) == IF Forest!IsRoot(w.forest, w.at) THEN w ELSE Forest!Halve(w)
           first == Forest!Halve([forest |-> f, at |-> x])
           IsWalk(w) == w = [n \in 0 .. Size |->
                               IF n = 0 THEN Forest!Halve([forest |-> f, at |-> x])
                               ELSE IF Forest!IsRoot(w[n - 1].forest, w[n - 1].at) THEN w[n - 1]
                               ELSE Forest!Halve(w[n - 1])]
<1>1. root \in [Forest!Index -> Forest!Index] /\ deep \in [Forest!Index -> Nat]
  BY DEF LeadsTo
<1>2. ASSUME NEW w, w.forest \in Forests, w.at \in Forest!Index, w = [forest |-> w.forest, at |-> w.at],
             LeadsTo(w.forest, root, deep)
      PROVE  /\ Forest!Halve(w) \in [forest : Forests, at : Forest!Index]
             /\ LeadsTo(Forest!Halve(w).forest, root, deep) /\ root[Forest!Halve(w).at] = root[w.at]
             /\ Forest!IsRoot(Forest!Halve(w).forest, Forest!Halve(w).at) \/ deep[Forest!Halve(w).at] < deep[w.at]
  <2>1. /\ LeadsTo(Forest!Halve(w).forest, root, deep)
        /\ Forest!Halve(w).at \in Forest!Index /\ root[Forest!Halve(w).at] = root[w.at]
        /\ Forest!IsRoot(Forest!Halve(w).forest, Forest!Halve(w).at) \/ deep[Forest!Halve(w).at] < deep[w.at]
    BY <1>2, HalfTheWay
  <2>2. Forest!Halve(w).forest \in Forests
    BY <2>1 DEF LeadsTo
  <2>3. Forest!Halve(w) = [forest |-> Forest!Halve(w).forest, at |-> Forest!Halve(w).at]
    BY DEF Forest!Halve
  <2> QED BY <2>1, <2>2, <2>3
<1>3. first \in Walks /\ (Forest!IsRoot(first.forest, first.at) \/ deep[first.at] < deep[x])
  <2>1. f \in Forests
    BY DEF LeadsTo
  <2> QED BY <1>2, <2>1
<1>4. ASSUME NEW w \in Walks
      PROVE  /\ Turn(w) \in Walks
             /\ Forest!IsRoot(w.forest, w.at) => Turn(w) = w
             /\ \/ Forest!IsRoot(Turn(w).forest, Turn(w).at)
                \/ deep[Turn(w).at] < deep[w.at]
  <2>1. w.forest \in Forests /\ w.at \in Forest!Index /\ w = [forest |-> w.forest, at |-> w.at]
    OBVIOUS
  <2> QED BY <1>2, <2>1
<1> HIDE DEF Turn, first, Walks
<1>5. PICK v \in [0 .. Size -> Walks] :
        \A n \in 0 .. Size : v[n] = IF n = 0 THEN first ELSE Turn(v[n - 1])
  <2> DEFINE step == [n \in 1 .. Size |-> [w \in Walks |-> Turn(w)]]
  <2>1. step \in [1 .. Size -> [Walks -> Walks]]
    BY <1>4
  <2>2. \A n \in 1 .. Size : \A w \in Walks : step[n][w] = Turn(w)
    OBVIOUS
  <2> HIDE DEF step
  <2>3. PICK v \in [0 .. Size -> Walks] :
          \A n \in 0 .. Size : v[n] = IF n = 0 THEN first ELSE step[n][v[n - 1]]
    <3>1. PICK a \in Walks : a = first
      BY <1>3
    <3>2. PICK g \in Steps(Walks, Size) : g = step
      BY <2>1 DEF Steps
    <3>3. PICK v : IsRun(v, Walks, Size, a, g)
      BY Repeated
    <3> QED BY <3>1, <3>2, <3>3 DEF IsRun
  <2>4. ASSUME NEW n \in 0 .. Size, n # 0 PROVE step[n][v[n - 1]] = Turn(v[n - 1])
    <3>1. n \in 1 .. Size /\ n - 1 \in 0 .. Size
      BY <2>4
    <3> QED BY <2>2, <3>1
  <2> QED BY <2>3, <2>4
<1>6. IsWalk(v)
  <2>1. v = [n \in 0 .. Size |-> v[n]]
    OBVIOUS
  <2>2. \A n \in 0 .. Size :
          v[n] = IF n = 0 THEN Forest!Halve([forest |-> f, at |-> x])
                 ELSE IF Forest!IsRoot(v[n - 1].forest, v[n - 1].at) THEN v[n - 1]
                 ELSE Forest!Halve(v[n - 1])
    BY <1>5 DEF Turn, first
  <2> QED BY <2>1, <2>2, Zenon
<1> DEFINE walk == CHOOSE w : IsWalk(w)
<1>7. Forest!Find(f, x) = walk[Size]
  BY DEF Forest!Find
<1>8. IsWalk(walk)
  <2> HIDE DEF IsWalk
  <2> QED BY <1>6
<1>9. \A n \in 0 .. Size : walk[n] = IF n = 0 THEN first ELSE Turn(walk[n - 1])
  <2> HIDE DEF walk
  <2> QED BY <1>8, Zenon DEF Turn, first
<1> HIDE DEF walk, IsWalk
<1> DEFINE T == { n \in 0 .. Size :
                    /\ walk[n] \in Walks
                    /\ \/ Forest!IsRoot(walk[n].forest, walk[n].at)
                       \/ deep[walk[n].at] + n < deep[x] }
<1>10. \A w \in Walks : w.at \in Forest!Index /\ deep[w.at] \in Nat
  BY <1>1 DEF Walks
<1>11. deep[x] \in Nat
  BY <1>1
<1>12. 0 \in T
  <2>1. 0 \in 0 .. Size /\ walk[0] = first
    BY <1>9
  <2> QED BY <1>3, <1>10, <1>11, <2>1
<1>13. ASSUME NEW n \in 1 .. Size, n - 1 \in T PROVE n \in T
  <2>1. n \in 0 .. Size /\ n \in Nat /\ n # 0
    OBVIOUS
  <2>2. PICK w \in Walks : w = walk[n - 1]
    BY <1>13
  <2>3. walk[n] = Turn(w)
    BY <1>9, <2>1, <2>2
  <2>4. PICK u \in Walks : u = Turn(w)
    BY <1>4
  <2>5. Forest!IsRoot(u.forest, u.at) \/ deep[u.at] + n < deep[x]
    <3>1. CASE Forest!IsRoot(w.forest, w.at)
      BY <1>4, <2>4, <3>1
    <3>2. CASE deep[w.at] + (n - 1) < deep[x]
      BY <1>4, <1>10, <1>11, <2>1, <2>4, <3>2
    <3> QED BY <1>13, <2>2, <3>1, <3>2
  <2> QED BY <2>1, <2>3, <2>4, <2>5
<1>14. T = 0 .. Size
  <2>1. T \in SUBSET (0 .. Size)
    OBVIOUS
  <2> HIDE DEF T
  <2> QED BY <1>12, <1>13, <2>1, UpTo
<1>15. PICK w \in Walks : w = walk[Size]
  <2>1. Size \in T
    BY <1>14
  <2> QED BY <2>1
<1>16. Forest!IsRoot(w.forest, w.at)
  <2>1. Size \in T
    BY <1>14
  <2>2. deep[x] < Cardinality(ClassOf(root, x)) /\ Cardinality(ClassOf(root, x)) \in Nat
        /\ Cardinality(ClassOf(root, x)) <= Size
    BY ClassFacts DEF LeadsTo
  <2> QED BY <1>10, <1>11, <1>15, <2>1, <2>2
<1>17. w.at = root[w.at] /\ root[w.at] = root[x] /\ LeadsTo(w.forest, root, deep)
  BY <1>10, <1>16 DEF Walks, LeadsTo
<1> QED BY <1>7, <1>15, <1>17

-----------------------------------------------------------------------------
(* merge.                                                                  *)

Under(root, a, b) == [x \in Forest!Index |-> IF root[x] = a THEN b ELSE root[x]]

\* A root under another one (union_find.hpp:93-94).
LEMMA AttachedBelow ==
  ASSUME Size \in Nat,
         NEW f, NEW root, NEW deep, LeadsTo(f, root, deep),
         NEW a \in Forest!Index, NEW b \in Forest!Index, root[a] = a, root[b] = b, a # b
  PROVE  \E deeper \in [Forest!Index -> Nat] : LeadsTo(Forest!Attach(f, a, b), Under(root, a, b), deeper)
<1> DEFINE h == Forest!Attach(f, a, b)
           new == Under(root, a, b)
           deeper == [x \in Forest!Index |-> IF root[x] = a THEN deep[x] + deep[b] + 1 ELSE deep[x]]
           A == ClassOf(root, a)
           B == ClassOf(root, b)
<1>1. /\ f \in Forests /\ root \in [Forest!Index -> Forest!Index] /\ deep \in [Forest!Index -> Nat]
      /\ \A x \in Forest!Index : f[x].parent \in Forest!Index /\ f[x].size \in Nat
  BY DEF LeadsTo, Forests
<1>2. /\ h \in Forests
      /\ h[a].parent = b /\ h[b].parent = f[b].parent /\ h[b].size = f[b].size + f[a].size
      /\ \A x \in Forest!Index \ {a, b} : h[x] = f[x]
  BY <1>1 DEF Forest!Attach, Forests
<1>3. new \in [Forest!Index -> Forest!Index] /\ deeper \in [Forest!Index -> Nat]
  BY <1>1 DEF Under
<1>4. \A x \in Forest!Index : /\ root[x] = a => new[x] = b /\ deeper[x] = deep[x] + deep[b] + 1
                              /\ root[x] # a => new[x] = root[x] /\ deeper[x] = deep[x]
  BY <1>1 DEF Under
<1> HIDE DEF h, new, deeper
<1>5. /\ f[a].size = Cardinality(A) /\ f[b].size = Cardinality(B)
      /\ Cardinality(A) \in Nat /\ Cardinality(B) \in Nat
      /\ Cardinality(A \cup B) = Cardinality(A) + Cardinality(B)
  <2>1. f[a].size = Cardinality(A) /\ f[b].size = Cardinality(B)
    BY DEF LeadsTo
  <2>2. /\ IsFiniteSet(A) /\ IsFiniteSet(B)
        /\ Cardinality(A) \in Nat /\ Cardinality(B) \in Nat
    BY ClassFacts
  <2>3. A \cap B = {}
    BY DEF ClassOf
  <2>4. Cardinality(A \cap B) = 0
    BY <2>3, FS_EmptySet
  <2>5. Cardinality(A \cup B) = Cardinality(A) + Cardinality(B) - Cardinality(A \cap B)
    BY <2>2, FS_Union
  <2> QED BY <2>1, <2>2, <2>4, <2>5
<1>6. ASSUME NEW x \in Forest!Index
      PROVE  /\ root[x] = a => ClassOf(root, x) = A
             /\ root[x] = b => ClassOf(root, x) = B
             /\ root[x] \in {a, b} => ClassOf(new, x) = A \cup B
             /\ root[x] \notin {a, b} => ClassOf(new, x) = ClassOf(root, x)
  BY <1>4 DEF ClassOf
<1>7. ASSUME NEW x \in Forest!Index
      PROVE  /\ root[root[x]] = root[x] /\ root[x] \in Forest!Index
             /\ Forest!IsRoot(f, x) <=> root[x] = x
             /\ root[f[x].parent] = root[x]
             /\ ~Forest!IsRoot(f, x) => deep[f[x].parent] < deep[x]
             /\ deep[x] \in Nat /\ deep[f[x].parent] \in Nat
             /\ deep[x] < Cardinality(ClassOf(root, x))
             /\ f[root[x]].size = Cardinality(ClassOf(root, x))
  BY <1>1 DEF LeadsTo
<1>8. deep[b] \in Nat /\ deep[b] < Cardinality(B) /\ Forest!IsRoot(f, b) /\ Forest!IsRoot(f, a)
  BY <1>7
<1>9. ASSUME NEW x \in Forest!Index
      PROVE  /\ new[new[x]] = new[x]
             /\ Forest!IsRoot(h, x) <=> new[x] = x
             /\ new[h[x].parent] = new[x]
             /\ ~Forest!IsRoot(h, x) => deeper[h[x].parent] < deeper[x]
  <2>1. new[new[x]] = new[x]
    BY <1>4, <1>7
  <2>2. CASE x = a
    <3>1. h[x].parent = b /\ new[x] = b /\ new[b] = b /\ ~Forest!IsRoot(h, x)
      BY <1>2, <1>4, <2>2 DEF Forest!IsRoot
    <3>2. deeper[b] = deep[b] /\ deeper[x] = deep[x] + deep[b] + 1 /\ deep[x] \in Nat
      BY <1>4, <1>7, <2>2
    <3> QED BY <1>8, <2>1, <2>2, <3>1, <3>2
  <2>3. CASE x # a
    <3>1. h[x].parent = f[x].parent /\ (Forest!IsRoot(h, x) <=> Forest!IsRoot(f, x))
      BY <1>2, <2>3 DEF Forest!IsRoot
    <3>2. f[x].parent \in Forest!Index /\ root[f[x].parent] = root[x]
      BY <1>1, <1>7
    <3>3. new[f[x].parent] = new[x]
      BY <1>4, <3>2
    <3>4. new[x] = x <=> root[x] = x
      BY <1>4, <1>7, <2>3
    <3>5. ~Forest!IsRoot(f, x) => deeper[f[x].parent] < deeper[x]
      BY <1>4, <1>7, <1>8, <3>2
    <3> QED BY <1>7, <2>1, <3>1, <3>3, <3>4, <3>5
  <2> QED BY <2>2, <2>3
<1>10. ASSUME NEW x \in Forest!Index
       PROVE  /\ deeper[x] < Cardinality(ClassOf(new, x))
              /\ h[new[x]].size = Cardinality(ClassOf(new, x))
  <2> HIDE DEF A, B
  <2>0. PICK m \in Nat, n \in Nat : m = Cardinality(A) /\ n = Cardinality(B)
    BY <1>5
  <2>1. CASE root[x] = a
    <3>1. Cardinality(ClassOf(new, x)) = m + n /\ Cardinality(ClassOf(root, x)) = m
      BY <1>5, <1>6, <2>0, <2>1
    <3>2. h[new[x]].size = m + n
      BY <1>2, <1>4, <1>5, <2>0, <2>1
    <3>3. deeper[x] = deep[x] + deep[b] + 1 /\ deep[x] \in Nat /\ deep[x] < m /\ deep[b] < n
      BY <1>4, <1>7, <1>8, <2>0, <2>1, <3>1
    <3> QED BY <1>8, <2>0, <3>1, <3>2, <3>3
  <2>2. CASE root[x] = b
    <3>1. Cardinality(ClassOf(new, x)) = m + n /\ Cardinality(ClassOf(root, x)) = n
      BY <1>5, <1>6, <2>0, <2>2
    <3>2. h[new[x]].size = m + n
      BY <1>2, <1>4, <1>5, <2>0, <2>2
    <3>3. deeper[x] = deep[x] /\ deep[x] \in Nat /\ deep[x] < n
      BY <1>4, <1>7, <2>0, <2>2, <3>1
    <3> QED BY <2>0, <3>1, <3>2, <3>3
  <2>3. CASE root[x] \notin {a, b}
    BY <1>2, <1>4, <1>6, <1>7, <2>3
  <2> QED BY <2>1, <2>2, <2>3
<1> QED BY <1>2, <1>3, <1>9, <1>10 DEF LeadsTo, h, new

\* The members of M, and who has a root in common with one, get root b.
Joined(root, M, b) ==
  [x \in Forest!Index |-> IF \E m \in M : root[m] = root[x] THEN b ELSE root[x]]

\* What a merge is asked for (UnionFind!Join).
LEMMA PartitionJoined ==
  ASSUME NEW root \in [Forest!Index -> Forest!Index], \A x \in Forest!Index : root[root[x]] = root[x],
         NEW M \in SUBSET Forest!Index, NEW b \in Forest!Index, \E m \in M : root[m] = b,
         classes = Partition(root), Forest!Join(M)
  PROVE  classes' = Partition(Joined(root, M, b))
<1> DEFINE new == Joined(root, M, b)
           met == { c \in classes : c \cap M # {} }
           U == { y \in Forest!Index : \E m \in M : root[m] = root[y] }
<1>1. \A x \in Forest!Index : /\ x \in U => new[x] = b
                              /\ x \notin U => new[x] = root[x]
  BY DEF Joined
<1>2. \A x \in Forest!Index : x \notin U => root[x] # b
  OBVIOUS
<1> HIDE DEF new
<1>3. ASSUME NEW x \in Forest!Index
      PROVE  ClassOf(new, x) = IF x \in U THEN U ELSE ClassOf(root, x)
  <2>1. CASE x \in U
    BY <1>1, <1>2, <2>1 DEF ClassOf
  <2>2. CASE x \notin U
    <3>1. ASSUME NEW y \in Forest!Index PROVE new[y] = new[x] <=> root[y] = root[x]
      BY <1>1, <1>2, <2>2
    <3> QED BY <2>2, <3>1 DEF ClassOf
  <2> QED BY <2>1, <2>2
<1>4. ASSUME NEW x \in Forest!Index PROVE ClassOf(root, x) \in met <=> x \in U
  BY DEF Partition, ClassOf
<1>5. met # {} /\ U # {}
  <2>1. PICK m \in M : root[m] = b
    OBVIOUS
  <2>2. m \in U
    OBVIOUS
  <2>3. ClassOf(root, m) \in met
    BY <1>4, <2>2
  <2> QED BY <2>2, <2>3
<1>6. UNION met = U
  <2>1. ASSUME NEW c \in met PROVE c \subseteq U
    BY DEF Partition, ClassOf
  <2>2. ASSUME NEW y \in U PROVE \E c \in met : y \in c
    <3>1. y \in Forest!Index /\ y \in ClassOf(root, y) /\ ClassOf(root, y) \in met
      BY <1>4 DEF ClassOf
    <3> QED BY <3>1
  <2> QED BY <2>1, <2>2
<1>7. classes' = (classes \ met) \cup {U}
  BY <1>5, <1>6 DEF Forest!Join
<1>8. ASSUME NEW c \in Partition(new) PROVE c \in (classes \ met) \cup {U}
  <2>1. PICK x \in Forest!Index : c = ClassOf(new, x)
    BY DEF Partition
  <2> QED BY <1>3, <1>4, <2>1 DEF Partition
<1>9. ASSUME NEW c \in (classes \ met) \cup {U} PROVE c \in Partition(new)
  <2>1. CASE c = U
    <3>1. PICK x \in U : TRUE
      BY <1>5
    <3>2. x \in Forest!Index /\ ClassOf(new, x) = U
      BY <1>3
    <3> QED BY <2>1, <3>2 DEF Partition
  <2>2. CASE c \in classes \ met
    <3>1. PICK x \in Forest!Index : c = ClassOf(root, x)
      BY <2>2 DEF Partition
    <3>2. ClassOf(new, x) = c
      BY <1>3, <1>4, <2>2, <3>1
    <3> QED BY <3>2 DEF Partition
  <2> QED BY <2>1, <2>2
<1> HIDE DEF met, U
<1> QED BY <1>7, <1>8, <1>9 DEF new

-----------------------------------------------------------------------------
(* The steps.                                                              *)

LEMMA ForestBegins ==
  ASSUME Forest!UnionFindAssumption, Forest!Init
  PROVE  ForestInv
<1> DEFINE root == [x \in Forest!Index |-> x]
           deep == [x \in Forest!Index |-> 0]
<1>1. root \in [Forest!Index -> Forest!Index] /\ deep \in [Forest!Index -> Nat]
  OBVIOUS
<1>2. \A x \in Forest!Index : root[x] = x /\ deep[x] = 0
  OBVIOUS
<1> HIDE DEF root, deep
<1>3. \A x \in Forest!Index : ClassOf(root, x) = {x}
  BY <1>2 DEF ClassOf
<1>4. \A x \in Forest!Index : Cardinality(ClassOf(root, x)) = 1
  BY <1>3, FS_Singleton
<1>5. forest \in Forests /\ \A x \in Forest!Index : forest[x].parent = x /\ forest[x].size = 1
  BY DEF Forest!Init, Forests
<1>6. LeadsTo(forest, root, deep)
  BY <1>1, <1>2, <1>4, <1>5 DEF LeadsTo, Forest!IsRoot
<1>7. classes = Partition(root)
  BY <1>3 DEF Forest!Init, Partition
<1>8. \A x \in Forest!Index : x <= root[x]
  BY <1>2 DEF Forest!Index
<1> QED BY <1>1, <1>6, <1>7, <1>8 DEF ForestInv

LEMMA PairMerged ==
  ASSUME Size \in Nat,
         NEW f, NEW root, NEW deep, LeadsTo(f, root, deep),
         NEW lhs \in Forest!Index, NEW rhs \in Forest!Index
  PROVE  \E b \in Forest!Index, deeper \in [Forest!Index -> Nat] :
           /\ b \in {root[lhs], root[rhs]} /\ root[lhs] <= b /\ root[rhs] <= b
           /\ LeadsTo(Forest!Merge(f, lhs, rhs), Joined(root, {lhs, rhs}, b), deeper)
<1> DEFINE left == Forest!Find(f, lhs)
           right == Forest!Find(left.forest, rhs)
           g == right.forest
           l == root[lhs]
           r == root[rhs]
<1>1. /\ root \in [Forest!Index -> Forest!Index] /\ deep \in [Forest!Index -> Nat]
      /\ \A x \in Forest!Index : root[root[x]] = root[x]
  BY DEF LeadsTo
<1>2. left.at = l /\ LeadsTo(left.forest, root, deep)
  BY FindsRoot
<1>3. right.at = r /\ LeadsTo(g, root, deep)
  BY <1>2, FindsRoot
<1> HIDE DEF left, right, g
<1>4. l \in Forest!Index /\ r \in Forest!Index /\ root[l] = l /\ root[r] = r /\ l \in Int /\ r \in Int
  BY <1>1 DEF Forest!Index
<1>5. Forest!Merge(f, lhs, rhs) = IF l = r THEN g ELSE IF l < r THEN Forest!Attach(g, l, r) ELSE Forest!Attach(g, r, l)
  BY <1>2, <1>3 DEF Forest!Merge, left, right, g
<1>6. CASE l = r
  <2>1. Joined(root, {lhs, rhs}, l) = root
    BY <1>1, <1>6 DEF Joined
  <2> QED BY <1>1, <1>3, <1>4, <1>5, <1>6, <2>1
<1>7. CASE l < r
  <2>1. Joined(root, {lhs, rhs}, r) = Under(root, l, r)
    BY <1>1 DEF Joined, Under
  <2>2. \E deeper \in [Forest!Index -> Nat] : LeadsTo(Forest!Attach(g, l, r), Under(root, l, r), deeper)
    BY <1>3, <1>4, <1>7, AttachedBelow
  <2> QED BY <1>4, <1>5, <1>7, <2>1, <2>2
<1>8. CASE r < l
  <2>1. Joined(root, {lhs, rhs}, l) = Under(root, r, l)
    BY <1>1 DEF Joined, Under
  <2>2. \E deeper \in [Forest!Index -> Nat] : LeadsTo(Forest!Attach(g, r, l), Under(root, r, l), deeper)
    BY <1>3, <1>4, <1>8, AttachedBelow
  <2> QED BY <1>4, <1>5, <1>8, <2>1, <2>2
<1> QED BY <1>4, <1>6, <1>7, <1>8

\* One more member of a group, whose root b is.
LEMMA MemberHung ==
  ASSUME Size \in Nat,
         NEW f, NEW root \in [Forest!Index -> Forest!Index], NEW deep, NEW M \in SUBSET Forest!Index,
         NEW b \in Forest!Index, root[b] = b, NEW x \in Forest!Index,
         LeadsTo(f, Joined(root, M, b), deep)
  PROVE  \E deeper : LeadsTo(Forest!Hang(f, x, b), Joined(root, M \cup {x}, b), deeper)
<1> DEFINE r == Joined(root, M, b)
           s == Joined(root, M \cup {x}, b)
           found == Forest!Find(f, x)
<1>1. found.at = r[x] /\ LeadsTo(found.forest, r, deep)
  BY FindsRoot
<1> HIDE DEF found
<1>2. r \in [Forest!Index -> Forest!Index] /\ s \in [Forest!Index -> Forest!Index]
  BY DEF Joined
<1>3. \A y \in Forest!Index : /\ r[y] = IF \E m \in M : root[m] = root[y] THEN b ELSE root[y]
                              /\ s[y] = IF \E m \in M \cup {x} : root[m] = root[y] THEN b ELSE root[y]
  BY DEF Joined
<1>4. \A y \in Forest!Index : r[r[y]] = r[y]
  BY <1>1 DEF LeadsTo
<1> HIDE DEF r, s
<1>5. CASE r[x] = b
  <2>1. \A y \in Forest!Index : s[y] = r[y]
    BY <1>3, <1>5
  <2>2. s = r
    BY <1>2, <2>1
  <2>3. Forest!Hang(f, x, b) = found.forest
    BY <1>1, <1>5 DEF Forest!Hang, found
  <2> QED BY <1>1, <2>2, <2>3 DEF s
<1>6. CASE r[x] # b
  <2>1. r[x] = root[x] /\ r[b] = b /\ r[x] \in Forest!Index
    BY <1>2, <1>3, <1>6
  <2>2. \A y \in Forest!Index : s[y] = IF r[y] = r[x] THEN b ELSE r[y]
    BY <1>3, <1>6, <2>1
  <2>3. s = Under(r, r[x], b)
    BY <1>2, <2>2 DEF Under
  <2>4. Forest!Hang(f, x, b) = Forest!Attach(found.forest, r[x], b)
    BY <1>1, <1>6 DEF Forest!Hang, found
  <2>5. \E deeper \in [Forest!Index -> Nat] : LeadsTo(Forest!Attach(found.forest, r[x], b), Under(r, r[x], b), deeper)
    BY <1>1, <1>4, <1>6, <2>1, AttachedBelow
  <2> QED BY <2>3, <2>4, <2>5 DEF s
<1> QED BY <1>5, <1>6

LEMMA GroupMerged ==
  ASSUME Size \in Nat,
         NEW f, NEW root, NEW deep, LeadsTo(f, root, deep),
         NEW group \in Seq(Forest!Index), group # <<>>
  PROVE  LET M == { group[k] : k \in DOMAIN group }
         IN \E b \in Forest!Index, deeper \in [Forest!Index -> Nat] :
              /\ \E m \in M : root[m] = b
              /\ LeadsTo(Forest!MergeGroup(f, group), Joined(root, M, b), deeper)
<1> DEFINE last == Len(group)
           first == Forest!Find(f, group[1])
           b == root[group[1]]
           M(k) == { group[j] : j \in 1 .. k }
           IsMerged(w) == w = [k \in 0 .. Len(group) |->
                                 IF k = 0 THEN first.forest
                                 ELSE Forest!Hang(w[k - 1], group[k], first.at)]
           S == { g \in Forests : \E r, d : LeadsTo(g, r, d) /\ r[b] = b }
<1>1. /\ last \in Nat /\ last >= 1 /\ DOMAIN group = 1 .. last
      /\ \A k \in 1 .. last : group[k] \in Forest!Index
  OBVIOUS
<1>2. /\ root \in [Forest!Index -> Forest!Index] /\ \A x \in Forest!Index : root[root[x]] = root[x]
      /\ group[1] \in Forest!Index /\ b \in Forest!Index /\ root[b] = b
  BY <1>1 DEF LeadsTo
<1>3. first.at = b /\ LeadsTo(first.forest, root, deep)
  BY <1>2, FindsRoot
<1>4. first.forest \in S
  BY <1>2, <1>3 DEF LeadsTo
<1> HIDE DEF first, b, last
<1>5. ASSUME NEW g \in S, NEW x \in Forest!Index PROVE Forest!Hang(g, x, b) \in S
  <2>1. PICK r, d : LeadsTo(g, r, d) /\ r[b] = b
    OBVIOUS
  <2>2. r \in [Forest!Index -> Forest!Index]
    BY <2>1 DEF LeadsTo
  <2>3. PICK N \in SUBSET Forest!Index : N = {}
    OBVIOUS
  <2>4. LeadsTo(g, Joined(r, N, b), d)
    <3>1. Joined(r, N, b) = r
      BY <2>2, <2>3 DEF Joined
    <3> QED BY <2>1, <3>1
  <2>5. PICK e : LeadsTo(Forest!Hang(g, x, b), Joined(r, N \cup {x}, b), e)
    BY <1>2, <2>1, <2>2, <2>4, MemberHung
  <2>7. Joined(r, N \cup {x}, b)[b] = b
    BY <1>2, <2>1 DEF Joined
  <2>6. Forest!Hang(g, x, b) \in Forests
    BY <2>5 DEF LeadsTo
  <2> QED BY <2>5, <2>6, <2>7
<1> HIDE DEF S
<1>6. PICK v \in [0 .. last -> S] :
        \A k \in 0 .. last : v[k] = IF k = 0 THEN first.forest ELSE Forest!Hang(v[k - 1], group[k], b)
  <2> DEFINE step == [k \in 1 .. last |-> [g \in S |-> Forest!Hang(g, group[k], b)]]
  <2>1. step \in Steps(S, last)
    BY <1>1, <1>5 DEF Steps
  <2>2. \A k \in 1 .. last : \A g \in S : step[k][g] = Forest!Hang(g, group[k], b)
    OBVIOUS
  <2> HIDE DEF step
  <2>3. PICK a \in S : a = first.forest
    BY <1>4
  <2>4. PICK s \in Steps(S, last) : s = step
    BY <2>1
  <2>5. PICK v : IsRun(v, S, last, a, s)
    BY <1>1, Repeated
  <2>6. v \in [0 .. last -> S]
    BY <2>5 DEF IsRun
  <2>7. ASSUME NEW k \in 0 .. last, k # 0 PROVE v[k] = Forest!Hang(v[k - 1], group[k], b)
    <3>1. k \in 1 .. last /\ k - 1 \in 0 .. last
      BY <1>1, <2>7
    <3>2. v[k] = s[k][v[k - 1]]
      BY <2>5, <2>7 DEF IsRun
    <3> QED BY <2>2, <2>4, <2>6, <3>1, <3>2
  <2>8. \A k \in 0 .. last : k = 0 => v[k] = a
    BY <2>5 DEF IsRun
  <2> QED BY <2>3, <2>6, <2>7, <2>8
<1>7. IsMerged(v)
  <2>1. v = [k \in 0 .. last |-> v[k]]
    OBVIOUS
  <2> QED BY <1>3, <1>6, <2>1, Zenon DEF last
<1> DEFINE merged == CHOOSE w : IsMerged(w)
<1>8. Forest!MergeGroup(f, group) = merged[last]
  BY DEF Forest!MergeGroup, first, last
<1>9. IsMerged(merged)
  <2> HIDE DEF IsMerged
  <2> QED BY <1>7
<1>10. \A k \in 0 .. last :
         merged[k] = IF k = 0 THEN first.forest ELSE Forest!Hang(merged[k - 1], group[k], b)
  <2> HIDE DEF merged
  <2> QED BY <1>3, <1>9, Zenon DEF last
<1> HIDE DEF merged, IsMerged
<1> DEFINE T == { k \in 0 .. last : \E d : LeadsTo(merged[k], Joined(root, M(k), b), d) }
<1>11. 0 \in T
  <2>1. Joined(root, M(0), b) = root
    BY <1>2 DEF Joined
  <2>2. 0 \in 0 .. last /\ merged[0] = first.forest
    BY <1>1, <1>10
  <2> QED BY <1>3, <2>1, <2>2
<1>12. ASSUME NEW k \in 1 .. last, k - 1 \in T PROVE k \in T
  <2>1. k \in 0 .. last /\ k # 0 /\ group[k] \in Forest!Index
    BY <1>1
  <2>2. PICK d : LeadsTo(merged[k - 1], Joined(root, M(k - 1), b), d)
    BY <1>12
  <2>3. M(k) = M(k - 1) \cup {group[k]} /\ M(k - 1) \in SUBSET Forest!Index
    <3>1. 1 .. k = (1 .. (k - 1)) \cup {k} /\ 1 .. (k - 1) \subseteq 1 .. last
      BY <1>1
    <3> QED BY <1>1, <3>1
  <2>4. merged[k] = Forest!Hang(merged[k - 1], group[k], b)
    BY <1>10, <2>1
  <2> HIDE DEF M
  <2>5. \E e : LeadsTo(Forest!Hang(merged[k - 1], group[k], b),
                       Joined(root, M(k - 1) \cup {group[k]}, b), e)
    BY <1>2, <2>1, <2>2, <2>3, MemberHung
  <2> QED BY <2>1, <2>3, <2>4, <2>5
<1>13. T = 0 .. last
  <2>1. T \in SUBSET (0 .. last)
    OBVIOUS
  <2> HIDE DEF T
  <2> QED BY <1>1, <1>11, <1>12, <2>1, UpTo
<1>14. PICK d : LeadsTo(merged[last], Joined(root, M(last), b), d)
  <2>1. last \in T
    BY <1>1, <1>13
  <2> QED BY <2>1
<1>15. group[1] \in M(last) /\ root[group[1]] = b
  BY <1>1 DEF b
<1>16. M(last) = { group[k] : k \in DOMAIN group }
  BY <1>1
<1>17. d \in [Forest!Index -> Nat]
  BY <1>14 DEF LeadsTo
<1> HIDE DEF M
<1> QED BY <1>2, <1>8, <1>14, <1>15, <1>16, <1>17

LEMMA ForestKeeps ==
  ASSUME Forest!UnionFindAssumption, ForestInv, [Forest!Next]_Forest!vars
  PROVE  ForestInv'
<1>1. Size \in Nat /\ \A group \in Groups : group \in Seq(Forest!Index)
  BY DEF Forest!UnionFindAssumption
<1>2. PICK root \in [Forest!Index -> Forest!Index], deep \in [Forest!Index -> Nat] :
        /\ LeadsTo(forest, root, deep)
        /\ classes = Partition(root)
        /\ ~grouped => \A x \in Forest!Index : x <= root[x]
  BY DEF ForestInv
<1>3. \A x \in Forest!Index : root[root[x]] = root[x]
  BY <1>2 DEF LeadsTo
<1>4. CASE UNCHANGED Forest!vars
  BY <1>2, <1>4 DEF ForestInv, Forest!vars
<1>5. ASSUME NEW x \in Forest!Index, Forest!FindOne(x) PROVE ForestInv'
  <2>1. LeadsTo(forest', root, deep)
    BY <1>1, <1>2, <1>5, FindsRoot DEF Forest!FindOne
  <2> QED BY <1>2, <1>5, <2>1 DEF Forest!FindOne, ForestInv
<1>6. ASSUME NEW lhs \in Forest!Index, NEW rhs \in Forest!Index, Forest!MergeTwo(lhs, rhs) PROVE ForestInv'
  <2>1. PICK b \in Forest!Index, deeper \in [Forest!Index -> Nat] :
           /\ b \in {root[lhs], root[rhs]} /\ root[lhs] <= b /\ root[rhs] <= b
           /\ LeadsTo(forest', Joined(root, {lhs, rhs}, b), deeper)
    BY <1>1, <1>2, <1>6, PairMerged DEF Forest!MergeTwo
  <2>2. classes' = Partition(Joined(root, {lhs, rhs}, b))
    BY <1>2, <1>3, <1>6, <2>1, PartitionJoined DEF Forest!MergeTwo
  <2>3. ASSUME ~grouped', NEW x \in Forest!Index PROVE x <= Joined(root, {lhs, rhs}, b)[x]
    <3>1. x <= root[x]
      <4>1. ~grouped
        BY <1>6, <2>3 DEF Forest!MergeTwo
      <4> QED BY <1>2, <4>1
    <3>2. x \in Int /\ root[x] \in Int /\ b \in Int
      BY <1>1, <1>2 DEF Forest!Index
    <3>3. (\E m \in {lhs, rhs} : root[m] = root[x]) => root[x] <= b
      BY <2>1
    <3>4. Joined(root, {lhs, rhs}, b)[x] = root[x] \/ (root[x] <= b /\ Joined(root, {lhs, rhs}, b)[x] = b)
      BY <3>3 DEF Joined
    <3> QED BY <3>1, <3>2, <3>4
  <2>4. /\ Joined(root, {lhs, rhs}, b) \in [Forest!Index -> Forest!Index]
        /\ deeper \in [Forest!Index -> Nat]
    BY <2>1 DEF LeadsTo
  <2> QED BY <2>1, <2>2, <2>3, <2>4 DEF ForestInv
<1>7. ASSUME NEW group \in Groups, Forest!MergeAll(group) PROVE ForestInv'
  <2> DEFINE M == { group[k] : k \in DOMAIN group }
  <2>1. CASE group = <<>>
    <3>1. forest' = forest /\ M = {}
      BY <1>7, <2>1 DEF Forest!MergeAll, Forest!MergeGroup
    <3>2. classes' = classes
      BY <1>7, <3>1 DEF Forest!MergeAll, Forest!Join
    <3>3. grouped'
      BY <1>7 DEF Forest!MergeAll
    <3> QED BY <1>2, <3>1, <3>2, <3>3 DEF ForestInv
  <2>2. CASE group # <<>>
    <3>1. PICK b \in Forest!Index, deeper \in [Forest!Index -> Nat] :
            /\ \E m \in M : root[m] = b
            /\ LeadsTo(forest', Joined(root, M, b), deeper)
      BY <1>1, <1>2, <1>7, <2>2, GroupMerged DEF Forest!MergeAll
    <3>2. M \in SUBSET Forest!Index
      BY <1>1
    <3>3. classes' = Partition(Joined(root, M, b))
      <4>1. Forest!Join(M)
        BY <1>7 DEF Forest!MergeAll
      <4> HIDE DEF M
      <4> QED BY <1>2, <1>3, <3>1, <3>2, <4>1, PartitionJoined
    <3>4. Joined(root, M, b) \in [Forest!Index -> Forest!Index] /\ deeper \in [Forest!Index -> Nat] /\ grouped'
      BY <1>7, <3>1 DEF LeadsTo, Forest!MergeAll
    <3> QED BY <3>1, <3>3, <3>4 DEF ForestInv
  <2> QED BY <2>1, <2>2
<1> QED BY <1>4, <1>5, <1>6, <1>7 DEF Forest!Next

-----------------------------------------------------------------------------
(* What the callers see.                                                   *)

LEMMA ForestSeen ==
  ASSUME Size \in Nat, ForestInv
  PROVE  Forest!GroupsExact /\ Forest!EqualityCanonical
<1>1. PICK root \in [Forest!Index -> Forest!Index], deep \in [Forest!Index -> Nat] :
        /\ LeadsTo(forest, root, deep)
        /\ classes = Partition(root)
        /\ ~grouped => \A x \in Forest!Index : x <= root[x]
  BY DEF ForestInv
<1>2. \A x \in Forest!Index : Forest!Find(forest, x).at = root[x]
  BY <1>1, FindsRoot
<1>3. \A x \in Forest!Index : Forest!AllOf(forest, x) = ClassOf(root, x)
  BY <1>2 DEF Forest!AllOf, ClassOf
<1>4. Forest!All(forest) = classes
  BY <1>1, <1>3 DEF Forest!All, Partition
<1>5. ASSUME NEW x \in Forest!Index
      PROVE  /\ Cardinality(Forest!AllOf(forest, x) \cap Forest!Roots(forest)) = 1
             /\ forest[Forest!Find(forest, x).at].size = Cardinality(Forest!AllOf(forest, x))
  <2>1. \A y \in Forest!Index : Forest!IsRoot(forest, y) <=> root[y] = y
    BY <1>1 DEF LeadsTo
  <2>2. root[x] \in Forest!Index /\ root[root[x]] = root[x]
    BY <1>1 DEF LeadsTo
  <2>3. Forest!AllOf(forest, x) \cap Forest!Roots(forest) = {root[x]}
    BY <1>3, <2>1, <2>2 DEF Forest!Roots, ClassOf
  <2>4. forest[root[x]].size = Cardinality(ClassOf(root, x))
    BY <1>1 DEF LeadsTo
  <2>5. Cardinality({root[x]}) = 1
    BY FS_Singleton
  <2> QED BY <1>2, <1>3, <2>3, <2>4, <2>5
<1>6. ASSUME ~grouped, NEW x \in Forest!Index, NEW y \in Forest!AllOf(forest, x)
      PROVE  y <= Forest!Find(forest, x).at
  <2>1. y \in Forest!Index /\ root[y] = root[x]
    BY <1>3 DEF ClassOf
  <2> QED BY <1>1, <1>2, <1>6, <2>1
<1>7. \A S : Forest!Cardinality(S) = Cardinality(S)
  BY DEF Forest!Cardinality, Cardinality
<1>8. Forest!GroupsExact
  BY <1>4, <1>5, <1>7 DEF Forest!GroupsExact
<1> QED BY <1>6, <1>8 DEF Forest!EqualityCanonical

\* A step of another part is none of the forest's.
LEMMA ForestRuns == [Next]_vars => [Forest!Next]_Forest!vars
<1>1. ForestCall => Forest!Next
  BY DEF ForestCall
<1>2. ASSUME NEW name, name # "forest", Only(name) PROVE UNCHANGED forestVars
  BY <1>2 DEF Only
<1>3. ASSUME Next, ~ForestCall PROVE UNCHANGED forestVars
  <2>1. PICK name : name # "forest" /\ Only(name)
    BY <1>3 DEF Next, RamCall, RingStep, PoolCall, OwnerCall, PolyCall, CoroStep,
         FenceStep, SwitchStep, SocketStep, AssignTurn, StreamCall, LogStep
  <2> QED BY <1>2, <2>1
<1>4. UNCHANGED vars => UNCHANGED forestVars
  BY DEF vars
<1>5. UNCHANGED forestVars => UNCHANGED Forest!vars
  BY DEF forestVars, Forest!vars
<1> QED BY <1>1, <1>3, <1>4, <1>5

(***************************************************************************)
(* For a forest of any size and any groups: whatever was found and merged, *)
(* the groups are those asked for, each with one root, which knows how     *)
(* many it has; as long as pairs were merged the root is the largest       *)
(* (union_find.hpp:65-117, 187-198).                                       *)
(***************************************************************************)
THEOREM ForestExactAlways == Spec => []ForestExact
<1>1. Forest!UnionFindAssumption
  BY CthAssumption
<1>2. Init => ForestInv
  <2>1. Init => Forest!Init
    BY DEF Init
  <2> QED BY <1>1, <2>1, ForestBegins
<1>3. ForestInv /\ [Next]_vars => ForestInv'
  BY <1>1, ForestRuns, ForestKeeps
<1>4. ForestInv => ForestExact
  BY <1>1, ForestSeen DEF ForestExact, Forest!UnionFindAssumption
<1> QED BY <1>2, <1>3, <1>4, PTL DEF Spec

-----------------------------------------------------------------------------
(* The assignment.  A search that finds no b with room has visited more    *)
(* a's than the b's it reached can hold (Hall's theorem), so no assignment *)
(* is within the level; one that does moves each a on its way to a b that  *)
(* it may have.                                                            *)

LEMMA AssignCardinality == \A S : Assign!Cardinality(S) = Cardinality(S)
  BY DEF Assign!Cardinality, Cardinality

-----------------------------------------------------------------------------
(* What a search keeps.                                                    *)

Searches ==
  [queue : Seq(Assign!As), end : Assign!Bs \cup {0}, parentB : [Assign!Bs -> Assign!As \cup {0}],
   parentA : [Assign!As -> Assign!Bs \cup {0}]]

JobTyped ==
  /\ job \in Jobs /\ aToB \in [Assign!As -> Assign!Bs \cup {0}]
     /\ bToA \in [Assign!Bs -> Seq(Assign!As)]
  /\ level \in Nat

FullAt(b) == Len(bToA[b]) >= Assign!CurrentMax(b)

\* The two vectors say the same.
Agree(x, y) ==
  /\ \A a \in Assign!As : \A b \in Assign!Bs : x[a] = b <=> a \in Assign!Elements(y[b])
  /\ \A b \in Assign!Bs : \A j, k \in DOMAIN y[b] : y[b][j] = y[b][k] => j = k

\* Who is in the queue behind the first was visited after the b it holds, which
\* is full and was reached from an earlier one.
Behind(s, k) ==
  \E j \in 1 .. k - 1 :
    /\ s.parentA[s.queue[k]] \in Assign!Bs /\ aToB[s.queue[k]] = s.parentA[s.queue[k]]
    /\ s.parentB[s.parentA[s.queue[k]]] = s.queue[j]
    /\ FullAt(s.parentA[s.queue[k]])

Way(s, start) ==
  /\ s \in Searches
  /\ s.queue # <<>> /\ s.queue[1] = start /\ s.parentA[start] = 0
  /\ \A j, k \in DOMAIN s.queue : s.queue[j] = s.queue[k] => j = k
  /\ \A b \in Assign!Bs : s.parentB[b] # 0 =>
       s.parentB[b] \in Assign!Elements(s.queue) /\ b \in Assign!Elements(job.options[s.parentB[b]])
  /\ \A k \in DOMAIN s.queue : k # 1 => Behind(s, k)

\* The holders of what was reached are visited too.
ReachedClosed(s) ==
  \A b \in Assign!Bs : s.parentB[b] # 0 => FullAt(b)
    /\ Assign!Elements(bToA[b]) \subseteq Assign!Elements(s.queue)

RoomAtEnd(s) == s.end # 0 => s.parentB[s.end] # 0 /\ ~FullAt(s.end)

Sound(s, start) == Way(s, start) /\ RoomAtEnd(s) /\ (s.end = 0 => ReachedClosed(s))

Extends(s, t) ==
  /\ Len(s.queue) <= Len(t.queue)
  /\ \A k \in DOMAIN s.queue : t.queue[k] = s.queue[k]
  /\ \A b \in Assign!Bs : s.parentB[b] # 0 => t.parentB[b] # 0

-----------------------------------------------------------------------------
(* Numbers of a's and b's.                                                 *)

LEMMA JobSizes ==
  ASSUME Assign!CombineAssumption, JobTyped
  PROVE  /\ Len(job.options) \in Nat \ {0} /\ Assign!As = 1 .. Len(job.options)
         /\ Len(job.bMax) \in Nat /\ Assign!Bs = 1 .. Len(job.bMax)
         /\ 0 \notin Assign!As /\ 0 \notin Assign!Bs
         /\ \A a \in Assign!As : job.options[a] \in Seq(Assign!Bs)
         /\ \A b \in Assign!Bs : Assign!CurrentMax(b) \in Nat /\ Len(bToA[b]) \in Nat
            /\ job.bMax[b] \in Nat
<1>1. job.bMax \in Seq(Nat) /\ job.options \in Seq(Seq(Assign!Bs)) /\ job.options # <<>>
  BY DEF Assign!CombineAssumption, JobTyped, Assign!Bs
<1>2. Len(job.options) \in Nat /\ Assign!As = 1 .. Len(job.options) /\ Len(job.options) # 0
  <2> DEFINE o == job.options
             S == Seq(Assign!Bs)
  <2>1. o \in Seq(S) /\ o # <<>>
    BY <1>1
  <2> HIDE DEF o, S
  <2>2. Len(o) \in Nat /\ DOMAIN o = 1 .. Len(o) /\ Len(o) # 0
    BY <2>1
  <2> QED BY <2>2 DEF Assign!As, o
<1>3. Len(job.bMax) \in Nat /\ Assign!Bs = 1 .. Len(job.bMax)
      /\ \A b \in Assign!Bs : job.bMax[b] \in Nat
  BY <1>1 DEF Assign!Bs
<1>4. \A a \in Assign!As : job.options[a] \in Seq(Assign!Bs)
  BY <1>1 DEF Assign!As
<1>5. \A b \in Assign!Bs : Assign!CurrentMax(b) \in Nat /\ Len(bToA[b]) \in Nat
  BY <1>3 DEF Assign!CurrentMax, JobTyped
<1> QED BY <1>2, <1>3, <1>4, <1>5

LEMMA ElementsOf ==
  ASSUME NEW S, NEW s \in Seq(S)
  PROVE  /\ \A k \in 1 .. Len(s) : s[k] \in Assign!Elements(s) /\ s[k] \in S
         /\ DOMAIN s = 1 .. Len(s) /\ Len(s) \in Nat /\ Assign!Elements(s) \subseteq S
         /\ Assign!Elements(s) = { s[k] : k \in 1 .. Len(s) }
BY DEF Assign!Elements

LEMMA ExtendsOn ==
  ASSUME Assign!CombineAssumption, JobTyped, NEW s \in Searches, NEW t \in Searches, NEW u \in Searches
  PROVE  /\ Extends(s, s)
         /\ Extends(s, t) /\ Extends(t, u) => Extends(s, u)
         /\ Extends(s, t) => Assign!Elements(s.queue) \subseteq Assign!Elements(t.queue)
<1>1. \A x \in Searches : Len(x.queue) \in Nat /\ DOMAIN x.queue = 1 .. Len(x.queue)
  BY DEF Searches
<1>2. Extends(s, s)
  BY <1>1 DEF Extends
<1>3. ASSUME Extends(s, t) PROVE Assign!Elements(s.queue) \subseteq Assign!Elements(t.queue)
  BY <1>1, <1>3 DEF Extends, Assign!Elements
<1>4. ASSUME Extends(s, t), Extends(t, u) PROVE Extends(s, u)
  <2>1. Len(s.queue) <= Len(u.queue) /\ \A k \in DOMAIN s.queue : k \in DOMAIN t.queue
    BY <1>1, <1>4 DEF Extends
  <2> QED BY <1>4, <2>1 DEF Extends
<1> QED BY <1>2, <1>3, <1>4

-----------------------------------------------------------------------------
(* An a is visited.                                                        *)

LEMMA PushTyped ==
  ASSUME NEW s \in Searches, NEW a \in Assign!As, NEW b \in Assign!Bs
  PROVE  Assign!Push(s, b, a) \in Searches
<1> DEFINE queue == Append(s.queue, a)
           parentA == [s.parentA EXCEPT ![a] = b]
<1>1. s.queue \in Seq(Assign!As) /\ s.end \in Assign!Bs \cup {0}
      /\ s.parentB \in [Assign!Bs -> Assign!As \cup {0}]
      /\ s.parentA \in [Assign!As -> Assign!Bs \cup {0}]
  BY DEF Searches
<1>2. queue \in Seq(Assign!As) /\ parentA \in [Assign!As -> Assign!Bs \cup {0}]
  BY <1>1
<1> HIDE DEF queue, parentA
<1>3. [s EXCEPT !.queue = queue, !.parentA = parentA] \in Searches
  BY <1>1, <1>2 DEF Searches
<1>4. [s EXCEPT !.queue = Append(@, a), !.parentA = [@ EXCEPT ![a] = b]]
        = [s EXCEPT !.queue = queue, !.parentA = parentA]
  BY DEF queue, parentA
<1> QED BY <1>3, <1>4 DEF Assign!Push

LEMMA PushKeeps ==
  ASSUME Assign!CombineAssumption, JobTyped, Agree(aToB, bToA),
         NEW start \in Assign!As, NEW s, Way(s, start), aToB[start] = 0,
         NEW b \in Assign!Bs, s.parentB[b] # 0, FullAt(b), NEW a \in Assign!Elements(bToA[b])
  PROVE  /\ Way(Assign!Push(s, b, a), start) /\ Extends(s, Assign!Push(s, b, a))
         /\ Assign!Push(s, b, a).parentB = s.parentB /\ Assign!Push(s, b, a).end = s.end
         /\ a \in Assign!Elements(Assign!Push(s, b, a).queue)
<1>1. s \in Searches /\ a \in Assign!As /\ 0 \notin Assign!As /\ 0 \notin Assign!Bs
  <2>1. bToA[b] \in Seq(Assign!As)
    BY DEF JobTyped
  <2> QED BY <2>1, JobSizes, ElementsOf DEF Way
<1>2. CASE a \in Assign!Elements(s.queue)
  <2>1. Assign!Push(s, b, a) = s
    BY <1>2 DEF Assign!Push
  <2> QED BY <1>1, <1>2, <2>1, ExtendsOn
<1>3. CASE a \notin Assign!Elements(s.queue)
  <2>1. PICK t : t = Assign!Push(s, b, a)
    OBVIOUS
  <2>2. PICK n \in Nat : n = Len(s.queue) /\ DOMAIN s.queue = 1 .. n /\ s.queue \in Seq(Assign!As)
    BY <1>1 DEF Searches
  <2>3. t = [s EXCEPT !.queue = Append(@, a), !.parentA = [@ EXCEPT ![a] = b]]
    BY <1>3, <2>1 DEF Assign!Push
  <2>4. /\ t.queue = Append(s.queue, a) /\ t.end = s.end /\ t.parentB = s.parentB
        /\ t.parentA = [s.parentA EXCEPT ![a] = b]
    BY <1>1, <2>3 DEF Searches
  <2>5. t \in Searches
    BY <1>1, <2>1, PushTyped
  <2>6. /\ Len(t.queue) = n + 1 /\ DOMAIN t.queue = 1 .. n + 1 /\ t.queue[n + 1] = a
        /\ \A k \in 1 .. n : t.queue[k] = s.queue[k] /\ k \in 1 .. n + 1 /\ s.queue[k] # a
        /\ n + 1 \in 1 .. n + 1 /\ \A k \in 1 .. n + 1 : k \in 1 .. n \/ k = n + 1
    BY <1>1, <1>3, <2>2, <2>4 DEF Assign!Elements
  <2>7. a # start /\ 1 \in 1 .. n
    <3>1. aToB[a] = b
      BY <1>1 DEF Agree
    <3>2. n # 0
      BY <2>2 DEF Way
    <3> QED BY <1>1, <2>2, <3>1, <3>2
  <2>8. t.parentA[a] = b /\ \A x \in Assign!As : x # a => t.parentA[x] = s.parentA[x]
    BY <1>1, <2>4 DEF Searches
  <2>9. Extends(s, t) /\ a \in Assign!Elements(t.queue)
    <3>1. Extends(s, t)
      BY <2>2, <2>4, <2>6 DEF Extends
    <3>2. a \in Assign!Elements(t.queue)
      BY <2>6 DEF Assign!Elements
    <3> QED BY <3>1, <3>2
  <2>10. t.queue # <<>> /\ t.queue[1] = start /\ t.parentA[start] = 0
    <3>1. t.queue[1] = start /\ t.parentA[start] = 0
      BY <2>6, <2>7, <2>8 DEF Way
    <3>2. Len(t.queue) # 0
      BY <2>2, <2>6
    <3> QED BY <3>1, <3>2
  <2>11. \A j, k \in DOMAIN t.queue : t.queue[j] = t.queue[k] => j = k
    BY <2>2, <2>6 DEF Way
  <2>12. ASSUME NEW c \in Assign!Bs, t.parentB[c] # 0
         PROVE  t.parentB[c] \in Assign!Elements(t.queue)
                /\ c \in Assign!Elements(job.options[t.parentB[c]])
    <3>1. s.parentB[c] \in Assign!Elements(s.queue)
          /\ c \in Assign!Elements(job.options[s.parentB[c]])
      BY <2>4, <2>12 DEF Way
    <3>2. Assign!Elements(s.queue) \subseteq Assign!Elements(t.queue)
      BY <1>1, <2>5, <2>9, ExtendsOn
    <3> QED BY <2>4, <3>1, <3>2
  <2>13. ASSUME NEW k \in DOMAIN t.queue, k # 1 PROVE Behind(t, k)
    <3>1. CASE k = n + 1
      <4>1. PICK j \in 1 .. n : s.parentB[b] = s.queue[j]
        BY <2>2 DEF Way, Assign!Elements
      <4>2. j \in 1 .. k - 1 /\ t.parentB[b] = t.queue[j]
        BY <2>2, <2>4, <2>6, <3>1, <4>1
      <4>3. aToB[a] = b /\ t.queue[k] = a
        BY <1>1, <2>6, <3>1 DEF Agree
      <4> QED BY <2>8, <4>2, <4>3 DEF Behind
    <3>2. CASE k \in 1 .. n
      <4>1. Behind(s, k)
        BY <2>2, <2>13, <3>2 DEF Way
      <4>2. t.queue[k] = s.queue[k] /\ s.queue[k] \in Assign!As
            /\ t.parentA[s.queue[k]] = s.parentA[s.queue[k]]
        <5>1. s.queue[k] \in Assign!As /\ s.queue[k] # a
          BY <2>2, <2>6, <3>2
        <5> QED BY <2>6, <2>8, <3>2, <5>1
      <4>3. \A j \in 1 .. k - 1 : t.queue[j] = s.queue[j]
        BY <2>2, <2>6, <3>2
      <4> QED BY <2>4, <4>1, <4>2, <4>3 DEF Behind
    <3> QED BY <2>6, <3>1, <3>2
  <2>14. Way(t, start)
    BY <2>5, <2>10, <2>11, <2>12, <2>13 DEF Way
  <2> QED BY <2>1, <2>4, <2>9, <2>14
<1> QED BY <1>2, <1>3

LEMMA DisplaceIs ==
  ASSUME Assign!CombineAssumption, JobTyped, NEW s \in Searches, NEW b \in Assign!Bs
  PROVE  \E p \in [0 .. Len(bToA[b]) -> Searches] :
           /\ Assign!Displace(s, b) = p[Len(bToA[b])]
           /\ \A k \in 0 .. Len(bToA[b]) :
                p[k] = IF k = 0 THEN s ELSE Assign!Push(p[k - 1], b, bToA[b][k])
<1>1. PICK N \in Nat, list \in Seq(Assign!As) : N = Len(bToA[b]) /\ list = bToA[b]
  BY DEF JobTyped
<1> DEFINE IsPushed(w) ==
             w = [k \in 0 .. Len(bToA[b]) |-> IF k = 0 THEN s ELSE Assign!Push(w[k - 1], b, bToA[b][k])]
           pushed == CHOOSE w : IsPushed(w)
<1>2. \A x \in Searches, k \in 1 .. N : Assign!Push(x, b, list[k]) \in Searches
  <2>1. \A k \in 1 .. N : list[k] \in Assign!As
    BY <1>1
  <2>2. ASSUME NEW x \in Searches, NEW a \in Assign!As PROVE Assign!Push(x, b, a) \in Searches
    BY <2>2, PushTyped
  <2> QED BY <2>1, <2>2
<1>3. PICK v \in [0 .. N -> Searches] :
        \A k \in 0 .. N : v[k] = IF k = 0 THEN s ELSE Assign!Push(v[k - 1], b, list[k])
  <2> DEFINE step == [k \in 1 .. N |-> [x \in Searches |-> Assign!Push(x, b, list[k])]]
  <2>1. step \in Steps(Searches, N)
        /\ \A k \in 1 .. N : \A x \in Searches : step[k][x] = Assign!Push(x, b, list[k])
    BY <1>2 DEF Steps
  <2>2. PICK q \in Steps(Searches, N) : q = step
    BY <2>1
  <2> HIDE DEF step
  <2>3. PICK v : IsRun(v, Searches, N, s, q)
    BY Repeated
  <2>4. v \in [0 .. N -> Searches]
    BY <2>3 DEF IsRun
  <2>5. ASSUME NEW k \in 0 .. N, k # 0 PROVE v[k] = Assign!Push(v[k - 1], b, list[k])
    <3>1. k \in 1 .. N /\ k - 1 \in 0 .. N
      BY <2>5
    <3> QED BY <2>1, <2>2, <2>3, <2>4, <2>5, <3>1 DEF IsRun
  <2>6. v[0] = s
    BY <2>3 DEF IsRun
  <2> QED BY <2>4, <2>5, <2>6
<1>4. IsPushed(v)
  <2>1. v = [k \in 0 .. N |-> v[k]]
    OBVIOUS
  <2> QED BY <1>1, <1>3, <2>1
<1>5. IsPushed(pushed)
  <2> HIDE DEF IsPushed
  <2> QED BY <1>4
<1>6. Assign!Displace(s, b) = pushed[N]
  BY <1>1 DEF Assign!Displace
<1> HIDE DEF pushed
<1>7. \A k \in 0 .. N : pushed[k] = IF k = 0 THEN s ELSE Assign!Push(pushed[k - 1], b, list[k])
  BY <1>1, <1>5
<1> DEFINE T == { k \in 0 .. N : pushed[k] \in Searches }
<1>8. T = 0 .. N
  <2>1. T \in SUBSET (0 .. N) /\ 0 \in T
    BY <1>7
  <2>2. ASSUME NEW k \in 1 .. N, k - 1 \in T PROVE k \in T
    <3>1. k \in 0 .. N /\ k # 0 /\ pushed[k] = Assign!Push(pushed[k - 1], b, list[k])
      BY <1>7
    <3> QED BY <1>2, <2>2, <3>1
  <2> HIDE DEF T
  <2> QED BY <2>1, <2>2, UpTo
<1>9. pushed = [k \in 0 .. N |-> pushed[k]] /\ \A k \in 0 .. N : pushed[k] \in Searches
  BY <1>1, <1>5, <1>8
<1>10. pushed \in [0 .. N -> Searches]
  BY <1>9
<1> QED BY <1>1, <1>6, <1>7, <1>10

LEMMA DisplaceKeeps ==
  ASSUME Assign!CombineAssumption, JobTyped, Agree(aToB, bToA),
         NEW start \in Assign!As, NEW s, Way(s, start), aToB[start] = 0,
         NEW b \in Assign!Bs, s.parentB[b] # 0, FullAt(b)
  PROVE  /\ Way(Assign!Displace(s, b), start) /\ Extends(s, Assign!Displace(s, b))
         /\ Assign!Displace(s, b).parentB = s.parentB /\ Assign!Displace(s, b).end = s.end
         /\ Assign!Elements(bToA[b]) \subseteq Assign!Elements(Assign!Displace(s, b).queue)
<1>1. PICK N \in Nat, list \in Seq(Assign!As) : N = Len(list) /\ list = bToA[b]
  BY DEF JobTyped
<1>2. s \in Searches
  BY DEF Way
<1>3. PICK p \in [0 .. N -> Searches] :
        /\ Assign!Displace(s, b) = p[N]
        /\ \A k \in 0 .. N : p[k] = IF k = 0 THEN s ELSE Assign!Push(p[k - 1], b, list[k])
  <2>1. \E p \in [0 .. Len(bToA[b]) -> Searches] :
           /\ Assign!Displace(s, b) = p[Len(bToA[b])]
           /\ \A k \in 0 .. Len(bToA[b]) :
                p[k] = IF k = 0 THEN s ELSE Assign!Push(p[k - 1], b, bToA[b][k])
    BY <1>2, DisplaceIs
  <2>2. Len(bToA[b]) = N /\ bToA[b] = list
    BY <1>1
  <2> QED BY <2>1, <2>2
<1> DEFINE Kept(k) ==
             /\ Way(p[k], start) /\ Extends(s, p[k]) /\ p[k].parentB = s.parentB /\ p[k].end = s.end
             /\ \A j \in 1 .. k : list[j] \in Assign!Elements(p[k].queue)
           T == { k \in 0 .. N : Kept(k) }
<1>4. Kept(0)
  <2>1. 0 \in 0 .. N
    OBVIOUS
  <2>2. p[0] = s
    BY <1>3, <2>1
  <2>3. Extends(s, s)
    BY <1>2, ExtendsOn
  <2> QED BY <2>2, <2>3
<1>5. ASSUME NEW k \in 1 .. N, Kept(k - 1) PROVE Kept(k)
  <2>1. k \in 0 .. N /\ k - 1 \in 0 .. N /\ k # 0
    OBVIOUS
  <2>2. PICK x, y : x = p[k - 1] /\ y = p[k] /\ y = Assign!Push(x, b, list[k])
    BY <1>3, <2>1
  <2>3. x \in Searches /\ y \in Searches
    BY <1>3, <2>1, <2>2
  <2>4. list[k] \in Assign!Elements(bToA[b])
    BY <1>1, ElementsOf
  <2>5. Way(x, start) /\ x.parentB[b] # 0 /\ Extends(s, x) /\ x.parentB = s.parentB /\ x.end = s.end
        /\ \A j \in 1 .. k - 1 : list[j] \in Assign!Elements(x.queue)
    BY <1>5, <2>2
  <2>6. /\ Way(y, start) /\ Extends(x, y) /\ y.parentB = x.parentB /\ y.end = x.end
        /\ list[k] \in Assign!Elements(y.queue)
    BY <2>2, <2>4, <2>5, PushKeeps
  <2>7. Extends(s, y) /\ Assign!Elements(x.queue) \subseteq Assign!Elements(y.queue)
    BY <1>2, <2>3, <2>5, <2>6, ExtendsOn
  <2>8. \A j \in 1 .. k : j \in 1 .. k - 1 \/ j = k
    BY <2>1
  <2> QED BY <2>2, <2>5, <2>6, <2>7, <2>8
<1>6. T = 0 .. N
  <2>1. T \in SUBSET (0 .. N) /\ 0 \in T
    BY <1>4
  <2>2. ASSUME NEW k \in 1 .. N, k - 1 \in T PROVE k \in T
    <3>1. k \in 0 .. N
      OBVIOUS
    <3> QED BY <1>5, <2>2, <3>1
  <2> HIDE DEF T
  <2> QED BY <2>1, <2>2, UpTo
<1>7. Kept(N)
  <2>1. N \in T
    BY <1>6
  <2> QED BY <2>1
<1>8. \A a \in Assign!Elements(list) : \E j \in 1 .. N : a = list[j]
  BY <1>1, ElementsOf
<1> QED BY <1>1, <1>3, <1>7, <1>8

-----------------------------------------------------------------------------
(* A b is visited.                                                         *)

LEMMA SearchFields ==
  ASSUME Assign!CombineAssumption, JobTyped, NEW s \in Searches
  PROVE  /\ s.queue \in Seq(Assign!As) /\ s.end \in Assign!Bs \cup {0}
            /\ s.parentB \in [Assign!Bs -> Assign!As \cup {0}]
         /\ s.parentA \in [Assign!As -> Assign!Bs \cup {0}]
         /\ DOMAIN s.queue = 1 .. Len(s.queue) /\ Len(s.queue) \in Nat
         /\ Assign!Elements(s.queue) \subseteq Assign!As
            /\ \A k \in 1 .. Len(s.queue) : s.queue[k] \in Assign!As
<1>1. s.queue \in Seq(Assign!As) /\ s.end \in Assign!Bs \cup {0}
      /\ s.parentB \in [Assign!Bs -> Assign!As \cup {0}]
      /\ s.parentA \in [Assign!As -> Assign!Bs \cup {0}]
  BY DEF Searches
<1> QED BY <1>1, ElementsOf

Reach(s, a, b) == [s EXCEPT !.parentB = [@ EXCEPT ![b] = a]]

\* A b is reached from an a that was visited.
LEMMA ReachedIs ==
  ASSUME Assign!CombineAssumption, JobTyped, NEW start \in Assign!As, NEW s, Way(s, start),
         NEW a \in Assign!Elements(s.queue), NEW b \in Assign!Elements(job.options[a]), s.parentB[b] = 0,
         NEW t, t = Reach(s, a, b)
  PROVE  /\ Way(t, start) /\ Extends(s, t) /\ t.parentB[b] = a
         /\ t.queue = s.queue /\ t.end = s.end /\ t.parentA = s.parentA
         /\ \A c \in Assign!Bs : c # b => t.parentB[c] = s.parentB[c]
<1>1. s \in Searches /\ a \in Assign!As /\ b \in Assign!Bs /\ 0 \notin Assign!As
  <2>1. s \in Searches /\ a \in Assign!As
    BY SearchFields DEF Way
  <2>2. job.options[a] \in Seq(Assign!Bs)
    BY <2>1, JobSizes
  <2> QED BY <2>1, <2>2, ElementsOf, JobSizes
<1>2. /\ s.queue \in Seq(Assign!As) /\ s.end \in Assign!Bs \cup {0}
         /\ s.parentB \in [Assign!Bs -> Assign!As \cup {0}]
      /\ s.parentA \in [Assign!As -> Assign!Bs \cup {0}]
  BY <1>1 DEF Searches
<1>3. t.queue = s.queue /\ t.end = s.end /\ t.parentA = s.parentA
      /\ t.parentB = [s.parentB EXCEPT ![b] = a]
  BY <1>1 DEF Searches, Reach
<1>4. t.parentB[b] = a /\ (\A c \in Assign!Bs : c # b => t.parentB[c] = s.parentB[c])
      /\ t.parentB \in [Assign!Bs -> Assign!As \cup {0}]
  BY <1>1, <1>2, <1>3
<1>5. t \in Searches
  <2> DEFINE parentB == [s.parentB EXCEPT ![b] = a]
  <2>1. parentB \in [Assign!Bs -> Assign!As \cup {0}] /\ t = [s EXCEPT !.parentB = parentB]
    BY <1>1, <1>2 DEF Reach
  <2> HIDE DEF parentB
  <2> QED BY <1>1, <2>1 DEF Searches
<1>6. Extends(s, t)
  <2>1. DOMAIN s.queue = 1 .. Len(s.queue) /\ Len(s.queue) \in Nat
    BY <1>2
  <2>2. \A c \in Assign!Bs : s.parentB[c] # 0 => t.parentB[c] # 0
    BY <1>1, <1>4
  <2> QED BY <1>3, <2>1, <2>2 DEF Extends
<1>7. ASSUME NEW k \in DOMAIN t.queue, k # 1 PROVE Behind(t, k)
  <2>1. Behind(s, k)
    BY <1>3, <1>7 DEF Way
  <2>2. PICK c, j : j \in 1 .. k - 1 /\ c = s.parentA[s.queue[k]] /\ c \in Assign!Bs
                    /\ aToB[s.queue[k]] = c /\ s.parentB[c] = s.queue[j] /\ FullAt(c)
    BY <2>1 DEF Behind
  <2>3. c # b
    <3>1. k \in 1 .. Len(s.queue) /\ Len(s.queue) \in Nat
      BY <1>2, <1>3, <1>7
    <3>2. j \in 1 .. Len(s.queue)
      BY <2>2, <3>1
    <3>3. s.queue[j] \in Assign!As
      BY <1>2, <3>2
    <3> QED BY <1>1, <2>2, <3>3
  <2>4. t.parentB[c] = t.queue[j]
    BY <1>3, <1>4, <2>2, <2>3
  <2> QED BY <1>3, <2>2, <2>4 DEF Behind
<1>8. ASSUME NEW c \in Assign!Bs, t.parentB[c] # 0
      PROVE  t.parentB[c] \in Assign!Elements(t.queue)
             /\ c \in Assign!Elements(job.options[t.parentB[c]])
  <2>1. CASE c = b
    BY <1>3, <1>4, <2>1
  <2>2. CASE c # b
    BY <1>3, <1>4, <1>8, <2>2 DEF Way
  <2> QED BY <2>1, <2>2
<1>9. Way(t, start)
  BY <1>3, <1>5, <1>7, <1>8 DEF Way
<1> QED BY <1>3, <1>4, <1>6, <1>9

LEMMA VisitKeeps ==
  ASSUME Assign!CombineAssumption, JobTyped, Agree(aToB, bToA),
         NEW start \in Assign!As, NEW s, Sound(s, start), aToB[start] = 0,
         NEW a \in Assign!Elements(s.queue), NEW b \in Assign!Elements(job.options[a])
  PROVE  /\ Sound(Assign!Visit(s, a, b), start) /\ Extends(s, Assign!Visit(s, a, b))
         /\ Assign!Visit(s, a, b).end = 0 => Assign!Visit(s, a, b).parentB[b] # 0
         /\ s.end # 0 => Assign!Visit(s, a, b) = s
<1> DEFINE t == Assign!Visit(s, a, b)
<1>1. s \in Searches /\ a \in Assign!As /\ b \in Assign!Bs /\ 0 \notin Assign!As /\ 0 \notin Assign!Bs
  <2>1. s \in Searches /\ a \in Assign!As
    BY SearchFields DEF Sound, Way
  <2>2. job.options[a] \in Seq(Assign!Bs)
    BY <2>1, JobSizes
  <2> QED BY <2>1, <2>2, ElementsOf, JobSizes
<1>2. Way(s, start) /\ RoomAtEnd(s) /\ (s.end = 0 => ReachedClosed(s))
  BY DEF Sound
<1>3. CASE s.end # 0 \/ s.parentB[b] # 0
  <2>1. t = s
    BY <1>3 DEF Assign!Visit, Assign!Nothing
  <2> HIDE DEF t
  <2> QED BY <1>1, <1>3, <2>1, ExtendsOn DEF t
<1>4. CASE s.end = 0 /\ s.parentB[b] = 0
  <2>1. PICK r : r = Reach(s, a, b)
    OBVIOUS
  <2>2. /\ Way(r, start) /\ Extends(s, r) /\ r.parentB[b] = a
        /\ r.queue = s.queue /\ r.end = s.end /\ r.parentA = s.parentA
        /\ \A c \in Assign!Bs : c # b => r.parentB[c] = s.parentB[c]
    BY <1>2, <1>4, <2>1, ReachedIs
  <2>3. r \in Searches /\ Assign!CurrentMax(b) \in Nat /\ Len(bToA[b]) \in Nat
    BY <1>1, <2>2, JobSizes DEF Way
  <2>4. CASE Len(bToA[b]) < Assign!CurrentMax(b)
    <3>1. t = [r EXCEPT !.end = b]
      BY <1>4, <2>1, <2>4 DEF Assign!Visit, Assign!Nothing, Reach
    <3> HIDE DEF t
    <3>2. t.end = b /\ t.queue = r.queue /\ t.parentA = r.parentA /\ t.parentB = r.parentB
          /\ t \in Searches
      BY <1>1, <2>3, <3>1 DEF Searches
    <3>3. ~FullAt(b)
      BY <2>3, <2>4 DEF FullAt
    <3>4. Way(t, start) /\ Extends(r, t)
      <4>1. Way(t, start)
        BY <2>2, <3>2 DEF Way, Behind
      <4>2. Extends(r, r)
        BY <2>3, ExtendsOn
      <4> QED BY <3>2, <4>1, <4>2 DEF Extends
    <3>5. Extends(s, t)
      BY <1>1, <2>2, <2>3, <3>2, <3>4, ExtendsOn
    <3>6. RoomAtEnd(t) /\ t.end # 0
      BY <1>1, <2>2, <3>2, <3>3 DEF RoomAtEnd
    <3> QED BY <1>4, <3>4, <3>5, <3>6 DEF Sound, t
  <2>5. CASE ~(Len(bToA[b]) < Assign!CurrentMax(b))
    <3>1. t = Assign!Displace(r, b)
      BY <1>4, <2>1, <2>5 DEF Assign!Visit, Assign!Nothing, Reach
    <3>2. FullAt(b) /\ r.parentB[b] # 0
      BY <1>1, <2>2, <2>3, <2>5 DEF FullAt
    <3>3. /\ Way(t, start) /\ Extends(r, t) /\ t.parentB = r.parentB /\ t.end = r.end
          /\ Assign!Elements(bToA[b]) \subseteq Assign!Elements(t.queue)
      <4>1. PICK u : u = Assign!Displace(r, b)
        OBVIOUS
      <4>2. /\ Way(u, start) /\ Extends(r, u) /\ u.parentB = r.parentB /\ u.end = r.end
            /\ Assign!Elements(bToA[b]) \subseteq Assign!Elements(u.queue)
        <5>1. Way(r, start)
          BY <2>2
        <5> QED BY <1>1, <3>2, <4>1, <5>1, DisplaceKeeps
      <4> HIDE DEF t
      <4> QED BY <3>1, <4>1, <4>2
    <3> HIDE DEF t
    <3>4. t \in Searches /\ t.end = 0
      BY <1>4, <2>2, <3>3 DEF Way
    <3>5. Extends(s, t)
      BY <1>1, <2>2, <2>3, <3>3, <3>4, ExtendsOn
    <3>6. Assign!Elements(s.queue) \subseteq Assign!Elements(t.queue)
      BY <1>1, <3>4, <3>5, ExtendsOn
    <3>7. ReachedClosed(t)
      <4> SUFFICES ASSUME NEW c \in Assign!Bs, t.parentB[c] # 0
                   PROVE  FullAt(c) /\ Assign!Elements(bToA[c]) \subseteq Assign!Elements(t.queue)
        BY DEF ReachedClosed
      <4>1. CASE c = b
        BY <3>2, <3>3, <4>1
      <4>2. CASE c # b
        BY <1>2, <1>4, <2>2, <3>3, <3>6, <4>2 DEF ReachedClosed
      <4> QED BY <4>1, <4>2
    <3>8. RoomAtEnd(t)
      BY <3>4 DEF RoomAtEnd
    <3> QED BY <1>1, <1>4, <2>2, <3>3, <3>4, <3>5, <3>7, <3>8 DEF Sound, t
  <2> QED BY <2>4, <2>5
<1> QED BY <1>3, <1>4

-----------------------------------------------------------------------------
(* The options of an a are visited.                                        *)

Searching(start, a) == { x \in Searches : Sound(x, start) /\ a \in Assign!Elements(x.queue) }

LEMMA VisitStays ==
  ASSUME Assign!CombineAssumption, JobTyped, Agree(aToB, bToA),
         NEW start \in Assign!As, aToB[start] = 0, NEW a \in Assign!As,
         NEW x \in Searching(start, a), NEW b \in Assign!Elements(job.options[a])
  PROVE  /\ Assign!Visit(x, a, b) \in Searching(start, a) /\ Extends(x, Assign!Visit(x, a, b))
         /\ Assign!Visit(x, a, b).end = 0 => x.end = 0 /\ Assign!Visit(x, a, b).parentB[b] # 0
<1>1. x \in Searches /\ Sound(x, start) /\ a \in Assign!Elements(x.queue)
  BY DEF Searching
<1>2. PICK y : y = Assign!Visit(x, a, b)
  OBVIOUS
<1>3. Sound(y, start) /\ Extends(x, y) /\ (y.end = 0 => y.parentB[b] # 0) /\ (x.end # 0 => y = x)
  BY <1>1, <1>2, VisitKeeps
<1>4. y \in Searches
  BY <1>3 DEF Sound, Way
<1>5. a \in Assign!Elements(y.queue)
  BY <1>1, <1>3, <1>4, ExtendsOn
<1> QED BY <1>2, <1>3, <1>4, <1>5 DEF Searching

LEMMA VisitOptionsIs ==
  ASSUME Assign!CombineAssumption, JobTyped, Agree(aToB, bToA),
         NEW start \in Assign!As, aToB[start] = 0, NEW a \in Assign!As, NEW s \in Searching(start, a)
  PROVE  \E p \in [0 .. Len(job.options[a]) -> Searching(start, a)] :
           /\ Assign!VisitOptions(s, a) = p[Len(job.options[a])]
           /\ \A k \in 0 .. Len(job.options[a]) :
                p[k] = IF k = 0 THEN s ELSE Assign!Visit(p[k - 1], a, job.options[a][k])
<1>1. PICK N \in Nat, list \in Seq(Assign!Bs) :
        /\ N = Len(job.options[a]) /\ list = job.options[a] /\ N = Len(list)
        /\ \A k \in 1 .. N : list[k] \in Assign!Elements(job.options[a])
  <2>1. job.options[a] \in Seq(Assign!Bs)
    BY JobSizes
  <2> QED BY <2>1, ElementsOf
<1> DEFINE S == Searching(start, a)
           IsVisited(w) ==
             w = [k \in 0 .. Len(job.options[a]) |->
                    IF k = 0 THEN s ELSE Assign!Visit(w[k - 1], a, job.options[a][k])]
           visited == CHOOSE w : IsVisited(w)
<1>2. \A x \in S, k \in 1 .. N : Assign!Visit(x, a, list[k]) \in S
  BY <1>1, VisitStays
<1>3. s \in S
  OBVIOUS
<1> HIDE DEF S
<1>4. PICK v \in [0 .. N -> S] :
        \A k \in 0 .. N : v[k] = IF k = 0 THEN s ELSE Assign!Visit(v[k - 1], a, list[k])
  <2> DEFINE step == [k \in 1 .. N |-> [x \in S |-> Assign!Visit(x, a, list[k])]]
  <2>1. step \in Steps(S, N)
        /\ \A k \in 1 .. N : \A x \in S : step[k][x] = Assign!Visit(x, a, list[k])
    BY <1>2 DEF Steps
  <2>2. PICK q \in Steps(S, N) : q = step
    BY <2>1
  <2> HIDE DEF step
  <2>3. PICK v : IsRun(v, S, N, s, q)
    BY <1>3, Repeated
  <2>4. v \in [0 .. N -> S]
    BY <2>3 DEF IsRun
  <2>5. ASSUME NEW k \in 0 .. N, k # 0 PROVE v[k] = Assign!Visit(v[k - 1], a, list[k])
    <3>1. k \in 1 .. N /\ k - 1 \in 0 .. N
      BY <2>5
    <3> QED BY <2>1, <2>2, <2>3, <2>4, <2>5, <3>1 DEF IsRun
  <2>6. v[0] = s
    BY <2>3 DEF IsRun
  <2> QED BY <2>4, <2>5, <2>6
<1>5. IsVisited(v)
  <2>1. v = [k \in 0 .. N |-> v[k]]
    OBVIOUS
  <2> QED BY <1>1, <1>4, <2>1
<1>6. IsVisited(visited)
  <2> HIDE DEF IsVisited
  <2> QED BY <1>5
<1>7. Assign!VisitOptions(s, a) = visited[N]
  BY <1>1 DEF Assign!VisitOptions
<1> HIDE DEF visited
<1>8. \A k \in 0 .. N : visited[k] = IF k = 0 THEN s ELSE Assign!Visit(visited[k - 1], a, list[k])
  BY <1>1, <1>6
<1> DEFINE T == { k \in 0 .. N : visited[k] \in S }
<1>9. T = 0 .. N
  <2>1. T \in SUBSET (0 .. N) /\ 0 \in T
    BY <1>3, <1>8
  <2>2. ASSUME NEW k \in 1 .. N, k - 1 \in T PROVE k \in T
    <3>1. k \in 0 .. N /\ k # 0 /\ visited[k] = Assign!Visit(visited[k - 1], a, list[k])
      BY <1>8
    <3> QED BY <1>2, <2>2, <3>1
  <2> HIDE DEF T
  <2> QED BY <2>1, <2>2, UpTo
<1>10. visited = [k \in 0 .. N |-> visited[k]] /\ \A k \in 0 .. N : visited[k] \in S
  BY <1>1, <1>6, <1>9
<1>11. visited \in [0 .. N -> S]
  BY <1>10
<1> QED BY <1>1, <1>7, <1>8, <1>11 DEF S

LEMMA VisitOptionsKeeps ==
  ASSUME Assign!CombineAssumption, JobTyped, Agree(aToB, bToA),
         NEW start \in Assign!As, aToB[start] = 0, NEW a \in Assign!As, NEW s \in Searching(start, a)
  PROVE  /\ Assign!VisitOptions(s, a) \in Searching(start, a) /\ Extends(s, Assign!VisitOptions(s, a))
         /\ Assign!VisitOptions(s, a).end = 0 =>
              \A b \in Assign!Elements(job.options[a]) : Assign!VisitOptions(s, a).parentB[b] # 0
<1>1. PICK N \in Nat, list \in Seq(Assign!Bs) :
        /\ N = Len(job.options[a]) /\ list = job.options[a] /\ N = Len(list)
        /\ \A k \in 1 .. N : list[k] \in Assign!Elements(job.options[a]) /\ list[k] \in Assign!Bs
        /\ Assign!Elements(job.options[a]) = { list[k] : k \in 1 .. N }
  <2>1. job.options[a] \in Seq(Assign!Bs)
    BY JobSizes
  <2> QED BY <2>1, ElementsOf
<1>2. PICK p \in [0 .. N -> Searching(start, a)] :
        /\ Assign!VisitOptions(s, a) = p[N]
        /\ \A k \in 0 .. N : p[k] = IF k = 0 THEN s ELSE Assign!Visit(p[k - 1], a, list[k])
  BY <1>1, VisitOptionsIs
<1> DEFINE Kept(k) ==
             /\ Extends(s, p[k])
             /\ p[k].end = 0 => \A j \in 1 .. k : p[k].parentB[list[j]] # 0
           T == { k \in 0 .. N : Kept(k) }
<1>3. s \in Searches /\ \A x \in Searching(start, a) : x \in Searches
  BY DEF Searching
<1>4. Kept(0)
  <2>1. p[0] = s
    BY <1>2
  <2>2. Extends(s, s)
    BY <1>3, ExtendsOn
  <2> QED BY <2>1, <2>2
<1>5. ASSUME NEW k \in 1 .. N, Kept(k - 1) PROVE Kept(k)
  <2>1. k \in 0 .. N /\ k - 1 \in 0 .. N /\ k # 0
    OBVIOUS
  <2>2. PICK x, y : x = p[k - 1] /\ y = p[k] /\ y = Assign!Visit(x, a, list[k])
    BY <1>2, <2>1
  <2>3. x \in Searching(start, a) /\ x \in Searches /\ y \in Searches
        /\ list[k] \in Assign!Elements(job.options[a])
    BY <1>1, <1>2, <1>3, <2>1, <2>2
  <2>4. Extends(s, x) /\ (x.end = 0 => \A j \in 1 .. k - 1 : x.parentB[list[j]] # 0)
    BY <1>5, <2>2
  <2>5. Extends(x, y) /\ (y.end = 0 => x.end = 0 /\ y.parentB[list[k]] # 0)
    BY <2>2, <2>3, VisitStays
  <2>6. Extends(s, y)
    BY <1>3, <2>3, <2>4, <2>5, ExtendsOn
  <2>7. ASSUME y.end = 0, NEW j \in 1 .. k PROVE y.parentB[list[j]] # 0
    <3>1. CASE j = k
      BY <2>5, <2>7, <3>1
    <3>2. CASE j # k
      <4>1. j \in 1 .. k - 1 /\ list[j] \in Assign!Bs
        BY <1>1, <2>1, <3>2
      <4>2. x.parentB[list[j]] # 0
        BY <2>4, <2>5, <2>7, <4>1
      <4> QED BY <2>5, <4>1, <4>2 DEF Extends
    <3> QED BY <3>1, <3>2
  <2> QED BY <2>2, <2>6, <2>7
<1>6. T = 0 .. N
  <2>1. T \in SUBSET (0 .. N) /\ 0 \in T
    BY <1>4
  <2>2. ASSUME NEW k \in 1 .. N, k - 1 \in T PROVE k \in T
    <3>1. k \in 0 .. N
      OBVIOUS
    <3> QED BY <1>5, <2>2, <3>1
  <2> HIDE DEF T
  <2> QED BY <2>1, <2>2, UpTo
<1>7. Kept(N) /\ p[N] \in Searching(start, a)
  <2>1. N \in T
    BY <1>6
  <2> QED BY <1>2, <2>1
<1> QED BY <1>1, <1>2, <1>7

-----------------------------------------------------------------------------
(* The a's of the queue have their turn.                                   *)

LEMMA Injected ==
  ASSUME NEW S, NEW T, IsFiniteSet(T), NEW f \in [S -> T], \A x, y \in S : f[x] = f[y] => x = y
  PROVE  /\ IsFiniteSet(S) /\ Cardinality(S) <= Cardinality(T)
         /\ (\A y \in T : \E x \in S : f[x] = y) => Cardinality(S) = Cardinality(T)
<1>1. f \in Injection(S, T)
  BY DEF Injection, IsInjective
<1>2. (\A y \in T : \E x \in S : f[x] = y) => f \in Surjection(S, T)
  BY DEF Surjection
<1> QED BY <1>1, <1>2, FS_Injection

LEMMA QueueFits ==
  ASSUME Assign!CombineAssumption, JobTyped, NEW start \in Assign!As, NEW s, Way(s, start)
  PROVE  Len(s.queue) <= Len(job.options)
<1>1. s \in Searches /\ Assign!As = 1 .. Len(job.options) /\ Len(job.options) \in Nat
  BY JobSizes DEF Way
<1>2. PICK n \in Nat : n = Len(s.queue) /\ s.queue \in [1 .. n -> Assign!As]
  <2>1. s.queue \in Seq(Assign!As)
    BY <1>1, SearchFields
  <2> QED BY <2>1
<1>3. \A j, k \in 1 .. n : s.queue[j] = s.queue[k] => j = k
  BY <1>2 DEF Way
<1>4. IsFiniteSet(Assign!As) /\ Cardinality(Assign!As) = Len(job.options)
  <2>1. 1 \in Int /\ Len(job.options) \in Int /\ ~(1 > Len(job.options))
    BY <1>1, JobSizes
  <2> QED BY <1>1, <2>1, FS_Interval
<1>5. Cardinality(1 .. n) <= Cardinality(Assign!As)
  BY <1>2, <1>3, <1>4, Injected
<1>6. Cardinality(1 .. n) = n
  BY FS_Interval
<1> QED BY <1>2, <1>4, <1>5, <1>6

NewSearch(start) ==
  [queue |-> <<start>>, end |-> 0, parentB |-> [b \in Assign!Bs |-> 0], parentA |-> [a \in Assign!As |-> 0]]

Advance(x, n) ==
  IF n > Len(x.queue) \/ x.end # 0 THEN x ELSE Assign!VisitOptions(x, x.queue[n])

Found(start) == { x \in Searches : Sound(x, start) }

\* The options of the first a's of the queue were reached.
Visited(x, n) ==
  x.end = 0 => \A k \in 1 .. n : k <= Len(x.queue) =>
                 \A b \in Assign!Elements(job.options[x.queue[k]]) : x.parentB[b] # 0

LEMMA StartFound ==
  ASSUME Assign!CombineAssumption, JobTyped, NEW start \in Assign!As
  PROVE  NewSearch(start) \in Found(start) /\ Visited(NewSearch(start), 0)
<1> DEFINE queue == <<start>>
           parentB == [b \in Assign!Bs |-> 0]
           parentA == [a \in Assign!As |-> 0]
<1>1. PICK s : s = NewSearch(start)
  OBVIOUS
<1>2. /\ queue \in Seq(Assign!As) /\ Len(queue) = 1 /\ queue[1] = start
      /\ parentB \in [Assign!Bs -> Assign!As \cup {0}]
         /\ parentA \in [Assign!As -> Assign!Bs \cup {0}]
      /\ queue # <<>> /\ DOMAIN queue = {1} /\ parentA[start] = 0
         /\ \A b \in Assign!Bs : parentB[b] = 0
  OBVIOUS
<1> HIDE DEF queue, parentB, parentA
<1>3. s = [queue |-> queue, end |-> 0, parentB |-> parentB, parentA |-> parentA]
  BY <1>1 DEF NewSearch, queue, parentB, parentA
<1>4. s \in Searches
  BY <1>2, <1>3 DEF Searches
<1>5. s.queue = queue /\ s.end = 0 /\ s.parentB = parentB /\ s.parentA = parentA
  BY <1>3
<1>6. Way(s, start)
  <2>1. s.queue # <<>>
    BY <1>2, <1>5
  <2> QED BY <1>2, <1>4, <1>5, <2>1 DEF Way
<1>7. RoomAtEnd(s) /\ ReachedClosed(s) /\ Visited(s, 0)
  BY <1>2, <1>5 DEF RoomAtEnd, ReachedClosed, Visited
<1> QED BY <1>1, <1>4, <1>6, <1>7 DEF Found, Sound

LEMMA AdvanceKeeps ==
  ASSUME Assign!CombineAssumption, JobTyped, Agree(aToB, bToA), NEW start \in Assign!As, aToB[start] = 0,
         NEW x \in Found(start), NEW n \in Nat \ {0}
  PROVE  /\ Advance(x, n) \in Found(start)
         /\ Visited(x, n - 1) => Visited(Advance(x, n), n)
<1>1. x \in Searches /\ Sound(x, start)
  BY DEF Found
<1>2. PICK m \in Nat : /\ m = Len(x.queue) /\ DOMAIN x.queue = 1 .. m
                       /\ \A k \in 1 .. m : x.queue[k] \in Assign!As
  BY <1>1, SearchFields
<1>3. CASE n > Len(x.queue) \/ x.end # 0
  <2>1. Advance(x, n) = x
    BY <1>3 DEF Advance
  <2>2. ASSUME Visited(x, n - 1) PROVE Visited(x, n)
    <3>1. x.end = 0 => \A k \in 1 .. n : k <= m => k \in 1 .. n - 1
      BY <1>2, <1>3
    <3> QED BY <1>2, <2>2, <3>1 DEF Visited
  <2> QED BY <2>1, <2>2
<1>4. CASE ~(n > Len(x.queue) \/ x.end # 0)
  <2>1. n \in 1 .. m /\ x.end = 0
    BY <1>2, <1>4
  <2>2. PICK a \in Assign!As : a = x.queue[n]
    BY <1>2, <2>1
  <2>3. a \in Assign!Elements(x.queue)
    BY <1>2, <2>1, <2>2 DEF Assign!Elements
  <2>4. x \in Searching(start, a)
    BY <1>1, <2>3 DEF Searching
  <2>5. PICK y : y = Assign!VisitOptions(x, a)
    OBVIOUS
  <2>6. y \in Searching(start, a) /\ Extends(x, y)
        /\ (y.end = 0 => \A b \in Assign!Elements(job.options[a]) : y.parentB[b] # 0)
    BY <2>4, <2>5, VisitOptionsKeeps
  <2>7. Advance(x, n) = y
    BY <1>4, <2>2, <2>5 DEF Advance
  <2>8. ASSUME Visited(x, n - 1) PROVE Visited(y, n)
    <3> SUFFICES ASSUME y.end = 0, NEW k \in 1 .. n, k <= Len(y.queue),
                        NEW b \in Assign!Elements(job.options[y.queue[k]])
                 PROVE  y.parentB[b] # 0
      BY DEF Visited
    <3>1. k \in 1 .. m /\ y.queue[k] = x.queue[k]
      BY <1>2, <2>1, <2>6 DEF Extends
    <3>2. CASE k = n
      BY <2>2, <2>6, <3>1, <3>2
    <3>3. CASE k # n
      <4>1. k \in 1 .. n - 1 /\ k <= Len(x.queue)
        BY <1>2, <3>1, <3>3
      <4>2. x.parentB[b] # 0
        BY <2>1, <2>8, <3>1, <4>1 DEF Visited
      <4>3. b \in Assign!Bs
        <5>1. job.options[x.queue[k]] \in Seq(Assign!Bs)
          BY <1>2, <3>1, JobSizes
        <5> QED BY <3>1, <5>1, ElementsOf
      <4> QED BY <2>6, <4>2, <4>3 DEF Extends
    <3> QED BY <3>2, <3>3
  <2> QED BY <2>6, <2>7, <2>8 DEF Searching, Found
<1> QED BY <1>3, <1>4

\* A search ends at a b with room, or has reached all the options of all it visited.
LEMMA FindKeeps ==
  ASSUME Assign!CombineAssumption, JobTyped, Agree(aToB, bToA), NEW start \in Assign!As, aToB[start] = 0
  PROVE  /\ Sound(Assign!FindAugmentingPath(start), start)
         /\ Assign!FindAugmentingPath(start).end = 0 =>
              \A a \in Assign!Elements(Assign!FindAugmentingPath(start).queue) :
                \A b \in Assign!Elements(job.options[a]) : Assign!FindAugmentingPath(start).parentB[b] # 0
<1>1. PICK N \in Nat : N = Len(job.options)
  BY JobSizes
<1> DEFINE IsSearched(w) ==
             w = [n \in 0 .. Len(job.options) |->
                    LET last == w[n - 1]
                    IN IF n = 0 THEN [queue |-> <<start>>, end |-> Assign!Nothing,
                                      parentB |-> [b \in Assign!Bs |-> Assign!Nothing],
                                      parentA |-> [a \in Assign!As |-> Assign!Nothing]]
                       ELSE IF n > Len(last.queue) \/ last.end # Assign!Nothing THEN last
                       ELSE Assign!VisitOptions(last, last.queue[n])]
           searched == CHOOSE w : IsSearched(w)
           IsAdvanced(w) == w = [n \in 0 .. N |-> IF n = 0 THEN NewSearch(start) ELSE Advance(w[n - 1], n)]
           S == Found(start)
<1>2. \A w : IsSearched(w) <=> IsAdvanced(w)
  BY <1>1 DEF Assign!Nothing, NewSearch, Advance
<1>3. NewSearch(start) \in S /\ \A x \in S, n \in 1 .. N : Advance(x, n) \in S
  <2>1. \A n \in 1 .. N : n \in Nat \ {0}
    OBVIOUS
  <2> QED BY <2>1, StartFound, AdvanceKeeps
<1> HIDE DEF S
<1>4. PICK v \in [0 .. N -> S] :
        \A n \in 0 .. N : v[n] = IF n = 0 THEN NewSearch(start) ELSE Advance(v[n - 1], n)
  <2> DEFINE step == [n \in 1 .. N |-> [x \in S |-> Advance(x, n)]]
  <2>1. step \in Steps(S, N) /\ \A n \in 1 .. N : \A x \in S : step[n][x] = Advance(x, n)
    BY <1>3 DEF Steps
  <2>2. PICK q \in Steps(S, N) : q = step
    BY <2>1
  <2> HIDE DEF step
  <2>3. PICK v : IsRun(v, S, N, NewSearch(start), q)
    BY <1>3, Repeated
  <2>4. v \in [0 .. N -> S]
    BY <2>3 DEF IsRun
  <2>5. ASSUME NEW n \in 0 .. N, n # 0 PROVE v[n] = Advance(v[n - 1], n)
    <3>1. n \in 1 .. N /\ n - 1 \in 0 .. N
      BY <2>5
    <3> QED BY <2>1, <2>2, <2>3, <2>4, <2>5, <3>1 DEF IsRun
  <2>6. v[0] = NewSearch(start)
    BY <2>3 DEF IsRun
  <2> QED BY <2>4, <2>5, <2>6
<1>5. IsAdvanced(v)
  <2>1. v = [n \in 0 .. N |-> v[n]]
    OBVIOUS
  <2> QED BY <1>4, <2>1
<1>6. IsSearched(searched)
  <2> HIDE DEF IsSearched, IsAdvanced
  <2> QED BY <1>2, <1>5
<1>7. Assign!FindAugmentingPath(start) = searched[N]
  BY <1>1 DEF Assign!FindAugmentingPath
<1> HIDE DEF searched
<1>8. IsAdvanced(searched)
  BY <1>2, <1>6
<1>9. \A n \in 0 .. N : searched[n] = IF n = 0 THEN NewSearch(start) ELSE Advance(searched[n - 1], n)
  BY <1>8
<1> DEFINE Kept(n) == searched[n] \in S /\ Visited(searched[n], n)
           T == { n \in 0 .. N : Kept(n) }
<1>10. T = 0 .. N
  <2>1. T \in SUBSET (0 .. N) /\ 0 \in T
    BY <1>3, <1>9, StartFound
  <2>2. ASSUME NEW n \in 1 .. N, n - 1 \in T PROVE n \in T
    <3>1. PICK x \in Found(start) : x = searched[n - 1] /\ Visited(x, n - 1)
      BY <2>2 DEF S
    <3>2. n \in 0 .. N /\ n # 0 /\ n \in Nat \ {0} /\ searched[n] = Advance(x, n)
      BY <1>9, <3>1
    <3>3. Advance(x, n) \in Found(start) /\ Visited(Advance(x, n), n)
      BY <3>1, <3>2, AdvanceKeeps
    <3> QED BY <3>2, <3>3 DEF S
  <2> HIDE DEF T
  <2> QED BY <2>1, <2>2, UpTo
<1>11. PICK x \in Searches : x = Assign!FindAugmentingPath(start) /\ Sound(x, start) /\ Visited(x, N)
  <2>1. N \in T
    BY <1>10
  <2> QED BY <1>7, <2>1 DEF S, Found
<1>12. Assign!Elements(x.queue) = { x.queue[k] : k \in 1 .. Len(x.queue) } /\ Len(x.queue) \in Nat
  BY <1>11, SearchFields, ElementsOf
<1>13. Len(x.queue) <= N
  BY <1>1, <1>11, QueueFits DEF Sound
<1>14. ASSUME x.end = 0, NEW a \in Assign!Elements(x.queue), NEW b \in Assign!Elements(job.options[a])
       PROVE  x.parentB[b] # 0
  <2>1. PICK k \in 1 .. N : k <= Len(x.queue) /\ a = x.queue[k]
    BY <1>12, <1>13
  <2> QED BY <1>11, <1>14, <2>1 DEF Visited
<1> QED BY <1>11, <1>14

-----------------------------------------------------------------------------
(* A search that fails: the a's that were visited are more than all the    *)
(* b's they may have can hold.                                             *)

LEMMA AsFinite ==
  ASSUME Assign!CombineAssumption, JobTyped
  PROVE  IsFiniteSet(Assign!As)
<1>1. Assign!As = 1 .. Len(job.options) /\ Len(job.options) \in Nat
  BY JobSizes
<1> QED BY <1>1, FS_Interval

LEMMA AsCount ==
  ASSUME Assign!CombineAssumption, JobTyped, NEW A, A \subseteq Assign!As
  PROVE  IsFiniteSet(A) /\ Cardinality(A) \in Nat
BY AsFinite, FS_Subset, FS_CardinalityType

LEMMA ListCount ==
  ASSUME Assign!CombineAssumption, JobTyped, NEW list \in Seq(Assign!As),
         \A j, k \in DOMAIN list : list[j] = list[k] => j = k
  PROVE  Cardinality(Assign!Elements(list)) = Len(list)
<1>1. PICK n \in Nat : n = Len(list) /\ DOMAIN list = 1 .. n
           /\ Assign!Elements(list) \subseteq Assign!As
                       /\ Assign!Elements(list) = { list[k] : k \in 1 .. n }
  BY ElementsOf
<1>2. list \in [1 .. n -> Assign!Elements(list)]
  <2>1. list \in [1 .. n -> Assign!As]
    BY <1>1
  <2>2. \A k \in 1 .. n : list[k] \in Assign!Elements(list)
    BY <1>1
  <2> QED BY <2>1, <2>2
<1>3. \A y \in Assign!Elements(list) : \E k \in 1 .. n : list[k] = y
  BY <1>1
<1>4. IsFiniteSet(Assign!Elements(list))
  BY <1>1, AsCount
<1>5. Cardinality(1 .. n) = Cardinality(Assign!Elements(list))
  <2>1. PICK S, T : S = 1 .. n /\ T = Assign!Elements(list)
    OBVIOUS
  <2>2. list \in [S -> T] /\ IsFiniteSet(T)
    BY <1>2, <1>4, <2>1
  <2>3. \A x, y \in S : list[x] = list[y] => x = y
    BY <1>1, <2>1
  <2>4. \A y \in T : \E x \in S : list[x] = y
    BY <1>3, <2>1
  <2>5. Cardinality(S) = Cardinality(T)
    BY <2>2, <2>3, <2>4, Injected
  <2> QED BY <2>1, <2>5
<1>6. Cardinality(1 .. n) = n
  BY FS_Interval
<1> QED BY <1>1, <1>5, <1>6

Taking(A, f, R) == { a \in A : f[a] \in R }

\* A function that takes each value of R at least as often as another takes a
\* value of R at least as often.
LEMMA AsOften ==
  ASSUME NEW A, IsFiniteSet(A), NEW N \in Nat, NEW R \in SUBSET (1 .. N), NEW f, NEW g,
         \A r \in R : Cardinality(Taking(A, f, {r})) <= Cardinality(Taking(A, g, {r}))
  PROVE  Cardinality(Taking(A, f, R)) <= Cardinality(Taking(A, g, R))
<1> DEFINE First(k) == R \cap (1 .. k)
           T == { k \in 0 .. N : Cardinality(Taking(A, f, First(k))) <= Cardinality(Taking(A, g, First(k))) }
<1>1. \A h, S : IsFiniteSet(Taking(A, h, S)) /\ Cardinality(Taking(A, h, S)) \in Nat
  <2> SUFFICES ASSUME NEW h, NEW S
               PROVE  IsFiniteSet(Taking(A, h, S)) /\ Cardinality(Taking(A, h, S)) \in Nat
    OBVIOUS
  <2>1. Taking(A, h, S) \in SUBSET A
    BY DEF Taking
  <2> QED BY <2>1, FS_Subset, FS_CardinalityType
<1>2. 0 \in T
  <2>1. First(0) = {}
    OBVIOUS
  <2>2. \A h : Taking(A, h, First(0)) = {}
    BY <2>1 DEF Taking
  <2>3. Cardinality({}) = 0
    BY FS_EmptySet
  <2>4. Cardinality(Taking(A, f, First(0))) = 0 /\ Cardinality(Taking(A, g, First(0))) = 0
    BY <2>2, <2>3
  <2> QED BY <2>4
<1>3. ASSUME NEW k \in 1 .. N, k - 1 \in T PROVE k \in T
  <2>1. k \in 0 .. N /\ k - 1 \in 0 .. N
    OBVIOUS
  <2>2. CASE k \notin R
    <3>1. First(k) = First(k - 1)
      BY <2>2
    <3> QED BY <1>3, <2>1, <3>1
  <2>3. CASE k \in R
    <3>1. First(k) = First(k - 1) \cup {k} /\ k \notin First(k - 1)
      BY <2>3
    <3>2. ASSUME NEW h
          PROVE  Cardinality(Taking(A, h, First(k)))
                   = Cardinality(Taking(A, h, First(k - 1))) + Cardinality(Taking(A, h, {k}))
      <4>1. PICK U, V : U = Taking(A, h, First(k - 1)) /\ V = Taking(A, h, {k})
        OBVIOUS
      <4>2. Taking(A, h, First(k)) = U \cup V /\ U \cap V = {}
        <5> HIDE DEF First
        <5> QED BY <3>1, <4>1 DEF Taking
      <4>3. IsFiniteSet(U) /\ IsFiniteSet(V) /\ Cardinality(U) \in Nat /\ Cardinality(V) \in Nat
        BY <1>1, <4>1
      <4>4. Cardinality(U \cup V) = Cardinality(U) + Cardinality(V) - Cardinality(U \cap V)
        BY <4>3, FS_Union
      <4>5. Cardinality(U \cap V) = 0
        BY <4>2, FS_EmptySet
      <4> HIDE DEF First
      <4> QED BY <4>1, <4>2, <4>3, <4>4, <4>5
    <3>3. PICK x, y, p, q \in Nat :
            /\ x = Cardinality(Taking(A, f, First(k - 1)))
               /\ y = Cardinality(Taking(A, g, First(k - 1)))
            /\ p = Cardinality(Taking(A, f, {k})) /\ q = Cardinality(Taking(A, g, {k}))
      <4> HIDE DEF First
      <4> QED BY <1>1
    <3>4. x <= y /\ p <= q
      BY <1>3, <2>3, <3>3
    <3>5. Cardinality(Taking(A, f, First(k))) = x + p /\ Cardinality(Taking(A, g, First(k))) = y + q
      <4> HIDE DEF First
      <4> QED BY <3>2, <3>3
    <3> QED BY <2>1, <3>4, <3>5
  <2> QED BY <2>2, <2>3
<1>4. T = 0 .. N
  <2>1. T \in SUBSET (0 .. N)
    OBVIOUS
  <2> HIDE DEF T
  <2> QED BY <1>2, <1>3, <2>1, UpTo
<1>5. First(N) = R
  OBVIOUS
<1>6. N \in T
  BY <1>4
<1> HIDE DEF First
<1> QED BY <1>5, <1>6

LEMMA SearchFails ==
  ASSUME Assign!CombineAssumption, JobTyped, Agree(aToB, bToA), NEW start \in Assign!As, aToB[start] = 0,
         Assign!FindAugmentingPath(start).end = 0
  PROVE  Assign!Assignments(level) = {}
<1>1. PICK s : s = Assign!FindAugmentingPath(start)
  OBVIOUS
<1>2. /\ Way(s, start) /\ ReachedClosed(s) /\ s \in Searches
      /\ \A a \in Assign!Elements(s.queue) : \A b \in Assign!Elements(job.options[a]) : s.parentB[b] # 0
  BY <1>1, FindKeeps DEF Sound, Way
<1> DEFINE A == Assign!Elements(s.queue)
           R == { b \in Assign!Bs : s.parentB[b] # 0 }
<1>3. A \subseteq Assign!As /\ start \in A /\ IsFiniteSet(A)
  <2>1. A \subseteq Assign!As
    BY <1>2, SearchFields
  <2>2. s.queue \in Seq(Assign!As) /\ s.queue # <<>> /\ s.queue[1] = start
    BY <1>2, SearchFields DEF Way
  <2>3. 1 \in 1 .. Len(s.queue)
    BY <2>2
  <2>4. start \in A
    BY <2>2, <2>3, ElementsOf
  <2> QED BY <2>1, <2>4, AsCount
<1>4. PICK N \in Nat : N = Len(job.bMax) /\ Assign!Bs = 1 .. N
  BY JobSizes
<1> SUFFICES ASSUME NEW f \in Assign!Assignments(level) PROVE FALSE
  OBVIOUS
<1>5. /\ f \in [Assign!As -> Assign!Bs]
         /\ \A a \in Assign!As : f[a] \in Assign!Elements(job.options[a])
      /\ \A b \in Assign!Bs : Cardinality({ a \in Assign!As : f[a] = b }) <= Assign!CurrentMax(b)
  BY AssignCardinality DEF Assign!Assignments, Assign!CurrentMax
<1>6. \A a \in A : f[a] \in R
  BY <1>2, <1>3, <1>5
<1>7. ASSUME NEW b \in R PROVE Cardinality(Taking(A, f, {b})) <= Cardinality(Taking(A, aToB, {b}))
  <2>1. b \in Assign!Bs /\ bToA[b] \in Seq(Assign!As) /\ FullAt(b)
        /\ Assign!Elements(bToA[b]) \subseteq A
    BY <1>2 DEF JobTyped, ReachedClosed
  <2>2. Taking(A, aToB, {b}) = Assign!Elements(bToA[b])
    <3>1. \A a \in Assign!As : aToB[a] = b <=> a \in Assign!Elements(bToA[b])
      BY <2>1 DEF Agree
    <3> HIDE DEF A
    <3> QED BY <1>3, <2>1, <3>1 DEF Taking
  <2>3. Cardinality(Assign!Elements(bToA[b])) = Len(bToA[b])
    <3>1. \A j, k \in DOMAIN bToA[b] : bToA[b][j] = bToA[b][k] => j = k
      BY <2>1 DEF Agree
    <3> QED BY <2>1, <3>1, ListCount
  <2>4. Cardinality(Taking(A, f, {b})) <= Cardinality({ a \in Assign!As : f[a] = b })
    <3>1. Taking(A, f, {b}) \in SUBSET { a \in Assign!As : f[a] = b }
          /\ { a \in Assign!As : f[a] = b } \subseteq Assign!As
      <4> HIDE DEF A
      <4> QED BY <1>3 DEF Taking
    <3>2. IsFiniteSet({ a \in Assign!As : f[a] = b })
      BY <3>1, AsCount
    <3> QED BY <3>1, <3>2, FS_Subset
  <2>5. PICK x, y, z \in Nat : /\ x = Cardinality(Taking(A, f, {b}))
                                  /\ y = Cardinality({ a \in Assign!As : f[a] = b })
                               /\ z = Assign!CurrentMax(b) /\ Len(bToA[b]) \in Nat
    <3>1. Taking(A, f, {b}) \subseteq Assign!As /\ { a \in Assign!As : f[a] = b } \subseteq Assign!As
      <4> HIDE DEF A
      <4> QED BY <1>3 DEF Taking
    <3> QED BY <2>1, <3>1, AsCount, JobSizes
  <2>6. y <= z /\ z <= Len(bToA[b])
    BY <1>5, <2>1, <2>5 DEF FullAt
  <2> QED BY <2>2, <2>3, <2>4, <2>5, <2>6
<1> HIDE DEF A, R
<1>8. Cardinality(Taking(A, f, R)) <= Cardinality(Taking(A, aToB, R))
  <2>1. R \in SUBSET (1 .. N)
    BY <1>4 DEF R
  <2> QED BY <1>3, <1>7, <2>1, AsOften
<1>9. Taking(A, f, R) = A
  BY <1>6 DEF Taking
<1>10. Taking(A, aToB, R) \in SUBSET (A \ {start})
  <2>1. 0 \notin R
    BY JobSizes DEF R
  <2> QED BY <2>1 DEF Taking
<1>11. IsFiniteSet(A \ {start}) /\ Cardinality(A \ {start}) = Cardinality(A) - 1
  BY <1>3, FS_RemoveElement
<1>12. Cardinality(Taking(A, aToB, R)) <= Cardinality(A \ {start})
  BY <1>10, <1>11, FS_Subset
<1>13. Cardinality(A) \in Nat /\ Cardinality(Taking(A, aToB, R)) \in Nat
  <2>1. Taking(A, aToB, R) \subseteq Assign!As
    BY <1>3 DEF Taking
  <2> QED BY <1>3, <2>1, AsCount
<1> QED BY <1>8, <1>9, <1>11, <1>12, <1>13

-----------------------------------------------------------------------------
(* The a's on the way move up.                                             *)

HeldAs(y) == y \in [Assign!Bs -> Seq(Assign!As)]

GivenBs(x) == x \in [Assign!As -> Assign!Bs \cup {0}]

LEMMA WithoutIs ==
  ASSUME Assign!CombineAssumption, JobTyped, NEW list \in Seq(Assign!As),
         \A j, k \in DOMAIN list : list[j] = list[k] => j = k, NEW a \in Assign!Elements(list)
  PROVE  /\ Assign!Without(list, a) \in Seq(Assign!As) /\ Len(Assign!Without(list, a)) = Len(list) - 1
         /\ Assign!Elements(Assign!Without(list, a)) = Assign!Elements(list) \ {a}
         /\ \A j, k \in DOMAIN Assign!Without(list, a) :
              Assign!Without(list, a)[j] = Assign!Without(list, a)[k] => j = k
<1>1. PICK n \in Nat : n = Len(list) /\ DOMAIN list = 1 .. n
                       /\ Assign!Elements(list) = { list[k] : k \in 1 .. n }
                       /\ \A k \in 1 .. n : list[k] \in Assign!As
  BY ElementsOf
<1>2. PICK place \in 1 .. n : list[place] = a /\ place = CHOOSE k \in DOMAIN list : list[k] = a
  BY <1>1
<1>3. n - 1 \in Nat /\ n \in 1 .. n /\ \A k \in 1 .. n - 1 : k \in 1 .. n /\ k # n
  BY <1>1, <1>2
<1>4. PICK w : w = Assign!Without(list, a)
  OBVIOUS
<1>5. w = [k \in 1 .. n - 1 |-> IF k = place THEN list[n] ELSE list[k]]
  BY <1>1, <1>2, <1>4 DEF Assign!Without
<1>6. \A k \in 1 .. n - 1 : w[k] = (IF k = place THEN list[n] ELSE list[k]) /\ w[k] \in Assign!As
  BY <1>1, <1>3, <1>5
<1>7. w \in Seq(Assign!As) /\ Len(w) = n - 1 /\ DOMAIN w = 1 .. n - 1
  <2>1. w \in [1 .. n - 1 -> Assign!As]
    BY <1>5, <1>6
  <2> QED BY <1>3, <2>1
<1>8. \A j, k \in 1 .. n : list[j] = list[k] => j = k
  BY <1>1
<1>9. \A k \in 1 .. n - 1 : w[k] # a
  BY <1>2, <1>3, <1>6, <1>8
<1>10. \A j, k \in 1 .. n - 1 : w[j] = w[k] => j = k
  BY <1>3, <1>6, <1>8
<1>11. Assign!Elements(w) = { w[k] : k \in 1 .. n - 1 }
  BY <1>7, ElementsOf
<1>12. Assign!Elements(w) = Assign!Elements(list) \ {a}
  <2>1. ASSUME NEW x \in Assign!Elements(w) PROVE x \in Assign!Elements(list) \ {a}
    <3>1. PICK k \in 1 .. n - 1 : x = w[k]
      BY <1>11
    <3>2. x # a
      BY <1>9, <3>1
    <3>3. \E j \in 1 .. n : x = list[j]
      <4>1. k \in 1 .. n /\ n \in 1 .. n
        BY <1>3
      <4>2. x = IF k = place THEN list[n] ELSE list[k]
        BY <1>6, <3>1
      <4> QED BY <4>1, <4>2
    <3>4. x \in Assign!Elements(list)
      BY <1>1, <3>3
    <3> QED BY <3>2, <3>4
  <2>2. ASSUME NEW x \in Assign!Elements(list), x # a PROVE x \in Assign!Elements(w)
    <3>1. PICK k \in 1 .. n : x = list[k]
      BY <1>1
    <3>2. CASE k = n
      <4>1. place \in 1 .. n - 1
        BY <1>2, <2>2, <3>1, <3>2
      <4> QED BY <1>6, <1>11, <3>1, <3>2, <4>1
    <3>3. CASE k # n
      <4>1. k \in 1 .. n - 1
        BY <3>1, <3>3
      <4>2. k # place
        BY <1>2, <2>2, <3>1
      <4> QED BY <1>6, <1>11, <3>1, <4>1, <4>2
    <3> QED BY <3>2, <3>3
  <2> QED BY <2>1, <2>2
<1> QED BY <1>1, <1>4, <1>7, <1>10, <1>12

LeftBy(x, y, a, c) == <<[x EXCEPT ![a] = 0], [y EXCEPT ![c] = Assign!Without(@, a)]>>

Entered(x, y, a, b) == <<[x EXCEPT ![a] = b], [y EXCEPT ![b] = Append(@, a)]>>

LEMMA LeftIs ==
  ASSUME Assign!CombineAssumption, JobTyped, NEW x, NEW y, GivenBs(x), HeldAs(y), Agree(x, y),
         NEW a \in Assign!As, NEW c \in Assign!Bs, x[a] = c, NEW v, NEW w, LeftBy(x, y, a, c) = <<v, w>>
  PROVE  /\ GivenBs(v) /\ HeldAs(w) /\ Agree(v, w) /\ v[a] = 0
         /\ \A o \in Assign!As : o # a => v[o] = x[o]
         /\ Len(w[c]) = Len(y[c]) - 1
         /\ \A b \in Assign!Bs : b # c => w[b] = y[b]
<1>1. v = [x EXCEPT ![a] = 0] /\ w = [y EXCEPT ![c] = Assign!Without(@, a)] /\ 0 \notin Assign!Bs
  BY JobSizes DEF LeftBy
<1>2. v[a] = 0 /\ (\A o \in Assign!As : o # a => v[o] = x[o]) /\ GivenBs(v)
  BY <1>1 DEF GivenBs
<1>3. y[c] \in Seq(Assign!As) /\ a \in Assign!Elements(y[c])
      /\ \A j, k \in DOMAIN y[c] : y[c][j] = y[c][k] => j = k
  BY DEF HeldAs, Agree
<1>4. PICK l : l = Assign!Without(y[c], a)
  OBVIOUS
<1>5. /\ l \in Seq(Assign!As) /\ Len(l) = Len(y[c]) - 1
         /\ Assign!Elements(l) = Assign!Elements(y[c]) \ {a}
      /\ \A j, k \in DOMAIN l : l[j] = l[k] => j = k
  BY <1>3, <1>4, WithoutIs
<1>6. w[c] = l /\ (\A b \in Assign!Bs : b # c => w[b] = y[b]) /\ HeldAs(w)
  BY <1>1, <1>4, <1>5 DEF HeldAs
<1>7. ASSUME NEW o \in Assign!As, NEW b \in Assign!Bs PROVE v[o] = b <=> o \in Assign!Elements(w[b])
  <2>1. x[o] = b <=> o \in Assign!Elements(y[b])
    BY DEF Agree
  <2> QED BY <1>1, <1>2, <1>5, <1>6, <2>1
<1>8. \A b \in Assign!Bs : \A j, k \in DOMAIN w[b] : w[b][j] = w[b][k] => j = k
  BY <1>5, <1>6 DEF Agree
<1> QED BY <1>2, <1>5, <1>6, <1>7, <1>8 DEF Agree

LEMMA EnteredIs ==
  ASSUME Assign!CombineAssumption, JobTyped, NEW x, NEW y, GivenBs(x), HeldAs(y), Agree(x, y),
         NEW a \in Assign!As, NEW b \in Assign!Bs, x[a] = 0, NEW v, NEW w, Entered(x, y, a, b) = <<v, w>>
  PROVE  /\ GivenBs(v) /\ HeldAs(w) /\ Agree(v, w) /\ v[a] = b
         /\ \A o \in Assign!As : o # a => v[o] = x[o]
         /\ Len(w[b]) = Len(y[b]) + 1
         /\ \A c \in Assign!Bs : c # b => w[c] = y[c]
<1>1. v = [x EXCEPT ![a] = b] /\ w = [y EXCEPT ![b] = Append(@, a)] /\ 0 \notin Assign!Bs
  BY JobSizes DEF Entered
<1>2. v[a] = b /\ (\A o \in Assign!As : o # a => v[o] = x[o]) /\ GivenBs(v)
  BY <1>1 DEF GivenBs
<1>3. y[b] \in Seq(Assign!As) /\ a \notin Assign!Elements(y[b])
      /\ \A j, k \in DOMAIN y[b] : y[b][j] = y[b][k] => j = k
  BY <1>1 DEF HeldAs, Agree
<1>4. PICK n \in Nat : n = Len(y[b]) /\ DOMAIN y[b] = 1 .. n
                       /\ Assign!Elements(y[b]) = { y[b][k] : k \in 1 .. n }
  BY <1>3, ElementsOf
<1>5. PICK l : l = Append(y[b], a)
  OBVIOUS
<1>6. l \in Seq(Assign!As) /\ Len(l) = n + 1 /\ l[n + 1] = a /\ \A k \in 1 .. n : l[k] = y[b][k]
  BY <1>3, <1>4, <1>5
<1>7. DOMAIN l = 1 .. n + 1 /\ Assign!Elements(l) = { l[k] : k \in 1 .. n + 1 }
  BY <1>6, ElementsOf
<1>8. n + 1 \in 1 .. n + 1 /\ \A k \in 1 .. n + 1 : k \in 1 .. n \/ k = n + 1
  OBVIOUS
<1>9. \A k \in 1 .. n : k \in 1 .. n + 1
  OBVIOUS
<1>10. Assign!Elements(l) = Assign!Elements(y[b]) \cup {a}
  BY <1>4, <1>6, <1>7, <1>8, <1>9
<1>11. \A k \in 1 .. n : y[b][k] # a
  BY <1>3, <1>4
<1>12. \A j, k \in DOMAIN l : l[j] = l[k] => j = k
  BY <1>3, <1>4, <1>6, <1>7, <1>8, <1>11
<1>13. w[b] = l /\ (\A c \in Assign!Bs : c # b => w[c] = y[c]) /\ HeldAs(w)
  BY <1>1, <1>5, <1>6 DEF HeldAs
<1>14. ASSUME NEW o \in Assign!As, NEW c \in Assign!Bs PROVE v[o] = c <=> o \in Assign!Elements(w[c])
  <2>1. x[o] = c <=> o \in Assign!Elements(y[c])
    BY DEF Agree
  <2> QED BY <1>1, <1>2, <1>10, <1>13, <2>1
<1>15. \A c \in Assign!Bs : \A j, k \in DOMAIN w[c] : w[c][j] = w[c][k] => j = k
  BY <1>12, <1>13 DEF Agree
<1> QED BY <1>2, <1>4, <1>6, <1>13, <1>14, <1>15 DEF Agree

MoveStates == [b : Assign!Bs \cup {0}, aToB : [Assign!As -> Assign!Bs \cup {0}], bToA : [Assign!Bs -> Seq(Assign!As)]]

\* There is room at the b the next one moves to; who moves now or later is where
\* it was.
RoomFor(m, s, k) ==
  /\ k <= Len(s.queue) /\ s.parentB[m.b] = s.queue[k]
  /\ \A j \in 1 .. k : m.aToB[s.queue[j]] = aToB[s.queue[j]]
  /\ Len(m.bToA[m.b]) < Assign!CurrentMax(m.b)

EachPlaced(x, y) ==
  /\ Agree(x, y)
  /\ \A b \in Assign!Bs : Len(y[b]) <= Assign!CurrentMax(b)
  /\ \A a \in Assign!As : x[a] # 0 => x[a] \in Assign!Elements(job.options[a])

Moving(m, s, start, n) ==
  /\ m \in MoveStates /\ EachPlaced(m.aToB, m.bToA)
  /\ \A a \in Assign!As : aToB[a] # 0 => m.aToB[a] # 0
  /\ m.b # 0 => \E k \in 1 .. Len(job.options) - n : RoomFor(m, s, k)
  /\ m.b = 0 => m.aToB[start] # 0

MoveOn(m, s) == IF m.b = 0 THEN m ELSE Assign!MoveUp(s, m)

LEMMA MoveOnKeeps ==
  ASSUME Assign!CombineAssumption, JobTyped, NEW start \in Assign!As, aToB[start] = 0,
         NEW s, Way(s, start), NEW n \in Nat, NEW m, Moving(m, s, start, n)
  PROVE  Moving(MoveOn(m, s), s, start, n + 1)
<1>1. /\ s \in Searches /\ m \in MoveStates /\ EachPlaced(m.aToB, m.bToA) /\ 0 \notin Assign!As
         /\ 0 \notin Assign!Bs
      /\ \A a \in Assign!As : aToB[a] # 0 => m.aToB[a] # 0
  BY JobSizes DEF Way, Moving
<1>2. PICK N \in Nat : N = Len(job.options)
  BY JobSizes
<1>3. PICK t : t = MoveOn(m, s)
  OBVIOUS
<1>4. CASE m.b = 0
  <2>1. t = m
    BY <1>3, <1>4 DEF MoveOn
  <2> QED BY <1>3, <1>4, <2>1 DEF Moving
<1>5. CASE m.b # 0
  <2>1. PICK k \in 1 .. N - n : RoomFor(m, s, k)
    BY <1>2, <1>5 DEF Moving
  <2>2. PICK L \in Nat : /\ L = Len(s.queue) /\ DOMAIN s.queue = 1 .. L
                         /\ \A j \in 1 .. L : s.queue[j] \in Assign!As
    BY <1>1, SearchFields
  <2>3. k \in 1 .. L
    BY <2>1, <2>2 DEF RoomFor
  <2>4. PICK a \in Assign!As, b \in Assign!Bs :
          a = s.queue[k] /\ b = m.b /\ s.parentB[b] = a /\ b \in Assign!Elements(job.options[a])
    <3>1. m.b \in Assign!Bs /\ s.queue[k] \in Assign!As /\ s.parentB[m.b] = s.queue[k]
      BY <1>1, <1>5, <2>1, <2>2, <2>3 DEF MoveStates, RoomFor
    <3>2. m.b \in Assign!Elements(job.options[s.parentB[m.b]])
      BY <1>1, <3>1 DEF Way
    <3> QED BY <3>1, <3>2
  <2>5. PICK x, y : x = m.aToB /\ y = m.bToA
    OBVIOUS
  <2>6. GivenBs(x) /\ HeldAs(y) /\ Agree(x, y)
        /\ (\A c \in Assign!Bs : Len(y[c]) <= Assign!CurrentMax(c))
        /\ (\A o \in Assign!As : x[o] # 0 => x[o] \in Assign!Elements(job.options[o]))
        /\ Len(y[b]) < Assign!CurrentMax(b) /\ x[a] = aToB[a]
        /\ (\A o \in Assign!As : aToB[o] # 0 => x[o] # 0)
        /\ \A j \in 1 .. k : x[s.queue[j]] = aToB[s.queue[j]]
    BY <1>1, <2>1, <2>4, <2>5 DEF MoveStates, GivenBs, HeldAs, EachPlaced, RoomFor
  <2>7. t = Assign!MoveUp(s, m)
    BY <1>3, <1>5 DEF MoveOn
  <2>8. PICK p : p = s.parentA[a]
    OBVIOUS
  <2>9. CASE k = 1
    <3>1. a = start /\ p = 0
      BY <2>4, <2>8, <2>9 DEF Way
    <3>2. PICK v, w : Entered(x, y, a, b) = <<v, w>>
      BY DEF Entered
    <3>3. x[a] = 0
      BY <2>6, <3>1
    <3>4. /\ GivenBs(v) /\ HeldAs(w) /\ Agree(v, w) /\ v[a] = b
          /\ \A o \in Assign!As : o # a => v[o] = x[o]
          /\ Len(w[b]) = Len(y[b]) + 1
          /\ \A c \in Assign!Bs : c # b => w[c] = y[c]
      BY <2>6, <3>2, <3>3, EnteredIs
    <3>5. t = [b |-> 0, aToB |-> v, bToA |-> w]
      BY <2>4, <2>5, <2>7, <2>8, <3>1, <3>2 DEF Assign!MoveUp, Entered, Assign!Nothing
    <3>6. \A c \in Assign!Bs : Len(w[c]) <= Assign!CurrentMax(c)
      <4>1. Len(y[b]) \in Nat /\ Assign!CurrentMax(b) \in Nat
        BY <2>6, JobSizes DEF HeldAs
      <4> QED BY <2>6, <3>4, <4>1
    <3>7. \A o \in Assign!As : v[o] # 0 => v[o] \in Assign!Elements(job.options[o])
      BY <2>4, <2>6, <3>4
    <3>8. EachPlaced(v, w) /\ t \in MoveStates
      BY <3>4, <3>5, <3>6, <3>7 DEF EachPlaced, MoveStates, GivenBs, HeldAs
    <3>9. (\A o \in Assign!As : aToB[o] # 0 => v[o] # 0) /\ v[start] # 0
      BY <1>1, <2>6, <3>1, <3>4
    <3> QED BY <1>3, <3>5, <3>8, <3>9 DEF Moving
  <2>10. CASE k # 1
    <3>1. PICK j \in 1 .. k - 1 : p \in Assign!Bs /\ aToB[a] = p /\ s.parentB[p] = s.queue[j]
               /\ FullAt(p)
      <4>1. Behind(s, k)
        BY <2>2, <2>3, <2>10 DEF Way
      <4> QED BY <2>4, <2>8, <4>1 DEF Behind
    <3>2. PICK v1, w1 : LeftBy(x, y, a, p) = <<v1, w1>>
      BY DEF LeftBy
    <3>3. /\ GivenBs(v1) /\ HeldAs(w1) /\ Agree(v1, w1) /\ v1[a] = 0
          /\ \A o \in Assign!As : o # a => v1[o] = x[o]
          /\ Len(w1[p]) = Len(y[p]) - 1
          /\ \A c \in Assign!Bs : c # p => w1[c] = y[c]
      BY <2>6, <3>1, <3>2, LeftIs
    <3>4. PICK v, w : Entered(v1, w1, a, b) = <<v, w>>
      BY DEF Entered
    <3>5. /\ GivenBs(v) /\ HeldAs(w) /\ Agree(v, w) /\ v[a] = b
          /\ \A o \in Assign!As : o # a => v[o] = v1[o]
          /\ Len(w[b]) = Len(w1[b]) + 1
          /\ \A c \in Assign!Bs : c # b => w[c] = w1[c]
      BY <3>3, <3>4, EnteredIs
    <3>6. t = [b |-> p, aToB |-> v, bToA |-> w]
      <4>1. v1 = [x EXCEPT ![a] = 0] /\ w1 = [y EXCEPT ![p] = Assign!Without(@, a)]
        BY <3>2 DEF LeftBy
      <4>2. v = [v1 EXCEPT ![a] = b] /\ w = [w1 EXCEPT ![b] = Append(@, a)]
        BY <3>4 DEF Entered
      <4>3. v = [x EXCEPT ![a] = b]
        BY <2>6, <4>1, <4>2 DEF GivenBs
      <4>4. p # 0
        BY <1>1, <3>1
      <4>5. t.b = p /\ t.aToB = v /\ t.bToA = w /\ t = [b |-> t.b, aToB |-> t.aToB, bToA |-> t.bToA]
        BY <2>4, <2>5, <2>7, <2>8, <4>1, <4>2, <4>3, <4>4 DEF Assign!MoveUp, Assign!Nothing
      <4> QED BY <4>5
    <3>7. b # p
      <4>1. j \in 1 .. L /\ j # k
        BY <2>3, <3>1
      <4>2. s.queue[j] # s.queue[k]
        BY <2>2, <2>3, <4>1 DEF Way
      <4> QED BY <2>4, <3>1, <4>2
    <3>8. (\A c \in Assign!Bs : Len(w[c]) <= Assign!CurrentMax(c)) /\ Len(w[p]) < Assign!CurrentMax(p)
      <4>1. \A c \in Assign!Bs : Len(y[c]) \in Nat /\ Assign!CurrentMax(c) \in Nat
        BY <2>6, JobSizes DEF HeldAs
      <4>2. Len(w[b]) = Len(y[b]) + 1 /\ Len(w[p]) = Len(y[p]) - 1
            /\ \A c \in Assign!Bs : c # b /\ c # p => w[c] = y[c]
        BY <3>1, <3>3, <3>5, <3>7
      <4>3. Len(y[b]) + 1 <= Assign!CurrentMax(b) /\ Len(y[p]) - 1 < Assign!CurrentMax(p)
        BY <2>6, <3>1, <4>1
      <4>4. PICK f, g, h, i \in Nat : f = Len(y[b]) /\ g = Len(y[p]) /\ h = Assign!CurrentMax(b)
                 /\ i = Assign!CurrentMax(p)
        BY <3>1, <4>1
      <4>5. Len(w[b]) <= Assign!CurrentMax(b) /\ Len(w[p]) < Assign!CurrentMax(p)
            /\ Len(w[p]) <= Assign!CurrentMax(p)
        BY <4>2, <4>3, <4>4
      <4>6. ASSUME NEW c \in Assign!Bs PROVE Len(w[c]) <= Assign!CurrentMax(c)
        <5>1. CASE c = b \/ c = p
          BY <4>5, <5>1
        <5>2. CASE c # b /\ c # p
          BY <2>6, <4>2, <5>2
        <5> QED BY <5>1, <5>2
      <4> QED BY <4>5, <4>6
    <3>9. \A o \in Assign!As : o # a => v[o] = x[o]
      BY <3>3, <3>5
    <3>10. \A o \in Assign!As : v[o] # 0 => v[o] \in Assign!Elements(job.options[o])
      BY <2>4, <2>6, <3>5, <3>9
    <3>11. EachPlaced(v, w) /\ t \in MoveStates
      BY <3>1, <3>5, <3>6, <3>8, <3>10 DEF EachPlaced, MoveStates, GivenBs, HeldAs
    <3>12. \A o \in Assign!As : aToB[o] # 0 => v[o] # 0
      BY <1>1, <2>6, <3>5, <3>9
    <3>13. RoomFor(t, s, j)
      <4>1. j \in 1 .. L /\ j < k /\ \A i \in 1 .. j : i \in 1 .. k /\ i \in 1 .. L /\ i # k
        BY <2>3, <3>1
      <4>2. \A i \in 1 .. j : s.queue[i] # a /\ s.queue[i] \in Assign!As
        BY <2>2, <2>3, <2>4, <4>1 DEF Way
      <4>3. \A i \in 1 .. j : v[s.queue[i]] = aToB[s.queue[i]]
        BY <2>6, <3>9, <4>1, <4>2
      <4> QED BY <2>2, <3>1, <3>6, <3>8, <4>1, <4>3 DEF RoomFor
    <3>14. j \in 1 .. N - (n + 1) /\ p # 0
      BY <1>1, <2>1, <3>1
    <3> QED BY <1>2, <1>3, <3>6, <3>11, <3>12, <3>13, <3>14 DEF Moving
  <2> QED BY <2>9, <2>10
<1> QED BY <1>4, <1>5

MovesOf(s, start) == { m \in MoveStates : Moving(m, s, start, 0) }

\* Along the way everyone but the first keeps a b, and the first gets one.
LEMMA FlippedKeeps ==
  ASSUME Assign!CombineAssumption, JobTyped, EachPlaced(aToB, bToA), NEW start \in Assign!As, aToB[start] = 0,
         NEW s, Sound(s, start), s.end # 0
  PROVE  /\ GivenBs(Assign!Flipped(s).aToB) /\ HeldAs(Assign!Flipped(s).bToA)
         /\ EachPlaced(Assign!Flipped(s).aToB, Assign!Flipped(s).bToA)
         /\ \A a \in Assign!As : aToB[a] # 0 => Assign!Flipped(s).aToB[a] # 0
         /\ Assign!Flipped(s).aToB[start] # 0
<1>1. PICK N \in Nat : N = Len(job.options)
  BY JobSizes
<1>2. PICK first : first = [b |-> s.end, aToB |-> aToB, bToA |-> bToA]
  OBVIOUS
<1> DEFINE IsMoved(w) ==
             w = [n \in 0 .. Len(job.options) |->
                    IF n = 0 THEN [b |-> s.end, aToB |-> aToB, bToA |-> bToA]
                    ELSE IF w[n - 1].b = Assign!Nothing THEN w[n - 1] ELSE Assign!MoveUp(s, w[n - 1])]
           moved == CHOOSE w : IsMoved(w)
           IsMovedOn(w) == w = [n \in 0 .. N |-> IF n = 0 THEN first ELSE MoveOn(w[n - 1], s)]
           S == MovesOf(s, start)
<1>3. \A w : IsMoved(w) <=> IsMovedOn(w)
  BY <1>1, <1>2 DEF Assign!Nothing, MoveOn
<1>4. Way(s, start) /\ RoomAtEnd(s) /\ s \in Searches /\ s.end \in Assign!Bs /\ 0 \notin Assign!As
  <2>1. Way(s, start) /\ RoomAtEnd(s) /\ s \in Searches
    BY DEF Sound, Way
  <2> QED BY <2>1, SearchFields, JobSizes
<1>5. Moving(first, s, start, 0)
  <2>1. first.b = s.end /\ first.aToB = aToB /\ first.bToA = bToA
    BY <1>2
  <2>2. first \in MoveStates
    BY <1>2, <1>4 DEF MoveStates, JobTyped
  <2>3. s.parentB[s.end] \in Assign!Elements(s.queue) /\ ~FullAt(s.end)
    BY <1>4 DEF RoomAtEnd, Way
  <2>4. s.queue \in Seq(Assign!As) /\ Len(s.queue) \in Nat /\ Len(s.queue) <= N
    BY <1>1, <1>4, SearchFields, QueueFits
  <2>5. PICK k \in 1 .. Len(s.queue) : s.parentB[s.end] = s.queue[k]
    BY <2>3, <2>4, ElementsOf
  <2>6. Len(bToA[s.end]) < Assign!CurrentMax(s.end)
    <3>1. Len(bToA[s.end]) \in Nat /\ Assign!CurrentMax(s.end) \in Nat
      BY <1>4, JobSizes
    <3> QED BY <2>3, <3>1 DEF FullAt
  <2>7. RoomFor(first, s, k) /\ k \in 1 .. N - 0
    BY <2>1, <2>4, <2>5, <2>6 DEF RoomFor
  <2> QED BY <1>1, <1>4, <2>1, <2>2, <2>7 DEF Moving
<1>6. ASSUME NEW x, NEW n \in Nat, Moving(x, s, start, n + 1) PROVE Moving(x, s, start, n)
  <2>1. \A k \in 1 .. N - (n + 1) : k \in 1 .. N - n
    OBVIOUS
  <2> QED BY <1>1, <1>6, <2>1 DEF Moving
<1>7. first \in S /\ \A x \in S : MoveOn(x, s) \in S
  <2>1. first \in S
    BY <1>5 DEF MovesOf, Moving
  <2>2. ASSUME NEW x \in S PROVE MoveOn(x, s) \in S
    <3>1. Moving(x, s, start, 0)
      BY DEF MovesOf
    <3>2. PICK z : z = MoveOn(x, s)
      OBVIOUS
    <3>3. Moving(z, s, start, 0 + 1)
      BY <1>4, <3>1, <3>2, MoveOnKeeps
    <3>4. Moving(z, s, start, 0)
      BY <1>6, <3>3
    <3> QED BY <3>2, <3>4 DEF MovesOf, Moving
  <2> QED BY <2>1, <2>2
<1> HIDE DEF S
<1>8. PICK v \in [0 .. N -> S] : \A n \in 0 .. N : v[n] = IF n = 0 THEN first ELSE MoveOn(v[n - 1], s)
  <2> DEFINE step == [n \in 1 .. N |-> [x \in S |-> MoveOn(x, s)]]
  <2>1. step \in Steps(S, N) /\ \A n \in 1 .. N : \A x \in S : step[n][x] = MoveOn(x, s)
    BY <1>7 DEF Steps
  <2>2. PICK q \in Steps(S, N) : q = step
    BY <2>1
  <2> HIDE DEF step
  <2>3. PICK v : IsRun(v, S, N, first, q)
    BY <1>7, Repeated
  <2>4. v \in [0 .. N -> S]
    BY <2>3 DEF IsRun
  <2>5. ASSUME NEW n \in 0 .. N, n # 0 PROVE v[n] = MoveOn(v[n - 1], s)
    <3>1. n \in 1 .. N /\ n - 1 \in 0 .. N
      BY <2>5
    <3> QED BY <2>1, <2>2, <2>3, <2>4, <2>5, <3>1 DEF IsRun
  <2>6. v[0] = first
    BY <2>3 DEF IsRun
  <2> QED BY <2>4, <2>5, <2>6
<1>9. IsMovedOn(v)
  <2>1. v = [n \in 0 .. N |-> v[n]]
    OBVIOUS
  <2> QED BY <1>8, <2>1
<1>10. IsMoved(moved)
  <2> HIDE DEF IsMoved, IsMovedOn
  <2> QED BY <1>3, <1>9
<1>11. Assign!Flipped(s) = moved[N]
  BY <1>1 DEF Assign!Flipped
<1> HIDE DEF moved
<1>12. IsMovedOn(moved)
  BY <1>3, <1>10
<1>13. \A n \in 0 .. N : moved[n] = IF n = 0 THEN first ELSE MoveOn(moved[n - 1], s)
  BY <1>12
<1> DEFINE T == { n \in 0 .. N : Moving(moved[n], s, start, n) }
<1>14. T = 0 .. N
  <2>1. T \in SUBSET (0 .. N) /\ 0 \in T
    BY <1>5, <1>13
  <2>2. ASSUME NEW n \in 1 .. N, n - 1 \in T PROVE n \in T
    <3>1. PICK x, z : x = moved[n - 1] /\ z = moved[n]
      OBVIOUS
    <3>2. n \in 0 .. N /\ n # 0 /\ n - 1 \in Nat /\ (n - 1) + 1 = n
      OBVIOUS
    <3>3. z = MoveOn(x, s) /\ Moving(x, s, start, n - 1)
      BY <1>13, <2>2, <3>1, <3>2
    <3>4. Moving(z, s, start, (n - 1) + 1)
      BY <1>4, <3>2, <3>3, MoveOnKeeps
    <3> QED BY <3>1, <3>2, <3>4
  <2> HIDE DEF T
  <2> QED BY <2>1, <2>2, UpTo
<1>15. PICK m : m = Assign!Flipped(s) /\ Moving(m, s, start, N)
  <2>1. N \in T
    BY <1>14
  <2> QED BY <1>11, <2>1
<1>16. m.b = 0
  <2>1. ~\E k \in 1 .. N - N : TRUE
    OBVIOUS
  <2> QED BY <1>1, <1>15, <2>1 DEF Moving
<1> QED BY <1>15, <1>16 DEF Moving, MoveStates, GivenBs, HeldAs

-----------------------------------------------------------------------------
(* The invariant.                                                          *)

Limited(limit, b) == IF limit < job.bMax[b] THEN limit ELSE job.bMax[b]

LEMMA Roomier ==
  ASSUME Assign!CombineAssumption, JobTyped, NEW m \in Int, NEW n \in Int,
         \A b \in Assign!Bs : Limited(m, b) <= Limited(n, b)
  PROVE  Assign!Assignments(m) \subseteq Assign!Assignments(n)
<1> SUFFICES ASSUME NEW f \in Assign!Assignments(m) PROVE f \in Assign!Assignments(n)
  OBVIOUS
<1>1. /\ f \in [Assign!As -> Assign!Bs]
         /\ \A a \in Assign!As : f[a] \in Assign!Elements(job.options[a])
      /\ \A b \in Assign!Bs : Cardinality({ a \in Assign!As : f[a] = b }) <= Limited(m, b)
  BY AssignCardinality DEF Assign!Assignments, Limited
<1>2. ASSUME NEW b \in Assign!Bs PROVE Cardinality({ a \in Assign!As : f[a] = b }) <= Limited(n, b)
  <2>1. PICK c : c = Cardinality({ a \in Assign!As : f[a] = b })
    OBVIOUS
  <2>2. c \in Nat
    <3>1. { a \in Assign!As : f[a] = b } \subseteq Assign!As
      OBVIOUS
    <3> QED BY <2>1, <3>1, AsCount
  <2>3. job.bMax[b] \in Nat
    BY JobSizes
  <2>4. PICK x, y \in Int : x = Limited(m, b) /\ y = Limited(n, b)
    BY <2>3 DEF Limited
  <2>5. c <= x /\ x <= y
    BY <1>1, <2>1, <2>4
  <2> QED BY <2>1, <2>2, <2>4, <2>5
<1> QED BY <1>1, <1>2, AssignCardinality DEF Assign!Assignments, Limited

LEMMA NoRoom ==
  ASSUME Assign!CombineAssumption, JobTyped, NEW m \in Int, m <= 0
  PROVE  Assign!Assignments(m) = {}
<1> SUFFICES ASSUME NEW f \in Assign!Assignments(m) PROVE FALSE
  OBVIOUS
<1>1. 1 \in Assign!As
  BY JobSizes
<1>2. PICK b \in Assign!Bs : f[1] = b
  BY <1>1 DEF Assign!Assignments
<1>3. Cardinality({ a \in Assign!As : f[a] = b }) <= Limited(m, b)
  BY AssignCardinality DEF Assign!Assignments, Limited
<1>4. { a \in Assign!As : f[a] = b } \subseteq Assign!As /\ { a \in Assign!As : f[a] = b } # {}
  BY <1>1, <1>2
<1>5. PICK A : A = { a \in Assign!As : f[a] = b } /\ IsFiniteSet(A) /\ Cardinality(A) \in Nat
           /\ A # {}
  BY <1>4, AsCount
<1>6. Cardinality(A) # 0
  BY <1>5, FS_EmptySet
<1>7. job.bMax[b] \in Nat
  BY JobSizes
<1>8. Limited(m, b) \in Int /\ Limited(m, b) <= 0
  BY <1>7 DEF Limited
<1> QED BY <1>3, <1>5, <1>6, <1>8

\* Who had a turn at this level and has no b shows that the level is too low.
LevelsTried ==
  /\ turn \in 1 .. Len(job.options) + 1
  /\ turn \in Assign!As => level > 0
  /\ result \in {"none", "assigned", "empty"}
  /\ Assign!Assignments(level - 1) = {}
  /\ (\E a \in Assign!As : a < turn /\ aToB[a] = 0) => Assign!Assignments(level) = {}
  /\ result = "assigned" => Assign!Unassigned = {}
  /\ result = "empty" => Assign!Assignments(Len(job.options)) = {}

CombineInv == JobTyped /\ EachPlaced(aToB, bToA) /\ LevelsTried

LEMMA CombineStarts == ASSUME Assign!CombineAssumption, Assign!Init PROVE CombineInv
<1>1. JobTyped
  BY DEF Assign!Init, JobTyped, Assign!Nothing
<1>2. Len(job.options) \in Nat \ {0} /\ Assign!As = 1 .. Len(job.options) /\ 0 \notin Assign!Bs
      /\ \A b \in Assign!Bs : Assign!CurrentMax(b) \in Nat
  BY <1>1, JobSizes
<1>3. EachPlaced(aToB, bToA)
  <2>1. \A a \in Assign!As : aToB[a] = 0
    BY DEF Assign!Init, Assign!Nothing
  <2>2. \A b \in Assign!Bs : bToA[b] = <<>>
    BY DEF Assign!Init
  <2>3. \A b \in Assign!Bs : Len(bToA[b]) = 0 /\ DOMAIN bToA[b] = {} /\ Assign!Elements(bToA[b]) = {}
    BY <2>2 DEF Assign!Elements
  <2> QED BY <1>2, <2>1, <2>3 DEF EachPlaced, Agree
<1>4. level = 0 /\ turn = Len(job.options) + 1 /\ result = "none"
  BY DEF Assign!Init
<1>5. Assign!Assignments(level - 1) = {} /\ Assign!Assignments(level) = {}
  <2>1. level \in Int /\ level <= 0 /\ level - 1 \in Int /\ level - 1 <= 0
    BY <1>4
  <2> QED BY <1>1, <2>1, NoRoom
<1>6. LevelsTried
  BY <1>2, <1>4, <1>5 DEF LevelsTried
<1> QED BY <1>1, <1>3, <1>6 DEF CombineInv

LEMMA TurnKeeps == ASSUME Assign!CombineAssumption, CombineInv, Assign!Turn PROVE CombineInv'
<1>1. /\ JobTyped /\ EachPlaced(aToB, bToA) /\ LevelsTried /\ Agree(aToB, bToA)
      /\ job' = job /\ level' = level /\ turn \in Assign!As /\ turn' = turn + 1 /\ result = "none"
  BY DEF CombineInv, EachPlaced, Assign!Turn
<1>2. PICK N \in Nat : N = Len(job.options) /\ Assign!As = 1 .. N /\ N # 0
  BY <1>1, JobSizes
<1>3. Assign!As' = Assign!As /\ Assign!Bs' = Assign!Bs
      /\ Assign!Assignments(level)' = Assign!Assignments(level)
      /\ Assign!Assignments(level - 1)' = Assign!Assignments(level - 1)
      /\ Assign!Assignments(Len(job.options))' = Assign!Assignments(Len(job.options))
  BY <1>1 DEF Assign!As, Assign!Bs, Assign!Assignments
<1>4. turn' \in 1 .. N + 1 /\ level > 0
  BY <1>1, <1>2 DEF LevelsTried
<1>5. ASSUME GivenBs(aToB'), HeldAs(bToA'), EachPlaced(aToB', bToA'), result' \in {"none", "empty"},
             aToB'[turn] = 0 => Assign!Assignments(level) = {},
             \A a \in Assign!As : aToB[a] # 0 => aToB'[a] # 0,
             result' = "empty" => Assign!Assignments(Len(job.options)) = {}
      PROVE  CombineInv'
  <2>1. JobTyped'
    BY <1>1, <1>3, <1>5 DEF JobTyped, GivenBs, HeldAs
  <2>2. EachPlaced(aToB, bToA)'
    BY <1>1, <1>3, <1>5 DEF EachPlaced, Agree, Assign!CurrentMax
  <2>3. ASSUME NEW a \in Assign!As, a < turn', aToB'[a] = 0 PROVE Assign!Assignments(level) = {}
    <3>1. CASE a = turn
      BY <1>5, <2>3, <3>1
    <3>2. CASE a # turn
      <4>1. a < turn /\ aToB[a] = 0
        BY <1>1, <1>2, <1>5, <2>3, <3>2
      <4> QED BY <1>1, <4>1 DEF LevelsTried
    <3> QED BY <3>1, <3>2
  <2>4. Assign!Assignments(level - 1) = {}
    BY <1>1 DEF LevelsTried
  <2>5. LevelsTried'
    BY <1>1, <1>2, <1>3, <1>4, <1>5, <2>3, <2>4 DEF LevelsTried
  <2> QED BY <2>1, <2>2, <2>5 DEF CombineInv
<1>6. CASE Assign!Place
  <2>1. PICK s : s = Assign!FindAugmentingPath(turn)
    OBVIOUS
  <2>2. aToB[turn] = 0 /\ s.end # 0 /\ aToB' = Assign!Flipped(s).aToB
        /\ bToA' = Assign!Flipped(s).bToA
        /\ result' = result
    BY <1>6, <2>1 DEF Assign!Place, Assign!Nothing
  <2>3. Sound(s, turn)
    BY <1>1, <2>1, <2>2, FindKeeps
  <2>4. PICK f : f = Assign!Flipped(s)
    OBVIOUS
  <2>5. /\ GivenBs(f.aToB) /\ HeldAs(f.bToA) /\ EachPlaced(f.aToB, f.bToA)
        /\ (\A a \in Assign!As : aToB[a] # 0 => f.aToB[a] # 0) /\ f.aToB[turn] # 0
    BY <1>1, <2>2, <2>3, <2>4, FlippedKeeps
  <2> QED BY <1>1, <1>5, <2>2, <2>4, <2>5
<1>7. CASE Assign!DeadEnd
  <2>1. aToB[turn] = 0 /\ Assign!FindAugmentingPath(turn).end = 0 /\ aToB' = aToB /\ bToA' = bToA
        /\ result' = IF job.algorithm = "unique" THEN "empty" ELSE result
    BY <1>7 DEF Assign!DeadEnd, Assign!Nothing
  <2>2. Assign!Assignments(level) = {}
    BY <1>1, <2>1, SearchFails
  <2>3. job.algorithm = "unique" => Assign!Assignments(N) = {}
    <3> SUFFICES ASSUME job.algorithm = "unique" PROVE Assign!Assignments(N) = {}
      OBVIOUS
    <3>1. \A b \in Assign!Bs : job.bMax[b] = 1
      BY <1>1 DEF Assign!CombineAssumption, JobTyped, Assign!Bs
    <3>2. level \in Int /\ N \in Int /\ N >= 1 /\ level >= 1
      BY <1>1, <1>2, <1>4 DEF JobTyped
    <3>3. \A b \in Assign!Bs : Limited(N, b) <= Limited(level, b)
      BY <3>1, <3>2 DEF Limited
    <3>4. Assign!Assignments(N) \subseteq Assign!Assignments(level)
      BY <1>1, <3>2, <3>3, Roomier
    <3> QED BY <2>2, <3>4
  <2>4. GivenBs(aToB) /\ HeldAs(bToA)
    BY <1>1 DEF JobTyped, GivenBs, HeldAs
  <2> QED BY <1>1, <1>2, <1>5, <2>1, <2>2, <2>3, <2>4
<1>8. CASE aToB[turn] # Assign!Nothing /\ UNCHANGED <<aToB, bToA, result>>
  <2>1. GivenBs(aToB) /\ HeldAs(bToA) /\ aToB[turn] # 0 /\ aToB' = aToB /\ bToA' = bToA
        /\ result' = result
    BY <1>1, <1>8 DEF JobTyped, GivenBs, HeldAs, Assign!Nothing
  <2> QED BY <1>1, <1>5, <2>1
<1> QED BY <1>6, <1>7, <1>8 DEF Assign!Turn

LEMMA RaiseLevelKeeps == ASSUME Assign!CombineAssumption, CombineInv, Assign!RaiseLevel PROVE CombineInv'
<1>1. /\ JobTyped /\ EachPlaced(aToB, bToA) /\ LevelsTried
      /\ job' = job /\ level' = level + 1 /\ turn \notin Assign!As /\ turn' = 1 /\ result = "none"
      /\ Assign!Unassigned # {} /\ aToB' = aToB /\ bToA' = bToA /\ result' = result
  BY DEF CombineInv, Assign!RaiseLevel
<1>2. PICK N \in Nat : N = Len(job.options) /\ Assign!As = 1 .. N /\ N # 0
  BY <1>1, JobSizes
<1>3. Assign!As' = Assign!As /\ Assign!Bs' = Assign!Bs
  BY <1>1 DEF Assign!As, Assign!Bs
<1>4. level \in Nat /\ level' \in Nat /\ level' - 1 = level /\ level' > 0
  BY <1>1 DEF JobTyped
<1>5. JobTyped'
  BY <1>1, <1>3, <1>4 DEF JobTyped
<1>6. EachPlaced(aToB, bToA)'
  <2>1. \A b \in Assign!Bs : Assign!CurrentMax(b) <= (Assign!CurrentMax(b))'
        /\ (Assign!CurrentMax(b))' \in Nat
                             /\ Assign!CurrentMax(b) \in Nat /\ Len(bToA[b]) \in Nat
    <3>1. \A b \in Assign!Bs : job.bMax[b] \in Nat /\ Len(bToA[b]) \in Nat
      BY <1>1, JobSizes
    <3> QED BY <1>1, <1>4, <3>1 DEF Assign!CurrentMax
  <2>2. \A b \in Assign!Bs : Len(bToA[b]) <= (Assign!CurrentMax(b))'
    <3> SUFFICES ASSUME NEW b \in Assign!Bs PROVE Len(bToA[b]) <= (Assign!CurrentMax(b))'
      OBVIOUS
    <3>1. Len(bToA[b]) <= Assign!CurrentMax(b)
      BY <1>1 DEF EachPlaced
    <3> QED BY <2>1, <3>1
  <2> QED BY <1>1, <1>3, <2>2 DEF EachPlaced, Agree
<1>7. Assign!Assignments(level) = {}
  <2>1. turn = N + 1
    BY <1>1, <1>2 DEF LevelsTried
  <2>2. \E a \in Assign!As : a < turn /\ aToB[a] = 0
    BY <1>1, <1>2, <2>1 DEF Assign!Unassigned, Assign!Nothing
  <2> QED BY <1>1, <2>2 DEF LevelsTried
<1>8. Assign!Assignments(level - 1)' = {}
  BY <1>1, <1>4, <1>7 DEF Assign!Assignments, Assign!As, Assign!Bs
<1>9. LevelsTried'
  <2>1. ~\E a \in Assign!As : a < turn'
    BY <1>1, <1>2
  <2> QED BY <1>1, <1>2, <1>3, <1>4, <1>8, <2>1 DEF LevelsTried
<1> QED BY <1>5, <1>6, <1>9 DEF CombineInv

LEMMA FinishKeeps == ASSUME Assign!CombineAssumption, CombineInv, Assign!Finish PROVE CombineInv'
<1>1. /\ JobTyped /\ EachPlaced(aToB, bToA) /\ LevelsTried /\ turn \notin Assign!As
      /\ UNCHANGED <<job, aToB, bToA, level, turn>>
      /\ Assign!Unassigned = {} \/ ~Assign!CapacityIncreases
      /\ result' = IF Assign!Unassigned = {} THEN "assigned" ELSE "empty"
  BY DEF CombineInv, Assign!Finish
<1>2. PICK N \in Nat : N = Len(job.options) /\ Assign!As = 1 .. N
  BY <1>1, JobSizes
<1>3. JobTyped'
  BY <1>1 DEF JobTyped, Assign!As, Assign!Bs
<1>4. EachPlaced(aToB, bToA)'
  BY <1>1 DEF EachPlaced, Agree, Assign!CurrentMax, Assign!As, Assign!Bs
<1>5. Assign!Unassigned # {} => Assign!Assignments(N) = {}
  <2> SUFFICES ASSUME Assign!Unassigned # {} PROVE Assign!Assignments(N) = {}
    OBVIOUS
  <2>1. turn = N + 1
    BY <1>1, <1>2 DEF LevelsTried
  <2>2. \E a \in Assign!As : a < turn /\ aToB[a] = 0
    BY <1>1, <1>2, <2>1 DEF Assign!Unassigned, Assign!Nothing
  <2>3. Assign!Assignments(level) = {}
    BY <1>1, <2>2 DEF LevelsTried
  <2>4. \A b \in Assign!Bs : job.bMax[b] \in Nat /\ ~(level < job.bMax[b])
    BY <1>1, JobSizes DEF Assign!CapacityIncreases
  <2>5. level \in Int /\ N \in Int
    BY <1>1 DEF JobTyped
  <2>6. \A b \in Assign!Bs : Limited(N, b) <= Limited(level, b)
    BY <2>4, <2>5 DEF Limited
  <2>7. Assign!Assignments(N) \subseteq Assign!Assignments(level)
    BY <1>1, <2>5, <2>6, Roomier
  <2> QED BY <2>3, <2>7
<1>6. Assign!Unassigned' = Assign!Unassigned /\ Assign!As' = Assign!As
      /\ Assign!Assignments(level)' = Assign!Assignments(level)
      /\ Assign!Assignments(level - 1)' = Assign!Assignments(level - 1)
      /\ Assign!Assignments(Len(job.options))' = Assign!Assignments(Len(job.options))
  BY <1>1 DEF Assign!Unassigned, Assign!As, Assign!Bs, Assign!Assignments
<1>7. LevelsTried'
  BY <1>1, <1>2, <1>5, <1>6 DEF LevelsTried
<1> QED BY <1>3, <1>4, <1>7 DEF CombineInv

LEMMA CombineKeeps == ASSUME Assign!CombineAssumption, CombineInv, [Assign!Next]_Assign!vars PROVE CombineInv'
<1>1. CASE UNCHANGED Assign!vars
  <2>1. /\ job' = job /\ aToB' = aToB /\ bToA' = bToA /\ level' = level
        /\ turn' = turn /\ result' = result
    BY <1>1 DEF Assign!vars
  <2>2. JobTyped' /\ EachPlaced(aToB, bToA)'
    BY <2>1 DEF CombineInv, JobTyped, EachPlaced, Agree, Assign!CurrentMax, Assign!As, Assign!Bs
  <2>3. Assign!As' = Assign!As /\ Assign!Unassigned' = Assign!Unassigned
        /\ Assign!Assignments(level)' = Assign!Assignments(level)
        /\ Assign!Assignments(level - 1)' = Assign!Assignments(level - 1)
        /\ Assign!Assignments(Len(job.options))' = Assign!Assignments(Len(job.options))
    BY <2>1 DEF Assign!Unassigned, Assign!As, Assign!Bs, Assign!Assignments
  <2>4. LevelsTried'
    BY <2>1, <2>3 DEF CombineInv, LevelsTried
  <2> QED BY <2>2, <2>4 DEF CombineInv
<1> QED BY <1>1, TurnKeeps, RaiseLevelKeeps, FinishKeeps DEF Assign!Next

\* aToB is an assignment once everyone has a b.
LEMMA CombineInvShows == ASSUME Assign!CombineAssumption, CombineInv PROVE Assign!AssignedWithSpread
<1>1. JobTyped /\ EachPlaced(aToB, bToA) /\ Agree(aToB, bToA) /\ LevelsTried
  BY DEF CombineInv, EachPlaced
<1>2. ASSUME result = "assigned" PROVE aToB \in Assign!Assignments(level)
  <2>1. \A a \in Assign!As : aToB[a] \in Assign!Bs /\ aToB[a] # 0
    BY <1>1, <1>2, JobSizes DEF LevelsTried, Assign!Unassigned, Assign!Nothing, JobTyped
  <2>2. aToB \in [Assign!As -> Assign!Bs]
    BY <1>1, <2>1 DEF JobTyped
  <2>3. \A a \in Assign!As : aToB[a] \in Assign!Elements(job.options[a])
    BY <1>1, <2>1 DEF EachPlaced
  <2>4. ASSUME NEW b \in Assign!Bs PROVE Cardinality({ a \in Assign!As : aToB[a] = b }) <= Assign!CurrentMax(b)
    <3>1. bToA[b] \in Seq(Assign!As)
          /\ (\A j, k \in DOMAIN bToA[b] : bToA[b][j] = bToA[b][k] => j = k)
          /\ Len(bToA[b]) <= Assign!CurrentMax(b)
             /\ \A a \in Assign!As : aToB[a] = b <=> a \in Assign!Elements(bToA[b])
      BY <1>1 DEF JobTyped, Agree, EachPlaced
    <3>2. Assign!Elements(bToA[b]) \subseteq Assign!As
      BY <3>1, ElementsOf
    <3>3. { a \in Assign!As : aToB[a] = b } = Assign!Elements(bToA[b])
      BY <3>1, <3>2
    <3>4. Cardinality(Assign!Elements(bToA[b])) = Len(bToA[b])
      BY <1>1, <3>1, ListCount
    <3> QED BY <3>1, <3>3, <3>4
  <2> QED BY <2>2, <2>3, <2>4, AssignCardinality DEF Assign!Assignments, Assign!CurrentMax
<1> QED BY <1>1, <1>2 DEF Assign!AssignedWithSpread, Agree, EachPlaced, LevelsTried

\* A step of another part is none of the assignment's.
LEMMA AssignRuns == [Next]_vars => [Assign!Next]_Assign!vars
<1>1. AssignTurn => Assign!Next
  BY DEF AssignTurn
<1>2. ASSUME NEW name, name # "assign", Only(name) PROVE UNCHANGED assignVars
  BY <1>2 DEF Only
<1>3. ASSUME Next, ~AssignTurn PROVE UNCHANGED assignVars
  <2>1. PICK name : name # "assign" /\ Only(name)
    BY <1>3 DEF Next, RamCall, RingStep, PoolCall, ForestCall, OwnerCall, PolyCall, CoroStep,
         FenceStep, SwitchStep, SocketStep, StreamCall, LogStep
  <2> QED BY <1>2, <2>1
<1>4. UNCHANGED vars => UNCHANGED assignVars
  BY DEF vars
<1>5. UNCHANGED assignVars => UNCHANGED Assign!vars
  BY DEF assignVars, Assign!vars
<1> QED BY <1>1, <1>3, <1>4, <1>5

(***************************************************************************)
(* For any options and any maxima: while a's are moved to make room the    *)
(* two vectors agree and no b is above the level; what assign returns is   *)
(* an assignment that no other beats in spread, and when it returns        *)
(* nothing there is none (combine.hpp:154-239).                            *)
(***************************************************************************)
THEOREM AssignedWithSpreadAlways == Spec => []AssignedWithSpread
<1>1. Assign!CombineAssumption
  BY CthAssumption
<1>2. Init => CombineInv
  <2>1. Init => Assign!Init
    BY DEF Init
  <2> QED BY <1>1, <2>1, CombineStarts
<1>3. CombineInv /\ [Next]_vars => CombineInv'
  BY <1>1, AssignRuns, CombineKeeps
<1>4. CombineInv => AssignedWithSpread
  BY <1>1, CombineInvShows DEF AssignedWithSpread
<1> QED BY <1>2, <1>3, <1>4, PTL DEF Spec

-----------------------------------------------------------------------------
(* The vector of several types.                                            *)

LEMMA Divided ==
  ASSUME NEW m \in Nat, NEW a \in Nat \ {0}
  PROVE  m % a = 0 <=> \E q \in Nat : m = a * q
<1>1. m \div a \in Nat /\ m = a * (m \div a) + (m % a)
  OBVIOUS
<1>2. ASSUME NEW q \in Nat, m = a * q PROVE m % a = 0
  BY <1>2
<1>3. ASSUME m % a = 0 PROVE \E q \in Nat : m = a * q
  <2>1. PICK q \in Nat : m = a * q + (m % a)
    BY <1>1
  <2>2. a * q \in Nat
    BY <2>1
  <2> QED BY <1>3, <2>1, <2>2
<1> QED BY <1>2, <1>3

LEMMA TypeFacts ==
  /\ Len(Types) \in Nat /\ Len(Types) >= 2 /\ Poly!Blocks = 1 .. Len(Types)
  /\ \A i \in Poly!Blocks :
       /\ Types[i].size \in Nat \ {0} /\ Types[i].align \in Nat \ {0}
       /\ Poly!TypeAlign(i) \in Nat \ {0}
       /\ \E k \in Nat : Poly!TypeAlign(i) = Types[i].align * k
<1>1. /\ Types \in Seq([size : Nat \ {0}, align : Nat \ {0}]) /\ Len(Types) >= 2
      /\ MinAlign \in Nat \ {0}
      /\ \A i \in DOMAIN Types : Types[i].align < MinAlign => MinAlign % Types[i].align = 0
  BY CthAssumption DEF Poly!PolyVectorAssumption
<1>2. Len(Types) \in Nat /\ Poly!Blocks = 1 .. Len(Types) /\ DOMAIN Types = 1 .. Len(Types)
  BY <1>1 DEF Poly!Blocks
<1>3. \A i \in Poly!Blocks : Types[i].size \in Nat \ {0} /\ Types[i].align \in Nat \ {0}
  <2> DEFINE R == [size : Nat \ {0}, align : Nat \ {0}]
  <2>1. \A r \in R : r.size \in Nat \ {0} /\ r.align \in Nat \ {0}
    OBVIOUS
  <2>2. Types \in Seq(R)
    BY <1>1
  <2> HIDE DEF R
  <2>3. \A i \in 1 .. Len(Types) : Types[i] \in R
    BY <2>2
  <2> QED BY <1>2, <2>1, <2>3
<1>4. ASSUME NEW i \in Poly!Blocks
      PROVE  /\ Poly!TypeAlign(i) \in Nat \ {0}
             /\ \E k \in Nat : Poly!TypeAlign(i) = Types[i].align * k
  <2>1. PICK a \in Nat \ {0} : a = Types[i].align
    BY <1>3
  <2>2. CASE a >= MinAlign
    <3>1. Poly!TypeAlign(i) = a
      BY <1>1, <2>1, <2>2 DEF Poly!TypeAlign
    <3>2. a = a * 1 /\ 1 \in Nat
      BY <2>1
    <3> QED BY <2>1, <3>1, <3>2
  <2>3. CASE a < MinAlign
    <3>1. Poly!TypeAlign(i) = MinAlign
      BY <1>1, <2>1, <2>3 DEF Poly!TypeAlign
    <3>2. MinAlign % a = 0
      BY <1>1, <1>2, <2>1, <2>3
    <3>3. \E q \in Nat : MinAlign = a * q
      BY <1>1, <3>2, Divided
    <3> QED BY <1>1, <2>1, <3>1, <3>3
  <2> QED BY <1>1, <2>1, <2>2, <2>3
<1> QED BY <1>1, <1>2, <1>3, <1>4

\* The next multiple (poly_vector.hpp:65).
LEMMA RoundedUp ==
  ASSUME NEW e \in Nat, NEW a \in Nat \ {0}
  PROVE  /\ Poly!RoundUp(e, a) \in Nat /\ e <= Poly!RoundUp(e, a)
         /\ \E k \in Nat : Poly!RoundUp(e, a) = a * k
         /\ e = 0 => Poly!RoundUp(e, a) = 0
<1> DEFINE n == e + a - 1
           q == n \div a
<1>1. n \in Nat
  OBVIOUS
<1>2. q \in Nat /\ a * q <= n /\ n < a * q + a
  <2> HIDE DEF n
  <2> QED BY <1>1
<1>3. Poly!RoundUp(e, a) = q * a
  BY DEF Poly!RoundUp
<1> HIDE DEF q
<1>4. q * a = a * q /\ a * q \in Nat
  BY <1>2
<1>5. e <= a * q
  BY <1>2, <1>4
<1>6. ASSUME e = 0 PROVE q = 0
  <2>1. a * q < a
    BY <1>2, <1>4, <1>6
  <2> QED BY <1>2, <2>1
<1> QED BY <1>2, <1>3, <1>4, <1>5, <1>6

\* Where a block of n elements ends that follows on e.
LaidOut(e, i, n) == Poly!RoundUp(e, Poly!TypeAlign(i)) + Types[i].size * n

LEMMA LaidOutBehind ==
  ASSUME NEW e \in Nat, NEW i \in Poly!Blocks, NEW n \in Nat
  PROVE  LaidOut(e, i, n) \in Nat /\ e <= LaidOut(e, i, n)
<1>1. Poly!RoundUp(e, Poly!TypeAlign(i)) \in Nat /\ e <= Poly!RoundUp(e, Poly!TypeAlign(i))
  BY TypeFacts, RoundedUp
<1>2. Types[i].size * n \in Nat
  BY TypeFacts
<1> QED BY <1>1, <1>2 DEF LaidOut

\* The ends are a function, whatever the lengths.
LEMMA EndsAre ==
  ASSUME NEW sizes \in [Poly!Blocks -> Nat]
  PROVE  /\ Poly!Ends(sizes) \in [0 .. Len(Types) -> Nat]
         /\ Poly!Ends(sizes)[0] = 0
         /\ \A i \in Poly!Blocks :
              Poly!Ends(sizes)[i] = LaidOut(Poly!Ends(sizes)[i - 1], i, sizes[i])
<1> DEFINE last == Len(Types)
           Fits(n, f) == \A i \in 0 .. n :
                           f[i] = IF i = 0 THEN 0 ELSE LaidOut(f[i - 1], i, sizes[i])
           T == { n \in Nat : n <= last => \E f \in [0 .. n -> Nat] : Fits(n, f) }
<1>1. last \in Nat /\ Poly!Blocks = 1 .. last
  BY TypeFacts
<1>2. 0 \in T
  <2> DEFINE f == [i \in 0 .. 0 |-> 0]
  <2>1. f \in [0 .. 0 -> Nat] /\ Fits(0, f)
    OBVIOUS
  <2> QED BY <2>1
<1>3. ASSUME NEW n \in T PROVE n + 1 \in T
  <2>1. n \in Nat /\ n + 1 \in Nat
    OBVIOUS
  <2> SUFFICES ASSUME n + 1 <= last
               PROVE  \E g \in [0 .. n + 1 -> Nat] : Fits(n + 1, g)
    BY <2>1
  <2>2. PICK f \in [0 .. n -> Nat] : Fits(n, f)
    BY <1>1, <2>1
  <2>3. n + 1 \in Poly!Blocks /\ f[n] \in Nat /\ sizes[n + 1] \in Nat
    <3>1. n + 1 \in Poly!Blocks
      BY <1>1, <2>1
    <3>2. n \in 0 .. n
      BY <2>1
    <3> QED BY <2>2, <3>1, <3>2
  <2>4. PICK p \in Nat : p = LaidOut(f[n], n + 1, sizes[n + 1])
    BY <2>3, LaidOutBehind
  <2> DEFINE g == [i \in 0 .. n + 1 |-> IF i = n + 1 THEN p ELSE f[i]]
  <2>5. g \in [0 .. n + 1 -> Nat]
    BY <2>1
  <2>6. g[n + 1] = p /\ \A i \in 0 .. n : g[i] = f[i]
    BY <2>1
  <2> HIDE DEF g
  <2>7. ASSUME NEW i \in 0 .. n + 1
        PROVE  g[i] = IF i = 0 THEN 0 ELSE LaidOut(g[i - 1], i, sizes[i])
    <3>1. CASE i = n + 1
      <4>1. i # 0 /\ i - 1 = n /\ n \in 0 .. n
        BY <2>1, <3>1
      <4> QED BY <2>4, <2>6, <3>1, <4>1
    <3>2. CASE i # n + 1
      <4>1. i \in 0 .. n /\ (i # 0 => i - 1 \in 0 .. n)
        BY <2>1, <3>2
      <4> QED BY <2>2, <2>6, <4>1
    <3> QED BY <3>1, <3>2
  <2> QED BY <2>5, <2>7
<1>4. last \in T
  <2>1. T \subseteq Nat
    OBVIOUS
  <2> HIDE DEF T
  <2> QED BY <1>1, <1>2, <1>3, <2>1, InductionOnNat
<1>5. PICK f \in [0 .. last -> Nat] : Fits(last, f)
  BY <1>1, <1>4
<1> DEFINE IsEnds(e) == e = [i \in 0 .. Len(Types) |->
              IF i = 0 THEN 0
              ELSE Poly!RoundUp(e[i - 1], Poly!TypeAlign(i)) + Types[i].size * sizes[i]]
<1>6. IsEnds(f)
  BY <1>5 DEF LaidOut
<1>7. Poly!Ends(sizes) = CHOOSE e : IsEnds(e)
  BY DEF Poly!Ends
<1>8. IsEnds(Poly!Ends(sizes))
  <2> HIDE DEF IsEnds
  <2> QED BY <1>6, <1>7
<1> DEFINE E == Poly!Ends(sizes)
<1>9. /\ DOMAIN E = 0 .. last
      /\ \A i \in 0 .. last : E[i] = IF i = 0 THEN 0 ELSE LaidOut(E[i - 1], i, sizes[i])
  BY <1>8, Zenon DEF LaidOut
<1> HIDE DEF E
<1> DEFINE S == { n \in Nat : n <= last => E[n] \in Nat }
<1>10. 0 \in S
  BY <1>1, <1>9
<1>11. ASSUME NEW n \in S PROVE n + 1 \in S
  <2> SUFFICES ASSUME n + 1 <= last PROVE E[n + 1] \in Nat
    OBVIOUS
  <2>1. n \in Nat /\ n + 1 \in 0 .. last /\ n + 1 # 0 /\ (n + 1) - 1 = n /\ n + 1 \in Poly!Blocks
        /\ E[n] \in Nat
    BY <1>1
  <2>2. sizes[n + 1] \in Nat
    BY <2>1
  <2>3. E[n + 1] = LaidOut(E[n], n + 1, sizes[n + 1])
    BY <1>9, <2>1
  <2> QED BY <2>1, <2>2, <2>3, LaidOutBehind
<1>12. S = Nat
  <2>1. S \subseteq Nat
    OBVIOUS
  <2> HIDE DEF S
  <2> QED BY <1>10, <1>11, <2>1, InductionOnNat
<1>13. \A i \in 0 .. last : E[i] \in Nat
  BY <1>1, <1>12
<1>14. E \in [0 .. last -> Nat]
  <2>1. E = [i \in 0 .. last |-> E[i]]
    BY <1>8 DEF E
  <2> QED BY <1>13, <2>1
<1>15. E[0] = 0 /\ \A i \in Poly!Blocks : E[i] = LaidOut(E[i - 1], i, sizes[i])
  BY <1>1, <1>9
<1> QED BY <1>14, <1>15 DEF E

\* Later blocks end later.
LEMMA EndsRise ==
  ASSUME NEW sizes \in [Poly!Blocks -> Nat], NEW i \in 0 .. Len(Types),
         NEW j \in i .. Len(Types)
  PROVE  Poly!Ends(sizes)[i] <= Poly!Ends(sizes)[j]
<1> DEFINE last == Len(Types)
           E == Poly!Ends(sizes)
           T == { n \in Nat : i + n <= last => E[i] <= E[i + n] }
<1>1. last \in Nat /\ Poly!Blocks = 1 .. last /\ i \in Nat
  BY TypeFacts
<1>2. /\ E \in [0 .. last -> Nat]
      /\ \A k \in Poly!Blocks : E[k] = LaidOut(E[k - 1], k, sizes[k])
  BY EndsAre
<1> HIDE DEF E
<1>3. 0 \in T
  <2>1. i + 0 = i /\ E[i] \in Nat
    BY <1>1, <1>2
  <2> QED BY <2>1
<1>4. ASSUME NEW n \in T PROVE n + 1 \in T
  <2>1. n \in Nat /\ n + 1 \in Nat
    OBVIOUS
  <2> SUFFICES ASSUME i + (n + 1) <= last PROVE E[i] <= E[i + (n + 1)]
    BY <2>1
  <2>2. PICK k \in Nat : k = i + (n + 1)
    BY <1>1, <2>1
  <2>3. k \in Poly!Blocks /\ k - 1 = i + n /\ k - 1 \in 0 .. last /\ i + n <= last
    BY <1>1, <2>1, <2>2
  <2>4. E[i] <= E[k - 1]
    BY <2>3
  <2>5. E[i] \in Nat /\ E[k - 1] \in Nat /\ sizes[k] \in Nat
    BY <1>1, <1>2, <2>3
  <2>6. E[k] = LaidOut(E[k - 1], k, sizes[k])
    BY <1>2, <2>3
  <2>7. E[k] \in Nat /\ E[k - 1] <= E[k]
    BY <2>3, <2>5, <2>6, LaidOutBehind
  <2> QED BY <2>2, <2>4, <2>5, <2>7
<1>5. T = Nat
  <2>1. T \subseteq Nat
    OBVIOUS
  <2> HIDE DEF T
  <2> QED BY <1>3, <1>4, <2>1, InductionOnNat
<1>6. j - i \in T /\ i + (j - i) = j /\ j <= last
  <2>1. j - i \in Nat /\ i + (j - i) = j /\ j <= last
    BY <1>1
  <2> HIDE DEF T
  <2> QED BY <1>5, <2>1
<1>7. E[i] <= E[j]
  BY <1>6
<1> QED BY <1>7 DEF E

LEMMA SizesAre ==
  ASSUME NEW shape \in Poly!Shapes
  PROVE  /\ Poly!SizesArray(shape) \in [Poly!Blocks -> Nat]
         /\ Poly!SizesArray(shape)[1] = Len(Types) - 1
         /\ \A i \in 2 .. Len(Types) : Poly!SizesArray(shape)[i] = shape[i]
<1>1. Lengths \subseteq Nat
  BY CthAssumption DEF Poly!PolyVectorAssumption
<1>2. shape \in [2 .. Len(Types) -> Nat]
  BY <1>1 DEF Poly!Shapes
<1>3. Len(Types) \in Nat /\ Len(Types) >= 2 /\ Poly!Blocks = 1 .. Len(Types)
  BY TypeFacts
<1>4. ASSUME NEW i \in Poly!Blocks
      PROVE  (IF i = 1 THEN Len(Types) - 1 ELSE shape[i]) \in Nat
  <2>1. i # 1 => i \in 2 .. Len(Types)
    BY <1>3
  <2> QED BY <1>2, <1>3, <2>1
<1> QED BY <1>2, <1>3, <1>4 DEF Poly!SizesArray

\* A buffer is of its shape; what is written are the lengths or everything.
Buffered(v) ==
  /\ v.shape \in Poly!Shapes
  /\ v.begins = Poly!Realloc(v.shape).begins /\ v.bytes = Poly!Realloc(v.shape).bytes
  /\ v.written \in {Types[1].size * (Len(Types) - 1), v.bytes}

PolyInv == \A o \in DOMAIN vector : vector[o].bytes = 0 \/ Buffered(vector[o])

\* A block begins aligned behind the end of the one before, and ends at its end.
LEMMA BlockIs ==
  ASSUME NEW v, Buffered(v), NEW i \in Poly!Blocks, NEW E, E = Poly!Ends(Poly!SizesArray(v.shape))
  PROVE  /\ E \in [0 .. Len(Types) -> Nat] /\ E[0] = 0 /\ v.bytes = E[Len(Types)]
         /\ v.begins[i] \in Nat /\ E[i - 1] <= v.begins[i]
         /\ v.begins[i] % Types[i].align = 0
         /\ i = 1 => v.begins[i] = 0
         /\ v.begins[i] + Types[i].size * Poly!SizesArray(v.shape)[i] = E[i]
         /\ Poly!Block(v, i) = v.begins[i] .. E[i] - 1
<1>1. v.shape \in Poly!Shapes /\ Len(Types) \in Nat /\ Len(Types) >= 2
      /\ Poly!Blocks = 1 .. Len(Types)
  BY TypeFacts DEF Buffered
<1>2. Poly!SizesArray(v.shape) \in [Poly!Blocks -> Nat]
  BY <1>1, SizesAre
<1>3. PICK sizes \in [Poly!Blocks -> Nat] : sizes = Poly!SizesArray(v.shape)
  BY <1>2
<1>4. E \in [0 .. Len(Types) -> Nat] /\ E[0] = 0 /\ E[i] = LaidOut(E[i - 1], i, sizes[i])
  BY <1>3, EndsAre
<1>5. v.bytes = E[Len(Types)] /\ v.begins[i] = Poly!RoundUp(E[i - 1], Poly!TypeAlign(i))
  BY <1>3 DEF Buffered, Poly!Realloc
<1>6. PICK b : b = v.begins[i]
  OBVIOUS
<1>7. PICK e \in Nat : e = E[i - 1]
  <2>1. i - 1 \in 0 .. Len(Types)
    BY <1>1
  <2> QED BY <1>4, <2>1
<1>8. PICK a \in Nat \ {0} : a = Poly!TypeAlign(i)
  BY TypeFacts
<1>9. b \in Nat /\ e <= b /\ (e = 0 => b = 0) /\ \E k \in Nat : b = a * k
  <2>1. b = Poly!RoundUp(e, a)
    BY <1>5, <1>6, <1>7, <1>8
  <2> QED BY <2>1, RoundedUp
<1>10. b % Types[i].align = 0
  <2>1. PICK c \in Nat \ {0} : c = Types[i].align
    BY TypeFacts
  <2>2. PICK m \in Nat : a = c * m
    BY <1>8, <2>1, TypeFacts
  <2>3. PICK k \in Nat : b = a * k
    BY <1>9
  <2>4. b = c * (m * k) /\ m * k \in Nat
    BY <2>2, <2>3
  <2>5. b % c = 0
    BY <1>9, <2>4, Divided
  <2> QED BY <2>1, <2>5
<1>11. i = 1 => b = 0
  <2>1. i = 1 => e = 0
    BY <1>4, <1>7
  <2> QED BY <1>9, <2>1
<1>12. b + Types[i].size * sizes[i] = E[i]
  BY <1>4, <1>5, <1>6 DEF LaidOut
<1>13. Poly!Block(v, i) = b .. E[i] - 1
  <2>1. Poly!Block(v, i) = b .. (b + Types[i].size * sizes[i]) - 1
    <3>1. Types[i].size * sizes[i] \in Nat
      <4>1. PICK x \in Nat, y \in Nat : x = Types[i].size /\ y = sizes[i]
        BY TypeFacts
      <4> QED BY <4>1
    <3>2. PICK n \in Nat : n = Types[i].size * sizes[i]
      BY <3>1
    <3>3. Poly!Block(v, i) = b .. b + n - 1
      BY <1>3, <1>6, <3>2 DEF Poly!Block
    <3> QED BY <1>9, <3>2, <3>3
  <2> QED BY <1>12, <2>1
<1> QED BY <1>3, <1>4, <1>5, <1>6, <1>7, <1>9, <1>10, <1>11, <1>12, <1>13

LEMMA PolyMeans == PolyInv => Poly!BlocksApart
<1> SUFFICES ASSUME PolyInv, NEW o \in DOMAIN vector, Poly!Usable(o), NEW v, v = vector[o]
             PROVE  /\ \A i \in Poly!Blocks :
                         /\ v.begins[i] % Types[i].align = 0
                         /\ Poly!Block(v, i) \subseteq 0 .. v.bytes - 1
                         /\ \A j \in Poly!Blocks \ {i} :
                              Poly!Block(v, i) \cap Poly!Block(v, j) = {}
                    /\ v.written <= v.bytes
                    /\ Poly!Block(v, 1) \subseteq 0 .. v.written - 1
                    /\ \/ v.written = Poly!Cardinality(Poly!Block(v, 1))
                       \/ \A i \in Poly!Blocks : Poly!Block(v, i) \subseteq 0 .. v.written - 1
  BY Zenon DEF Poly!BlocksApart
<1>1. Buffered(v)
  <2>1. v.bytes # 0
    BY DEF Poly!Usable
  <2> QED BY <2>1 DEF PolyInv
<1>2. PICK last \in Nat : last = Len(Types) /\ last >= 2 /\ Poly!Blocks = 1 .. last
  BY TypeFacts
<1>3. PICK sizes \in [Poly!Blocks -> Nat] :
        sizes = Poly!SizesArray(v.shape) /\ sizes[1] = last - 1
  BY <1>1, <1>2, SizesAre DEF Buffered
<1>4. PICK E : E = Poly!Ends(sizes)
  OBVIOUS
<1>5. /\ E \in [0 .. last -> Nat] /\ E[0] = 0 /\ v.bytes = E[last]
      /\ \A i \in Poly!Blocks :
           /\ v.begins[i] \in Nat /\ E[i - 1] <= v.begins[i]
           /\ v.begins[i] % Types[i].align = 0
           /\ i = 1 => v.begins[i] = 0
           /\ v.begins[i] + Types[i].size * sizes[i] = E[i]
           /\ Poly!Block(v, i) = v.begins[i] .. E[i] - 1
  <2>1. E = Poly!Ends(Poly!SizesArray(v.shape)) /\ 1 \in Poly!Blocks
    BY <1>2, <1>3, <1>4
  <2> QED BY <1>1, <1>2, <1>3, <2>1, BlockIs
<1>6. \A i \in 0 .. last : \A j \in i .. last : E[i] <= E[j]
  BY <1>2, <1>4, EndsRise
<1>7. ASSUME NEW i \in Poly!Blocks
      PROVE  Poly!Block(v, i) \subseteq 0 .. v.bytes - 1
  <2>1. E[i] \in Nat /\ E[last] \in Nat /\ E[i] <= E[last]
    BY <1>2, <1>5, <1>6
  <2>2. v.begins[i] \in Nat /\ Poly!Block(v, i) = v.begins[i] .. E[i] - 1 /\ v.bytes = E[last]
    BY <1>5
  <2> QED BY <2>1, <2>2
<1>8. ASSUME NEW i \in Poly!Blocks, NEW j \in Poly!Blocks, i < j
      PROVE  Poly!Block(v, i) \cap Poly!Block(v, j) = {}
  <2>1. i \in 0 .. last /\ j - 1 \in i .. last /\ j - 1 \in 0 .. last
    BY <1>2, <1>8
  <2>2. E[i] \in Nat /\ E[j - 1] \in Nat /\ E[i] <= E[j - 1]
    BY <1>5, <1>6, <2>1
  <2>3. v.begins[j] \in Nat /\ E[j - 1] <= v.begins[j]
    BY <1>5
  <2>4. \A x \in Poly!Block(v, i) : x < E[i]
    <3>1. Poly!Block(v, i) = v.begins[i] .. E[i] - 1 /\ v.begins[i] \in Nat
      BY <1>5
    <3> QED BY <2>2, <3>1
  <2>5. \A x \in Poly!Block(v, j) : x \in Int /\ v.begins[j] <= x
    <3>1. Poly!Block(v, j) = v.begins[j] .. E[j] - 1
      BY <1>5
    <3> QED BY <2>3, <3>1
  <2> QED BY <2>2, <2>3, <2>4, <2>5
<1>9. \A i \in Poly!Blocks : \A j \in Poly!Blocks \ {i} :
        Poly!Block(v, i) \cap Poly!Block(v, j) = {}
  <2> SUFFICES ASSUME NEW i \in Poly!Blocks, NEW j \in Poly!Blocks \ {i}
               PROVE  Poly!Block(v, i) \cap Poly!Block(v, j) = {}
    OBVIOUS
  <2>1. i < j \/ j < i
    BY <1>2
  <2>2. j < i => Poly!Block(v, j) \cap Poly!Block(v, i) = {}
    BY <1>8
  <2> QED BY <1>8, <2>1, <2>2
<1>10. PICK n \in Nat : n = Types[1].size * (last - 1) /\ E[1] = n /\ Poly!Block(v, 1) = 0 .. n - 1
  <2>1. 1 \in Poly!Blocks
    BY <1>2
  <2>2. v.begins[1] = 0 /\ v.begins[1] + Types[1].size * sizes[1] = E[1]
        /\ Poly!Block(v, 1) = v.begins[1] .. E[1] - 1 /\ E[1] \in Nat
    BY <1>2, <1>5, <2>1
  <2>3. PICK x \in Nat : x = Types[1].size
    BY <2>1, TypeFacts
  <2>4. x * (last - 1) \in Nat
    BY <1>2, <2>3
  <2> QED BY <1>3, <2>2, <2>3, <2>4
<1>11. v.bytes \in Nat /\ n <= v.bytes
  <2>1. 1 \in 0 .. last /\ last \in 1 .. last
    BY <1>2
  <2> QED BY <1>5, <1>6, <1>10, <2>1
<1>12. v.written \in {n, v.bytes}
  BY <1>1, <1>2, <1>10 DEF Buffered
<1>13. Poly!Cardinality(Poly!Block(v, 1)) = n
  <2>1. \A S : Poly!Cardinality(S) = Cardinality(S)
    BY DEF Poly!Cardinality, Cardinality
  <2>2. Cardinality(0 .. n - 1) = n
    BY FS_Interval
  <2> QED BY <1>10, <2>1, <2>2
<1>14. v.written <= v.bytes /\ Poly!Block(v, 1) \subseteq 0 .. v.written - 1
  BY <1>10, <1>11, <1>12
<1> QED BY <1>5, <1>7, <1>9, <1>12, <1>13, <1>14

\* A new buffer has the shape it is allocated for.
LEMMA Reallocated ==
  ASSUME NEW shape \in Poly!Shapes, NEW written,
         written \in {Types[1].size * (Len(Types) - 1), Poly!Realloc(shape).bytes}
  PROVE  Buffered(Poly!With(Poly!Realloc(shape), shape, written))
BY DEF Buffered, Poly!With

\* The copied piece is the whole buffer.
LEMMA CopiedWhole ==
  ASSUME NEW v, Buffered(v)
  PROVE  Poly!MinRawSize(v) = Poly!Realloc(v.shape).bytes
<1>1. PICK last \in Nat : last = Len(Types) /\ last >= 2 /\ Poly!Blocks = 1 .. last
  BY TypeFacts
<1>2. PICK E : E = Poly!Ends(Poly!SizesArray(v.shape))
  OBVIOUS
<1>3. last \in Poly!Blocks
  BY <1>1
<1>4. v.bytes = E[last] /\ v.begins[last] + Types[last].size * Poly!SizesArray(v.shape)[last] = E[last]
  BY <1>1, <1>2, <1>3, BlockIs
<1>5. Poly!SizesArray(v.shape)[last] = v.shape[last]
  <2>1. last \in 2 .. Len(Types)
    BY <1>1
  <2> QED BY <2>1, SizesAre DEF Buffered
<1> QED BY <1>1, <1>4, <1>5 DEF Buffered, Poly!MinRawSize

LEMMA PolyInit == Init => PolyInv
<1>1. DOMAIN << >> = {}
  OBVIOUS
<1> QED BY <1>1 DEF Init, Poly!Init, PolyInv

LEMMA PolyStepKeeps ==
  ASSUME PolyInv, Poly!Next
  PROVE  PolyInv'
<1>1. ASSUME NEW o \in Objects, NEW shape \in Poly!Shapes, Poly!Construct(o, shape)
      PROVE  PolyInv'
  <2> DEFINE new == Poly!With(Poly!Realloc(shape), shape, Types[1].size * Poly!SizesArray(shape)[1])
  <2>1. Buffered(new)
    <3>1. Poly!SizesArray(shape)[1] = Len(Types) - 1
      BY SizesAre
    <3> QED BY <3>1, Reallocated
  <2>2. vector' = [x \in DOMAIN vector \cup {o} |-> IF x = o THEN new ELSE vector[x]]
    BY <1>1 DEF Poly!Construct
  <2> HIDE DEF new
  <2> QED BY <2>1, <2>2 DEF PolyInv
<1>2. ASSUME NEW o \in Objects, NEW from \in DOMAIN vector, Poly!Copy(o, from)
      PROVE  PolyInv'
  <2> DEFINE new == Poly!With(Poly!Realloc(vector[from].shape), vector[from].shape,
                              Poly!MinRawSize(vector[from]))
  <2>1. Buffered(vector[from])
    <3>1. vector[from].bytes # 0
      BY <1>2 DEF Poly!Copy, Poly!Usable
    <3> QED BY <3>1 DEF PolyInv
  <2>2. Buffered(new)
    <3>1. vector[from].shape \in Poly!Shapes
      BY <2>1 DEF Buffered
    <3> QED BY <2>1, <3>1, CopiedWhole, Reallocated
  <2>3. vector' = [x \in DOMAIN vector \cup {o} |-> IF x = o THEN new ELSE vector[x]]
    BY <1>2 DEF Poly!Copy
  <2> HIDE DEF new
  <2> QED BY <2>2, <2>3 DEF PolyInv
<1>3. ASSUME NEW o \in Objects, NEW from \in DOMAIN vector, Poly!Move(o, from)
      PROVE  PolyInv'
  <2>1. Poly!NoBuffer.bytes = 0
    BY DEF Poly!NoBuffer
  <2>2. vector' = [x \in DOMAIN vector \cup {o} |->
                     IF x = from THEN Poly!NoBuffer ELSE IF x = o THEN vector[from] ELSE vector[x]]
    BY <1>3 DEF Poly!Move
  <2> QED BY <2>1, <2>2 DEF PolyInv
<1>4. ASSUME NEW o \in DOMAIN vector, Poly!Destroy(o)
      PROVE  PolyInv'
  BY <1>4 DEF Poly!Destroy, PolyInv
<1> QED BY <1>1, <1>2, <1>3, <1>4 DEF Poly!Next

-----------------------------------------------------------------------------
(* What the library's runs check of these parts.                           *)

Inv ==
  /\ unit = "ring" => RingInv
  /\ unit = "owner" => OwnerInv
  /\ unit = "fence" => FenceInv
  /\ unit = "switch" => SwitchInv
  /\ unit = "socket" => SocketInv
  /\ unit = "stream" => StreamInv
  /\ unit = "pool" => PoolInv
  /\ unit = "log" => LogInv
  /\ unit = "poly" => PolyInv

LEMMA InvInit == Init => Inv
  BY RingInit, OwnerInit, FenceInit, SwitchInit, SocketInit, StreamInit,
     PoolInit, LogInit, PolyInit
  DEF Inv

LEMMA InvStep == Inv /\ [Next]_vars => Inv'
<1> SUFFICES ASSUME Inv, [Next]_vars PROVE Inv'
  OBVIOUS
<1>1. CASE Next
  <2>1. unit' = unit
    BY <1>1, StepOfPart
  <2>2. unit = "ring" => RingInv'
    BY <1>1, StepOfPart, RingStepKeeps DEF Inv
  <2>3. unit = "owner" => OwnerInv'
    BY <1>1, StepOfPart, OwnerStepKeeps DEF Inv
  <2>4. unit = "fence" => FenceInv'
    BY <1>1, StepOfPart, FenceStepKeeps DEF Inv
  <2>5. unit = "switch" => SwitchInv'
    BY <1>1, StepOfPart, SwitchStepKeeps DEF Inv
  <2>6. unit = "socket" => SocketInv'
    BY <1>1, StepOfPart, SocketStepKeeps DEF Inv
  <2>7. unit = "log" => LogInv'
    BY <1>1, StepOfPart, LogStepKeeps DEF Inv
  <2>8. unit = "stream" => StreamInv'
    BY <1>1, StepOfPart, StreamStepKeeps DEF Inv
  <2>9. unit = "pool" => PoolInv'
    BY <1>1, StepOfPart, PoolStepKeeps DEF Inv
  <2>10. unit = "poly" => PolyInv'
    BY <1>1, StepOfPart, PolyStepKeeps DEF Inv
  <2> QED BY <2>1, <2>2, <2>3, <2>4, <2>5, <2>6, <2>7, <2>8, <2>9, <2>10 DEF Inv
<1>2. CASE UNCHANGED vars
  <2>1. unit' = unit /\ UNCHANGED ringVars /\ UNCHANGED ownerVars
        /\ UNCHANGED fenceVars /\ UNCHANGED switchVars /\ UNCHANGED socketVars
        /\ UNCHANGED poolVars /\ UNCHANGED streamVars /\ UNCHANGED checkVars
        /\ vector' = vector
    BY <1>2 DEF vars
  <2>2. RingInv => RingInv'
    BY <2>1 DEF ringVars, RingInv, RingTypes, BetweenCounters, CallSafe
  <2>3. OwnerInv => OwnerInv'
    BY <2>1
    DEF ownerVars, OwnerInv, OwnerTypes, OwnedApart, RefersToOpen, OneOwner, Accounted, Resources
  <2>4. FenceInv => FenceInv'
    BY <2>1 DEF fenceVars, FenceInv, Fence!SleepersWoken
  <2>5. SwitchInv => SwitchInv'
    BY <2>1 DEF switchVars, SwitchInv, Switch!SwitchBalanced
  <2>6. SocketInv => SocketInv'
    BY <2>1
    DEF socketVars, SocketInv, SocketTypes, QueueGoesOn, SomeReaderFree, Socket!Signaled,
        BetweenCalls, ReadAsWaited, Overtaken
  <2>7. LogInv => LogInv'
    BY <2>1
    DEF checkVars, LogInv, Shown, Log!FailuresReported, Log!Ended, Log!IsCheck, Log!Enabled,
        Log!CriticalsOn, Log!ErrorsOn, Log!WarningsOn, Log!InfosOn, Log!LogsOn, Log!Severity
  <2>8. StreamInv => StreamInv'
    BY <2>1 DEF streamVars, StreamInv
  <2>9. PoolInv => PoolInv'
    BY <2>1, PoolUnchanged
  <2>10. PolyInv => PolyInv'
    BY <2>1 DEF PolyInv
  <2> QED BY <2>1, <2>2, <2>3, <2>4, <2>5, <2>6, <2>7, <2>8, <2>9, <2>10 DEF Inv
<1> QED BY <1>1, <1>2

LEMMA InvAlways == Spec => []Inv
  BY InvInit, InvStep, PTL DEF Spec

(***************************************************************************)
(* For any number of threads, any size of the ring and any sizes asked     *)
(* for: regions held at the same time share no byte, and in a quiet moment *)
(* max_alloc is exact (ringalloc.hpp:49-142).                              *)
(***************************************************************************)
THEOREM RegionsDisjointAlways == Spec => []RegionsDisjoint
<1>1. Inv => RegionsDisjoint
  BY RegionsApart, MaxAllocIsExact DEF Inv, RegionsDisjoint
<1> QED BY <1>1, InvAlways, PTL

(***************************************************************************)
(* For any number of handles: what they own is closed once, never while    *)
(* one of them refers to it, and never lost (native_handle.hpp,            *)
(* unique_cohandle.hpp, poly_vector.hpp).                                  *)
(***************************************************************************)
THEOREM OwnedOnceAlways == Spec => []OwnedOnce
<1>1. Inv => OwnedOnce
  BY OwnerMeans DEF Inv, OwnedOnce
<1> QED BY <1>1, InvAlways, PTL

(***************************************************************************)
(* For any finite number of threads: nobody sleeps through a fence that    *)
(* stays signaled (atomic_fence.hpp:15-28), and every on of the switch has *)
(* its off (global_switch.hpp:30-67), however the calls interleave.        *)
(***************************************************************************)
THEOREM WakesAndBalancesAlways == Spec => []WakesAndBalances
<1>1. Inv => WakesAndBalances
  BY DEF Inv, FenceInv, SwitchInv, WakesAndBalances
<1> QED BY <1>1, InvAlways, PTL

(***************************************************************************)
(* For any number of readers and messages, and any interleaving of their   *)
(* calls to wait(), got_text() and the reads: what is read from a          *)
(* connection is what was sent, in order and once; a read that gets        *)
(* another message than its wait() was for, takes it as the other kind, or *)
(* finds none at all was overtaken by another reader; and the readers      *)
(* never block the workers of all of them (websocket.hpp:45-118).          *)
(***************************************************************************)
THEOREM MessagesReadOnceAlways == Spec => []MessagesReadOnce
<1>1. Inv => MessagesReadOnce
  BY SocketMeans DEF Inv, MessagesReadOnce
<1> QED BY <1>1, InvAlways, PTL

(***************************************************************************)
(* In every build a failing check (log.hpp) is reported once if its level  *)
(* is printed, and ends the program exactly if it is a critical one that   *)
(* is compiled in.                                                         *)
(***************************************************************************)
THEOREM FailuresReportedAlways == Spec => []FailuresReported
<1>1. Inv => FailuresReported
  BY DEF Inv, LogInv, FailuresReported
<1> QED BY <1>1, InvAlways, PTL

(***************************************************************************)
(* For any colours and any depth of the stack: every chunk of a colored    *)
(* stream comes out in the state its caller asked for, a log message       *)
(* leaves the stream as it was (console.hpp:222-330).                      *)
(***************************************************************************)
THEOREM PrintedAsWantedAlways == Spec => []PrintedAsWanted
<1>1. Inv => PrintedAsWanted
  BY StreamMeans DEF Inv, PrintedAsWanted
<1> QED BY <1>1, InvAlways, PTL

(***************************************************************************)
(* For any types and lengths: the arrays in the buffer of a poly_vector    *)
(* (poly_vector.hpp:50-82) are aligned for their types and share no byte,  *)
(* and a copy writes all of them and nothing behind (poly_vector.hpp:185). *)
(***************************************************************************)
THEOREM BlocksApartAlways == Spec => []BlocksApart
<1>1. Inv => BlocksApart
  BY PolyMeans DEF Inv, BlocksApart
<1> QED BY <1>1, InvAlways, PTL

LEMMA RefusalStep ==
  ASSUME Inv, [Next]_vars
  PROVE  [\A t \in Threads : Ring!Refuse(t) /\ call[t].head = head => NoRoomBehindHead(t)]_ringVars
<1>1. CASE unit = "ring"
  BY <1>1, RefusedForRoom DEF Inv
<1>2. CASE unit # "ring" \/ UNCHANGED vars
  <2>1. UNCHANGED ringVars
    BY <1>2 DEF vars, Next, RamCall, RingStep, PoolCall, ForestCall, OwnerCall, PolyCall, CoroStep,
         FenceStep, SwitchStep, SocketStep, AssignTurn, StreamCall, LogStep, Only
  <2> QED BY <2>1
<1> QED BY <1>1, <1>2

(***************************************************************************)
(* For any number of threads and any size of the ring: a call that is      *)
(* refused with the head it read still current was refused for lack of     *)
(* room (ringalloc.hpp:72-74).                                             *)
(***************************************************************************)
THEOREM RefusalsHonestAlways == Spec => RefusalsHonest
<1>1. Inv /\ [Next]_vars =>
        [\A t \in Threads : Ring!Refuse(t) /\ call[t].head = head => NoRoomBehindHead(t)]_ringVars
  BY RefusalStep
<1> QED BY <1>1, InvAlways, PTL
   DEF Spec, RefusalsHonest, Ring!RefusalsHonest, Ring!vars, ringVars, NoRoomBehindHead

(***************************************************************************)
(* For any number of threads and resources: a resource of a thread pool is *)
(* on the stack once or bound to one thread id, and nobody gets one that   *)
(* carries the marks of another (thread_pool.hpp:54-79).                   *)
(***************************************************************************)
THEOREM ResourcesApartAlways == Spec => []ResourcesApart
<1>1. Inv => ResourcesApart
  BY DEF Inv, PoolInv, ResourcesApart
<1> QED BY <1>1, InvAlways, PTL

-----------------------------------------------------------------------------
(* The coroutines.  Their invariants are proved in CoroutineProofs; what   *)
(* Cth takes from Coroutines is what the proofs are about.                 *)

CoroP == INSTANCE CoroutineProofs

LEMMA CoroAssumed ==
  /\ CoroP!CoroutinesAssumption
  /\ \A p : Coro!CatchesOwn(p) <=> CoroP!CatchesOwn(p)
<1> USE DEF Coro!Statements, Coro!AwaitedBy, Coro!IsStatement, Coro!CapturesOnce, Coro!CatchesOwn,
      Coro!IsCapture, Coro!Schedulers, Coro!None, Coro!Root,
      CoroP!Statements, CoroP!AwaitedBy, CoroP!IsStatement, CoroP!CapturesOnce, CoroP!CatchesOwn,
      CoroP!IsCapture, CoroP!Schedulers, CoroP!None, CoroP!Root
<1>1. \A p : Coro!IsProgram(p) <=> CoroP!IsProgram(p)
  BY DEF Coro!IsProgram, CoroP!IsProgram
<1>2. Coro!CoroutinesAssumption
  BY CthAssumption
<1> QED BY <1>1, <1>2 DEF Coro!CoroutinesAssumption, CoroP!CoroutinesAssumption

LEMMA CoroInit == Init => CoroP!Init
  BY DEF Init, Coro!Init, Coro!Names, Coro!Capture, Coro!Root, Coro!None, Coro!IsCapture,
    Coro!Kind, Coro!AllThreads, Coro!Idle, Coro!Schedulers, CoroP!Init, CoroP!Names,
    CoroP!Capture, CoroP!Root, CoroP!None, CoroP!IsCapture, CoroP!Kind, CoroP!AllThreads,
    CoroP!Idle, CoroP!Schedulers

LEMMA CoroNext == Coro!Next => CoroP!Next
<1> USE DEF Coro!None, Coro!Root, Coro!Scheduler, Coro!Idle, Coro!In, Coro!Leave,
      Coro!Enter, CoroP!None, CoroP!Root, CoroP!Scheduler, CoroP!Idle, CoroP!In,
      CoroP!Leave, CoroP!Enter
<1>0. /\ \A f : /\ Coro!Step(f) = CoroP!Step(f) /\ (Coro!AtEnd(f) <=> CoroP!AtEnd(f))
                 /\ Coro!Kind(f) = CoroP!Kind(f) /\ (Coro!IsCapture(f) <=> CoroP!IsCapture(f))
                 /\ (Coro!IsThisCoro(f) <=> CoroP!IsThisCoro(f))
      /\ \A f, d : Coro!Awaited(f, d) = CoroP!Awaited(f, d)
      /\ \A f, d : Coro!Payload(f, d) = CoroP!Payload(f, d)
      /\ \A frames, f, d : Coro!Resumed(frames, f, d) = CoroP!Resumed(frames, f, d)
      /\ Coro!Names = CoroP!Names
  BY DEF Coro!AwaitOf, Coro!ScheduleOn, Coro!IsCapture, Coro!Capture, Coro!Kind,
    Coro!IsThisCoro, Coro!Steal, Coro!Awaited, Coro!Body, Coro!Step, Coro!AtEnd,
    Coro!Resumed, Coro!Payload, Coro!Names, CoroP!AwaitOf, CoroP!ScheduleOn,
    CoroP!IsCapture, CoroP!Capture, CoroP!Kind, CoroP!IsThisCoro, CoroP!Steal,
    CoroP!Awaited, CoroP!Body, CoroP!Step, CoroP!AtEnd, CoroP!Resumed, CoroP!Payload,
    CoroP!Names
<1>1. \A t : Coro!Await(t) => CoroP!Await(t)
  BY <1>0 DEF Coro!Await, CoroP!Await
<1>2. \A t : Coro!Schedule(t) => CoroP!Schedule(t)
  BY <1>0 DEF Coro!Schedule, CoroP!Schedule
<1>3. \A t : Coro!Post(t) => CoroP!Post(t)
  BY <1>0 DEF Coro!Post, CoroP!Post
<1>4. \A t : Coro!Wait(t) => CoroP!Wait(t)
  BY <1>0 DEF Coro!Wait, CoroP!Wait
<1>5. \A t : Coro!Return(t) => CoroP!Return(t)
  BY <1>0 DEF Coro!Return, CoroP!Return
<1>6. \A t : Coro!Signal(t) => CoroP!Signal(t)
  BY <1>0 DEF Coro!Signal, CoroP!Signal
<1>7. \A t : Coro!Notify(t) => CoroP!Notify(t)
  BY <1>0 DEF Coro!Notify, CoroP!Notify
<1>8. \A t : Coro!Resume(t) => CoroP!Resume(t)
  BY <1>0 DEF Coro!Resume, CoroP!Resume
<1>9. \A s : Coro!Fire(s) => CoroP!Fire(s)
  BY DEF Coro!Fire, CoroP!Fire
<1>10. Coro!Start => CoroP!Start
  BY <1>0 DEF Coro!Start, CoroP!Start
<1>11. Coro!FallAsleep => CoroP!FallAsleep
  BY <1>0 DEF Coro!FallAsleep, CoroP!FallAsleep
<1>12. Coro!Deliver => CoroP!Deliver
  BY <1>0 DEF Coro!Deliver, CoroP!Deliver
<1> QED BY ONLY <1>1, <1>2, <1>3, <1>4, <1>5, <1>6, <1>7, <1>8, <1>9, <1>10, <1>11, <1>12
        DEF Coro!Next, CoroP!Next, Coro!AllThreads, CoroP!AllThreads, Coro!Schedulers,
        CoroP!Schedulers, Coro!None, CoroP!None

\* A step of another part is none of the coroutines'.
LEMMA CoroRuns == [Next]_vars => [CoroP!Next]_CoroP!vars
<1>1. CoroStep => CoroP!Next
  BY CoroNext DEF CoroStep
<1>2. ASSUME NEW name, name # "coro", Only(name) PROVE UNCHANGED coroVars
  BY <1>2 DEF Only
<1>3. ASSUME Next, ~CoroStep PROVE UNCHANGED coroVars
  <2>1. PICK name : name # "coro" /\ Only(name)
    BY <1>3 DEF Next, RamCall, RingStep, PoolCall, ForestCall, OwnerCall, PolyCall,
         FenceStep, SwitchStep, SocketStep, AssignTurn, StreamCall, LogStep
  <2> QED BY <1>2, <2>1
<1>4. UNCHANGED vars => UNCHANGED coroVars
  BY DEF vars
<1>5. UNCHANGED coroVars => UNCHANGED CoroP!vars
  BY DEF coroVars, CoroP!vars
<1> QED BY <1>1, <1>3, <1>4, <1>5

LEMMA CoroAlways == Spec => []CoroP!Inv
<1>1. Init => CoroP!Inv
  BY CoroInit, CoroAssumed, CoroP!Begins
<1>2. CoroP!Inv /\ [Next]_vars => CoroP!Inv'
  BY CoroRuns, CoroP!StepKeeps
<1> QED BY <1>1, <1>2, PTL DEF Spec

(***************************************************************************)
(* For every program that compiles, any schedulers and any number of their *)
(* workers: a coroutine that runs is run by one thread, one that is        *)
(* suspended will be resumed from one place (schedule_awaiter.hpp:13-39,   *)
(* final_sync_awaiter.hpp).                                                *)
(***************************************************************************)
THEOREM OneResumerAlways == Spec => []OneResumer
<1>1. \A S : Coro!Cardinality(S) = CoroP!Cardinality(S)
  BY DEF Coro!Cardinality, CoroP!Cardinality, Coro!IsFiniteSet, CoroP!IsFiniteSet
<1>2. CoroP!OneResumer => Coro!OneResumer
  BY <1>1 DEF Coro!OneResumer, Coro!Names, Coro!Capture, Coro!AllThreads, Coro!Schedulers,
    Coro!In, Coro!Root, CoroP!OneResumer, CoroP!Names, CoroP!Capture, CoroP!AllThreads,
    CoroP!Schedulers, CoroP!In, CoroP!Root
<1>3. CoroP!Inv => OneResumer
  BY <1>2, CoroP!ResumedByOne DEF OneResumer
<1> QED BY <1>3, CoroAlways, PTL

(***************************************************************************)
(* For the same programs, as long as no task with a payload catches what   *)
(* one without threw: after awaiting what is no task of the library a      *)
(* coroutine goes on where its payload says (executor.hpp:30).             *)
(***************************************************************************)
THEOREM ComesHomeAlways ==
  ASSUME \A p \in Programs : Coro!CatchesOwn(p)
  PROVE  Spec => []ComesHome
<1>1. Init => CoroP!HomeInv
  <2>1. \A p \in Programs : CoroP!CatchesOwn(p)
    BY CoroAssumed
  <2> QED BY <2>1, CoroInit, CoroAssumed, CoroP!BeginsHome
<1>2. CoroP!Inv /\ CoroP!Inv' /\ CoroP!HomeInv /\ [Next]_vars => CoroP!HomeInv'
  BY CoroRuns, CoroP!StepHome
<1>3. CoroP!HomeInv => ComesHome
  <2>1. CoroP!ComesHome => Coro!ComesHome
    BY DEF Coro!ComesHome, Coro!In, Coro!Body, Coro!Steal, Coro!Kind, Coro!IsCapture,
      Coro!Capture, Coro!ScheduleOn, Coro!Root, Coro!AwaitOf, Coro!None, Coro!IsThisCoro,
      Coro!Scheduler, Coro!AllThreads, CoroP!ComesHome, CoroP!In, CoroP!Body, CoroP!Steal,
      CoroP!Kind, CoroP!IsCapture, CoroP!Capture, CoroP!ScheduleOn, CoroP!Root,
      CoroP!AwaitOf, CoroP!None, CoroP!IsThisCoro, CoroP!Scheduler, CoroP!AllThreads
  <2> QED BY <2>1, CoroP!HomeIs DEF ComesHome
<1> QED BY <1>1, <1>2, <1>3, CoroAlways, PTL DEF Spec

=============================================================================
