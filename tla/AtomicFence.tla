----------------------------- MODULE AtomicFence -----------------------------
(***************************************************************************)
(* atomic_fence: a flag that threads wait for.  signal is an exchange and, *)
(* if the flag was down, a notification: two steps, with other threads in  *)
(* between.  A thread that waits looks at the flag and falls asleep in one *)
(* step (the promise of std::atomic::wait), and looks again when notified. *)
(***************************************************************************)
CONSTANT Threads

VARIABLES
  state,  \* _state
  call    \* thread -> where in a call it is

vars == <<state, call>>

Become(t, where) == call' = [call EXCEPT ![t] = where]

\* The flag goes up; the first to raise it has to notify.
Signal(t) ==
  /\ call[t] = "outside"
  /\ state' = TRUE
  /\ Become(t, IF state THEN "outside" ELSE "notifying")

ForceSignal(t) ==
  /\ call[t] = "outside"
  /\ state' = TRUE
  /\ Become(t, "notifying")

\* notify_all: every sleeper looks again.
Notify(t) ==
  /\ call[t] = "notifying"
  /\ call' = [u \in Threads |-> IF u = t THEN "outside"
                                ELSE IF call[u] = "asleep" THEN "waiting" ELSE call[u]]
  /\ UNCHANGED state

Reset(t) ==
  /\ call[t] = "outside"
  /\ state' = FALSE
  /\ UNCHANGED call

Wait(t) ==
  /\ call[t] = "outside"
  /\ Become(t, "waiting")
  /\ UNCHANGED state

LookAtFlag(t) ==
  /\ call[t] = "waiting"
  /\ Become(t, IF state THEN "outside" ELSE "asleep")
  /\ UNCHANGED state

Init ==
  /\ state \in BOOLEAN
  /\ call = [t \in Threads |-> "outside"]

Next ==
  \E t \in Threads :
    Signal(t) \/ ForceSignal(t) \/ Notify(t) \/ Reset(t) \/ Wait(t) \/ LookAtFlag(t)

Spec == Init /\ [][Next]_vars

-----------------------------------------------------------------------------

(***************************************************************************)
(* No wake-up is lost: while a thread sleeps and the flag is up, somebody  *)
(* is about to notify.  So although a second signal of a raised flag does  *)
(* not notify, and a reset may come between the exchange and the           *)
(* notification, no thread sleeps through a flag that stays up.            *)
(***************************************************************************)
SleepersWoken ==
  state /\ (\E t \in Threads : call[t] = "asleep") => \E t \in Threads : call[t] = "notifying"
=============================================================================
