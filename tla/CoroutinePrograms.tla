-------------------------- MODULE CoroutinePrograms --------------------------
(***************************************************************************)
(* What the coroutines of Coroutines do, for TLC.  sync runs a task        *)
(* spawned on scheduler A; child C awaits, schedules itself elsewhere and  *)
(* waits; F is a task without a payload (foreign) or with one, and may     *)
(* throw; N is a spawned task that is awaited in a capture_task.           *)
(***************************************************************************)
EXTENDS TLC, Sequences

CONSTANTS a1, a2, b1

C == <<"child">>
P == <<"parent">>
F == <<"foreign">>
N == <<"nested">>

Step(op, of, on, catches) == [op |-> op, of |-> of, on |-> on, catches |-> catches]
Await(f)    == Step("await", f, "none", FALSE)
Try(f)      == Step("await", f, "none", TRUE)
Schedule(s) == Step("schedule", <<"sync">>, s, FALSE)
Wait        == Step("wait", <<"sync">>, "none", FALSE)

Does(kind, body, throws) ==
  [kind |-> kind, body |-> body, throws |-> throws, task |-> <<"sync">>, on |-> "none"]
Spawns(s, task) ==
  [kind |-> "scheduled", body |-> <<>>, throws |-> FALSE, task |-> task, on |-> s]
Syncs(task) ==
  [kind |-> "sync", body |-> <<>>, throws |-> FALSE, task |-> task, on |-> "none"]

Spawned(rest) == (<<"sync">> :> Syncs(P)) @@ (P :> Spawns("A", C)) @@ rest

MCPrograms ==
  { Spawned((C :> Does("executor", <<Wait, Await(F), Wait>>, FALSE)) @@
            (F :> Does("foreign", <<Schedule("B")>>, throws))) : throws \in BOOLEAN }
  \cup
  { Spawned((C :> Does("executor", <<Schedule("B"), await, Wait, Await(F)>>, FALSE)) @@
            (F :> Does("executor", <<Schedule("A"), Wait>>, throws))) :
      await \in {Await(F), Try(F)}, throws \in BOOLEAN }
  \cup
  { Spawned((C :> Does("executor", <<Await(N), Wait>>, FALSE)) @@
            (N :> Spawns("B", F)) @@
            (F :> Does(kind, <<>>, throws))) :
      kind \in {"executor", "foreign"}, throws \in BOOLEAN }

\* A child that catches what a foreign task throws on another scheduler.
MCThrowing ==
  { Spawned((C :> Does("executor", <<Try(F), Wait>>, FALSE)) @@
            (F :> Does("foreign", <<Schedule("B")>>, TRUE))) }

MCHome == (a1 :> "A") @@ (a2 :> "A") @@ (b1 :> "B")
=============================================================================
