----------------------------- MODULE Coroutines -----------------------------
(***************************************************************************)
(* Tasks on schedulers: sync runs a program of coroutines from a thread    *)
(* that is no worker and blocks until its outcome is there.  A coroutine   *)
(* transfers to the task it awaits and is resumed by that task's end on    *)
(* whatever thread that happens; schedule moves it to a scheduler; what is *)
(* no task of this library is awaited in a capture_task, which moves back. *)
(* A promise of the library carries a payload: the scheduler it runs on.   *)
(* The scheduler comes as a binary; it is modelled by what the header says *)
(* of post and await: the callback runs once, later, on one of its workers. *)
(***************************************************************************)
EXTENDS Integers, FiniteSets, Sequences

CONSTANTS
  Programs,  \* a function from the names of coroutines to what they do
  Home,      \* worker -> its scheduler
  Main       \* the thread that calls sync

None == "none"
Root == <<"sync">>
AllThreads == DOMAIN Home \cup {Main}
Scheduler(t) == IF t = Main THEN None ELSE Home[t]
Schedulers == { Home[t] : t \in DOMAIN Home }

VARIABLES
  program,
  frame,    \* the coroutine frames with their promises
  run,      \* thread -> the frame it executes and where in the library it is
  ready,    \* scheduler -> frames posted to it
  pending,  \* scheduler -> frames that wait for a time or a handle
  main,     \* where the caller of sync is
  signaled, \* the fence of the sync promise
  outcome   \* what sync returned or threw

vars == <<program, frame, run, ready, pending, main, signaled, outcome>>

Idle == [frame |-> Root, doing |-> "nothing"]

-----------------------------------------------------------------------------
(* What a coroutine does.                                                  *)

AwaitOf(f) == [op |-> "await", of |-> f, on |-> None, catches |-> FALSE]
ScheduleOn(s) == [op |-> "schedule", of |-> Root, on |-> s, catches |-> FALSE]

IsCapture(f) == f[1] = "capture"
Capture(f) == <<"capture">> \o f
Kind(f) == IF IsCapture(f) THEN "capture" ELSE program[f].kind

\* Promises with await_transform and a payload.
IsThisCoro(f) == Kind(f) \in {"executor", "scheduled"}

\* steal: a task of the library is given the payload, anything else is
\* awaited in a capture_task.
Steal(f) == IF Kind(f) = "executor" THEN f ELSE Capture(f)

\* Mutant: a task that carries no payload is awaited without a capture_task.
Awaited_NoCapture(f, d) == d

\* await_transform.  capture_task and scheduled_task count as foreign: no
\* awaiter derives from the base that captured_awaitable asks for.
Awaited(f, d) == IF IsThisCoro(f) THEN Steal(d) ELSE d

Body(f) ==
  IF IsCapture(f) THEN << AwaitOf(Tail(f)), ScheduleOn(frame[f].payload) >>
  ELSE IF Kind(f) = "scheduled"
  THEN << ScheduleOn(program[f].on), AwaitOf(Steal(program[f].task)) >>
  ELSE IF Kind(f) = "sync" THEN << AwaitOf(program[f].task) >>
  ELSE program[f].body

Step(f) == Body(f)[frame[f].at]
AtEnd(f) == frame[f].at > Len(Body(f))

Names ==
  LET named == DOMAIN program
      captured == named \cup { Capture(f) : f \in named }
  IN captured \cup { Capture(f) : f \in captured }

\* await_resume in f of a child that is done: its exception goes on, out of
\* f unless f catches it.
Resumed(frames, f, child) ==
  IF frames[child].exception /\ ~Step(f).catches
  THEN [frames EXCEPT ![f].phase = "running", ![f].exception = TRUE,
                      ![f].at = Len(Body(f)) + 1]
  ELSE [frames EXCEPT ![f].phase = "running", ![f].at = @ + 1]

-----------------------------------------------------------------------------
(* Programs that compile and in which nothing is awaited by two coroutines *)
(* (a task is owned, and moved to who awaits it).                          *)

Statements ==
  [op : {"await", "schedule", "wait"}, of : Seq(STRING), on : Schedulers \cup {None},
   catches : BOOLEAN]

\* The tasks that f awaits in p.
AwaitedBy(p, f) ==
  IF p[f].kind \in {"sync", "scheduled"} THEN {p[f].task}
  ELSE { p[f].body[k].of : k \in { n \in 1 .. Len(p[f].body) : p[f].body[n].op = "await" } }

\* Waits are those of this_coro and need a payload.
IsStatement(p, f, s) ==
  \/ s.op = "await" /\ s.of \in DOMAIN p \ {Root}
  \/ s.op = "schedule" /\ s.on \in Schedulers
  \/ s.op = "wait" /\ p[f].kind = "executor"

\* The capture_task of a task is named after it, there is one.
CapturesOnce(p, f) ==
  \A j, k \in { n \in 1 .. Len(p[f].body) : p[f].body[n].op = "await" } :
    p[f].body[j].of = p[f].body[k].of /\ p[p[f].body[k].of].kind # "executor" => j = k

\* What is caught was thrown by a task with a payload.
CatchesOwn(p) ==
  \A f \in DOMAIN p : p[f].kind = "executor" =>
    \A k \in 1 .. Len(p[f].body) :
      p[f].body[k].op = "await" /\ p[f].body[k].catches => p[p[f].body[k].of].kind = "executor"

\* A task that wants a payload may not be awaited by one that has none
\* (static_assert of this_coro_awaiter_base).
IsProgram(p) ==
  /\ Root \in DOMAIN p
  /\ \A f \in DOMAIN p :
       /\ f \in Seq(STRING) /\ f # <<>> /\ ~IsCapture(f)
       /\ p[f].kind \in {"sync", "scheduled", "executor", "foreign"}
       /\ p[f].kind = "sync" <=> f = Root
       /\ p[f].throws \in BOOLEAN
       /\ IF p[f].kind \in {"sync", "scheduled"} THEN p[f].task \in DOMAIN p \ {Root}
          ELSE /\ p[f].body \in Seq(Statements)
               /\ \A k \in 1 .. Len(p[f].body) : IsStatement(p, f, p[f].body[k])
       /\ p[f].kind = "scheduled" => p[f].on \in Schedulers
       /\ p[f].kind \in {"sync", "foreign"} =>
            \A d \in AwaitedBy(p, f) : p[d].kind # "executor"
  /\ \A f, c \in DOMAIN p : AwaitedBy(p, f) \cap AwaitedBy(p, c) # {} => f = c
  /\ \A f \in DOMAIN p : p[f].kind = "executor" => CapturesOnce(p, f)

CoroutinesAssumption ==
  Main \notin DOMAIN Home /\ \A p \in Programs : IsProgram(p)

-----------------------------------------------------------------------------
(* Steps of a thread in a coroutine.                                       *)

In(t, doing) == run[t].doing = doing
Leave(t) == run' = [run EXCEPT ![t] = Idle]
Enter(t, f, doing) == run' = [run EXCEPT ![t] = [frame |-> f, doing |-> doing]]

\* What the promise of d gets: the payload of the caller, injected by
\* await_transform or handed to the capture_task; others keep their own.
Payload(f, d) ==
  IF d \in DOMAIN program /\ Kind(d) # "executor" THEN frame[d].payload ELSE frame[f].payload

\* co_await of a task: not suspended if it is done already, else the caller
\* becomes its continuation and the thread goes on with the task.
Await(t) ==
  LET f == run[t].frame
      d == Awaited(f, Step(f).of)
  IN /\ In(t, "body") /\ ~AtEnd(f) /\ Step(f).op = "await"
     /\ IF frame[d].phase = "done"
        THEN frame' = Resumed(frame, f, d) /\ UNCHANGED run
        ELSE /\ frame' = [frame EXCEPT ![f].phase = "suspended", ![d].phase = "running",
                                       ![d].continuation = f, ![d].payload = Payload(f, d)]
             /\ Enter(t, d, "body")
     /\ UNCHANGED <<program, ready, pending, main, signaled, outcome>>

\* Mutant: the frame is posted before it is suspended and its promise told.
Schedule_PostsFirst(t) ==
  LET f == run[t].frame
      on == Step(f).on
  IN /\ In(t, "body") /\ ~AtEnd(f) /\ Step(f).op = "schedule"
     /\ IF Scheduler(t) = on
        THEN frame' = [frame EXCEPT ![f].at = @ + 1] /\ UNCHANGED <<run, ready>>
        ELSE /\ frame' = [frame EXCEPT ![f].phase = "suspended"]
             /\ ready' = [ready EXCEPT ![on] = @ \cup {f}]
             /\ Enter(t, f, "posting")
     /\ UNCHANGED <<program, pending, main, signaled, outcome>>

\* schedule_awaiter: nothing to do on a worker of the target, else the
\* promise is told the new scheduler before anyone may resume it.
Schedule(t) ==
  LET f == run[t].frame
      on == Step(f).on
  IN /\ In(t, "body") /\ ~AtEnd(f) /\ Step(f).op = "schedule"
     /\ IF Scheduler(t) = on
        THEN frame' = [frame EXCEPT ![f].at = @ + 1] /\ UNCHANGED run
        ELSE /\ frame' = [frame EXCEPT ![f].phase = "suspended",
                                       ![f].payload = IF IsThisCoro(f) THEN on ELSE @]
             /\ Enter(t, f, "posting")
     /\ UNCHANGED <<program, ready, pending, main, signaled, outcome>>

Post(t) ==
  LET f == run[t].frame
  IN /\ In(t, "posting")
     /\ ready' = [ready EXCEPT ![Step(f).on] = @ \cup {f}]
     /\ Leave(t)
     /\ UNCHANGED <<program, frame, pending, main, signaled, outcome>>

\* this_coro::wait and await_handle, on the scheduler of the payload.
Wait(t) ==
  LET f == run[t].frame
  IN /\ In(t, "body") /\ ~AtEnd(f) /\ Step(f).op = "wait"
     /\ \/ /\ frame' = [frame EXCEPT ![f].at = @ + 1]
           /\ UNCHANGED <<run, pending>>
        \/ /\ frame' = [frame EXCEPT ![f].phase = "suspended"]
           /\ pending' = [pending EXCEPT ![frame[f].payload] = @ \cup {f}]
           /\ Leave(t)
     /\ UNCHANGED <<program, ready, main, signaled, outcome>>

\* The end of the body; the continuation goes on, on this thread.
Return(t) ==
  LET f == run[t].frame
      c == frame[f].continuation
      ended == [frame EXCEPT ![f].phase = "done",
                             ![f].exception = @ \/ (~IsCapture(f) /\ program[f].throws)]
  IN /\ In(t, "body") /\ AtEnd(f) /\ Kind(f) # "sync"
     /\ frame' = Resumed(ended, c, f)
     /\ Enter(t, c, "body")
     /\ UNCHANGED <<program, ready, pending, main, signaled, outcome>>

\* Mutant: the flag is raised and nobody is notified.
Signal_NoNotify(t) ==
  LET f == run[t].frame
  IN /\ In(t, "body") /\ AtEnd(f) /\ Kind(f) = "sync"
     /\ frame' = [frame EXCEPT ![f].phase = "done"]
     /\ signaled' = TRUE
     /\ Leave(t)
     /\ UNCHANGED <<program, ready, pending, main, outcome>>

\* final_sync_awaiter: the exchange of signal, after the last look at the
\* promise; then notify_all, which needs no more than the address.
Signal(t) ==
  LET f == run[t].frame
  IN /\ In(t, "body") /\ AtEnd(f) /\ Kind(f) = "sync"
     /\ frame' = [frame EXCEPT ![f].phase = "done"]
     /\ signaled' = TRUE
     /\ Enter(t, f, "notifying")
     /\ UNCHANGED <<program, ready, pending, main, outcome>>

Notify(t) ==
  /\ In(t, "notifying")
  /\ main' = IF main = "asleep" THEN "waiting" ELSE main
  /\ Leave(t)
  /\ UNCHANGED <<program, frame, ready, pending, signaled, outcome>>

-----------------------------------------------------------------------------
(* The scheduler and the caller of sync.                                   *)

Resume(t) ==
  \E f \in ready[Scheduler(t)] :
    /\ In(t, "nothing")
    /\ ready' = [ready EXCEPT ![Scheduler(t)] = @ \ {f}]
    /\ frame' = [frame EXCEPT ![f].phase = "running", ![f].at = @ + 1]
    /\ Enter(t, f, "body")
    /\ UNCHANGED <<program, pending, main, signaled, outcome>>

Fire(s) ==
  \E f \in pending[s] :
    /\ pending' = [pending EXCEPT ![s] = @ \ {f}]
    /\ ready' = [ready EXCEPT ![s] = @ \cup {f}]
    /\ UNCHANGED <<program, frame, run, main, signaled, outcome>>

Start ==
  /\ main = "starting"
  /\ main' = "waiting"
  /\ frame' = [frame EXCEPT ![Root].phase = "running"]
  /\ Enter(Main, Root, "body")
  /\ UNCHANGED <<program, ready, pending, signaled, outcome>>

FallAsleep ==
  /\ main = "waiting" /\ In(Main, "nothing")
  /\ ~signaled
  /\ main' = "asleep"
  /\ UNCHANGED <<program, frame, run, ready, pending, signaled, outcome>>

\* await, and the end of sync: the task goes and with it what it holds.
Deliver ==
  /\ main = "waiting" /\ In(Main, "nothing")
  /\ signaled
  /\ main' = "returned"
  /\ outcome' = IF frame[Root].exception THEN "exception" ELSE "value"
  /\ frame' = [f \in Names |-> IF f \in {Root, program[Root].task}
                               THEN [frame[f] EXCEPT !.phase = "destroyed"] ELSE frame[f]]
  /\ UNCHANGED <<program, run, ready, pending, signaled>>

Init ==
  /\ program \in Programs
  /\ frame = [f \in Names |->
       [phase |-> "cold", at |-> 1, continuation |-> Root, exception |-> FALSE,
        payload |-> IF ~IsCapture(f) /\ Kind(f) = "scheduled" THEN program[f].on ELSE None]]
  /\ run = [t \in AllThreads |-> Idle]
  /\ ready = [s \in Schedulers |-> {}] /\ pending = [s \in Schedulers |-> {}]
  /\ main = "starting" /\ signaled = FALSE /\ outcome = None

Next ==
  \/ \E t \in AllThreads :
       Await(t) \/ Schedule(t) \/ Post(t) \/ Wait(t) \/ Return(t) \/ Signal(t) \/ Notify(t)
  \/ \E t \in DOMAIN Home : Resume(t)
  \/ \E s \in Schedulers : Fire(s)
  \/ Start \/ FallAsleep \/ Deliver

Spec == Init /\ [][Next]_vars /\ WF_vars(Next)

-----------------------------------------------------------------------------
(* Properties.                                                             *)

(***************************************************************************)
(* A coroutine that runs is run by one thread; one that is suspended will  *)
(* be resumed from exactly one place: a post, a wait, the end of the task  *)
(* it awaits; one that is done or destroyed is touched by nobody, but for  *)
(* the thread that wakes the caller of sync.                               *)
(***************************************************************************)
OneResumer ==
  \A f \in Names :
    LET runners == { t \in AllThreads : ~In(t, "nothing") /\ ~In(t, "notifying")
                                       /\ run[t].frame = f }
        places == { s \in Schedulers : f \in ready[s] }
        waits == { s \in Schedulers : f \in pending[s] }
        children == { d \in Names : /\ frame[d].continuation = f
                                    /\ frame[d].phase \in {"running", "suspended"}
                                    /\ d # Root }
    IN Cardinality(runners) + Cardinality(places) + Cardinality(waits) + Cardinality(children)
         = IF frame[f].phase \in {"running", "suspended"} THEN 1 ELSE 0

(***************************************************************************)
(* executor.hpp:30 "steals the execution context to the scheduler after    *)
(* the coroutine finished": when something that is no task of the library  *)
(* was awaited, the coroutine goes on where its payload says, so that its  *)
(* next wait and this_coro::executor are those of its own thread.          *)
(***************************************************************************)
ComesHome ==
  \A t \in AllThreads :
    LET f == run[t].frame
    IN In(t, "body") /\ IsThisCoro(f) /\ frame[f].at > 1 /\ ~frame[f].exception =>
         LET last == Body(f)[frame[f].at - 1]
         IN last.op = "await" /\ Steal(last.of) # last.of =>
              Scheduler(t) = frame[f].payload

\* The coroutines that end with an exception: their own or one they await
\* and do not catch.
Failing ==
  LET awaits(f) == IF program[f].kind \in {"sync", "scheduled"} THEN {program[f].task}
                   ELSE { program[f].body[k].of :
                            k \in { n \in DOMAIN program[f].body :
                                      program[f].body[n].op = "await"
                                        /\ ~program[f].body[n].catches } }
      fails[n \in 0 .. Cardinality(DOMAIN program)] ==
        IF n = 0 THEN { f \in DOMAIN program : program[f].throws }
        ELSE { f \in DOMAIN program : f \in fails[n - 1] \/ awaits(f) \cap fails[n - 1] # {} }
  IN fails[Cardinality(DOMAIN program)]

\* sync throws exactly if the task it was given fails, on whatever threads
\* and through however many tasks the exception came.
OutcomeExact ==
  main = "returned" => (outcome = "exception" <=> Root \in Failing)

\* The caller of sync wakes: no wake-up is lost between the exchange and the
\* notification, and no coroutine is left suspended.
SyncReturns == <>(main = "returned")
=============================================================================
