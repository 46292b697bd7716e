-------------------------- MODULE CoroutineProofs ---------------------------
(***************************************************************************)
(* Proofs about Coroutines, for every program that compiles, any number of *)
(* schedulers and any number of their workers.  A program that sync runs   *)
(* goes on in one place at a time: on a thread, in the queue of a          *)
(* scheduler, or behind a wait.  The frames that are begun and not done    *)
(* form a chain, each suspended where it awaits the next, and the last of  *)
(* them is in that place.                                                  *)
(***************************************************************************)
EXTENDS Coroutines, FiniteSetTheorems, TLAPS

\* The program makes c await d: d itself, or the capture_task around a task.
Calls(c, d) ==
  IF IsCapture(c) THEN d = Tail(c)
  ELSE \E g \in AwaitedBy(program, c) :
         d = IF program[c].kind \in {"sync", "foreign"} \/ program[g].kind = "executor" THEN g
             ELSE IF program[c].kind = "executor" THEN Capture(g) ELSE Capture(Capture(g))

\* g is awaited by a coroutine of one of these kinds.
AwaitedIn(g, kinds) ==
  \E c \in DOMAIN program : program[c].kind \in kinds /\ g \in AwaitedBy(program, c)

\* The names of the frames there are: captures are made of tasks without a payload only.
Used(f) ==
  \/ f \in DOMAIN program
  \/ \E g \in DOMAIN program :
       /\ program[g].kind # "executor"
       /\ \/ f = Capture(g) /\ AwaitedIn(g, {"executor", "scheduled"})
          \/ f = Capture(Capture(g)) /\ AwaitedIn(g, {"scheduled"})

LEMMA Joined ==
  ASSUME NEW S, NEW p \in Seq(S), NEW f \in Seq(S)
  PROVE  /\ p \o f \in Seq(S) /\ Len(p \o f) = Len(p) + Len(f)
         /\ \A i \in 1 .. Len(p) + Len(f) :
              (p \o f)[i] = IF i <= Len(p) THEN p[i] ELSE f[i - Len(p)]
OBVIOUS

LEMMA CaptureFacts ==
  ASSUME NEW S, "capture" \in S, NEW f \in Seq(S)
  PROVE  /\ Capture(f) \in Seq(S) /\ Capture(f) # <<>>
         /\ IsCapture(Capture(f)) /\ Tail(Capture(f)) = f
<1> DEFINE p == <<"capture">>
           c == p \o f
           n == Len(f)
<1>1. p \in Seq(S) /\ Len(p) = 1 /\ p[1] = "capture"
  OBVIOUS
<1> HIDE DEF p
<1>2. /\ c \in Seq(S) /\ Len(c) = 1 + n /\ n \in Nat
      /\ \A i \in 1 .. 1 + n : c[i] = IF i <= 1 THEN p[i] ELSE f[i - 1]
  <2>1. /\ c \in Seq(S) /\ Len(c) = Len(p) + n /\ n \in Nat
        /\ \A i \in 1 .. Len(p) + n : c[i] = IF i <= Len(p) THEN p[i] ELSE f[i - Len(p)]
    BY <1>1, Joined
  <2> HIDE DEF c
  <2> QED BY <1>1, <2>1
<1> HIDE DEF c
<1>3. c[1] = "capture" /\ \A i \in 1 .. n : c[i + 1] = f[i]
  <2>1. 1 \in 1 .. 1 + n /\ \A i \in 1 .. n : i + 1 \in 1 .. 1 + n /\ ~(i + 1 <= 1) /\ (i + 1) - 1 = i
    BY <1>2
  <2> QED BY <1>1, <1>2, <2>1
<1>4. c # <<>> /\ Tail(c) \in Seq(S) /\ Len(Tail(c)) = n /\ \A i \in 1 .. n : Tail(c)[i] = f[i]
  BY <1>2, <1>3
<1>5. Tail(c) = f
  BY <1>4
<1>6. Capture(f) = c
  BY DEF Capture, c, p
<1> QED BY <1>2, <1>3, <1>4, <1>5, <1>6 DEF IsCapture

\* What a name is, and what it is not.
LEMMA NameFacts ==
  ASSUME IsProgram(program)
  PROVE  /\ \A f \in DOMAIN program : f \in Seq(STRING) /\ f # <<>> /\ ~IsCapture(f)
         /\ \A g \in DOMAIN program :
              /\ IsCapture(Capture(g)) /\ Tail(Capture(g)) = g
              /\ IsCapture(Capture(Capture(g))) /\ Tail(Capture(Capture(g))) = Capture(g)
              /\ g \in Names /\ Capture(g) \in Names /\ Capture(Capture(g)) \in Names
         /\ \A f \in Names :
              \/ f \in DOMAIN program
              \/ \E g \in DOMAIN program : f = Capture(g) \/ f = Capture(Capture(g))
         /\ \A f \in Names : IsCapture(f) <=> f \notin DOMAIN program
<1>1. \A f \in DOMAIN program : f \in Seq(STRING) /\ f # <<>> /\ ~IsCapture(f)
  BY DEF IsProgram
<1>2. \A g \in DOMAIN program :
        /\ IsCapture(Capture(g)) /\ Tail(Capture(g)) = g
        /\ IsCapture(Capture(Capture(g))) /\ Tail(Capture(Capture(g))) = Capture(g)
  <2> DEFINE S == STRING \cup {"capture"}
  <2>1. "capture" \in S /\ \A f \in Seq(STRING) : f \in Seq(S)
    OBVIOUS
  <2> HIDE DEF S
  <2> QED BY <1>1, <2>1, CaptureFacts
<1>3. \A g \in DOMAIN program :
        g \in Names /\ Capture(g) \in Names /\ Capture(Capture(g)) \in Names
  BY DEF Names
<1>4. ASSUME NEW f \in Names
      PROVE  \/ f \in DOMAIN program
             \/ \E g \in DOMAIN program : f = Capture(g) \/ f = Capture(Capture(g))
  BY DEF Names
<1>5. ASSUME NEW f \in Names PROVE IsCapture(f) <=> f \notin DOMAIN program
  BY <1>1, <1>2, <1>4
<1> QED BY <1>1, <1>2, <1>3, <1>4, <1>5

\* A name tells what was captured, and how often.
LEMMA Apart ==
  ASSUME IsProgram(program), NEW g \in DOMAIN program, NEW h \in DOMAIN program
  PROVE  /\ g # Capture(h) /\ g # Capture(Capture(h)) /\ Capture(g) # Capture(Capture(h))
         /\ Capture(g) = Capture(h) => g = h
         /\ Capture(Capture(g)) = Capture(Capture(h)) => g = h
<1>1. /\ ~IsCapture(g) /\ IsCapture(Capture(g)) /\ IsCapture(Capture(Capture(g)))
      /\ Tail(Capture(g)) = g /\ Tail(Capture(Capture(g))) = Capture(g)
  BY NameFacts
<1>2. /\ ~IsCapture(h) /\ IsCapture(Capture(h)) /\ IsCapture(Capture(Capture(h)))
      /\ Tail(Capture(h)) = h /\ Tail(Capture(Capture(h))) = Capture(h)
  BY NameFacts
<1> QED BY <1>1, <1>2

LEMMA AwaitedFacts ==
  ASSUME IsProgram(program), NEW c \in DOMAIN program, NEW g \in AwaitedBy(program, c)
  PROVE  g \in DOMAIN program /\ g # Root
<1>1. CASE program[c].kind \in {"sync", "scheduled"}
  BY <1>1 DEF IsProgram, AwaitedBy
<1>2. CASE ~(program[c].kind \in {"sync", "scheduled"})
  <2>1. PICK k \in 1 .. Len(program[c].body) :
          program[c].body[k].op = "await" /\ program[c].body[k].of = g
    BY <1>2 DEF AwaitedBy
  <2>2. IsStatement(program, c, program[c].body[k])
    BY <1>2 DEF IsProgram
  <2> QED BY <2>1, <2>2 DEF IsStatement
<1> QED BY <1>1, <1>2

LEMMA CallsUsed ==
  ASSUME IsProgram(program), NEW c, NEW d, Used(c), Calls(c, d)
  PROVE  /\ Used(d) /\ d \in Names /\ d # Root
         /\ IsCapture(d) => IsCapture(c) \/ program[c].kind \in {"executor", "scheduled"}
         /\ Kind(d) = "executor" => ~IsCapture(c) /\ program[c].kind \in {"executor", "scheduled"}
<1>1. CASE c \in DOMAIN program
  <2>1. ~IsCapture(c)
    BY <1>1, NameFacts
  <2>2. PICK g \in AwaitedBy(program, c) :
         d = IF program[c].kind \in {"sync", "foreign"} \/ program[g].kind = "executor" THEN g
             ELSE IF program[c].kind = "executor" THEN Capture(g) ELSE Capture(Capture(g))
    BY <2>1 DEF Calls
  <2>3. /\ program[c].kind \in {"sync", "scheduled", "executor", "foreign"}
        /\ program[c].kind \in {"sync", "foreign"} => program[g].kind # "executor"
    BY <1>1 DEF IsProgram
  <2>4. g \in DOMAIN program /\ g # Root
    BY <1>1, AwaitedFacts
  <2>5. /\ ~IsCapture(g) /\ IsCapture(Capture(g)) /\ IsCapture(Capture(Capture(g)))
        /\ g \in Names /\ Capture(g) \in Names /\ Capture(Capture(g)) \in Names
    BY <2>4, NameFacts
  <2>6. ~IsCapture(Root)
    BY NameFacts DEF IsProgram
  <2>7. /\ program[c].kind \in {"executor", "scheduled"} => AwaitedIn(g, {"executor", "scheduled"})
        /\ program[c].kind = "scheduled" => AwaitedIn(g, {"scheduled"})
    BY <1>1 DEF AwaitedIn
  <2>8. CASE program[c].kind \in {"sync", "foreign"} \/ program[g].kind = "executor"
    <3>1. d = g
      BY <2>2, <2>8
    <3> QED BY <2>1, <2>3, <2>4, <2>5, <2>8, <3>1 DEF Used, Kind
  <2>9. CASE program[c].kind = "executor" /\ program[g].kind # "executor"
    <3>1. d = Capture(g)
      BY <2>2, <2>9
    <3>2. Used(d)
      BY <2>4, <2>7, <2>9, <3>1 DEF Used
    <3> QED BY <2>5, <2>6, <2>9, <3>1, <3>2 DEF Kind
  <2>10. CASE program[c].kind = "scheduled" /\ program[g].kind # "executor"
    <3>1. d = Capture(Capture(g))
      BY <2>2, <2>10
    <3>2. Used(d)
      BY <2>4, <2>7, <2>10, <3>1 DEF Used
    <3> QED BY <2>5, <2>6, <2>10, <3>1, <3>2 DEF Kind
  <2> QED BY <2>3, <2>8, <2>9, <2>10
<1>2. ASSUME NEW g \in DOMAIN program, program[g].kind # "executor",
             c = Capture(g), AwaitedIn(g, {"executor", "scheduled"})
      PROVE  /\ Used(d) /\ d \in Names /\ d # Root /\ ~IsCapture(d) /\ Kind(d) # "executor"
  <2>1. IsCapture(c) /\ Tail(c) = g /\ ~IsCapture(g) /\ g \in Names
    BY <1>2, NameFacts
  <2>2. d = g
    BY <2>1 DEF Calls
  <2>3. g # Root
    BY <1>2, AwaitedFacts DEF AwaitedIn
  <2> QED BY <1>2, <2>1, <2>2, <2>3 DEF Used, Kind
<1>3. ASSUME NEW g \in DOMAIN program, program[g].kind # "executor",
             c = Capture(Capture(g)), AwaitedIn(g, {"scheduled"})
      PROVE  /\ Used(d) /\ d \in Names /\ d # Root /\ IsCapture(c) /\ Kind(d) # "executor"
  <2>1. IsCapture(c) /\ Tail(c) = Capture(g) /\ Capture(g) \in Names /\ IsCapture(Capture(g)) /\ ~IsCapture(Root)
    BY <1>3, NameFacts DEF IsProgram
  <2>2. d = Capture(g)
    BY <2>1 DEF Calls
  <2>3. AwaitedIn(g, {"executor", "scheduled"})
    BY <1>3 DEF AwaitedIn
  <2> QED BY <1>3, <2>1, <2>2, <2>3 DEF Used, Kind
<1> QED BY <1>1, <1>2, <1>3 DEF Used

\* Nothing is called by two coroutines.
LEMMA OneCaller ==
  ASSUME IsProgram(program), NEW c, NEW e, NEW d, Used(c), Used(e), Calls(c, d), Calls(e, d)
  PROVE  c = e
<1> DEFINE Form(x, y, g) ==
             y = IF program[x].kind \in {"sync", "foreign"} \/ program[g].kind = "executor" THEN g
                 ELSE IF program[x].kind = "executor" THEN Capture(g) ELSE Capture(Capture(g))
           Spawned(x) == \E g \in DOMAIN program :
                           /\ program[g].kind # "executor"
                           /\ x = Capture(g) /\ AwaitedIn(g, {"executor", "scheduled"})
           Twice(x) == \E g \in DOMAIN program :
                           /\ program[g].kind # "executor"
                           /\ x = Capture(Capture(g)) /\ AwaitedIn(g, {"scheduled"})
<1>1. ASSUME NEW x \in DOMAIN program, NEW y, Calls(x, y)
      PROVE  \E g \in AwaitedBy(program, x) : g \in DOMAIN program /\ Form(x, y, g)
  BY <1>1, AwaitedFacts, NameFacts DEF Calls
<1>2. ASSUME NEW x \in DOMAIN program, NEW y \in DOMAIN program, Calls(x, d), Calls(y, d)
      PROVE  x = y
  <2>1. PICK g \in AwaitedBy(program, x) : g \in DOMAIN program /\ Form(x, d, g)
    BY <1>1, <1>2
  <2>2. PICK h \in AwaitedBy(program, y) : h \in DOMAIN program /\ Form(y, d, h)
    BY <1>1, <1>2
  <2>3. d \in {g, Capture(g), Capture(Capture(g))} /\ d \in {h, Capture(h), Capture(Capture(h))}
    BY <2>1, <2>2
  <2>4. g = h
    BY <2>1, <2>2, <2>3, Apart
  <2> QED BY <2>1, <2>2, <2>4 DEF IsProgram
<1>3. ASSUME NEW x \in DOMAIN program, Calls(x, d), NEW y, Spawned(y) \/ Twice(y), Calls(y, d)
      PROVE  FALSE
  <2>1. PICK g \in AwaitedBy(program, x) : g \in DOMAIN program /\ Form(x, d, g)
    BY <1>1, <1>3
  <2>2. CASE Spawned(y)
    <3>1. PICK h \in DOMAIN program :
            program[h].kind # "executor" /\ y = Capture(h) /\ AwaitedIn(h, {"executor", "scheduled"})
      BY <2>2
    <3>2. d = h
      <4>1. IsCapture(y) /\ Tail(y) = h
        BY <3>1, NameFacts
      <4> QED BY <1>3, <4>1 DEF Calls
    <3>3. g = h /\ program[x].kind \in {"sync", "foreign"}
      BY <2>1, <3>1, <3>2, Apart
    <3>4. PICK z \in DOMAIN program :
            program[z].kind \in {"executor", "scheduled"} /\ h \in AwaitedBy(program, z)
      BY <3>1 DEF AwaitedIn
    <3>5. z = x
      BY <2>1, <3>3, <3>4 DEF IsProgram
    <3> QED BY <3>3, <3>4, <3>5
  <2>3. CASE Twice(y)
    <3>1. PICK h \in DOMAIN program :
            program[h].kind # "executor" /\ y = Capture(Capture(h)) /\ AwaitedIn(h, {"scheduled"})
      BY <2>3
    <3>2. d = Capture(h)
      <4>1. IsCapture(y) /\ Tail(y) = Capture(h)
        BY <3>1, NameFacts
      <4> QED BY <1>3, <4>1 DEF Calls
    <3>3. g = h /\ program[x].kind # "scheduled"
      BY <2>1, <3>1, <3>2, Apart
    <3>4. PICK z \in DOMAIN program : program[z].kind = "scheduled" /\ h \in AwaitedBy(program, z)
      BY <3>1 DEF AwaitedIn
    <3>5. z = x
      BY <2>1, <3>3, <3>4 DEF IsProgram
    <3> QED BY <3>3, <3>4, <3>5
  <2> QED BY <1>3, <2>2, <2>3
<1>4. ASSUME NEW x, Spawned(x) \/ Twice(x), NEW y, Spawned(y) \/ Twice(y), Calls(x, d), Calls(y, d)
      PROVE  x = y
  <2>1. PICK g \in DOMAIN program : x = Capture(g) \/ x = Capture(Capture(g))
    BY <1>4
  <2>2. PICK h \in DOMAIN program : y = Capture(h) \/ y = Capture(Capture(h))
    BY <1>4
  <2>3. d = Tail(x) /\ d = Tail(y)
    <3>1. IsCapture(x) /\ IsCapture(y)
      BY <2>1, <2>2, NameFacts
    <3> QED BY <1>4, <3>1 DEF Calls
  <2>4. x = Capture(Tail(x)) /\ y = Capture(Tail(y))
    BY <2>1, <2>2, NameFacts
  <2> QED BY <2>3, <2>4
<1>5. \A x : Used(x) => x \in DOMAIN program \/ Spawned(x) \/ Twice(x)
  BY DEF Used
<1> HIDE DEF Spawned, Twice
<1> QED BY <1>2, <1>3, <1>4, <1>5

-----------------------------------------------------------------------------
(***************************************************************************)
(* The place where the program goes on, in given threads and queues.       *)
(***************************************************************************)
Working == {"body", "posting"}

NoFrames == [s \in Schedulers |-> {}]
Just(s, f) == [r \in Schedulers |-> IF r = s THEN {f} ELSE {}]

Nowhere(threads, posts, waits) ==
  /\ posts = NoFrames /\ waits = NoFrames
  /\ \A t \in AllThreads : threads[t].doing \notin Working

OnThread(threads, posts, waits, t) ==
  /\ posts = NoFrames /\ waits = NoFrames
  /\ \A u \in AllThreads : threads[u].doing \in Working <=> u = t

Posted(threads, posts, waits, s, f) ==
  /\ posts = Just(s, f) /\ waits = NoFrames
  /\ \A t \in AllThreads : threads[t].doing \notin Working

InOnePlace(threads, posts, waits) ==
  \/ Nowhere(threads, posts, waits)
  \/ \E t \in AllThreads : OnThread(threads, posts, waits, t)
  \/ \E s \in Schedulers, f \in Names :
       Posted(threads, posts, waits, s, f) \/ Posted(threads, waits, posts, s, f)

Holds(threads, posts, waits, f) ==
  \/ \E t \in AllThreads : threads[t].doing \in Working /\ threads[t].frame = f
  \/ \E s \in Schedulers : f \in posts[s] \/ f \in waits[s]

Held(f) == Holds(run, ready, pending, f)

LEMMA HolderIs ==
  ASSUME NEW threads, NEW posts, NEW waits
  PROVE  /\ Nowhere(threads, posts, waits) => \A g : ~Holds(threads, posts, waits, g)
         /\ \A t \in AllThreads : OnThread(threads, posts, waits, t) =>
              \A g : Holds(threads, posts, waits, g) <=> g = threads[t].frame
         /\ \A s \in Schedulers : \A f : Posted(threads, posts, waits, s, f) =>
              \A g : Holds(threads, posts, waits, g) <=> g = f
         /\ \A s \in Schedulers : \A f : Posted(threads, waits, posts, s, f) =>
              \A g : Holds(threads, posts, waits, g) <=> g = f
BY DEF Nowhere, OnThread, Posted, Holds, NoFrames, Just

LEMMA PostedHolds ==
  ASSUME NEW threads, NEW posts, NEW waits, NEW s \in Schedulers, NEW f,
         Posted(threads, posts, waits, s, f)
  PROVE  \A g : Holds(threads, posts, waits, g) <=> g = f
BY HolderIs

LEMMA PlaceIs ==
  ASSUME NEW threads, NEW posts, NEW waits, InOnePlace(threads, posts, waits)
  PROVE  /\ \A t \in AllThreads : threads[t].doing \in Working =>
              OnThread(threads, posts, waits, t)
         /\ \A s \in Schedulers : \A f \in posts[s] : Posted(threads, posts, waits, s, f)
         /\ \A s \in Schedulers : \A f \in waits[s] : Posted(threads, waits, posts, s, f)
BY DEF InOnePlace, Nowhere, OnThread, Posted, NoFrames, Just

-----------------------------------------------------------------------------
Active(f) == frame[f].phase \in {"running", "suspended"}

At(f, op) == ~AtEnd(f) /\ Step(f).op = op

WaitsFor(c, d) == At(c, "await") /\ d = Awaited(c, Step(c).of)

FrameType ==
  [phase : {"cold", "running", "suspended", "done", "destroyed"}, at : Nat \ {0},
   continuation : Names, exception : BOOLEAN, payload : Schedulers \cup {None}]

Types ==
  /\ IsProgram(program) /\ Main \notin DOMAIN Home
  /\ frame \in [Names -> FrameType]
  /\ run \in [AllThreads -> [frame : Names, doing : {"nothing", "body", "posting", "notifying"}]]
  /\ ready \in [Schedulers -> SUBSET Names] /\ pending \in [Schedulers -> SUBSET Names]

\* Who holds a frame knows how it stands.
Holders ==
  /\ \A t \in AllThreads :
       /\ In(t, "body") => frame[run[t].frame].phase = "running"
       /\ In(t, "posting") =>
            frame[run[t].frame].phase = "suspended" /\ At(run[t].frame, "schedule")
  /\ \A s \in Schedulers :
       /\ \A f \in ready[s] :
            /\ frame[f].phase = "suspended"
            /\ (At(f, "schedule") /\ Step(f).on = s) \/ At(f, "wait")
       /\ \A f \in pending[s] : frame[f].phase = "suspended" /\ At(f, "wait")

HasChild(f) == \E d \in Names \ {Root} : Active(d) /\ frame[d].continuation = f

Called(f) ==
  LET c == frame[f].continuation
  IN frame[c].phase = "suspended" /\ ~Held(c) /\ WaitsFor(c, f)

\* From sync down to what is held, each awaits the next.
Chain ==
  \A f \in Names : Active(f) =>
    /\ Used(f)
    /\ Held(f) \/ HasChild(f)
    /\ frame[f].phase = "running" => Held(f)
    /\ f # Root => Called(f)

\* Those that wait or move back have a scheduler in their payload.
Payloads ==
  \A f \in Names :
    /\ Active(f) /\ (IsCapture(f) \/ IsThisCoro(f)) => frame[f].payload \in Schedulers
    /\ Kind(f) = "scheduled" => frame[f].payload \in Schedulers

Ends ==
  /\ main = "starting" =>
       /\ Nowhere(run, ready, pending) /\ ~signaled
       /\ \A f \in Names : frame[f].phase = "cold"
  /\ signaled => Nowhere(run, ready, pending) /\ ~Active(Root)
  /\ \A f \in Names : frame[f].phase = "destroyed" => signaled

Inv ==
  Types /\ InOnePlace(run, ready, pending) /\ Holders /\ Chain /\ Payloads /\ Ends

LEMMA StatementFacts ==
  ASSUME Types, NEW f \in Names, NEW k \in Nat \ {0}
  PROVE  /\ Len(Body(f)) \in Nat
         /\ k <= Len(Body(f)) =>
              /\ Body(f)[k].op \in {"await", "schedule", "wait"}
              /\ Body(f)[k].op = "await" => Calls(f, Awaited(f, Body(f)[k].of))
              /\ Body(f)[k].op = "schedule" /\ ~IsCapture(f) => Body(f)[k].on \in Schedulers
              /\ Body(f)[k].op = "schedule" /\ IsCapture(f) => Body(f)[k].on = frame[f].payload
              /\ Body(f)[k].op = "wait" => ~IsCapture(f) /\ Kind(f) = "executor"
<1>1. IsProgram(program)
  BY DEF Types
<1>2. CASE IsCapture(f)
  <2>1. Body(f) = << AwaitOf(Tail(f)), ScheduleOn(frame[f].payload) >>
    BY <1>2 DEF Body
  <2>2. Len(Body(f)) = 2 /\ Body(f)[1] = AwaitOf(Tail(f)) /\ Body(f)[2] = ScheduleOn(frame[f].payload)
    BY <2>1
  <2>3. k <= Len(Body(f)) => k \in {1, 2}
    BY <1>1, <2>2
  <2>4. Calls(f, Tail(f)) /\ \A d : Awaited(f, d) = d
    BY <1>2 DEF Calls, Awaited, IsThisCoro, Kind
  <2>5. AwaitOf(Tail(f)).op = "await" /\ AwaitOf(Tail(f)).of = Tail(f)
    BY DEF AwaitOf
  <2>6. ScheduleOn(frame[f].payload).op = "schedule" /\ ScheduleOn(frame[f].payload).on = frame[f].payload
    BY DEF ScheduleOn
  <2>7. k <= Len(Body(f)) => Body(f)[k] = AwaitOf(Tail(f)) \/ Body(f)[k] = ScheduleOn(frame[f].payload)
    BY <2>2, <2>3
  <2>8. Len(Body(f)) \in Nat
    BY <2>2
  <2>9. CASE Body(f)[k] = AwaitOf(Tail(f))
    BY <1>2, <2>4, <2>5, <2>8, <2>9
  <2>10. CASE Body(f)[k] = ScheduleOn(frame[f].payload)
    BY <1>2, <2>6, <2>8, <2>10
  <2> QED BY <2>7, <2>8, <2>9, <2>10
<1>3. CASE ~IsCapture(f)
  <2>1. f \in DOMAIN program /\ Kind(f) = program[f].kind
    BY <1>1, <1>3, NameFacts DEF Kind
  <2>2. Kind(f) \in {"sync", "scheduled", "executor", "foreign"}
    BY <1>1, <2>1 DEF IsProgram
  <2>3. CASE Kind(f) = "sync"
    <3>1. Body(f) = << AwaitOf(program[f].task) >>
      BY <1>3, <2>3 DEF Body
    <3>2. Len(Body(f)) = 1 /\ Body(f)[1] = AwaitOf(program[f].task)
      BY <3>1
    <3>3. k <= Len(Body(f)) => k = 1
      BY <1>1, <3>2
    <3>4. program[f].task \in AwaitedBy(program, f) /\ Awaited(f, program[f].task) = program[f].task
      BY <2>1, <2>3 DEF AwaitedBy, Awaited, IsThisCoro
    <3>5. Calls(f, program[f].task)
      BY <1>3, <2>1, <2>3, <3>4 DEF Calls
    <3> QED BY <1>3, <3>2, <3>3, <3>4, <3>5 DEF AwaitOf
  <2>4. CASE Kind(f) = "scheduled"
    <3> DEFINE g == program[f].task
    <3>1. Body(f) = << ScheduleOn(program[f].on), AwaitOf(Steal(g)) >>
      BY <1>3, <2>1, <2>4 DEF Body
    <3>2. Len(Body(f)) = 2 /\ Body(f)[1] = ScheduleOn(program[f].on) /\ Body(f)[2] = AwaitOf(Steal(g))
      BY <3>1
    <3>3. k <= Len(Body(f)) => k \in {1, 2}
      BY <1>1, <3>2
    <3>4. /\ g \in AwaitedBy(program, f) /\ g \in DOMAIN program
          /\ program[f].on \in Schedulers
      BY <1>1, <2>1, <2>4 DEF AwaitedBy, IsProgram
    <3>5. Kind(g) = program[g].kind /\ Kind(Capture(g)) = "capture"
      BY <1>1, <3>4, NameFacts DEF Kind
    <3>6. Calls(f, Awaited(f, Steal(g)))
      BY <1>3, <2>1, <2>4, <3>4, <3>5 DEF Calls, Awaited, IsThisCoro, Steal
    <3> QED BY <1>3, <3>2, <3>3, <3>4, <3>6 DEF AwaitOf, ScheduleOn
  <2>5. CASE Kind(f) \in {"executor", "foreign"}
    <3>1. Body(f) = program[f].body
      BY <1>3, <2>5 DEF Body
    <3>2. /\ program[f].body \in Seq(Statements)
          /\ \A n \in 1 .. Len(program[f].body) : IsStatement(program, f, program[f].body[n])
      BY <1>1, <2>1, <2>5 DEF IsProgram
    <3>3. Len(Body(f)) \in Nat
      BY <3>1, <3>2
    <3>4. ASSUME k <= Len(Body(f)) PROVE k \in 1 .. Len(program[f].body)
      BY <1>1, <3>1, <3>3, <3>4
    <3>5. k <= Len(Body(f)) => IsStatement(program, f, Body(f)[k]) /\ Body(f)[k] = program[f].body[k]
      BY <3>1, <3>2, <3>4
    <3>6. ASSUME k <= Len(Body(f)), Body(f)[k].op = "await"
          PROVE  Calls(f, Awaited(f, Body(f)[k].of))
      <4> DEFINE g == Body(f)[k].of
      <4>1. g \in AwaitedBy(program, f)
        BY <2>1, <2>5, <3>4, <3>5, <3>6 DEF AwaitedBy
      <4>2. g \in DOMAIN program
        BY <1>1, <2>1, <4>1, AwaitedFacts
      <4>3. Kind(g) = program[g].kind
        BY <1>1, <4>2, NameFacts DEF Kind
      <4> HIDE DEF g
      <4>4. Calls(f, Awaited(f, g))
        BY <1>3, <2>1, <2>5, <4>1, <4>3 DEF Calls, Awaited, IsThisCoro, Steal
      <4> QED BY <4>4 DEF g
    <3> QED BY <1>3, <2>1, <3>3, <3>5, <3>6 DEF IsStatement
  <2> QED BY <2>2, <2>3, <2>4, <2>5
<1> QED BY <1>2, <1>3

LEMMA BodyFacts ==
  ASSUME Types, NEW f \in Names
  PROVE  /\ Len(Body(f)) \in Nat
         /\ ~AtEnd(f) =>
              /\ Step(f).op \in {"await", "schedule", "wait"}
              /\ Step(f).op = "await" => Calls(f, Awaited(f, Step(f).of))
              /\ Step(f).op = "schedule" /\ ~IsCapture(f) => Step(f).on \in Schedulers
              /\ Step(f).op = "schedule" /\ IsCapture(f) => Step(f).on = frame[f].payload
              /\ Step(f).op = "wait" => ~IsCapture(f) /\ Kind(f) = "executor"
<1>1. frame[f].at \in Nat \ {0}
  BY DEF Types, FrameType
<1>2. Len(Body(f)) \in Nat
  BY <1>1, StatementFacts
<1>3. ~AtEnd(f) => frame[f].at <= Len(Body(f))
  BY <1>1, <1>2 DEF AtEnd
<1> QED BY <1>1, <1>2, <1>3, StatementFacts DEF Step

\* Who waits for what does not change with other frames.
LEMMA StillWaits ==
  ASSUME program' = program, NEW c,
         frame'[c].at = frame[c].at, IsCapture(c) => frame'[c].payload = frame[c].payload
  PROVE  /\ \A d : WaitsFor(c, d)' <=> WaitsFor(c, d)
         /\ \A op : At(c, op)' <=> At(c, op)
         /\ Step(c)' = Step(c)
<1>1. \A f : Kind(f)' = Kind(f)
  BY DEF Kind
<1>2. \A f : Steal(f)' = Steal(f)
  BY <1>1 DEF Steal
<1>3. Body(c)' = Body(c)
  BY <1>1, <1>2 DEF Body
<1>4. \A d : Awaited(c, d)' = Awaited(c, d)
  BY <1>1, <1>2 DEF Awaited, IsThisCoro
<1>5. Step(c)' = Step(c) /\ AtEnd(c)' = AtEnd(c)
  BY <1>3 DEF Step, AtEnd
<1> QED BY <1>4, <1>5 DEF WaitsFor, At

LEMMA StillUsed ==
  ASSUME program' = program
  PROVE  /\ \A f : Used(f)' <=> Used(f)
         /\ \A f : Kind(f)' = Kind(f)
         /\ Names' = Names
BY DEF Used, AwaitedIn, AwaitedBy, Kind, Names

\* Only the one that called a frame waits for it.
LEMMA CallerWaits ==
  ASSUME Types, Chain, NEW f \in Names, Active(f), f # Root,
         NEW e \in Names, Active(e) \/ e = Root, WaitsFor(e, f) \/ Calls(e, f)
  PROVE  frame[f].continuation = e
<1> DEFINE c == frame[f].continuation
<1>1. c \in Names /\ Active(c) /\ WaitsFor(c, f)
  BY DEF Chain, Called, Types, FrameType, Active
<1>2. Used(c) /\ (Active(e) => Used(e)) /\ Used(Root)
  BY <1>1 DEF Chain, Used, Types, IsProgram
<1>3. Calls(c, f) /\ Calls(e, f)
  BY <1>1, BodyFacts DEF WaitsFor, At
<1> QED BY <1>2, <1>3, OneCaller DEF Types

\* What is held moves on, or is handed to somebody else to hold.
LEMMA ChainMoves ==
  ASSUME Types, Chain, program' = program, NEW f \in Names,
         Active(f), Active(f)', frame'[f].continuation = frame[f].continuation,
         \A g \in Names \ {f} : frame'[g] = frame[g],
         \A g : Held(g) <=> g = f, \A g : Held(g)' <=> g = f
  PROVE  Chain'
<1> SUFFICES ASSUME NEW g \in Names, Active(g)'
             PROVE  /\ Used(g)' /\ (Held(g)' \/ HasChild(g)')
                    /\ frame'[g].phase = "running" => Held(g)'
                    /\ g # Root => Called(g)'
  BY StillUsed DEF Chain
<1>1. Active(g)
  BY DEF Active
<1>2. Used(g)'
  BY <1>1, StillUsed DEF Chain
<1>3. Held(g)' \/ HasChild(g)'
  <2>1. CASE g # f
    <3>1. PICK d \in Names \ {Root} : Active(d) /\ frame[d].continuation = g
      BY <1>1, <2>1 DEF Chain, HasChild
    <3>2. Active(d)' /\ frame'[d].continuation = g
      BY <3>1 DEF Active
    <3> QED BY <3>1, <3>2, StillUsed DEF HasChild
  <2> QED BY <2>1
<1>4. frame'[g].phase = "running" => Held(g)'
  BY <1>1 DEF Chain
<1>5. ASSUME g # Root PROVE Called(g)'
  <2> DEFINE c == frame[g].continuation
  <2>1. c \in Names /\ frame[c].phase = "suspended" /\ ~Held(c) /\ WaitsFor(c, g)
    BY <1>1, <1>5 DEF Chain, Called, Types, FrameType
  <2>2. c # f /\ frame'[c] = frame[c] /\ frame'[g].continuation = c
    BY <2>1
  <2>3. WaitsFor(c, g)'
    BY <2>1, <2>2, StillWaits
  <2> QED BY <2>1, <2>2, <2>3 DEF Called
<1> QED BY <1>2, <1>3, <1>4, <1>5

\* What a running coroutine awaits is not begun.
LEMMA NotBegun ==
  ASSUME Types, Chain, NEW f \in Names, frame[f].phase = "running", NEW d, WaitsFor(f, d)
  PROVE  d \in Names /\ d # Root /\ d # f /\ ~Active(d) /\ Calls(f, d) /\ Used(f) /\ Used(d)
<1>1. Used(f) /\ Calls(f, d)
  BY BodyFacts DEF Chain, Active, WaitsFor, At
<1>2. Used(d) /\ d \in Names /\ d # Root
  BY <1>1, CallsUsed DEF Types
<1>3. ~Active(d)
  <2> SUFFICES ASSUME Active(d) PROVE FALSE
    OBVIOUS
  <2>1. frame[d].continuation = f
    BY <1>2, CallerWaits DEF Active
  <2> QED BY <1>2, <2>1 DEF Chain, Called
<1> QED BY <1>1, <1>2, <1>3 DEF Active

\* f awaits d, which is begun and is held instead.
LEMMA ChainGrows ==
  ASSUME Types, Chain, program' = program, NEW f \in Names, frame[f].phase = "running",
         NEW d, WaitsFor(f, d), frame'[f].phase = "suspended",
         frame'[f].at = frame[f].at, frame'[f].payload = frame[f].payload,
         frame'[f].continuation = frame[f].continuation,
         frame'[d].phase = "running", frame'[d].continuation = f,
         \A g \in Names \ {f, d} : frame'[g] = frame[g],
         \A g : Held(g) <=> g = f, \A g : Held(g)' <=> g = d
  PROVE  Chain'
<1>1. d \in Names /\ d # Root /\ Used(d)
  BY NotBegun
<1>2. d \in Names /\ d # Root /\ Used(d)
  BY <1>1
<1>3. ~Active(d)
  BY NotBegun
<1>4. d # f
  BY NotBegun
<1>5. Chain'
  <2> SUFFICES ASSUME NEW g \in Names, Active(g)'
               PROVE  /\ Used(g)' /\ (Held(g)' \/ HasChild(g)')
                      /\ frame'[g].phase = "running" => Held(g)'
                      /\ g # Root => Called(g)'
    BY StillUsed DEF Chain
  <2>1. CASE g = d
    <3>1. WaitsFor(f, d)'
      BY StillWaits
    <3>2. Called(d)'
      BY <1>4, <3>1 DEF Called
    <3> QED BY <1>2, <2>1, <3>2, StillUsed
  <2>2. CASE g # d
    <3>1. Active(g) /\ frame'[g].continuation = frame[g].continuation
      BY <2>2 DEF Active
    <3>2. HasChild(g)'
      <4>1. CASE g = f
        BY <1>2, <1>4, <4>1, StillUsed DEF HasChild, Active
      <4>2. CASE g # f
        <5>1. PICK x \in Names \ {Root} : Active(x) /\ frame[x].continuation = g
          BY <3>1, <4>2 DEF Chain, HasChild
        <5>2. Active(x)' /\ frame'[x].continuation = g
          BY <1>3, <5>1 DEF Active
        <5> QED BY <5>1, <5>2, StillUsed DEF HasChild
      <4> QED BY <4>1, <4>2
    <3>3. frame'[g].phase # "running"
      BY <2>2, <3>1 DEF Chain
    <3>4. ASSUME g # Root PROVE Called(g)'
      <4> DEFINE c == frame[g].continuation
      <4>1. c \in Names /\ frame[c].phase = "suspended" /\ ~Held(c) /\ WaitsFor(c, g)
        BY <3>1, <3>4 DEF Chain, Called, Types, FrameType
      <4>2. c # f /\ c # d
        BY <1>3, <4>1 DEF Active
      <4>3. frame'[c] = frame[c] /\ frame'[g].continuation = c
        BY <3>1, <4>1, <4>2
      <4>4. WaitsFor(c, g)'
        BY <4>1, <4>3, StillWaits
      <4> QED BY <4>1, <4>2, <4>3, <4>4 DEF Called
    <3> QED BY <3>1, <3>2, <3>3, <3>4, StillUsed DEF Chain
  <2> QED BY <2>1, <2>2
<1> QED BY <1>5

\* What is held ends, and its caller goes on.
LEMMA ChainShrinks ==
  ASSUME Types, Chain, program' = program, NEW f \in Names, Active(f), f # Root,
         NEW c, c = frame[f].continuation, ~Active(f)', Active(c)',
         frame'[c].continuation = frame[c].continuation,
         \A g \in Names \ {f, c} : frame'[g] = frame[g],
         \A g : Held(g) <=> g = f, \A g : Held(g)' <=> g = c
  PROVE  Chain'
<1>1. c \in Names /\ frame[c].phase = "suspended" /\ ~Held(c) /\ WaitsFor(c, f) /\ c # f /\ Active(c)
  BY DEF Chain, Called, Types, FrameType, Active
<1> SUFFICES ASSUME NEW g \in Names, Active(g)'
             PROVE  /\ Used(g)' /\ (Held(g)' \/ HasChild(g)')
                    /\ frame'[g].phase = "running" => Held(g)'
                    /\ g # Root => Called(g)'
  BY StillUsed DEF Chain
<1>2. g # f /\ Active(g) /\ frame'[g].continuation = frame[g].continuation
  BY <1>1 DEF Active
<1>3. ASSUME g # c PROVE HasChild(g)'
  <2>1. PICK x \in Names \ {Root} : Active(x) /\ frame[x].continuation = g
    BY <1>2 DEF Chain, HasChild
  <2>2. x # f
    BY <1>3, <2>1
  <2>3. Active(x)' /\ frame'[x].continuation = g
    BY <2>1, <2>2 DEF Active
  <2> QED BY <2>1, <2>3, StillUsed DEF HasChild
<1>4. frame'[g].phase = "running" => Held(g)'
  BY <1>2 DEF Chain
<1>5. ASSUME g # Root PROVE Called(g)'
  <2> DEFINE e == frame[g].continuation
  <2>1. e \in Names /\ frame[e].phase = "suspended" /\ ~Held(e) /\ WaitsFor(e, g)
    BY <1>2, <1>5 DEF Chain, Called, Types, FrameType
  <2>2. e # c
    <3> SUFFICES ASSUME e = c PROVE FALSE
      OBVIOUS
    <3>1. g = f
      BY <1>1, <2>1 DEF WaitsFor
    <3> QED BY <1>2, <3>1
  <2>3. e # f /\ frame'[e] = frame[e] /\ frame'[g].continuation = e
    BY <1>2, <2>1, <2>2
  <2>4. WaitsFor(e, g)'
    BY <2>1, <2>3, StillWaits
  <2> QED BY <2>1, <2>2, <2>3, <2>4 DEF Called
<1> QED BY <1>2, <1>3, <1>4, <1>5, StillUsed DEF Chain

\* sync is done, and what is gone was.
LEMMA ChainEnds ==
  ASSUME Types, Chain, program' = program, NEW gone \in SUBSET Names, Root \in gone,
         Held(Root) \/ ~Active(Root), \A f \in gone : ~Active(f)' /\ (f = Root \/ ~Active(f)),
         \A g \in Names \ gone : frame'[g] = frame[g],
         \A g : Held(g) => g = Root, \A g : ~Held(g)'
  PROVE  Chain'
<1> SUFFICES ASSUME NEW g \in Names, Active(g)'
             PROVE  /\ Used(g)' /\ (Held(g)' \/ HasChild(g)')
                    /\ frame'[g].phase = "running" => Held(g)'
                    /\ g # Root => Called(g)'
  BY StillUsed DEF Chain
<1>1. g \notin gone /\ Active(g) /\ frame'[g] = frame[g] /\ ~Held(g)
  BY DEF Active
<1>2. HasChild(g)'
  <2>1. PICK x \in Names \ {Root} : Active(x) /\ frame[x].continuation = g
    BY <1>1 DEF Chain, HasChild
  <2>2. x \notin gone
    BY <2>1
  <2>3. Active(x)' /\ frame'[x].continuation = g
    BY <2>1, <2>2 DEF Active
  <2> QED BY <2>1, <2>3, StillUsed DEF HasChild
<1>3. Called(g)'
  <2> DEFINE e == frame[g].continuation
  <2>1. e \in Names /\ frame[e].phase = "suspended" /\ ~Held(e) /\ WaitsFor(e, g)
    BY <1>1 DEF Chain, Called, Types, FrameType
  <2>2. e \notin gone
    BY <2>1 DEF Active
  <2>3. frame'[e] = frame[e] /\ frame'[g].continuation = e
    BY <1>1, <2>1, <2>2
  <2>4. WaitsFor(e, g)'
    BY <2>1, <2>3, StillWaits
  <2> QED BY <2>1, <2>3, <2>4 DEF Called
<1> QED BY <1>1, <1>2, <1>3, StillUsed DEF Chain

-----------------------------------------------------------------------------
(* Step by step.                                                           *)

LEMMA BodyThread ==
  ASSUME Inv, NEW t \in AllThreads, In(t, "body")
  PROVE  LET f == run[t].frame
         IN /\ f \in Names /\ frame[f] \in FrameType /\ frame[f].phase = "running"
            /\ Active(f) /\ Used(f)
            /\ OnThread(run, ready, pending, t) /\ \A g : Held(g) <=> g = f
            /\ ~signaled /\ main # "starting"
<1> DEFINE f == run[t].frame
<1>1. f \in Names /\ frame[f] \in FrameType /\ frame[f].phase = "running" /\ Active(f)
  BY DEF Inv, Types, Holders, Active
<1>2. OnThread(run, ready, pending, t)
  BY PlaceIs DEF Inv, In, Working
<1>3. Used(f)
  BY <1>1 DEF Inv, Chain
<1>4. ~signaled /\ main # "starting"
  BY DEF Inv, Ends, Nowhere, In, Working
<1> QED BY <1>1, <1>2, <1>3, <1>4, HolderIs DEF Held

LEMMA StillTyped ==
  ASSUME program' = program
  PROVE  Names' = Names /\ FrameType' = FrameType
BY StillUsed DEF FrameType

LEMMA FrameUpdate ==
  ASSUME NEW r \in FrameType, NEW phase \in {"cold", "running", "suspended", "done", "destroyed"},
         NEW at \in Nat \ {0}, NEW exception \in BOOLEAN
  PROVE  /\ [r EXCEPT !.phase = phase, !.exception = exception, !.at = at] \in FrameType
         /\ [r EXCEPT !.phase = phase, !.exception = exception] \in FrameType
         /\ [r EXCEPT !.phase = phase, !.at = at] \in FrameType
         /\ [r EXCEPT !.phase = phase] \in FrameType
         /\ [r EXCEPT !.at = at] \in FrameType
BY DEF FrameType

LEMMA ResumedFacts ==
  ASSUME Types, NEW frames \in [Names -> FrameType], NEW f \in Names, NEW child
  PROVE  LET r == Resumed(frames, f, child)
         IN /\ r \in [Names -> FrameType] /\ \A g \in Names \ {f} : r[g] = frames[g]
            /\ r[f].phase = "running" /\ r[f].continuation = frames[f].continuation
            /\ r[f].payload = frames[f].payload
<1> DEFINE x == [frames[f] EXCEPT !.phase = "running", !.exception = TRUE, !.at = Len(Body(f)) + 1]
           y == [frames[f] EXCEPT !.phase = "running", !.at = @ + 1]
<1>1. /\ Len(Body(f)) + 1 \in Nat \ {0} /\ frames[f].at + 1 \in Nat \ {0}
      /\ frames[f] \in FrameType
  BY BodyFacts DEF FrameType
<1>2. x \in FrameType
  BY <1>1, FrameUpdate, Zenon
<1>3. y \in FrameType
  BY <1>1, FrameUpdate, Zenon
<1>4. /\ x.phase = "running" /\ x.continuation = frames[f].continuation /\ x.payload = frames[f].payload
      /\ y.phase = "running" /\ y.continuation = frames[f].continuation /\ y.payload = frames[f].payload
  BY DEF FrameType
<1>5. Resumed(frames, f, child) \in {[frames EXCEPT ![f] = x], [frames EXCEPT ![f] = y]}
  BY DEF Resumed, FrameType
<1> HIDE DEF x, y
<1> QED BY <1>2, <1>3, <1>4, <1>5

\* What is held is held elsewhere, or has gone on.
LEMMA Moves ==
  ASSUME Inv, NEW f \in Names, Active(f), \A g : Held(g) <=> g = f,
         program' = program, main' = main, signaled' = signaled,
         frame' \in [Names -> FrameType], \A g \in Names \ {f} : frame'[g] = frame[g],
         Active(f)', frame'[f].continuation = frame[f].continuation,
         frame'[f].payload \in Schedulers \cup {frame[f].payload},
         run' \in [AllThreads -> [frame : Names, doing : {"nothing", "body", "posting", "notifying"}]],
         ready' \in [Schedulers -> SUBSET Names], pending' \in [Schedulers -> SUBSET Names],
         InOnePlace(run, ready, pending)', \A g : Held(g)' <=> g = f, Holders'
  PROVE  Inv'
<1>1. Names' = Names /\ FrameType' = FrameType /\ \A g : Kind(g)' = Kind(g)
  BY StillTyped, StillUsed
<1>2. ~signaled /\ main # "starting"
  <2>1. ~Nowhere(run, ready, pending)
    BY HolderIs DEF Held
  <2> QED BY <2>1 DEF Inv, Ends
<1>3. Types'
  BY <1>1 DEF Inv, Types
<1>4. Chain'
  BY ChainMoves DEF Inv
<1>5. Payloads'
  BY <1>1 DEF Inv, Payloads, Active, IsThisCoro
<1>6. Ends'
  BY <1>1, <1>2 DEF Inv, Ends, Active
<1> QED BY <1>3, <1>4, <1>5, <1>6 DEF Inv

\* The thread goes on in the same frame.
LEMMA GoesOn ==
  ASSUME Inv, NEW t \in AllThreads, In(t, "body"), NEW f, f = run[t].frame,
         frame' \in [Names -> FrameType], \A g \in Names \ {f} : frame'[g] = frame[g],
         frame'[f].phase = "running", frame'[f].continuation = frame[f].continuation,
         frame'[f].payload = frame[f].payload,
         program' = program, run' = run, ready' = ready, pending' = pending,
         main' = main, signaled' = signaled
  PROVE  Inv'
<1>1. /\ f \in Names /\ Active(f) /\ OnThread(run, ready, pending, t) /\ \A g : Held(g) <=> g = f
  BY BodyThread
<1>2. Names' = Names /\ Active(f)'
  BY StillTyped DEF Active
<1>3. InOnePlace(run, ready, pending)' /\ \A g : Held(g)' <=> g = f
  BY <1>1, <1>2 DEF Inv, InOnePlace, Held
<1>4. Holders'
  BY <1>1 DEF Holders, In, OnThread, Working, NoFrames
<1>5. /\ run' \in [AllThreads -> [frame : Names, doing : {"nothing", "body", "posting", "notifying"}]]
      /\ ready' \in [Schedulers -> SUBSET Names] /\ pending' \in [Schedulers -> SUBSET Names]
  BY DEF Inv, Types
<1> QED BY <1>1, <1>2, <1>3, <1>4, <1>5, Moves

LEMMA AwaitKeeps ==
  ASSUME Inv, NEW t \in AllThreads, Await(t)
  PROVE  Inv'
<1> DEFINE f == run[t].frame
           d == Awaited(f, Step(f).of)
<1>1. /\ f \in Names /\ frame[f] \in FrameType /\ frame[f].phase = "running"
      /\ Active(f) /\ Used(f)
      /\ OnThread(run, ready, pending, t) /\ \A g : Held(g) <=> g = f
      /\ ~signaled /\ main # "starting"
  BY BodyThread DEF Await
<1>2. /\ Types /\ Chain /\ Payloads /\ Holders /\ Ends
      /\ frame \in [Names -> FrameType]
      /\ run \in [AllThreads -> [frame : Names, doing : {"nothing", "body", "posting", "notifying"}]]
  BY DEF Inv, Types
<1>3. /\ program' = program /\ ready' = ready /\ pending' = pending
      /\ main' = main /\ signaled' = signaled
      /\ WaitsFor(f, d) /\ In(t, "body")
  BY DEF Await, WaitsFor, At
<1>4. Names' = Names /\ FrameType' = FrameType /\ \A g : Kind(g)' = Kind(g)
  BY <1>3, StillTyped, StillUsed
<1>5. CASE frame[d].phase = "done"
  <2>1. frame' = Resumed(frame, f, d) /\ run' = run
    BY <1>5 DEF Await
  <2> HIDE DEF f, d
  <2>2. /\ frame' \in [Names -> FrameType] /\ \A g \in Names \ {f} : frame'[g] = frame[g]
        /\ frame'[f].phase = "running" /\ frame'[f].continuation = frame[f].continuation
        /\ frame'[f].payload = frame[f].payload
    BY <1>1, <1>2, <2>1, ResumedFacts
  <2> QED BY <1>3, <2>1, <2>2, GoesOn DEF f
<1>6. CASE frame[d].phase # "done"
  <2>1. /\ frame' = [frame EXCEPT ![f].phase = "suspended", ![d].phase = "running",
                                  ![d].continuation = f, ![d].payload = Payload(f, d)]
        /\ run' = [run EXCEPT ![t] = [frame |-> d, doing |-> "body"]]
    BY <1>6 DEF Await, Enter
  <2> HIDE DEF f, d
  <2>2. d \in Names /\ d # Root /\ d # f /\ ~Active(d) /\ Calls(f, d) /\ Used(f) /\ Used(d)
    BY <1>1, <1>2, <1>3, NotBegun
  <2>3. Payload(f, d) \in Schedulers \cup {None}
    BY <1>1, <1>2, <2>2 DEF Payload, FrameType
  <2>4. OnThread(run', ready', pending', t) /\ run'[t].frame = d /\ run'[t].doing = "body"
    BY <1>1, <1>2, <1>3, <2>1 DEF OnThread, Working
  <2>5. \A g : Held(g)' <=> g = d
    BY <2>4, HolderIs DEF Held
  <2> DEFINE x == [frame[f] EXCEPT !.phase = "suspended"]
             y == [frame[d] EXCEPT !.phase = "running", !.continuation = f, !.payload = Payload(f, d)]
  <2>6. x \in FrameType /\ y \in FrameType
    <3>1. x \in FrameType
      BY <1>1 DEF FrameType
    <3>2. frame[d] \in FrameType
      BY <1>2, <2>2
    <3>3. y \in FrameType
      BY <1>1, <2>3, <3>2 DEF FrameType
    <3> QED BY <3>1, <3>3
  <2>7. frame' = [frame EXCEPT ![f] = x, ![d] = y]
    BY <1>2, <2>1, <2>2
  <2>8. /\ x.at = frame[f].at /\ x.phase = "suspended" /\ x.payload = frame[f].payload
        /\ x.continuation = frame[f].continuation
        /\ y.phase = "running" /\ y.continuation = f /\ y.payload = Payload(f, d)
    BY <1>1, <1>2, <2>2 DEF FrameType
  <2> HIDE DEF x, y
  <2>9. /\ frame' \in [Names -> FrameType] /\ frame'[f] = x /\ frame'[d] = y
        /\ \A g \in Names \ {f, d} : frame'[g] = frame[g]
    BY <1>1, <1>2, <2>2, <2>6, <2>7
  <2>10. Types'
    BY <1>2, <1>3, <1>4, <2>1, <2>2, <2>9 DEF Types
  <2>11. InOnePlace(run, ready, pending)'
    BY <2>4 DEF InOnePlace
  <2>12. Holders'
    BY <1>4, <2>4, <2>8, <2>9 DEF Holders, In, OnThread, Working, NoFrames
  <2>13. Chain'
    BY <1>1, <1>2, <1>3, <2>5, <2>8, <2>9, ChainGrows
  <2>14. Payloads'
    <3>1. CASE Payload(f, d) = frame[f].payload /\ ~(d \in DOMAIN program /\ Kind(d) # "executor")
      <4>1. IsProgram(program) /\ (IsCapture(d) <=> d \notin DOMAIN program)
        BY <1>2, <2>2, NameFacts DEF Types
      <4>2. IsCapture(d) \/ Kind(d) = "executor"
        BY <3>1, <4>1
      <4>3. IsCapture(f) \/ program[f].kind \in {"executor", "scheduled"}
        BY <2>2, <4>1, <4>2, CallsUsed
      <4>4. IsCapture(f) \/ IsThisCoro(f)
        BY <4>3 DEF IsThisCoro, Kind
      <4>5. frame[f].payload \in Schedulers
        BY <1>1, <1>2, <4>4 DEF Payloads
      <4> QED BY <1>1, <1>2, <1>4, <2>8, <2>9, <3>1, <4>5 DEF Payloads, Active, IsThisCoro
    <3>2. CASE Payload(f, d) = frame[d].payload /\ d \in DOMAIN program /\ Kind(d) # "executor"
      <4>1. ~IsCapture(d)
        BY <1>2, <3>2, NameFacts DEF Types
      <4>2. IsThisCoro(d) => Payload(f, d) \in Schedulers
        BY <1>2, <2>2, <3>2 DEF Payloads, IsThisCoro
      <4>3. Kind(d) = "scheduled" => Payload(f, d) \in Schedulers
        BY <1>2, <2>2, <3>2 DEF Payloads
      <4> QED BY <1>1, <1>2, <1>4, <2>8, <2>9, <4>1, <4>2, <4>3 DEF Payloads, Active, IsThisCoro
    <3> QED BY <3>1, <3>2 DEF Payload
  <2>15. Ends'
    BY <1>1, <1>2, <1>3, <1>4, <2>8, <2>9 DEF Ends
  <2> QED BY <2>10, <2>11, <2>12, <2>13, <2>14, <2>15 DEF Inv
<1> QED BY <1>5, <1>6

\* The frame that the thread leaves suspended.
LEMMA Suspended ==
  ASSUME NEW r \in FrameType, NEW payload \in Schedulers \cup {None}
  PROVE  LET x == [r EXCEPT !.phase = "suspended", !.payload = payload]
         IN /\ x \in FrameType /\ x.phase = "suspended" /\ x.payload = payload
            /\ x.at = r.at /\ x.continuation = r.continuation
BY DEF FrameType

LEMMA ScheduleKeeps ==
  ASSUME Inv, NEW t \in AllThreads, Schedule(t)
  PROVE  Inv'
<1> SUFFICES ASSUME NEW f, f = run[t].frame PROVE Inv'
  OBVIOUS
<1> DEFINE on == Step(f).on
<1>1. /\ f \in Names /\ frame[f] \in FrameType /\ frame[f].phase = "running"
      /\ Active(f) /\ Used(f)
      /\ OnThread(run, ready, pending, t) /\ \A g : Held(g) <=> g = f
  BY BodyThread DEF Schedule
<1>2. /\ Types /\ frame \in [Names -> FrameType]
      /\ run \in [AllThreads -> [frame : Names, doing : {"nothing", "body", "posting", "notifying"}]]
      /\ ready \in [Schedulers -> SUBSET Names] /\ pending \in [Schedulers -> SUBSET Names]
  BY DEF Inv, Types
<1>3. /\ program' = program /\ ready' = ready /\ pending' = pending
      /\ main' = main /\ signaled' = signaled
      /\ At(f, "schedule") /\ In(t, "body")
  BY DEF Schedule, At
<1>4. Names' = Names
  BY <1>3, StillTyped
<1>5. CASE Scheduler(t) = on
  <2>1. frame' = [frame EXCEPT ![f].at = @ + 1] /\ run' = run
    BY <1>5 DEF Schedule
  <2> DEFINE x == [frame[f] EXCEPT !.at = @ + 1]
  <2>2. /\ x \in FrameType /\ x.phase = "running" /\ x.continuation = frame[f].continuation
        /\ x.payload = frame[f].payload
    BY <1>1 DEF FrameType
  <2>3. frame' = [frame EXCEPT ![f] = x]
    BY <2>1
  <2> HIDE DEF x
  <2>4. /\ frame' \in [Names -> FrameType] /\ \A g \in Names \ {f} : frame'[g] = frame[g]
        /\ frame'[f].phase = "running" /\ frame'[f].continuation = frame[f].continuation
        /\ frame'[f].payload = frame[f].payload
    BY <1>1, <1>2, <2>2, <2>3
  <2> QED BY <1>3, <2>1, <2>4, GoesOn
<1>6. CASE Scheduler(t) # on
  <2> DEFINE payload == IF IsThisCoro(f) THEN on ELSE frame[f].payload
             x == [frame[f] EXCEPT !.phase = "suspended", !.payload = payload]
  <2>1. /\ frame' = [frame EXCEPT ![f].phase = "suspended",
                                  ![f].payload = IF IsThisCoro(f) THEN on ELSE @]
        /\ run' = [run EXCEPT ![t] = [frame |-> f, doing |-> "posting"]]
    BY <1>6 DEF Schedule, Enter
  <2>2. frame' = [frame EXCEPT ![f] = x]
    BY <1>1, <1>2, <2>1
  <2>3. /\ IsThisCoro(f) => ~IsCapture(f)
        /\ payload \in Schedulers \cup {frame[f].payload}
        /\ IsCapture(f) => payload = frame[f].payload
    <3>1. IsThisCoro(f) => ~IsCapture(f)
      BY DEF IsThisCoro, Kind
    <3>2. ~IsCapture(f) => on \in Schedulers
      BY <1>1, <1>2, <1>3, BodyFacts DEF At
    <3> QED BY <3>1, <3>2
  <2>4. payload \in Schedulers \cup {None}
    BY <1>1, <2>3 DEF FrameType
  <2>5. /\ x \in FrameType /\ x.phase = "suspended" /\ x.payload = payload
        /\ x.at = frame[f].at /\ x.continuation = frame[f].continuation
    BY <1>1, <2>4, Suspended
  <2> HIDE DEF x, payload
  <2>6. /\ frame' \in [Names -> FrameType] /\ \A g \in Names \ {f} : frame'[g] = frame[g]
        /\ frame'[f] = x
    BY <1>1, <1>2, <2>2, <2>5
  <2>7. /\ OnThread(run', ready', pending', t) /\ run'[t].frame = f /\ run'[t].doing = "posting"
        /\ run' \in [AllThreads -> [frame : Names, doing : {"nothing", "body", "posting", "notifying"}]]
    BY <1>1, <1>2, <1>3, <2>1 DEF OnThread, Working
  <2>8. \A g : Held(g)' <=> g = f
    BY <2>7, HolderIs DEF Held
  <2>9. InOnePlace(run, ready, pending)'
    BY <2>7 DEF InOnePlace
  <2>10. At(f, "schedule")'
    BY <1>3, <2>3, <2>5, <2>6, StillWaits
  <2>11. Holders'
    BY <2>5, <2>6, <2>7, <2>10 DEF Holders, In, OnThread, Working, NoFrames
  <2>12. Active(f)'
    BY <2>5, <2>6 DEF Active
  <2>13. ready' \in [Schedulers -> SUBSET Names] /\ pending' \in [Schedulers -> SUBSET Names]
    BY <1>2, <1>3
  <2> QED BY <1>1, <1>3, <2>3, <2>5, <2>6, <2>7, <2>8, <2>9, <2>11, <2>12, <2>13, Moves
<1> QED BY <1>5, <1>6

\* Who is about to post a frame, and who waits in a queue.
LEMMA PostingThread ==
  ASSUME Inv, NEW t \in AllThreads, In(t, "posting"), NEW f, f = run[t].frame
  PROVE  /\ f \in Names /\ Active(f) /\ At(f, "schedule") /\ Step(f).on \in Schedulers
         /\ frame[f].phase = "suspended"
         /\ OnThread(run, ready, pending, t) /\ \A g : Held(g) <=> g = f
<1>1. f \in Names /\ frame[f].phase = "suspended" /\ At(f, "schedule") /\ Active(f)
  BY DEF Inv, Types, Holders, Active
<1>2. OnThread(run, ready, pending, t)
  BY PlaceIs DEF Inv, In, Working
<1>3. IsCapture(f) => frame[f].payload \in Schedulers
  BY <1>1 DEF Inv, Payloads
<1>4. Step(f).on \in Schedulers
  BY <1>1, <1>3, BodyFacts DEF At, Inv
<1> QED BY <1>1, <1>2, <1>4, HolderIs DEF Held

LEMMA Queued ==
  ASSUME Inv, NEW s \in Schedulers, NEW f
  PROVE  /\ f \in ready[s] =>
              /\ f \in Names /\ Active(f) /\ frame[f].phase = "suspended"
              /\ (At(f, "schedule") /\ Step(f).on = s) \/ At(f, "wait")
              /\ Posted(run, ready, pending, s, f) /\ \A g : Held(g) <=> g = f
         /\ f \in pending[s] =>
              /\ f \in Names /\ Active(f) /\ frame[f].phase = "suspended" /\ At(f, "wait")
              /\ Posted(run, pending, ready, s, f) /\ \A g : Held(g) <=> g = f
<1>1. ASSUME f \in ready[s]
      PROVE  /\ f \in Names /\ Active(f) /\ frame[f].phase = "suspended"
             /\ (At(f, "schedule") /\ Step(f).on = s) \/ At(f, "wait")
             /\ Posted(run, ready, pending, s, f) /\ \A g : Held(g) <=> g = f
  <2>1. f \in Names /\ frame[f].phase = "suspended"
        /\ ((At(f, "schedule") /\ Step(f).on = s) \/ At(f, "wait"))
    BY <1>1 DEF Inv, Types, Holders
  <2>2. Posted(run, ready, pending, s, f)
    BY <1>1, PlaceIs DEF Inv
  <2> QED BY <2>1, <2>2, HolderIs DEF Held, Active
<1>2. ASSUME f \in pending[s]
      PROVE  /\ f \in Names /\ Active(f) /\ frame[f].phase = "suspended" /\ At(f, "wait")
             /\ Posted(run, pending, ready, s, f) /\ \A g : Held(g) <=> g = f
  <2>1. f \in Names /\ frame[f].phase = "suspended" /\ At(f, "wait")
    BY <1>2 DEF Inv, Types, Holders
  <2>2. Posted(run, pending, ready, s, f)
    BY <1>2, PlaceIs DEF Inv
  <2> QED BY <2>1, <2>2, HolderIs DEF Held, Active
<1> QED BY <1>1, <1>2

LEMMA PostKeeps ==
  ASSUME Inv, NEW t \in AllThreads, Post(t)
  PROVE  Inv'
<1> SUFFICES ASSUME NEW f, f = run[t].frame PROVE Inv'
  OBVIOUS
<1> SUFFICES ASSUME NEW on, on = Step(f).on PROVE Inv'
  OBVIOUS
<1>1. /\ f \in Names /\ Active(f) /\ At(f, "schedule") /\ on \in Schedulers
      /\ frame[f].phase = "suspended"
      /\ OnThread(run, ready, pending, t) /\ \A g : Held(g) <=> g = f
  BY PostingThread DEF Post
<1>2. /\ Types /\ frame \in [Names -> FrameType]
      /\ run \in [AllThreads -> [frame : Names, doing : {"nothing", "body", "posting", "notifying"}]]
      /\ ready \in [Schedulers -> SUBSET Names] /\ pending \in [Schedulers -> SUBSET Names]
  BY DEF Inv, Types
<1>3. /\ program' = program /\ frame' = frame /\ pending' = pending
      /\ main' = main /\ signaled' = signaled
      /\ ready' = [ready EXCEPT ![on] = @ \cup {f}] /\ run' = [run EXCEPT ![t] = Idle]
  BY DEF Post, Leave
<1>4. Names' = Names /\ Root \in Names
  <2>1. Root \in DOMAIN program
    BY <1>2 DEF Types, IsProgram
  <2> QED BY <1>2, <1>3, <2>1, StillTyped, NameFacts DEF Types
<1>5. ready' = Just(on, f)
  <2>1. ready = NoFrames
    BY <1>1 DEF OnThread
  <2> QED BY <1>1, <1>3, <2>1 DEF NoFrames, Just
<1>6. Posted(run', ready', pending', on, f)
  BY <1>1, <1>2, <1>3, <1>5 DEF Posted, OnThread, Idle, Working
<1>7. \A g : Held(g)' <=> g = f
  <2>1. on \in Schedulers
    BY <1>1
  <2>2. \A g : Holds(run', ready', pending', g) <=> g = f
    BY ONLY <2>1, <1>6, PostedHolds
  <2> QED BY <2>2 DEF Held
<1>8. InOnePlace(run, ready, pending)'
  BY <1>1, <1>4, <1>6 DEF InOnePlace
<1>9. /\ run' \in [AllThreads -> [frame : Names, doing : {"nothing", "body", "posting", "notifying"}]]
      /\ ready' \in [Schedulers -> SUBSET Names] /\ pending' \in [Schedulers -> SUBSET Names]
  BY <1>1, <1>2, <1>3, <1>4 DEF Idle
<1>10. At(f, "schedule")' /\ (Step(f).on = on)'
  <2>1. \A op : At(f, op)' <=> At(f, op)
    BY <1>3, StillWaits
  <2>2. Step(f)' = Step(f)
    BY <1>3, StillWaits
  <2> QED BY <1>1, <2>1, <2>2
<1>11. Holders'
  BY <1>1, <1>3, <1>6, <1>10 DEF Holders, In, Posted, Working, NoFrames, Just
<1>12. Active(f)'
  BY <1>1, <1>3 DEF Active
<1> QED BY <1>1, <1>2, <1>3, <1>7, <1>8, <1>9, <1>11, <1>12, Moves

LEMMA WaitKeeps ==
  ASSUME Inv, NEW t \in AllThreads, Wait(t)
  PROVE  Inv'
<1> SUFFICES ASSUME NEW f, f = run[t].frame PROVE Inv'
  OBVIOUS
<1>1. /\ f \in Names /\ frame[f] \in FrameType /\ frame[f].phase = "running"
      /\ Active(f) /\ Used(f)
      /\ OnThread(run, ready, pending, t) /\ \A g : Held(g) <=> g = f
  BY BodyThread DEF Wait
<1>2. /\ Types /\ frame \in [Names -> FrameType]
      /\ run \in [AllThreads -> [frame : Names, doing : {"nothing", "body", "posting", "notifying"}]]
      /\ ready \in [Schedulers -> SUBSET Names] /\ pending \in [Schedulers -> SUBSET Names]
  BY DEF Inv, Types
<1>3. /\ program' = program /\ ready' = ready /\ main' = main /\ signaled' = signaled
      /\ At(f, "wait") /\ In(t, "body")
  BY DEF Wait, At
<1>4. Names' = Names /\ Root \in Names
  <2>1. Root \in DOMAIN program
    BY <1>2 DEF Types, IsProgram
  <2> QED BY <1>2, <1>3, <2>1, StillTyped, NameFacts DEF Types
<1>5. CASE frame' = [frame EXCEPT ![f].at = @ + 1] /\ UNCHANGED <<run, pending>>
  <2> DEFINE x == [frame[f] EXCEPT !.at = @ + 1]
  <2>2. /\ x \in FrameType /\ x.phase = "running" /\ x.continuation = frame[f].continuation
        /\ x.payload = frame[f].payload
    BY <1>1 DEF FrameType
  <2>3. frame' = [frame EXCEPT ![f] = x]
    BY <1>5
  <2> HIDE DEF x
  <2>4. /\ frame' \in [Names -> FrameType] /\ \A g \in Names \ {f} : frame'[g] = frame[g]
        /\ frame'[f].phase = "running" /\ frame'[f].continuation = frame[f].continuation
        /\ frame'[f].payload = frame[f].payload
    BY <1>1, <1>2, <2>2, <2>3
  <2>5. run' = run /\ pending' = pending
    BY <1>5
  <2> QED BY <1>3, <2>4, <2>5, GoesOn
<1>6. CASE /\ frame' = [frame EXCEPT ![f].phase = "suspended"]
           /\ pending' = [pending EXCEPT ![frame[f].payload] = @ \cup {f}]
           /\ Leave(t)
  <2> DEFINE x == [frame[f] EXCEPT !.phase = "suspended"]
  <2>1. frame[f].payload \in Schedulers
    <3>1. Kind(f) = "executor"
      BY <1>1, <1>2, <1>3, BodyFacts DEF At
    <3> QED BY <1>1, <3>1 DEF Inv, Payloads, IsThisCoro
  <2>2. /\ x \in FrameType /\ x.phase = "suspended" /\ x.payload = frame[f].payload
        /\ x.at = frame[f].at /\ x.continuation = frame[f].continuation
    BY <1>1 DEF FrameType
  <2>3. frame' = [frame EXCEPT ![f] = x]
    BY <1>6
  <2> HIDE DEF x
  <2>4. /\ frame' \in [Names -> FrameType] /\ \A g \in Names \ {f} : frame'[g] = frame[g]
        /\ frame'[f] = x
    BY <1>1, <1>2, <2>2, <2>3
  <2> SUFFICES ASSUME NEW s, s = frame[f].payload PROVE Inv'
    OBVIOUS
  <2>5. pending' = Just(s, f)
    <3>1. pending = NoFrames
      BY <1>1 DEF OnThread
    <3> QED BY <1>6, <2>1, <3>1 DEF NoFrames, Just
  <2>6. Posted(run', pending', ready', s, f)
    BY <1>1, <1>2, <1>3, <1>6, <2>5 DEF Posted, OnThread, Leave, Idle, Working
  <2>7. \A g : Held(g)' <=> g = f
    <3>1. s \in Schedulers
      BY <2>1
    <3>2. \A g : Holds(run', ready', pending', g) <=> g = f
      <4>1. \A g : Holds(run', ready', pending', g) => g = f
        BY <2>6, <3>1 DEF Posted, Holds, NoFrames, Just
      <4>2. Holds(run', ready', pending', f)
        BY <2>6, <3>1 DEF Posted, Holds, NoFrames, Just
      <4> QED BY <4>1, <4>2
    <3> QED BY <3>2 DEF Held
  <2>8. InOnePlace(run, ready, pending)'
    BY <1>1, <1>4, <2>1, <2>6 DEF InOnePlace
  <2>9. /\ run' \in [AllThreads -> [frame : Names, doing : {"nothing", "body", "posting", "notifying"}]]
        /\ ready' \in [Schedulers -> SUBSET Names] /\ pending' \in [Schedulers -> SUBSET Names]
    BY <1>1, <1>2, <1>3, <1>4, <1>6 DEF Leave, Idle
  <2>10. At(f, "wait")'
    BY <1>3, <2>2, <2>4, StillWaits
  <2>11. Holders'
    BY <2>2, <2>4, <2>6, <2>10 DEF Holders, In, Posted, Working, NoFrames, Just
  <2>12. Active(f)'
    BY <2>2, <2>4 DEF Active
  <2> QED BY <1>1, <1>3, <2>2, <2>4, <2>7, <2>8, <2>9, <2>11, <2>12, Moves
<1> QED BY <1>5, <1>6 DEF Wait

LEMMA ResumeKeeps ==
  ASSUME Inv, NEW t \in DOMAIN Home, Resume(t)
  PROVE  Inv'
<1> SUFFICES ASSUME NEW s, s = Scheduler(t) PROVE Inv'
  OBVIOUS
<1>0. PICK f \in ready[s] :
        /\ ready' = [ready EXCEPT ![s] = @ \ {f}]
        /\ frame' = [frame EXCEPT ![f].phase = "running", ![f].at = @ + 1]
        /\ run' = [run EXCEPT ![t] = [frame |-> f, doing |-> "body"]]
        /\ program' = program /\ pending' = pending /\ main' = main /\ signaled' = signaled
  BY DEF Resume, Enter
<1>1. s \in Schedulers /\ t \in AllThreads
  BY DEF Scheduler, Schedulers, AllThreads, Inv, Types
<1>2. /\ f \in Names /\ Active(f)
      /\ Posted(run, ready, pending, s, f) /\ \A g : Held(g) <=> g = f
  BY <1>1, Queued
<1>3. /\ frame \in [Names -> FrameType] /\ frame[f] \in FrameType
      /\ run \in [AllThreads -> [frame : Names, doing : {"nothing", "body", "posting", "notifying"}]]
      /\ ready \in [Schedulers -> SUBSET Names] /\ pending \in [Schedulers -> SUBSET Names]
  BY <1>2 DEF Inv, Types
<1>4. Names' = Names
  BY <1>0, StillTyped
<1> DEFINE x == [frame[f] EXCEPT !.phase = "running", !.at = @ + 1]
<1>5. /\ x \in FrameType /\ x.phase = "running" /\ x.continuation = frame[f].continuation
      /\ x.payload = frame[f].payload
  <2>1. x \in FrameType
    <3>1. frame[f].at + 1 \in Nat \ {0}
      BY <1>3 DEF FrameType
    <3> QED BY <1>3, <3>1 DEF FrameType
  <2>2. /\ x.phase = "running" /\ x.continuation = frame[f].continuation
        /\ x.payload = frame[f].payload
    BY <1>3 DEF FrameType
  <2> QED BY <2>1, <2>2
<1>6. frame' = [frame EXCEPT ![f] = x]
  BY <1>0, <1>2, <1>3
<1> HIDE DEF x
<1>7. /\ frame' \in [Names -> FrameType] /\ \A g \in Names \ {f} : frame'[g] = frame[g]
      /\ frame'[f] = x
  BY <1>2, <1>3, <1>5, <1>6
<1>8. ready' = NoFrames /\ pending' = NoFrames
  <2>1. ready = Just(s, f) /\ pending = NoFrames
    BY <1>2 DEF Posted
  <2> QED BY <1>0, <1>1, <2>1 DEF NoFrames, Just
<1>9. OnThread(run', ready', pending', t) /\ run'[t].frame = f /\ run'[t].doing = "body"
  BY <1>0, <1>1, <1>2, <1>3, <1>8 DEF Posted, OnThread, Working
<1>10. \A g : Held(g)' <=> g = f
  <2>1. t \in AllThreads
    BY <1>1
  <2>2. \A g : Holds(run', ready', pending', g) <=> g = f
    BY <2>1, <1>9, HolderIs
  <2> QED BY <2>2 DEF Held
<1>11. InOnePlace(run, ready, pending)'
  BY <1>1, <1>9 DEF InOnePlace
<1>12. /\ run' \in [AllThreads -> [frame : Names, doing : {"nothing", "body", "posting", "notifying"}]]
       /\ ready' \in [Schedulers -> SUBSET Names] /\ pending' \in [Schedulers -> SUBSET Names]
  BY <1>0, <1>1, <1>2, <1>3
<1>13. Holders'
  BY <1>5, <1>7, <1>8, <1>9 DEF Holders, In, OnThread, Working, NoFrames
<1>14. Active(f)'
  BY <1>5, <1>7 DEF Active
<1> QED BY <1>0, <1>2, <1>5, <1>7, <1>10, <1>11, <1>12, <1>13, <1>14, Moves

LEMMA FireKeeps ==
  ASSUME Inv, NEW s \in Schedulers, Fire(s)
  PROVE  Inv'
<1> SUFFICES ASSUME NEW f \in pending[s],
                    pending' = [pending EXCEPT ![s] = @ \ {f}],
                    ready' = [ready EXCEPT ![s] = @ \cup {f}],
                    program' = program, frame' = frame, run' = run, main' = main,
                    signaled' = signaled
             PROVE  Inv'
  BY DEF Fire
<1>1. /\ f \in Names /\ Active(f) /\ frame[f].phase = "suspended" /\ At(f, "wait")
      /\ Posted(run, pending, ready, s, f) /\ \A g : Held(g) <=> g = f
  BY Queued
<1>2. /\ frame \in [Names -> FrameType]
      /\ run \in [AllThreads -> [frame : Names, doing : {"nothing", "body", "posting", "notifying"}]]
      /\ ready \in [Schedulers -> SUBSET Names] /\ pending \in [Schedulers -> SUBSET Names]
  BY DEF Inv, Types
<1>3. Names' = Names
  BY StillTyped
<1>4. Posted(run', ready', pending', s, f)
  <2>1. pending = Just(s, f) /\ ready = NoFrames
    BY <1>1 DEF Posted
  <2>2. pending' = NoFrames /\ ready' = Just(s, f)
    BY <2>1 DEF NoFrames, Just
  <2> QED BY <1>1, <2>2 DEF Posted
<1>5. \A g : Held(g)' <=> g = f
  BY <1>4, HolderIs DEF Held
<1>6. InOnePlace(run, ready, pending)'
  BY <1>1, <1>3, <1>4 DEF InOnePlace
<1>7. /\ run' \in [AllThreads -> [frame : Names, doing : {"nothing", "body", "posting", "notifying"}]]
      /\ ready' \in [Schedulers -> SUBSET Names] /\ pending' \in [Schedulers -> SUBSET Names]
  BY <1>1, <1>2
<1>8. At(f, "wait")'
  BY <1>1, StillWaits
<1>9. Holders'
  BY <1>1, <1>4, <1>8 DEF Holders, In, Posted, Working, NoFrames, Just
<1>10. Active(f)'
  BY <1>1 DEF Active
<1> QED BY <1>1, <1>2, <1>5, <1>6, <1>7, <1>9, <1>10, Moves

\* Nothing moves: only the caller of sync does, or the thread that woke it.
LEMMA Unmoved ==
  ASSUME Inv, program' = program, frame' = frame, ready' = ready, pending' = pending,
         signaled' = signaled, main' = "starting" => main = "starting",
         run' \in [AllThreads -> [frame : Names, doing : {"nothing", "body", "posting", "notifying"}]],
         \A t \in AllThreads :
           run'[t] = run[t] \/ (run[t].doing \notin Working /\ run'[t].doing \notin Working)
  PROVE  Inv'
<1>1. Names' = Names /\ FrameType' = FrameType /\ \A g : Kind(g)' = Kind(g)
  BY StillTyped, StillUsed
<1>2. \A t \in AllThreads : run'[t].doing \in Working <=> run[t].doing \in Working
  OBVIOUS
<1>3. /\ Nowhere(run, ready, pending) => Nowhere(run', ready', pending')
      /\ \A t \in AllThreads :
           OnThread(run, ready, pending, t) => OnThread(run', ready', pending', t)
      /\ \A s \in Schedulers : \A f :
           /\ Posted(run, ready, pending, s, f) => Posted(run', ready', pending', s, f)
           /\ Posted(run, pending, ready, s, f) => Posted(run', pending', ready', s, f)
  BY <1>2 DEF Nowhere, OnThread, Posted
<1>4. InOnePlace(run, ready, pending)'
  BY <1>1, <1>3 DEF Inv, InOnePlace
<1>5. \A g : Held(g)' <=> Held(g)
  BY DEF Held, Holds
<1>6. Types'
  BY <1>1 DEF Inv, Types
<1>7. \A c, d : WaitsFor(c, d)' <=> WaitsFor(c, d)
  BY StillWaits
<1>8. Holders'
  <2>1. ASSUME NEW t \in AllThreads
        PROVE  /\ In(t, "body")' => frame'[run'[t].frame].phase = "running"
               /\ In(t, "posting")' =>
                    frame'[run'[t].frame].phase = "suspended" /\ At(run[t].frame, "schedule")'
    <3>1. In(t, "body")' \/ In(t, "posting")' => run'[t] = run[t]
      BY DEF In, Working
    <3>2. CASE run'[t] = run[t]
      <4> SUFFICES ASSUME NEW f, f = run[t].frame
                   PROVE  /\ In(t, "body")' => frame'[run'[t].frame].phase = "running"
                          /\ In(t, "posting")' =>
                               frame'[run'[t].frame].phase = "suspended" /\ At(run[t].frame, "schedule")'
        OBVIOUS
      <4>1. /\ In(t, "body") => frame[f].phase = "running"
            /\ In(t, "posting") => frame[f].phase = "suspended" /\ At(f, "schedule")
        BY DEF Inv, Holders
      <4>2. At(f, "schedule")' <=> At(f, "schedule")
        BY StillWaits
      <4>3. (run[t].frame)' = f
        BY <3>2
      <4> QED BY <3>2, <4>1, <4>2, <4>3 DEF In
    <3> QED BY <3>1, <3>2
  <2>2. ASSUME NEW s \in Schedulers, NEW f \in ready[s]
        PROVE  /\ frame'[f].phase = "suspended"
               /\ (At(f, "schedule")' /\ (Step(f).on = s)') \/ At(f, "wait")'
    <3>1. /\ frame[f].phase = "suspended"
          /\ (At(f, "schedule") /\ Step(f).on = s) \/ At(f, "wait")
      BY DEF Inv, Holders
    <3>2. Step(f)' = Step(f) /\ \A op : At(f, op)' <=> At(f, op)
      BY StillWaits
    <3> QED BY <3>1, <3>2
  <2>3. ASSUME NEW s \in Schedulers, NEW f \in pending[s]
        PROVE  frame'[f].phase = "suspended" /\ At(f, "wait")'
    <3>1. frame[f].phase = "suspended" /\ At(f, "wait")
      BY DEF Inv, Holders
    <3>2. \A op : At(f, op)' <=> At(f, op)
      BY StillWaits
    <3> QED BY <3>1, <3>2
  <2> QED BY <2>1, <2>2, <2>3 DEF Holders
<1>9. Chain'
  BY <1>1, <1>5, <1>7, StillUsed DEF Inv, Chain, Active, HasChild, Called
<1>10. Payloads'
  BY <1>1 DEF Inv, Payloads, Active, IsThisCoro
<1>11. Ends'
  BY <1>1, <1>3 DEF Inv, Ends, Active
<1> QED BY <1>4, <1>6, <1>8, <1>9, <1>10, <1>11 DEF Inv

LEMMA RootFacts ==
  ASSUME Types
  PROVE  /\ Root \in Names /\ Root \in DOMAIN program /\ ~IsCapture(Root) /\ Kind(Root) = "sync"
         /\ \A f \in Names : Kind(f) = "sync" <=> f = Root
<1>1. IsProgram(program) /\ Root \in DOMAIN program /\ program[Root].kind = "sync"
  BY DEF Types, IsProgram
<1>2. Root \in Names /\ ~IsCapture(Root)
  BY <1>1, NameFacts
<1>3. ASSUME NEW f \in Names PROVE Kind(f) = "sync" <=> f = Root
  <2>1. CASE IsCapture(f)
    BY <1>2, <2>1 DEF Kind
  <2>2. CASE ~IsCapture(f)
    <3>1. f \in DOMAIN program
      BY <1>1, <2>2, NameFacts
    <3> QED BY <1>1, <2>2, <3>1 DEF Kind, IsProgram
  <2> QED BY <2>1, <2>2
<1> QED BY <1>1, <1>2, <1>3 DEF Kind

LEMMA NotifyKeeps ==
  ASSUME Inv, NEW t \in AllThreads, Notify(t)
  PROVE  Inv'
<1>1. /\ program' = program /\ frame' = frame /\ ready' = ready /\ pending' = pending
      /\ signaled' = signaled /\ main' = IF main = "asleep" THEN "waiting" ELSE main
      /\ run' = [run EXCEPT ![t] = Idle] /\ run[t].doing = "notifying"
  BY DEF Notify, Leave, In
<1>2. /\ run \in [AllThreads -> [frame : Names, doing : {"nothing", "body", "posting", "notifying"}]]
      /\ Root \in Names
  BY RootFacts DEF Inv, Types
<1>3. run' \in [AllThreads -> [frame : Names, doing : {"nothing", "body", "posting", "notifying"}]]
  BY <1>1, <1>2 DEF Idle
<1>4. \A u \in AllThreads :
        run'[u] = run[u] \/ (run[u].doing \notin Working /\ run'[u].doing \notin Working)
  BY <1>1, <1>2 DEF Idle, Working
<1>5. main' = "starting" => main = "starting"
  BY <1>1
<1> QED BY <1>1, <1>3, <1>4, <1>5, Unmoved

LEMMA FallAsleepKeeps ==
  ASSUME Inv, FallAsleep
  PROVE  Inv'
<1>1. /\ program' = program /\ frame' = frame /\ ready' = ready /\ pending' = pending
      /\ signaled' = signaled /\ main' = "asleep" /\ run' = run
  BY DEF FallAsleep
<1>2. run \in [AllThreads -> [frame : Names, doing : {"nothing", "body", "posting", "notifying"}]]
  BY DEF Inv, Types
<1> QED BY <1>1, <1>2, Unmoved

LEMMA StartKeeps ==
  ASSUME Inv, Start
  PROVE  Inv'
<1>1. /\ Nowhere(run, ready, pending) /\ ~signaled
      /\ \A f \in Names : frame[f].phase = "cold"
  BY DEF Start, Inv, Ends
<1>2. /\ Types /\ frame \in [Names -> FrameType] /\ Main \in AllThreads
      /\ run \in [AllThreads -> [frame : Names, doing : {"nothing", "body", "posting", "notifying"}]]
      /\ ready \in [Schedulers -> SUBSET Names] /\ pending \in [Schedulers -> SUBSET Names]
  BY DEF Inv, Types, AllThreads
<1>3. Root \in Names /\ Root \in DOMAIN program /\ ~IsCapture(Root) /\ Kind(Root) = "sync"
  BY <1>2, RootFacts
<1>4. /\ program' = program /\ ready' = ready /\ pending' = pending /\ signaled' = signaled
      /\ main' = "waiting" /\ run' = [run EXCEPT ![Main] = [frame |-> Root, doing |-> "body"]]
      /\ frame' = [frame EXCEPT ![Root].phase = "running"]
  BY DEF Start, Enter
<1>5. Names' = Names /\ FrameType' = FrameType /\ \A g : Kind(g)' = Kind(g)
  BY <1>4, StillTyped, StillUsed
<1> DEFINE x == [frame[Root] EXCEPT !.phase = "running"]
<1>6. x \in FrameType /\ x.phase = "running" /\ x.payload = frame[Root].payload
  <2>1. frame[Root] \in FrameType
    BY <1>2, <1>3
  <2> QED BY <2>1 DEF FrameType
<1>7. frame' = [frame EXCEPT ![Root] = x]
  BY <1>4
<1> HIDE DEF x
<1>8. /\ frame' \in [Names -> FrameType] /\ \A g \in Names \ {Root} : frame'[g] = frame[g]
      /\ frame'[Root] = x
  BY <1>2, <1>3, <1>6, <1>7
<1>9. /\ OnThread(run', ready', pending', Main) /\ run'[Main].frame = Root /\ run'[Main].doing = "body"
      /\ run' \in [AllThreads -> [frame : Names, doing : {"nothing", "body", "posting", "notifying"}]]
  BY <1>1, <1>2, <1>3, <1>4 DEF Nowhere, OnThread, Working
<1>10. \A g : Held(g)' <=> g = Root
  BY <1>2, <1>9, HolderIs DEF Held
<1>11. Types'
  BY <1>2, <1>4, <1>5, <1>8, <1>9 DEF Types
<1>12. InOnePlace(run, ready, pending)'
  BY <1>2, <1>9 DEF InOnePlace
<1>13. Holders'
  BY <1>6, <1>8, <1>9 DEF Holders, In, OnThread, Working, NoFrames
<1>14. \A f \in Names : Active(f)' => f = Root
  BY <1>1, <1>8 DEF Active
<1>15. Chain'
  BY <1>3, <1>4, <1>5, <1>10, <1>14, StillUsed DEF Chain, Used
<1>16. Payloads'
  BY <1>2, <1>3, <1>5, <1>6, <1>8, <1>14 DEF Inv, Payloads, IsThisCoro
<1>17. Ends'
  BY <1>1, <1>2, <1>4, <1>5, <1>6, <1>8 DEF Inv, Ends
<1> QED BY <1>11, <1>12, <1>13, <1>15, <1>16, <1>17 DEF Inv

LEMMA SignalKeeps ==
  ASSUME Inv, NEW t \in AllThreads, Signal(t)
  PROVE  Inv'
<1>1. /\ run[t].frame \in Names /\ frame[run[t].frame].phase = "running"
      /\ OnThread(run, ready, pending, t) /\ \A g : Held(g) <=> g = run[t].frame
      /\ ~signaled /\ main # "starting"
  BY BodyThread DEF Signal
<1>2. /\ Types /\ frame \in [Names -> FrameType]
      /\ run \in [AllThreads -> [frame : Names, doing : {"nothing", "body", "posting", "notifying"}]]
  BY DEF Inv, Types
<1>3. Root \in Names /\ ~IsCapture(Root) /\ Kind(Root) = "sync" /\ run[t].frame = Root
  BY <1>1, <1>2, RootFacts DEF Signal
<1>4. /\ program' = program /\ ready' = ready /\ pending' = pending /\ signaled' = TRUE
      /\ main' = main /\ run' = [run EXCEPT ![t] = [frame |-> Root, doing |-> "notifying"]]
      /\ frame' = [frame EXCEPT ![Root].phase = "done"]
  BY <1>3 DEF Signal, Enter
<1>5. Names' = Names /\ FrameType' = FrameType /\ \A g : Kind(g)' = Kind(g)
  BY <1>4, StillTyped, StillUsed
<1> DEFINE x == [frame[Root] EXCEPT !.phase = "done"]
<1>6. x \in FrameType /\ x.phase = "done" /\ x.payload = frame[Root].payload
  <2>1. frame[Root] \in FrameType
    BY <1>2, <1>3
  <2> QED BY <2>1 DEF FrameType
<1>7. frame' = [frame EXCEPT ![Root] = x]
  BY <1>4
<1> HIDE DEF x
<1>8. /\ frame' \in [Names -> FrameType] /\ \A g \in Names \ {Root} : frame'[g] = frame[g]
      /\ frame'[Root] = x
  BY <1>2, <1>3, <1>6, <1>7
<1>9. /\ Nowhere(run', ready', pending')
      /\ run' \in [AllThreads -> [frame : Names, doing : {"nothing", "body", "posting", "notifying"}]]
  BY <1>1, <1>2, <1>3, <1>4 DEF Nowhere, OnThread, Working
<1>10. \A g : ~Held(g)'
  BY <1>9, HolderIs DEF Held
<1>11. Types'
  BY <1>2, <1>4, <1>5, <1>8, <1>9 DEF Inv, Types
<1>12. InOnePlace(run, ready, pending)'
  BY <1>9 DEF InOnePlace
<1>13. Holders'
  BY <1>9 DEF Holders, In, Nowhere, Working, NoFrames
<1>14. Chain'
  <2>1. ~Active(Root)'
    BY <1>6, <1>8 DEF Active
  <2>2. {Root} \in SUBSET Names /\ Root \in {Root} /\ Held(Root)
    BY <1>1, <1>3
  <2>3. \A f \in {Root} : ~Active(f)' /\ (f = Root \/ ~Active(f))
    BY <2>1
  <2>4. \A g : Held(g) => g = Root
    BY <1>1, <1>3
  <2> QED BY <1>4, <1>8, <1>10, <2>2, <2>3, <2>4, ChainEnds DEF Inv
<1>15. Payloads'
  BY <1>3, <1>5, <1>6, <1>8 DEF Inv, Payloads, Active, IsThisCoro
<1>16. Ends'
  BY <1>1, <1>4, <1>6, <1>8, <1>9 DEF Ends, Active
<1> QED BY <1>11, <1>12, <1>13, <1>14, <1>15, <1>16 DEF Inv

LEMMA ReturnKeeps ==
  ASSUME Inv, NEW t \in AllThreads, Return(t)
  PROVE  Inv'
<1> SUFFICES ASSUME NEW f, f = run[t].frame PROVE Inv'
  OBVIOUS
<1> SUFFICES ASSUME NEW c, c = frame[f].continuation PROVE Inv'
  OBVIOUS
<1> SUFFICES ASSUME NEW exception, exception = (frame[f].exception \/ (~IsCapture(f) /\ program[f].throws))
             PROVE  Inv'
  OBVIOUS
<1>1. /\ f \in Names /\ frame[f] \in FrameType /\ frame[f].phase = "running"
      /\ Active(f) /\ Used(f)
      /\ OnThread(run, ready, pending, t) /\ \A g : Held(g) <=> g = f
      /\ ~signaled /\ main # "starting"
  BY BodyThread DEF Return
<1>2. /\ Types /\ Chain /\ Payloads /\ Ends /\ frame \in [Names -> FrameType] /\ IsProgram(program)
      /\ run \in [AllThreads -> [frame : Names, doing : {"nothing", "body", "posting", "notifying"}]]
  BY DEF Inv, Types
<1>3. f # Root
  BY <1>1, <1>2, RootFacts DEF Return
<1>4. /\ program' = program /\ ready' = ready /\ pending' = pending /\ signaled' = signaled
      /\ main' = main /\ run' = [run EXCEPT ![t] = [frame |-> c, doing |-> "body"]]
  BY DEF Return, Enter
<1>5. Names' = Names /\ FrameType' = FrameType /\ \A g : Kind(g)' = Kind(g)
  BY <1>4, StillTyped, StillUsed
<1>6. c \in Names /\ frame[c].phase = "suspended" /\ c # f
  <2>1. c \in Names /\ frame[c].phase = "suspended"
    BY <1>1, <1>2, <1>3 DEF Chain, Called, FrameType
  <2> QED BY <1>1, <2>1
<1> DEFINE x == [frame[f] EXCEPT !.phase = "done", !.exception = exception]
           ended == [frame EXCEPT ![f] = x]
<1>7. exception \in BOOLEAN
  <2>1. frame[f].exception \in BOOLEAN
    BY <1>1 DEF FrameType
  <2>2. ~IsCapture(f) => program[f].throws \in BOOLEAN
    BY <1>1, <1>2, NameFacts DEF IsProgram
  <2> QED BY <2>1, <2>2
<1>8. x \in FrameType /\ x.phase = "done" /\ x.payload = frame[f].payload
  <2>1. x \in FrameType
    BY <1>1, <1>7 DEF FrameType
  <2>2. x.phase = "done" /\ x.payload = frame[f].payload
    BY <1>1 DEF FrameType
  <2> QED BY <2>1, <2>2
<1>9. frame' = Resumed(ended, c, f)
  <2>1. frame' = Resumed([frame EXCEPT ![f].phase = "done",
                                       ![f].exception = @ \/ (~IsCapture(f) /\ program[f].throws)], c, f)
    BY DEF Return
  <2>2. [frame EXCEPT ![f].phase = "done",
                      ![f].exception = @ \/ (~IsCapture(f) /\ program[f].throws)] = ended
    BY <1>1, <1>2
  <2> QED BY <2>1, <2>2
<1> HIDE DEF x
<1>10. /\ ended \in [Names -> FrameType] /\ ended[f] = x
       /\ \A g \in Names \ {f} : ended[g] = frame[g]
  BY <1>1, <1>2, <1>8
<1> HIDE DEF ended
<1>11. /\ frame' \in [Names -> FrameType] /\ \A g \in Names \ {c} : frame'[g] = ended[g]
       /\ frame'[c].phase = "running" /\ frame'[c].continuation = ended[c].continuation
       /\ frame'[c].payload = ended[c].payload
  BY <1>2, <1>6, <1>9, <1>10, ResumedFacts
<1>12. /\ frame'[f] = x /\ \A g \in Names \ {f, c} : frame'[g] = frame[g]
       /\ frame'[c].continuation = frame[c].continuation /\ frame'[c].payload = frame[c].payload
  BY <1>1, <1>6, <1>10, <1>11
<1>13. /\ OnThread(run', ready', pending', t) /\ run'[t].frame = c /\ run'[t].doing = "body"
       /\ run' \in [AllThreads -> [frame : Names, doing : {"nothing", "body", "posting", "notifying"}]]
  BY <1>1, <1>2, <1>4, <1>6 DEF OnThread, Working
<1>14. \A g : Held(g)' <=> g = c
  BY <1>13, HolderIs DEF Held
<1>15. Types'
  BY <1>2, <1>4, <1>5, <1>11, <1>13 DEF Types
<1>16. InOnePlace(run, ready, pending)'
  BY <1>13 DEF InOnePlace
<1>17. Holders'
  BY <1>11, <1>13 DEF Holders, In, OnThread, Working, NoFrames
<1>18. ~Active(f)' /\ Active(c)' /\ Active(c)
  BY <1>6, <1>8, <1>11, <1>12 DEF Active
<1>19. Chain'
  BY <1>1, <1>2, <1>3, <1>4, <1>12, <1>14, <1>18, ChainShrinks
<1>20. Payloads'
  <2> SUFFICES ASSUME NEW g \in Names
               PROVE  /\ Active(g)' /\ (IsCapture(g) \/ IsThisCoro(g)) => frame'[g].payload \in Schedulers
                      /\ Kind(g) = "scheduled" => frame'[g].payload \in Schedulers
    BY <1>5 DEF Payloads, IsThisCoro
  <2>1. frame'[g].payload = frame[g].payload
    BY <1>8, <1>12
  <2>2. Active(g)' => Active(g)
    BY <1>12, <1>18 DEF Active
  <2> QED BY <1>2, <2>1, <2>2 DEF Payloads
<1>21. Ends'
  <2>1. \A g \in Names : frame'[g].phase = "destroyed" => frame[g].phase = "destroyed"
    BY <1>8, <1>11, <1>12
  <2> QED BY <1>1, <1>2, <1>4, <1>5, <2>1 DEF Ends
<1> QED BY <1>15, <1>16, <1>17, <1>19, <1>20, <1>21 DEF Inv

\* The task that sync awaits is not begun, or ended, when sync is signaled.
LEMMA TaskEnded ==
  ASSUME Inv, signaled, NEW task, task = program[Root].task
  PROVE  /\ task \in DOMAIN program /\ task # Root /\ task \in Names /\ ~IsCapture(task)
         /\ ~Active(task) /\ ~Active(Root) /\ Nowhere(run, ready, pending)
<1>1. Nowhere(run, ready, pending) /\ ~Active(Root)
  BY DEF Inv, Ends
<1>2. Types /\ Chain /\ IsProgram(program)
  BY DEF Inv, Types
<1>3. Root \in Names /\ Root \in DOMAIN program /\ ~IsCapture(Root) /\ Kind(Root) = "sync"
  BY <1>2, RootFacts
<1>4. program[Root].kind = "sync" /\ task \in AwaitedBy(program, Root)
  BY <1>3 DEF Kind, AwaitedBy
<1>5. task \in DOMAIN program /\ task # Root
  BY <1>2, <1>3, <1>4, AwaitedFacts
<1>6. task \in Names /\ ~IsCapture(task)
  BY <1>2, <1>5, NameFacts
<1>7. Calls(Root, task)
  BY <1>3, <1>4 DEF Calls
<1>8. ~Active(task)
  <2> SUFFICES ASSUME Active(task) PROVE FALSE
    OBVIOUS
  <2>1. frame[task].continuation = Root
    BY <1>2, <1>3, <1>5, <1>6, <1>7, CallerWaits
  <2>2. frame[Root].phase = "suspended"
    BY <1>2, <1>5, <1>6, <2>1 DEF Chain, Called
  <2> QED BY <1>1, <2>2 DEF Active
<1> QED BY <1>1, <1>5, <1>6, <1>8

LEMMA DeliverKeeps ==
  ASSUME Inv, Deliver
  PROVE  Inv'
<1> SUFFICES ASSUME NEW task, task = program[Root].task PROVE Inv'
  OBVIOUS
<1>1. /\ signaled /\ Nowhere(run, ready, pending) /\ ~Active(Root)
  BY TaskEnded DEF Deliver
<1>2. /\ Types /\ Chain /\ Payloads /\ frame \in [Names -> FrameType]
  BY DEF Inv, Types
<1>3. Root \in Names
  BY <1>2, RootFacts
<1>4. /\ program' = program /\ run' = run /\ ready' = ready /\ pending' = pending
      /\ signaled' = signaled /\ main' = "returned"
      /\ frame' = [f \in Names |-> IF f \in {Root, task}
                                   THEN [frame[f] EXCEPT !.phase = "destroyed"] ELSE frame[f]]
  BY DEF Deliver
<1>5. Names' = Names /\ FrameType' = FrameType /\ \A g : Kind(g)' = Kind(g)
  BY <1>4, StillTyped, StillUsed
<1>6. task \in Names /\ ~Active(task)
  BY <1>1, TaskEnded
<1>8. \A f \in Names : LET x == [frame[f] EXCEPT !.phase = "destroyed"]
                       IN x \in FrameType /\ x.phase = "destroyed" /\ x.payload = frame[f].payload
  <2> SUFFICES ASSUME NEW f \in Names, NEW r \in FrameType
               PROVE  LET x == [r EXCEPT !.phase = "destroyed"]
                      IN x \in FrameType /\ x.phase = "destroyed" /\ x.payload = r.payload
    BY <1>2
  <2> QED BY DEF FrameType
<1>9. /\ frame' \in [Names -> FrameType]
      /\ \A g \in Names \ {Root, task} : frame'[g] = frame[g]
      /\ \A g \in {Root, task} : frame'[g].phase = "destroyed"
      /\ \A g \in Names : frame'[g].payload = frame[g].payload
  BY <1>2, <1>3, <1>4, <1>6, <1>8
<1>10. /\ \A g : ~Held(g)
       /\ \A g : ~Held(g)'
  BY <1>1, <1>4, HolderIs DEF Held
<1>11. Types'
  BY <1>2, <1>4, <1>5, <1>9 DEF Types
<1>12. InOnePlace(run, ready, pending)' /\ Nowhere(run, ready, pending)'
  BY <1>1, <1>4 DEF InOnePlace, Nowhere, NoFrames
<1>13. Holders'
  BY <1>1, <1>4 DEF Holders, In, Nowhere, Working, NoFrames
<1>14. \A f \in {Root, task} : ~Active(f)' /\ (f = Root \/ ~Active(f))
  BY <1>6, <1>9 DEF Active
<1>15. Chain'
  <2>1. {Root, task} \in SUBSET Names /\ Root \in {Root, task}
    BY <1>3, <1>6
  <2> QED BY <1>1, <1>2, <1>4, <1>9, <1>10, <1>14, <2>1, ChainEnds
<1>16. Payloads'
  BY <1>2, <1>5, <1>9, <1>14 DEF Payloads, Active, IsThisCoro
<1>17. Ends'
  BY <1>1, <1>4, <1>12, <1>14 DEF Ends
<1> QED BY <1>11, <1>12, <1>13, <1>15, <1>16, <1>17 DEF Inv

LEMMA Begins ==
  ASSUME CoroutinesAssumption, Init
  PROVE  Inv
<1>1. IsProgram(program) /\ Main \notin DOMAIN Home
  BY DEF CoroutinesAssumption, Init
<1>2. Root \in Names
  BY <1>1, NameFacts DEF IsProgram
<1>3. \A f \in Names : ~IsCapture(f) /\ Kind(f) = "scheduled" => program[f].on \in Schedulers
  BY <1>1, NameFacts DEF IsProgram, Kind
<1>4. /\ frame = [f \in Names |->
           [phase |-> "cold", at |-> 1, continuation |-> Root, exception |-> FALSE,
            payload |-> IF ~IsCapture(f) /\ Kind(f) = "scheduled" THEN program[f].on ELSE None]]
      /\ run = [t \in AllThreads |-> Idle]
      /\ ready = NoFrames /\ pending = NoFrames /\ main = "starting" /\ ~signaled
  BY DEF Init, NoFrames
<1>5. frame \in [Names -> FrameType]
  BY <1>2, <1>3, <1>4 DEF FrameType
<1>6. Types
  BY <1>1, <1>2, <1>4, <1>5 DEF Types, Idle, NoFrames
<1>7. Nowhere(run, ready, pending)
  BY <1>4 DEF Nowhere, Idle, Working
<1>8. \A f \in Names : frame[f].phase = "cold"
  BY <1>4
<1>9. Holders
  BY <1>4 DEF Holders, In, Idle, NoFrames
<1>10. Payloads
  <2>1. \A f \in Names : Kind(f) = "scheduled" => ~IsCapture(f)
    BY DEF Kind
  <2> QED BY <1>3, <1>4, <1>8, <2>1 DEF Payloads, Active
<1>11. Chain
  BY <1>8 DEF Chain, Active
<1>12. Ends
  BY <1>4, <1>7, <1>8 DEF Ends
<1> QED BY <1>6, <1>7, <1>9, <1>10, <1>11, <1>12 DEF Inv, InOnePlace

LEMMA StepKeeps ==
  ASSUME Inv, [Next]_vars
  PROVE  Inv'
<1>1. CASE UNCHANGED vars
  <2>1. /\ program' = program /\ frame' = frame /\ ready' = ready /\ pending' = pending
        /\ signaled' = signaled /\ main' = main /\ run' = run
    BY <1>1 DEF vars
  <2>2. run \in [AllThreads -> [frame : Names, doing : {"nothing", "body", "posting", "notifying"}]]
    BY DEF Inv, Types
  <2> QED BY <2>1, <2>2, Unmoved
<1>2. ASSUME NEW t \in AllThreads,
             Await(t) \/ Schedule(t) \/ Post(t) \/ Wait(t) \/ Return(t) \/ Signal(t) \/ Notify(t)
      PROVE  Inv'
  BY <1>2, AwaitKeeps, ScheduleKeeps, PostKeeps, WaitKeeps, ReturnKeeps, SignalKeeps, NotifyKeeps
<1>3. ASSUME NEW t \in DOMAIN Home, Resume(t) PROVE Inv'
  BY <1>3, ResumeKeeps
<1>4. ASSUME NEW s \in Schedulers, Fire(s) PROVE Inv'
  BY <1>4, FireKeeps
<1>5. CASE Start \/ FallAsleep \/ Deliver
  BY <1>5, StartKeeps, FallAsleepKeeps, DeliverKeeps
<1> QED BY <1>1, <1>2, <1>3, <1>4, <1>5 DEF Next

(***************************************************************************)
(* For every program that compiles, any schedulers and any number of       *)
(* workers: what has begun and has not ended is a chain of frames, each    *)
(* suspended where it awaits the next (basic_promise_awaiter.hpp:10-24);   *)
(* the last one is on one thread, in one queue or behind one wait, and     *)
(* the fence of sync is signaled after that (final_sync_awaiter.hpp).      *)
(***************************************************************************)
THEOREM Invariant ==
  ASSUME CoroutinesAssumption
  PROVE  Spec => []Inv
<1>1. Init => Inv
  BY Begins
<1>2. Inv /\ [Next]_vars => Inv'
  BY StepKeeps
<1> QED BY <1>1, <1>2, PTL DEF Spec

-----------------------------------------------------------------------------
LEMMA Singles ==
  ASSUME NEW a
  PROVE  Cardinality({a}) = 1 /\ Cardinality({}) = 0
BY FS_Singleton, FS_EmptySet

\* Who is awaited by f, begun and not done.
LEMMA OneChild ==
  ASSUME Inv, NEW f \in Names, NEW d \in Names \ {Root}, Active(d), frame[d].continuation = f
  PROVE  /\ frame[f].phase = "suspended" /\ ~Held(f)
         /\ \A e \in Names \ {Root} : Active(e) /\ frame[e].continuation = f => e = d
<1>1. \A e \in Names \ {Root} : Active(e) /\ frame[e].continuation = f =>
        frame[f].phase = "suspended" /\ ~Held(f) /\ WaitsFor(f, e)
  BY DEF Inv, Chain, Called
<1> QED BY <1>1 DEF WaitsFor

LEMMA HeldActive ==
  ASSUME Inv, NEW f, Held(f)
  PROVE  f \in Names /\ Active(f)
<1>1. \A t \in AllThreads : run[t].doing \in Working =>
        run[t].frame \in Names /\ Active(run[t].frame)
  BY DEF Inv, Types, Holders, In, Working, Active
<1>2. \A s \in Schedulers : \A g : g \in ready[s] \/ g \in pending[s] => g \in Names /\ Active(g)
  BY DEF Inv, Types, Holders, Active
<1> QED BY <1>1, <1>2 DEF Held, Holds

LEMMA ResumedByOne ==
  ASSUME Inv
  PROVE  OneResumer
<1> SUFFICES ASSUME NEW f \in Names
             PROVE  LET runners == { t \in AllThreads : ~In(t, "nothing") /\ ~In(t, "notifying")
                                                        /\ run[t].frame = f }
                        places == { s \in Schedulers : f \in ready[s] }
                        waits == { s \in Schedulers : f \in pending[s] }
                        children == { d \in Names : /\ frame[d].continuation = f
                                                    /\ frame[d].phase \in {"running", "suspended"}
                                                    /\ d # Root }
                    IN Cardinality(runners) + Cardinality(places) + Cardinality(waits)
                         + Cardinality(children)
                         = IF frame[f].phase \in {"running", "suspended"} THEN 1 ELSE 0
  BY DEF OneResumer
<1> DEFINE runners == { t \in AllThreads : ~In(t, "nothing") /\ ~In(t, "notifying")
                                           /\ run[t].frame = f }
           places == { s \in Schedulers : f \in ready[s] }
           waits == { s \in Schedulers : f \in pending[s] }
           children == { d \in Names : /\ frame[d].continuation = f
                                       /\ frame[d].phase \in {"running", "suspended"}
                                       /\ d # Root }
<1>1. runners = { t \in AllThreads : run[t].doing \in Working /\ run[t].frame = f }
  BY DEF Inv, Types, In, Working
<1>2. children = { d \in Names \ {Root} : Active(d) /\ frame[d].continuation = f }
  BY DEF Active
<1>3. ~Held(f) => runners = {} /\ places = {} /\ waits = {}
  BY <1>1 DEF Held, Holds
<1>4. Held(f) => children = {}
  BY <1>2, OneChild
<1>5. Held(f) => \/ \E t : runners = {t} /\ places = {} /\ waits = {}
                 \/ \E s : runners = {} /\ places = {s} /\ waits = {}
                 \/ \E s : runners = {} /\ places = {} /\ waits = {s}
  <2> SUFFICES ASSUME Held(f)
               PROVE  \/ \E t : runners = {t} /\ places = {} /\ waits = {}
                      \/ \E s : runners = {} /\ places = {s} /\ waits = {}
                      \/ \E s : runners = {} /\ places = {} /\ waits = {s}
    OBVIOUS
  <2>1. ASSUME NEW t \in AllThreads, run[t].doing \in Working, run[t].frame = f
        PROVE  runners = {t} /\ places = {} /\ waits = {}
    <3>1. OnThread(run, ready, pending, t)
      BY <2>1, PlaceIs DEF Inv
    <3> QED BY <1>1, <2>1, <3>1 DEF OnThread, NoFrames
  <2>2. ASSUME NEW s \in Schedulers, f \in ready[s]
        PROVE  runners = {} /\ places = {s} /\ waits = {}
    <3>1. Posted(run, ready, pending, s, f)
      BY <2>2, PlaceIs DEF Inv
    <3> QED BY <1>1, <3>1 DEF Posted, NoFrames, Just
  <2>3. ASSUME NEW s \in Schedulers, f \in pending[s]
        PROVE  runners = {} /\ places = {} /\ waits = {s}
    <3>1. Posted(run, pending, ready, s, f)
      BY <2>3, PlaceIs DEF Inv
    <3> QED BY <1>1, <3>1 DEF Posted, NoFrames, Just
  <2> QED BY <2>1, <2>2, <2>3 DEF Held, Holds
<1>6. children = {} \/ \E d : children = {d} /\ ~Held(f) /\ Active(f)
  <2> SUFFICES ASSUME NEW d \in children
               PROVE  children = {d} /\ ~Held(f) /\ Active(f)
    OBVIOUS
  <2>1. d \in Names \ {Root} /\ Active(d) /\ frame[d].continuation = f
    BY <1>2
  <2>2. /\ frame[f].phase = "suspended" /\ ~Held(f)
        /\ \A e \in Names \ {Root} : Active(e) /\ frame[e].continuation = f => e = d
    BY <2>1, OneChild
  <2> QED BY <1>2, <2>1, <2>2 DEF Active
<1>7. Active(f) => Held(f) \/ children # {}
  BY <1>2 DEF Inv, Chain, HasChild
<1>8. Held(f) => Active(f)
  BY HeldActive
<1>9. Active(f) <=> frame[f].phase \in {"running", "suspended"}
  BY DEF Active
<1> HIDE DEF runners, places, waits, children
<1>10. Cardinality(runners) + Cardinality(places) + Cardinality(waits) + Cardinality(children)
         = IF Active(f) THEN 1 ELSE 0
  <2>1. CASE Held(f)
    <3>1. Active(f) /\ Cardinality(children) = 0
      BY <1>4, <1>8, <2>1, Singles
    <3>2. \/ Cardinality(runners) = 1 /\ Cardinality(places) = 0 /\ Cardinality(waits) = 0
          \/ Cardinality(runners) = 0 /\ Cardinality(places) = 1 /\ Cardinality(waits) = 0
          \/ Cardinality(runners) = 0 /\ Cardinality(places) = 0 /\ Cardinality(waits) = 1
      BY <1>5, <2>1, Singles
    <3> QED BY <3>1, <3>2
  <2>2. CASE ~Held(f)
    <3>1. Cardinality(runners) = 0 /\ Cardinality(places) = 0 /\ Cardinality(waits) = 0
      BY <1>3, <2>2, Singles
    <3>2. Cardinality(children) = IF Active(f) THEN 1 ELSE 0
      BY <1>6, <1>7, <2>2, Singles
    <3> QED BY <3>1, <3>2
  <2> QED BY <2>1, <2>2
<1> QED BY <1>9, <1>10 DEF runners, places, waits, children

(***************************************************************************)
(* A coroutine that runs is run by one thread, one that is suspended will  *)
(* be resumed from exactly one place (schedule_awaiter.hpp:15-36), one     *)
(* that is done from none.                                                 *)
(***************************************************************************)
THEOREM OneResumerAlways ==
  ASSUME CoroutinesAssumption
  PROVE  Spec => []OneResumer
<1>1. Spec => []Inv
  BY Invariant
<1>2. Inv => OneResumer
  BY ResumedByOne
<1> QED BY <1>1, <1>2, PTL

-----------------------------------------------------------------------------
(***************************************************************************)
(* Where a coroutine goes on after what it awaited in a capture_task.      *)
(***************************************************************************)
Awaits(c, k, d) ==
  k \in 1 .. Len(Body(c)) /\ Body(c)[k].op = "await" /\ d = Awaited(c, Body(c)[k].of)

\* c has not come to its k-th statement, or is about to execute it.
Ahead(c, k) == k > frame[c].at \/ (k = frame[c].at /\ frame[c].phase # "suspended")

\* A capture_task that is yet to be awaited is not begun.
Fresh ==
  \A c, d \in Names : \A k \in Nat :
    Used(c) /\ Awaits(c, k, d) /\ IsCapture(d) /\ Ahead(c, k) => frame[d].phase = "cold"

Cold == \A f \in Names : frame[f].phase = "cold" => frame[f].at = 1

\* It has the scheduler of who awaits it.
CapturePayload ==
  \A d \in Names : IsCapture(d) /\ Active(d) =>
    frame[d].payload = frame[frame[d].continuation].payload

Captured(f, k) == Body(f)[k].op = "await" /\ Steal(Body(f)[k].of) # Body(f)[k].of

\* A frame whose promise is r may run on s.
BackOn(f, s, r) ==
  /\ IsCapture(f) /\ r.at > 2 /\ ~r.exception => s = r.payload
  /\ IsThisCoro(f) /\ r.at > 1 /\ ~r.exception /\ Captured(f, r.at - 1) => s = r.payload

Homes ==
  \A t \in AllThreads :
    In(t, "body") => BackOn(run[t].frame, Scheduler(t), frame[run[t].frame])

HomeInv == CatchesOwn(program) /\ Fresh /\ Cold /\ CapturePayload /\ Homes

LEMMA CaptureBody ==
  ASSUME NEW f, IsCapture(f)
  PROVE  /\ Len(Body(f)) = 2 /\ Body(f)[1].op = "await" /\ Body(f)[1].of = Tail(f)
         /\ Body(f)[2].op = "schedule" /\ Body(f)[2].on = frame[f].payload
         /\ \A d : Awaited(f, d) = d /\ ~IsThisCoro(f)
<1>1. Body(f) = << AwaitOf(Tail(f)), ScheduleOn(frame[f].payload) >>
  BY DEF Body
<1>2. Len(Body(f)) = 2 /\ Body(f)[1] = AwaitOf(Tail(f)) /\ Body(f)[2] = ScheduleOn(frame[f].payload)
  BY <1>1
<1>3. ~IsThisCoro(f) /\ \A d : Awaited(f, d) = d
  BY DEF Awaited, IsThisCoro, Kind
<1> QED BY <1>2, <1>3 DEF AwaitOf, ScheduleOn

\* What is awaited, as the program says it.
LEMMA AwaitedName ==
  ASSUME Types, NEW f \in Names, ~IsCapture(f), NEW k \in 1 .. Len(Body(f)), Body(f)[k].op = "await"
  PROVE  /\ \E g \in DOMAIN program : Body(f)[k].of \in {g, Capture(g)}
         /\ Kind(f) = "executor" => Body(f)[k].of \in DOMAIN program
         /\ Kind(f) = "scheduled" => k = 2
         /\ IsThisCoro(f) /\ CatchesOwn(program) /\ Captured(f, k) => ~Body(f)[k].catches
<1>1. IsProgram(program)
  BY DEF Types
<1>2. f \in DOMAIN program /\ Kind(f) = program[f].kind
  BY <1>1, NameFacts DEF Kind
<1>3. Kind(f) \in {"sync", "scheduled", "executor", "foreign"}
  BY <1>1, <1>2 DEF IsProgram
<1>4. CASE Kind(f) = "sync"
  <2>1. Body(f) = << AwaitOf(program[f].task) >>
    BY <1>4 DEF Body
  <2>2. Len(Body(f)) = 1 /\ Body(f)[1] = AwaitOf(program[f].task)
    BY <2>1
  <2>3. k = 1
    BY <2>2
  <2>4. program[f].task \in DOMAIN program
    BY <1>1, <1>2, <1>4 DEF IsProgram
  <2> QED BY <1>4, <2>2, <2>3, <2>4 DEF AwaitOf, IsThisCoro
<1>5. CASE Kind(f) = "scheduled"
  <2> DEFINE g == program[f].task
  <2>1. Body(f) = << ScheduleOn(program[f].on), AwaitOf(Steal(g)) >>
    BY <1>2, <1>5 DEF Body
  <2>2. Len(Body(f)) = 2 /\ Body(f)[1] = ScheduleOn(program[f].on) /\ Body(f)[2] = AwaitOf(Steal(g))
    BY <2>1
  <2>3. ScheduleOn(program[f].on).op = "schedule"
    BY DEF ScheduleOn
  <2>4. k = 2
    BY <2>2, <2>3
  <2>5. g \in DOMAIN program /\ Steal(g) \in {g, Capture(g)}
    BY <1>1, <1>2, <1>5 DEF IsProgram, Steal
  <2>6. Body(f)[k].of = Steal(g) /\ ~Body(f)[k].catches
    BY <2>2, <2>4 DEF AwaitOf
  <2> QED BY <1>5, <2>4, <2>5, <2>6
<1>6. CASE Kind(f) \in {"executor", "foreign"}
  <2>1. Body(f) = program[f].body
    BY <1>6 DEF Body
  <2>2. IsStatement(program, f, program[f].body[k])
    BY <1>1, <1>2, <1>6, <2>1 DEF IsProgram
  <2>3. Body(f)[k].of \in DOMAIN program
    BY <2>1, <2>2 DEF IsStatement
  <2>4. ASSUME IsThisCoro(f), CatchesOwn(program), Captured(f, k) PROVE ~Body(f)[k].catches
    <3>1. program[f].kind = "executor"
      BY <1>2, <1>6, <2>4 DEF IsThisCoro
    <3>2. Kind(Body(f)[k].of) # "executor"
      BY <2>4 DEF Captured, Steal
    <3>3. program[Body(f)[k].of].kind # "executor"
      BY <1>1, <2>3, <3>2, NameFacts DEF Kind
    <3> QED BY <1>2, <2>1, <2>4, <3>1, <3>3 DEF CatchesOwn
  <2> QED BY <1>6, <2>3, <2>4
<1> QED BY <1>3, <1>4, <1>5, <1>6

\* What is captured is awaited in its capture_task.
LEMMA CapturedFacts ==
  ASSUME Types, NEW f \in Names, IsThisCoro(f), NEW k \in 1 .. Len(Body(f)), Captured(f, k)
  PROVE  IsCapture(Awaited(f, Body(f)[k].of))
<1>1. ~IsCapture(f)
  BY DEF IsThisCoro, Kind
<1>2. PICK g \in DOMAIN program : Body(f)[k].of \in {g, Capture(g)}
  BY <1>1, AwaitedName DEF Captured
<1>3. Awaited(f, Body(f)[k].of) = Capture(Body(f)[k].of)
  BY DEF Awaited, Captured, Steal
<1>4. IsCapture(Capture(g)) /\ IsCapture(Capture(Capture(g)))
  BY <1>2, NameFacts DEF Types
<1> QED BY <1>2, <1>3, <1>4

LEMMA AwaitsOnce ==
  ASSUME Types, NEW c \in Names, Used(c), NEW d, IsCapture(d), NEW j, NEW k, Awaits(c, j, d), Awaits(c, k, d)
  PROVE  j = k
<1>1. j \in 1 .. Len(Body(c)) /\ k \in 1 .. Len(Body(c)) /\ Body(c)[j].op = "await" /\ Body(c)[k].op = "await"
  BY DEF Awaits
<1>2. CASE IsCapture(c)
  <2>1. Len(Body(c)) = 2 /\ Body(c)[2].op = "schedule"
    BY <1>2, CaptureBody
  <2> QED BY <1>1, <2>1
<1>3. CASE ~IsCapture(c)
  <2>1. c \in DOMAIN program /\ Kind(c) = program[c].kind /\ IsProgram(program)
    BY <1>3, NameFacts DEF Types, Kind
  <2>2. Kind(c) \in {"executor", "scheduled"}
    <3>1. j \in Nat \ {0} /\ j <= Len(Body(c)) /\ d = Awaited(c, Body(c)[j].of)
      BY StatementFacts DEF Awaits
    <3>2. Calls(c, d)
      BY <1>1, <3>1, StatementFacts
    <3> QED BY <1>3, <2>1, <3>2, CallsUsed
  <2>3. CASE Kind(c) = "scheduled"
    BY <1>1, <1>3, <2>3, AwaitedName
  <2>4. CASE Kind(c) = "executor"
    <3> DEFINE g == Body(c)[j].of
               h == Body(c)[k].of
    <3>1. g \in DOMAIN program /\ h \in DOMAIN program
      BY <1>1, <1>3, <2>4, AwaitedName
    <3>2. d = Steal(g) /\ d = Steal(h)
      BY <2>4 DEF Awaits, Awaited, IsThisCoro
    <3>3. ~IsCapture(g) /\ ~IsCapture(h) /\ Tail(Capture(g)) = g /\ Tail(Capture(h)) = h
      BY <2>1, <3>1, NameFacts
    <3>4. g = h /\ Kind(h) # "executor"
      BY <3>2, <3>3 DEF Steal
    <3>5. program[h].kind # "executor"
      BY <3>3, <3>4 DEF Kind
    <3>6. Body(c) = program[c].body /\ CapturesOnce(program, c)
      BY <1>3, <2>1, <2>4 DEF Body, IsProgram
    <3> QED BY <1>1, <3>4, <3>5, <3>6 DEF CapturesOnce
  <2> QED BY <2>2, <2>3, <2>4
<1> QED BY <1>2, <1>3

\* None of it changes while a program runs.
LEMMA StillAwaits ==
  ASSUME program' = program
  PROVE  /\ \A c, k, d : Awaits(c, k, d)' <=> Awaits(c, k, d)
         /\ \A f, s, r : BackOn(f, s, r)' <=> BackOn(f, s, r)
<1>1. \A f : Kind(f)' = Kind(f)
  BY DEF Kind
<1>2. /\ \A f : Steal(f)' = Steal(f)
      /\ \A f : IsThisCoro(f)' <=> IsThisCoro(f)
      /\ \A f, d : Awaited(f, d)' = Awaited(f, d)
  BY <1>1 DEF Steal, IsThisCoro, Awaited
<1>3. ASSUME NEW f, ~IsCapture(f) PROVE Body(f)' = Body(f)
  BY <1>1, <1>2, <1>3 DEF Body
<1>4. ASSUME NEW c, NEW k, NEW d PROVE Awaits(c, k, d)' <=> Awaits(c, k, d)
  <2>1. CASE IsCapture(c)
    <3>1. Body(c) = << AwaitOf(Tail(c)), ScheduleOn(frame[c].payload) >>
      BY <2>1 DEF Body
    <3>2. Body(c)' = << AwaitOf(Tail(c)), ScheduleOn(frame'[c].payload) >>
      BY <2>1 DEF Body
    <3>3. /\ Len(Body(c)) = 2 /\ Body(c)[1] = AwaitOf(Tail(c)) /\ Body(c)[2].op = "schedule"
          /\ Len(Body(c)') = 2 /\ Body(c)'[1] = AwaitOf(Tail(c)) /\ Body(c)'[2].op = "schedule"
      BY <3>1, <3>2 DEF ScheduleOn
    <3>4. \A n \in 1 .. 2 : n = 1 \/ n = 2
      OBVIOUS
    <3> QED BY <1>2, <3>3, <3>4 DEF Awaits
  <2>2. CASE ~IsCapture(c)
    BY <1>2, <1>3, <2>2 DEF Awaits
  <2> QED BY <2>1, <2>2
<1>5. ASSUME NEW f, NEW s, NEW r PROVE BackOn(f, s, r)' <=> BackOn(f, s, r)
  <2>1. IsThisCoro(f) => ~IsCapture(f)
    BY DEF IsThisCoro, Kind
  <2>2. ~IsCapture(f) => \A k : Captured(f, k)' <=> Captured(f, k)
    BY <1>2, <1>3 DEF Captured
  <2> QED BY <1>2, <2>1, <2>2 DEF BackOn
<1> QED BY <1>4, <1>5

\* The frame f gets no further back.
Onward(f) ==
  \/ frame'[f].at > frame[f].at
  \/ /\ frame'[f].at = frame[f].at
     /\ frame[f].phase # "suspended" \/ frame'[f].phase = "suspended"

LEMMA OnwardAhead ==
  ASSUME Types, NEW c \in Names, Onward(c), frame'[c].at \in Nat, NEW k \in Nat, Ahead(c, k)'
  PROVE  Ahead(c, k)
<1>1. frame[c].at \in Nat
  BY DEF Types, FrameType
<1> QED BY <1>1 DEF Onward, Ahead

LEMMA SameOnward ==
  ASSUME NEW f, frame'[f] = frame[f]
  PROVE  Onward(f)
BY DEF Onward

\* No capture_task is begun in the step, and no scheduler of one that waits changes.
LEMMA HomeMoves ==
  ASSUME Inv, Inv', HomeInv, program' = program,
         \A c \in Names : Onward(c),
         \A c \in Names : IsCapture(c) /\ frame[c].phase = "cold" => frame'[c].phase = "cold",
         \A c \in Names : frame'[c].phase = "cold" => frame'[c].at = frame[c].at /\ frame[c].phase = "cold",
         \A c \in Names : IsCapture(c) \/ frame[c].phase = "suspended" =>
                            frame'[c].payload = frame[c].payload,
         \A c \in Names : IsCapture(c) /\ Active(c)' =>
                            Active(c) /\ frame'[c].continuation = frame[c].continuation,
         Homes'
  PROVE  HomeInv'
<1>1. Names' = Names /\ \A f : Used(f)' <=> Used(f)
  BY StillUsed
<1>2. Fresh'
  <2> SUFFICES ASSUME NEW c \in Names, NEW d \in Names, NEW k \in Nat,
                      Used(c), Awaits(c, k, d), IsCapture(d), Ahead(c, k)'
               PROVE  frame'[d].phase = "cold"
    BY <1>1, StillAwaits DEF Fresh
  <2>1. frame'[c].at \in Nat
    BY <1>1 DEF Inv, Types, FrameType
  <2>2. Ahead(c, k)
    BY <2>1, OnwardAhead DEF Inv
  <2> QED BY <2>2 DEF HomeInv, Fresh
<1>3. Cold'
  BY <1>1 DEF HomeInv, Cold
<1>4. CapturePayload'
  <2> SUFFICES ASSUME NEW d \in Names, IsCapture(d), Active(d)'
               PROVE  frame'[d].payload = frame'[frame'[d].continuation].payload
    BY <1>1 DEF CapturePayload
  <2>1. Active(d) /\ frame'[d].continuation = frame[d].continuation
    OBVIOUS
  <2>2. d # Root
    BY RootFacts DEF Inv
  <2>3. frame[d].continuation \in Names /\ frame[frame[d].continuation].phase = "suspended"
    BY <2>1, <2>2 DEF Inv, Types, FrameType, Chain, Called
  <2> QED BY <2>1, <2>3 DEF HomeInv, CapturePayload
<1>5. CatchesOwn(program)'
  BY DEF HomeInv
<1> QED BY <1>2, <1>3, <1>4, <1>5 DEF HomeInv

\* The thread that is in a body, and what it is back for.
LEMMA HomesNext ==
  ASSUME program' = program, NEW t \in AllThreads, NEW c, run'[t].frame = c,
         \A u \in AllThreads : run'[u].doing = "body" => u = t,
         BackOn(c, Scheduler(t), frame'[c])
  PROVE  Homes'
<1> SUFFICES ASSUME NEW u \in AllThreads, run'[u].doing = "body"
             PROVE  BackOn(run[u].frame, Scheduler(u), frame[run[u].frame])'
  BY DEF Homes, In
<1> SUFFICES ASSUME NEW r, r = frame'[c], NEW s, s = Scheduler(t)
             PROVE  BackOn(run[u].frame, Scheduler(u), frame[run[u].frame])'
  OBVIOUS
<1>1. BackOn(c, s, r)'
  BY StillAwaits
<1>2. u = t /\ (run[u].frame = c)' /\ (frame[run[u].frame] = r)'
  OBVIOUS
<1> QED BY <1>1, <1>2 DEF BackOn

LEMMA NobodyHome ==
  ASSUME \A u \in AllThreads : run'[u].doing # "body"
  PROVE  Homes'
BY DEF Homes, In

LEMMA ResumedAt ==
  ASSUME Types, NEW frames \in [Names -> FrameType], NEW f \in Names, NEW child
  PROVE  LET r == Resumed(frames, f, child)
         IN /\ r[f].at \in {Len(Body(f)) + 1, frames[f].at + 1}
            /\ ~r[f].exception =>
                 /\ r[f].at = frames[f].at + 1 /\ ~frames[f].exception
                 /\ ~frames[child].exception \/ Step(f).catches
<1> DEFINE x == [frames[f] EXCEPT !.phase = "running", !.exception = TRUE, !.at = Len(Body(f)) + 1]
           y == [frames[f] EXCEPT !.phase = "running", !.at = @ + 1]
<1>1. frames[f] \in FrameType
  OBVIOUS
<1>2. x.exception /\ x.at = Len(Body(f)) + 1
  BY <1>1 DEF FrameType
<1>3. (y.exception <=> frames[f].exception) /\ y.at = frames[f].at + 1
  BY <1>1 DEF FrameType
<1>4. CASE frames[child].exception /\ ~Step(f).catches
  <2>1. Resumed(frames, f, child) = [frames EXCEPT ![f] = x]
    BY <1>4 DEF Resumed
  <2> HIDE DEF x
  <2> QED BY <1>2, <1>4, <2>1
<1>5. CASE ~(frames[child].exception /\ ~Step(f).catches)
  <2>1. Resumed(frames, f, child) = [frames EXCEPT ![f] = y]
    BY <1>5 DEF Resumed
  <2> HIDE DEF y
  <2> QED BY <1>3, <1>5, <2>1
<1> QED BY <1>4, <1>5

\* The thread t goes from one statement of f to the next.
LEMMA NextStatement ==
  ASSUME Inv, Inv', HomeInv, NEW t \in AllThreads, In(t, "body"), NEW f, f = run[t].frame,
         program' = program, run' = run, \A g \in Names \ {f} : frame'[g] = frame[g],
         frame'[f].phase = "running", frame'[f].payload = frame[f].payload,
         frame'[f].continuation = frame[f].continuation,
         frame'[f].at > frame[f].at, BackOn(f, Scheduler(t), frame'[f])
  PROVE  HomeInv'
<1>1. /\ f \in Names /\ frame[f].phase = "running" /\ Active(f) /\ OnThread(run, ready, pending, t)
  BY BodyThread
<1>2. \A c \in Names : Onward(c)
  BY SameOnward DEF Onward
<1>3. Homes'
  <2>1. \A u \in AllThreads : run'[u].doing = "body" => u = t
    BY <1>1 DEF OnThread, Working
  <2> QED BY <2>1, HomesNext
<1>4. \A c \in Names : IsCapture(c) /\ frame[c].phase = "cold" => frame'[c].phase = "cold"
  BY <1>1
<1>5. \A c \in Names : frame'[c].phase = "cold" => frame'[c].at = frame[c].at /\ frame[c].phase = "cold"
  OBVIOUS
<1>6. \A c \in Names : IsCapture(c) \/ frame[c].phase = "suspended" =>
                      frame'[c].payload = frame[c].payload
  OBVIOUS
<1>7. \A c \in Names : IsCapture(c) /\ Active(c)' =>
                      Active(c) /\ frame'[c].continuation = frame[c].continuation
  BY <1>1 DEF Active
<1> QED BY <1>2, <1>3, <1>4, <1>5, <1>6, <1>7, HomeMoves

\* What a running coroutine awaits and is not done is begun from the start.
LEMMA AwaitHome ==
  ASSUME Inv, Inv', HomeInv, NEW t \in AllThreads, Await(t)
  PROVE  HomeInv'
<1> SUFFICES ASSUME NEW f, f = run[t].frame PROVE HomeInv'
  OBVIOUS
<1> SUFFICES ASSUME NEW d, d = Awaited(f, Step(f).of) PROVE HomeInv'
  OBVIOUS
<1>1. /\ f \in Names /\ frame[f] \in FrameType /\ frame[f].phase = "running"
      /\ Active(f) /\ Used(f) /\ OnThread(run, ready, pending, t) /\ ~signaled
  BY BodyThread DEF Await
<1>2. /\ Types /\ Chain /\ Ends /\ Payloads /\ frame \in [Names -> FrameType]
      /\ run \in [AllThreads -> [frame : Names, doing : {"nothing", "body", "posting", "notifying"}]]
  BY DEF Inv, Types
<1>3. program' = program /\ In(t, "body") /\ WaitsFor(f, d)
  BY DEF Await, WaitsFor, At
<1>4. d \in Names /\ d # Root /\ d # f /\ ~Active(d) /\ Calls(f, d) /\ Used(d)
  BY <1>1, <1>2, <1>3, NotBegun
<1>5. /\ Len(Body(f)) \in Nat /\ frame[f].at \in 1 .. Len(Body(f)) /\ Step(f) = Body(f)[frame[f].at]
      /\ Awaits(f, frame[f].at, d)
  <2>1. Len(Body(f)) \in Nat
    BY <1>1, <1>2, BodyFacts
  <2>2. frame[f].at \in 1 .. Len(Body(f))
    BY <1>1, <1>3, <2>1 DEF WaitsFor, At, AtEnd, FrameType
  <2> QED BY <1>3, <2>1, <2>2 DEF Step, WaitsFor, At, Awaits
<1>6. IsCapture(d) => frame[d].phase = "cold"
  <2>1. frame[f].at \in Nat
    BY <1>5
  <2>2. Ahead(f, frame[f].at)
    BY <1>1 DEF Ahead
  <2> QED BY <1>1, <1>4, <1>5, <2>1, <2>2 DEF HomeInv, Fresh
<1>7. CASE frame[d].phase = "done"
  <2>1. frame' = Resumed(frame, f, d) /\ run' = run
    BY <1>7 DEF Await
  <2>2. /\ \A g \in Names \ {f} : frame'[g] = frame[g]
        /\ frame'[f].phase = "running" /\ frame'[f].continuation = frame[f].continuation
        /\ frame'[f].payload = frame[f].payload
    BY <1>1, <1>2, <2>1, ResumedFacts
  <2>3. /\ frame'[f].at \in {Len(Body(f)) + 1, frame[f].at + 1}
        /\ ~frame'[f].exception => frame'[f].at = frame[f].at + 1
    BY <1>1, <1>2, <2>1, ResumedAt
  <2>4. frame'[f].at > frame[f].at
    BY <1>5, <2>3
  <2>5. BackOn(f, Scheduler(t), frame'[f])
    <3>1. CASE IsCapture(f)
      <4>1. Len(Body(f)) = 2 /\ Body(f)[2].op = "schedule" /\ ~IsThisCoro(f)
        BY <3>1, CaptureBody
      <4>2. frame[f].at = 1
        BY <1>5, <4>1 DEF Awaits
      <4> QED BY <2>3, <4>1, <4>2 DEF BackOn
    <3>2. CASE ~IsCapture(f)
      <4>1. IsThisCoro(f) => ~Captured(f, frame[f].at)
        BY <1>1, <1>2, <1>5, <1>6, <1>7, CapturedFacts DEF Awaits
      <4>2. (frame[f].at + 1) - 1 = frame[f].at
        BY <1>5
      <4> QED BY <2>3, <3>2, <4>1, <4>2 DEF BackOn
    <3> QED BY <3>1, <3>2
  <2> QED BY <1>3, <2>1, <2>2, <2>4, <2>5, NextStatement
<1>8. CASE frame[d].phase # "done"
  <2> SUFFICES ASSUME NEW payload, payload = Payload(f, d) PROVE HomeInv'
    OBVIOUS
  <2>1. /\ frame' = [frame EXCEPT ![f].phase = "suspended", ![d].phase = "running",
                                  ![d].continuation = f, ![d].payload = payload]
        /\ run' = [run EXCEPT ![t] = [frame |-> d, doing |-> "body"]]
    BY <1>8 DEF Await, Enter
  <2>2. frame[d].phase = "cold" /\ frame[d].at = 1 /\ frame[d] \in FrameType
    <3>1. frame[d].phase \in {"cold", "running", "suspended", "done", "destroyed"} /\ frame[d] \in FrameType
      BY <1>2, <1>4 DEF FrameType
    <3>2. frame[d].phase # "destroyed"
      BY <1>1, <1>2, <1>4 DEF Ends
    <3> QED BY <1>4, <1>8, <3>1, <3>2 DEF Active, HomeInv, Cold
  <2> DEFINE x == [frame[f] EXCEPT !.phase = "suspended"]
             y == [frame[d] EXCEPT !.phase = "running", !.continuation = f, !.payload = payload]
  <2>3. frame' = [frame EXCEPT ![f] = x, ![d] = y]
    BY <1>2, <1>4, <2>1
  <2>4. /\ x.at = frame[f].at /\ x.phase = "suspended" /\ x.payload = frame[f].payload
        /\ x.continuation = frame[f].continuation
    BY <1>1 DEF FrameType
  <2>5. y.phase = "running" /\ y.continuation = f /\ y.payload = payload /\ y.at = 1
    BY <2>2 DEF FrameType
  <2> HIDE DEF x, y
  <2>6. /\ frame'[f] = x /\ frame'[d] = y
        /\ \A g \in Names \ {f, d} : frame'[g] = frame[g]
    BY <1>1, <1>2, <1>4, <2>3
  <2>7. Names' = Names /\ \A g : Used(g)' <=> Used(g)
    BY <1>3, StillUsed
  <2>8. Fresh'
    <3> SUFFICES ASSUME NEW c \in Names, NEW e \in Names, NEW k \in Nat,
                        Used(c), Awaits(c, k, e), IsCapture(e), Ahead(c, k)'
                 PROVE  frame'[e].phase = "cold"
      BY <1>3, <2>7, StillAwaits DEF Fresh
    <3>1. Ahead(c, k)
      BY <1>1, <2>2, <2>4, <2>5, <2>6 DEF Ahead
    <3>2. frame[e].phase = "cold"
      BY <3>1 DEF HomeInv, Fresh
    <3>3. e # f
      BY <1>1, <3>2
    <3>4. e # d
      <4> SUFFICES ASSUME e = d PROVE FALSE
        OBVIOUS
      <4>1. Calls(c, d)
        <5>1. k \in Nat \ {0} /\ k <= Len(Body(c)) /\ Body(c)[k].op = "await" /\ d = Awaited(c, Body(c)[k].of)
          BY <1>2, StatementFacts DEF Awaits
        <5> QED BY <1>2, <5>1, StatementFacts
      <4>2. c = f
        BY <1>1, <1>2, <1>4, <4>1, OneCaller DEF Types
      <4>3. k = frame[f].at
        BY <1>1, <1>2, <1>5, <4>2, AwaitsOnce
      <4>4. ~(k > frame[f].at)
        <5>1. frame[f].at \in Nat
          BY <1>1 DEF FrameType
        <5> QED BY <4>3, <5>1
      <4> QED BY <2>4, <2>6, <4>2, <4>4 DEF Ahead
    <3> QED BY <2>6, <3>2, <3>3, <3>4
  <2>9. Cold'
    BY <2>4, <2>5, <2>6, <2>7 DEF HomeInv, Cold
  <2>10. CapturePayload'
    <3> SUFFICES ASSUME NEW e \in Names, IsCapture(e), Active(e)'
                 PROVE  frame'[e].payload = frame'[frame'[e].continuation].payload
      BY <2>7 DEF CapturePayload
    <3>1. CASE e = d
      <4>1. d \notin DOMAIN program
        BY <1>2, <3>1, NameFacts DEF Types
      <4>2. payload = frame[f].payload
        BY <4>1 DEF Payload
      <4> QED BY <2>4, <2>5, <2>6, <3>1, <4>2
    <3>2. CASE e # d
      <4>1. Active(e) /\ frame'[e].continuation = frame[e].continuation /\ frame'[e].payload = frame[e].payload
        BY <1>1, <2>4, <2>6, <3>2 DEF Active
      <4>2. e # Root
        BY <1>2, RootFacts
      <4> SUFFICES ASSUME NEW c, c = frame[e].continuation
                   PROVE  frame'[e].payload = frame'[frame'[e].continuation].payload
        OBVIOUS
      <4>3. c \in Names /\ frame[c].phase = "suspended"
        BY <1>2, <4>1, <4>2 DEF FrameType, Chain, Called
      <4>4. frame'[c] = frame[c]
        BY <1>1, <2>2, <2>6, <4>3
      <4> QED BY <4>1, <4>4 DEF HomeInv, CapturePayload
    <3> QED BY <3>1, <3>2
  <2>11. Homes'
    <3>1. \A u \in AllThreads : run'[u].doing = "body" => u = t
      BY <1>1, <1>2, <2>1 DEF OnThread, Working
    <3>2. run'[t].frame = d
      BY <1>2, <2>1
    <3>3. BackOn(d, Scheduler(t), frame'[d])
      BY <2>5, <2>6 DEF BackOn
    <3> QED BY <1>3, <3>1, <3>2, <3>3, HomesNext
  <2>12. CatchesOwn(program)'
    BY <1>3 DEF HomeInv
  <2> QED BY <2>8, <2>9, <2>10, <2>11, <2>12 DEF HomeInv
<1> QED BY <1>7, <1>8

LEMMA ScheduleHome ==
  ASSUME Inv, Inv', HomeInv, NEW t \in AllThreads, Schedule(t)
  PROVE  HomeInv'
<1> SUFFICES ASSUME NEW f, f = run[t].frame PROVE HomeInv'
  OBVIOUS
<1>1. /\ f \in Names /\ frame[f] \in FrameType /\ frame[f].phase = "running"
      /\ Active(f) /\ OnThread(run, ready, pending, t)
  BY BodyThread DEF Schedule
<1>2. /\ Types /\ frame \in [Names -> FrameType]
      /\ run \in [AllThreads -> [frame : Names, doing : {"nothing", "body", "posting", "notifying"}]]
  BY DEF Inv, Types
<1>3. program' = program /\ In(t, "body") /\ At(f, "schedule")
  BY DEF Schedule, At
<1>4. frame[f].at \in Nat
  BY <1>1 DEF FrameType
<1>5. CASE Scheduler(t) = Step(f).on
  <2>1. frame' = [frame EXCEPT ![f].at = @ + 1] /\ run' = run
    BY <1>5 DEF Schedule
  <2> DEFINE x == [frame[f] EXCEPT !.at = @ + 1]
  <2>2. /\ x.phase = "running" /\ x.continuation = frame[f].continuation
        /\ x.payload = frame[f].payload /\ x.at = frame[f].at + 1
    BY <1>1 DEF FrameType
  <2>3. frame' = [frame EXCEPT ![f] = x]
    BY <2>1
  <2> HIDE DEF x
  <2>4. /\ \A g \in Names \ {f} : frame'[g] = frame[g]
        /\ frame'[f].phase = "running" /\ frame'[f].continuation = frame[f].continuation
        /\ frame'[f].payload = frame[f].payload /\ frame'[f].at = frame[f].at + 1
    BY <1>1, <1>2, <2>2, <2>3
  <2>5. BackOn(f, Scheduler(t), frame'[f])
    <3>1. IsCapture(f) => Scheduler(t) = frame'[f].payload
      BY <1>1, <1>2, <1>3, <1>5, <2>4, BodyFacts DEF At
    <3>2. ~Captured(f, frame[f].at)
      BY <1>3 DEF At, Step, Captured
    <3>3. (frame[f].at + 1) - 1 = frame[f].at
      BY <1>4
    <3> QED BY <2>4, <3>1, <3>2, <3>3 DEF BackOn
  <2>6. frame'[f].at > frame[f].at
    BY <1>4, <2>4
  <2> QED BY <1>3, <2>1, <2>4, <2>5, <2>6, NextStatement
<1>6. CASE Scheduler(t) # Step(f).on
  <2> SUFFICES ASSUME NEW payload, payload = IF IsThisCoro(f) THEN Step(f).on ELSE frame[f].payload
               PROVE  HomeInv'
    OBVIOUS
  <2> DEFINE x == [frame[f] EXCEPT !.phase = "suspended", !.payload = payload]
  <2>1. /\ frame' = [frame EXCEPT ![f].phase = "suspended",
                                  ![f].payload = IF IsThisCoro(f) THEN Step(f).on ELSE @]
        /\ run' = [run EXCEPT ![t] = [frame |-> f, doing |-> "posting"]]
    BY <1>6 DEF Schedule, Enter
  <2>2. frame' = [frame EXCEPT ![f] = x]
    BY <1>1, <1>2, <2>1
  <2>3. /\ x.phase = "suspended" /\ x.payload = payload
        /\ x.at = frame[f].at /\ x.continuation = frame[f].continuation
    BY <1>1 DEF FrameType
  <2> HIDE DEF x
  <2>4. frame'[f] = x /\ \A g \in Names \ {f} : frame'[g] = frame[g]
    BY <1>1, <1>2, <2>2
  <2>5. IsCapture(f) => payload = frame[f].payload
    BY DEF IsThisCoro, Kind
  <2>6. \A c \in Names : Onward(c)
    BY <2>3, <2>4, SameOnward DEF Onward
  <2>7. Homes'
    <3>1. \A u \in AllThreads : run'[u].doing # "body"
      BY <1>1, <1>2, <2>1 DEF OnThread, Working
    <3> QED BY <3>1, NobodyHome
  <2>8. \A c \in Names : IsCapture(c) /\ Active(c)' =>
                        Active(c) /\ frame'[c].continuation = frame[c].continuation
    BY <1>1, <2>3, <2>4 DEF Active
  <2> QED BY <1>1, <1>3, <2>3, <2>4, <2>5, <2>6, <2>7, <2>8, HomeMoves
<1> QED BY <1>5, <1>6

LEMMA WaitHome ==
  ASSUME Inv, Inv', HomeInv, NEW t \in AllThreads, Wait(t)
  PROVE  HomeInv'
<1> SUFFICES ASSUME NEW f, f = run[t].frame PROVE HomeInv'
  OBVIOUS
<1>1. /\ f \in Names /\ frame[f] \in FrameType /\ frame[f].phase = "running"
      /\ Active(f) /\ OnThread(run, ready, pending, t)
  BY BodyThread DEF Wait
<1>2. /\ Types /\ frame \in [Names -> FrameType] /\ Root \in Names
      /\ run \in [AllThreads -> [frame : Names, doing : {"nothing", "body", "posting", "notifying"}]]
  BY RootFacts DEF Inv, Types
<1>3. program' = program /\ In(t, "body") /\ At(f, "wait")
  BY DEF Wait, At
<1>4. frame[f].at \in Nat
  BY <1>1 DEF FrameType
<1>5. CASE frame' = [frame EXCEPT ![f].at = @ + 1] /\ UNCHANGED <<run, pending>>
  <2> DEFINE x == [frame[f] EXCEPT !.at = @ + 1]
  <2>1. /\ x.phase = "running" /\ x.continuation = frame[f].continuation
        /\ x.payload = frame[f].payload /\ x.at = frame[f].at + 1
    BY <1>1 DEF FrameType
  <2>2. frame' = [frame EXCEPT ![f] = x] /\ run' = run
    BY <1>5
  <2> HIDE DEF x
  <2>3. /\ \A g \in Names \ {f} : frame'[g] = frame[g]
        /\ frame'[f].phase = "running" /\ frame'[f].continuation = frame[f].continuation
        /\ frame'[f].payload = frame[f].payload /\ frame'[f].at = frame[f].at + 1
    BY <1>1, <1>2, <2>1, <2>2
  <2>4. BackOn(f, Scheduler(t), frame'[f])
    <3>1. ~IsCapture(f)
      BY <1>1, <1>2, <1>3, BodyFacts DEF At
    <3>2. ~Captured(f, frame[f].at)
      BY <1>3 DEF At, Step, Captured
    <3>3. (frame[f].at + 1) - 1 = frame[f].at
      BY <1>4
    <3> QED BY <2>3, <3>1, <3>2, <3>3 DEF BackOn
  <2>5. frame'[f].at > frame[f].at
    BY <1>4, <2>3
  <2> QED BY <1>3, <2>2, <2>3, <2>4, <2>5, NextStatement
<1>6. CASE frame' = [frame EXCEPT ![f].phase = "suspended"] /\ Leave(t)
  <2> DEFINE x == [frame[f] EXCEPT !.phase = "suspended"]
  <2>1. /\ x.phase = "suspended" /\ x.payload = frame[f].payload
        /\ x.at = frame[f].at /\ x.continuation = frame[f].continuation
    BY <1>1 DEF FrameType
  <2>2. frame' = [frame EXCEPT ![f] = x] /\ run' = [run EXCEPT ![t] = Idle]
    BY <1>6 DEF Leave
  <2> HIDE DEF x
  <2>3. frame'[f] = x /\ \A g \in Names \ {f} : frame'[g] = frame[g]
    BY <1>1, <1>2, <2>2
  <2>4. \A c \in Names : Onward(c)
    BY <2>1, <2>3, SameOnward DEF Onward
  <2>5. Homes'
    <3>1. \A u \in AllThreads : run'[u].doing # "body"
      BY <1>1, <1>2, <2>2 DEF OnThread, Working, Idle
    <3> QED BY <3>1, NobodyHome
  <2>6. \A c \in Names : IsCapture(c) /\ Active(c)' =>
                        Active(c) /\ frame'[c].continuation = frame[c].continuation
    BY <1>1, <2>1, <2>3 DEF Active
  <2> QED BY <1>1, <1>3, <2>1, <2>3, <2>4, <2>5, <2>6, HomeMoves
<1> QED BY <1>5, <1>6 DEF Wait

LEMMA ResumeHome ==
  ASSUME Inv, Inv', HomeInv, NEW t \in DOMAIN Home, Resume(t)
  PROVE  HomeInv'
<1> SUFFICES ASSUME NEW s, s = Scheduler(t) PROVE HomeInv'
  OBVIOUS
<1>0. PICK f \in ready[s] :
        /\ frame' = [frame EXCEPT ![f].phase = "running", ![f].at = @ + 1]
        /\ run' = [run EXCEPT ![t] = [frame |-> f, doing |-> "body"]]
        /\ program' = program
  BY DEF Resume, Enter
<1>1. s \in Schedulers /\ t \in AllThreads
  BY DEF Scheduler, Schedulers, AllThreads, Inv, Types
<1>2. /\ f \in Names /\ Active(f) /\ frame[f].phase = "suspended"
      /\ (At(f, "schedule") /\ Step(f).on = s) \/ At(f, "wait")
      /\ Posted(run, ready, pending, s, f)
  BY <1>1, Queued
<1>3. /\ Types /\ frame \in [Names -> FrameType] /\ frame[f] \in FrameType /\ frame[f].at \in Nat
      /\ run \in [AllThreads -> [frame : Names, doing : {"nothing", "body", "posting", "notifying"}]]
  BY <1>2 DEF Inv, Types, FrameType
<1> DEFINE x == [frame[f] EXCEPT !.phase = "running", !.at = @ + 1]
<1>4. /\ x.phase = "running" /\ x.continuation = frame[f].continuation
      /\ x.payload = frame[f].payload /\ x.at = frame[f].at + 1
  BY <1>3 DEF FrameType
<1>5. frame' = [frame EXCEPT ![f] = x]
  BY <1>0, <1>2, <1>3
<1> HIDE DEF x
<1>6. frame'[f] = x /\ \A g \in Names \ {f} : frame'[g] = frame[g]
  BY <1>2, <1>3, <1>5
<1>7. \A c \in Names : Onward(c)
  <2>1. frame'[f].at > frame[f].at
    BY <1>3, <1>4, <1>6
  <2> QED BY <1>6, <2>1, SameOnward DEF Onward
<1>8. BackOn(f, s, frame'[f])
  <2>1. IsCapture(f) => s = frame[f].payload
    BY <1>2, <1>3, BodyFacts DEF At
  <2>2. ~Captured(f, frame[f].at)
    BY <1>2 DEF At, Step, Captured
  <2>3. (frame[f].at + 1) - 1 = frame[f].at
    BY <1>3
  <2> QED BY <1>4, <1>6, <2>1, <2>2, <2>3 DEF BackOn
<1>9. Homes'
  <2>1. \A u \in AllThreads : run'[u].doing = "body" => u = t
    BY <1>0, <1>2, <1>3 DEF Posted, Working
  <2>2. run'[t].frame = f
    BY <1>0, <1>1, <1>3
  <2> QED BY <1>0, <1>1, <1>8, <2>1, <2>2, HomesNext
<1>10. \A c \in Names : IsCapture(c) /\ Active(c)' =>
                       Active(c) /\ frame'[c].continuation = frame[c].continuation
  BY <1>2, <1>4, <1>6 DEF Active
<1> QED BY <1>0, <1>2, <1>4, <1>6, <1>7, <1>9, <1>10, HomeMoves

LEMMA ReturnHome ==
  ASSUME Inv, Inv', HomeInv, NEW t \in AllThreads, Return(t)
  PROVE  HomeInv'
<1> SUFFICES ASSUME NEW f, f = run[t].frame PROVE HomeInv'
  OBVIOUS
<1>0. PICK c : c = frame[f].continuation
  OBVIOUS
<1>1. /\ f \in Names /\ frame[f] \in FrameType /\ frame[f].phase = "running"
      /\ Active(f) /\ OnThread(run, ready, pending, t) /\ frame[f].at \in Nat
  BY BodyThread DEF Return, FrameType
<1>2. /\ Types /\ Chain /\ frame \in [Names -> FrameType] /\ IsProgram(program)
      /\ run \in [AllThreads -> [frame : Names, doing : {"nothing", "body", "posting", "notifying"}]]
  BY DEF Inv, Types
<1>3. f # Root
  BY <1>1, <1>2, RootFacts DEF Return
<1>4. /\ program' = program /\ run' = [run EXCEPT ![t] = [frame |-> c, doing |-> "body"]]
      /\ In(t, "body") /\ AtEnd(f)
  BY <1>0 DEF Return, Enter
<1>5. c \in Names /\ frame[c].phase = "suspended" /\ c # f /\ WaitsFor(c, f)
  <2>1. c \in Names /\ frame[c].phase = "suspended" /\ WaitsFor(c, f)
    BY <1>0, <1>1, <1>2, <1>3 DEF Chain, Called, FrameType
  <2> QED BY <1>1, <2>1
<1>6. /\ Len(Body(c)) \in Nat /\ frame[c].at \in 1 .. Len(Body(c)) /\ Step(c) = Body(c)[frame[c].at]
      /\ Step(c).op = "await" /\ f = Awaited(c, Step(c).of)
  <2>1. Len(Body(c)) \in Nat /\ frame[c].at \in Nat \ {0}
    BY <1>2, <1>5, BodyFacts DEF FrameType
  <2> QED BY <1>5, <2>1 DEF WaitsFor, At, AtEnd, Step
<1> DEFINE exception == frame[f].exception \/ (~IsCapture(f) /\ program[f].throws)
           x == [frame[f] EXCEPT !.phase = "done", !.exception = exception]
           ended == [frame EXCEPT ![f] = x]
<1>7. exception \in BOOLEAN
  <2>1. frame[f].exception \in BOOLEAN
    BY <1>1 DEF FrameType
  <2>2. ~IsCapture(f) => program[f].throws \in BOOLEAN
    BY <1>1, <1>2, NameFacts DEF IsProgram
  <2> QED BY <2>1, <2>2
<1>8. /\ x \in FrameType /\ x.phase = "done" /\ x.payload = frame[f].payload /\ x.at = frame[f].at
      /\ ~x.exception => ~frame[f].exception
  <2>1. x \in FrameType
    BY <1>1, <1>7 DEF FrameType
  <2>2. x.phase = "done" /\ x.payload = frame[f].payload /\ x.at = frame[f].at
    BY <1>1 DEF FrameType
  <2>3. ~x.exception => ~frame[f].exception
    BY <1>1 DEF FrameType
  <2> QED BY <2>1, <2>2, <2>3
<1>9. frame' = Resumed(ended, c, f)
  <2>1. frame' = Resumed([frame EXCEPT ![f].phase = "done",
                                       ![f].exception = @ \/ (~IsCapture(f) /\ program[f].throws)], c, f)
    BY <1>0 DEF Return
  <2>2. [frame EXCEPT ![f].phase = "done",
                      ![f].exception = @ \/ (~IsCapture(f) /\ program[f].throws)] = ended
    BY <1>1, <1>2
  <2> QED BY <2>1, <2>2
<1> HIDE DEF x, exception
<1>10. /\ ended \in [Names -> FrameType] /\ ended[f] = x
       /\ \A g \in Names \ {f} : ended[g] = frame[g]
  BY <1>1, <1>2, <1>8
<1> HIDE DEF ended
<1>11. /\ \A g \in Names \ {c} : frame'[g] = ended[g]
       /\ frame'[c].phase = "running" /\ frame'[c].continuation = ended[c].continuation
       /\ frame'[c].payload = ended[c].payload
  BY <1>2, <1>5, <1>9, <1>10, ResumedFacts
<1>12. /\ frame'[f] = x /\ \A g \in Names \ {f, c} : frame'[g] = frame[g]
       /\ frame'[c].continuation = frame[c].continuation /\ frame'[c].payload = frame[c].payload
  BY <1>1, <1>5, <1>10, <1>11
<1>13. /\ frame'[c].at \in {Len(Body(c)) + 1, ended[c].at + 1}
       /\ ~frame'[c].exception => /\ frame'[c].at = ended[c].at + 1
                                  /\ ~ended[f].exception \/ Step(c).catches
  BY <1>2, <1>5, <1>9, <1>10, ResumedAt
<1>14. /\ frame'[c].at > frame[c].at
       /\ ~frame'[c].exception => /\ frame'[c].at = frame[c].at + 1
                                  /\ ~frame[f].exception \/ Step(c).catches
  <2>1. ended[c] = frame[c] /\ ended[f] = x
    BY <1>5, <1>10
  <2>2. ~ended[f].exception => ~frame[f].exception
    BY <1>8, <2>1
  <2> QED BY <1>6, <1>13, <2>1, <2>2
<1>15. BackOn(c, Scheduler(t), frame'[c])
  <2>1. CASE IsCapture(c)
    <3>1. Len(Body(c)) = 2 /\ Body(c)[2].op = "schedule" /\ ~IsThisCoro(c)
      BY <2>1, CaptureBody
    <3>2. frame[c].at = 1
      BY <1>6, <3>1
    <3> QED BY <1>14, <3>1, <3>2 DEF BackOn
  <2>2. CASE ~IsCapture(c)
    <3> SUFFICES ASSUME IsThisCoro(c), ~frame'[c].exception, Captured(c, frame'[c].at - 1)
                 PROVE  Scheduler(t) = frame'[c].payload
      BY <2>2 DEF BackOn
    <3>1. frame'[c].at - 1 = frame[c].at
      BY <1>6, <1>14
    <3>2. Captured(c, frame[c].at)
      BY <3>1
    <3>3. IsCapture(f)
      BY <1>2, <1>5, <1>6, <3>2, CapturedFacts
    <3>4. ~Step(c).catches
      BY <1>2, <1>5, <1>6, <2>2, <3>2, AwaitedName DEF HomeInv
    <3>5. ~frame[f].exception
      BY <1>14, <3>4
    <3>6. frame[f].at > 2
      <4>1. Len(Body(f)) = 2
        BY <3>3, CaptureBody
      <4> QED BY <1>1, <1>4, <4>1 DEF AtEnd
    <3>7. Scheduler(t) = frame[f].payload
      BY <1>4, <3>3, <3>5, <3>6 DEF HomeInv, Homes, BackOn
    <3>8. frame[f].payload = frame[c].payload
      BY <1>0, <1>1, <3>3 DEF HomeInv, CapturePayload
    <3> QED BY <1>12, <3>7, <3>8
  <2> QED BY <2>1, <2>2
<1>16. Homes'
  <2>1. \A u \in AllThreads : run'[u].doing = "body" => u = t
    BY <1>1, <1>2, <1>4 DEF OnThread, Working
  <2>2. run'[t].frame = c
    BY <1>2, <1>4
  <2> QED BY <1>4, <1>15, <2>1, <2>2, HomesNext
<1>17. \A g \in Names : Onward(g)
  <2>1. Onward(f)
    BY <1>1, <1>8, <1>12 DEF Onward
  <2>2. Onward(c)
    BY <1>14 DEF Onward
  <2> QED BY <1>12, <2>1, <2>2, SameOnward
<1>18. \A g \in Names : IsCapture(g) /\ Active(g)' =>
                        Active(g) /\ frame'[g].continuation = frame[g].continuation
  BY <1>1, <1>5, <1>8, <1>12 DEF Active
<1>19. \A g \in Names : frame'[g].payload = frame[g].payload
  BY <1>8, <1>12
<1>20. /\ \A g \in Names : IsCapture(g) /\ frame[g].phase = "cold" => frame'[g].phase = "cold"
       /\ \A g \in Names : frame'[g].phase = "cold" => frame'[g].at = frame[g].at /\ frame[g].phase = "cold"
  BY <1>1, <1>5, <1>8, <1>11, <1>12
<1> QED BY <1>4, <1>16, <1>17, <1>18, <1>19, <1>20, HomeMoves

\* The frames stay as they are.
LEMMA FramesStill ==
  ASSUME Inv, Inv', HomeInv, program' = program, frame' = frame,
         \A u \in AllThreads : run'[u].doing = "body" => run'[u] = run[u]
  PROVE  HomeInv'
<1>1. \A c \in Names : Onward(c)
  BY SameOnward
<1>2. Homes'
  <2> SUFFICES ASSUME NEW u \in AllThreads, run'[u].doing = "body"
               PROVE  BackOn(run[u].frame, Scheduler(u), frame[run[u].frame])'
    BY DEF Homes, In
  <2> SUFFICES ASSUME NEW f, f = run[u].frame, NEW r, r = frame[f], NEW s, s = Scheduler(u)
               PROVE  BackOn(run[u].frame, Scheduler(u), frame[run[u].frame])'
    OBVIOUS
  <2>1. BackOn(f, s, r)
    BY DEF HomeInv, Homes, In
  <2>2. BackOn(f, s, r)'
    BY <2>1, StillAwaits
  <2>3. (run[u].frame = f)' /\ (frame[run[u].frame] = r)'
    OBVIOUS
  <2> QED BY <2>2, <2>3 DEF BackOn
<1>3. \A c \in Names : IsCapture(c) /\ Active(c)' =>
                       Active(c) /\ frame'[c].continuation = frame[c].continuation
  BY DEF Active
<1> QED BY <1>1, <1>2, <1>3, HomeMoves

LEMMA StartHome ==
  ASSUME Inv, Inv', HomeInv, Start
  PROVE  HomeInv'
<1>1. /\ Nowhere(run, ready, pending) /\ \A f \in Names : frame[f].phase = "cold"
  BY DEF Start, Inv, Ends
<1>2. /\ frame \in [Names -> FrameType] /\ Main \in AllThreads
      /\ run \in [AllThreads -> [frame : Names, doing : {"nothing", "body", "posting", "notifying"}]]
      /\ Root \in Names /\ ~IsCapture(Root) /\ Kind(Root) = "sync"
  BY RootFacts DEF Inv, Types, AllThreads
<1>3. /\ program' = program /\ run' = [run EXCEPT ![Main] = [frame |-> Root, doing |-> "body"]]
      /\ frame' = [frame EXCEPT ![Root].phase = "running"]
  BY DEF Start, Enter
<1> DEFINE x == [frame[Root] EXCEPT !.phase = "running"]
<1>4. x.phase = "running" /\ x.payload = frame[Root].payload /\ x.at = frame[Root].at
  <2>1. frame[Root] \in FrameType
    BY <1>2
  <2> QED BY <2>1 DEF FrameType
<1>5. frame' = [frame EXCEPT ![Root] = x]
  BY <1>3
<1> HIDE DEF x
<1>6. frame'[Root] = x /\ \A g \in Names \ {Root} : frame'[g] = frame[g]
  BY <1>2, <1>5
<1>7. \A c \in Names : Onward(c)
  BY <1>1, <1>2, <1>4, <1>6, SameOnward DEF Onward
<1>8. Homes'
  <2>1. \A u \in AllThreads : run'[u].doing = "body" => u = Main
    BY <1>1, <1>2, <1>3 DEF Nowhere, Working
  <2>2. run'[Main].frame = Root
    BY <1>2, <1>3
  <2>3. BackOn(Root, Scheduler(Main), frame'[Root])
    BY <1>2 DEF BackOn, IsThisCoro
  <2> QED BY <1>2, <1>3, <2>1, <2>2, <2>3, HomesNext
<1>9. \A c \in Names : IsCapture(c) /\ Active(c)' =>
                       Active(c) /\ frame'[c].continuation = frame[c].continuation
  BY <1>1, <1>2, <1>6 DEF Active
<1> QED BY <1>1, <1>2, <1>3, <1>4, <1>6, <1>7, <1>8, <1>9, HomeMoves

LEMMA SignalHome ==
  ASSUME Inv, Inv', HomeInv, NEW t \in AllThreads, Signal(t)
  PROVE  HomeInv'
<1>1. /\ run[t].frame \in Names /\ frame[run[t].frame].phase = "running"
      /\ OnThread(run, ready, pending, t)
  BY BodyThread DEF Signal
<1>2. /\ frame \in [Names -> FrameType] /\ Root \in Names /\ ~IsCapture(Root) /\ run[t].frame = Root
      /\ run \in [AllThreads -> [frame : Names, doing : {"nothing", "body", "posting", "notifying"}]]
  BY <1>1, RootFacts DEF Signal, Inv, Types
<1>3. /\ program' = program /\ run' = [run EXCEPT ![t] = [frame |-> Root, doing |-> "notifying"]]
      /\ frame' = [frame EXCEPT ![Root].phase = "done"]
  BY <1>2 DEF Signal, Enter
<1> DEFINE x == [frame[Root] EXCEPT !.phase = "done"]
<1>4. x.phase = "done" /\ x.payload = frame[Root].payload /\ x.at = frame[Root].at
  <2>1. frame[Root] \in FrameType
    BY <1>2
  <2> QED BY <2>1 DEF FrameType
<1>5. frame' = [frame EXCEPT ![Root] = x]
  BY <1>3
<1> HIDE DEF x
<1>6. frame'[Root] = x /\ \A g \in Names \ {Root} : frame'[g] = frame[g]
  BY <1>2, <1>5
<1>7. \A c \in Names : Onward(c)
  BY <1>1, <1>2, <1>4, <1>6, SameOnward DEF Onward
<1>8. Homes'
  <2>1. \A u \in AllThreads : run'[u].doing # "body"
    BY <1>1, <1>2, <1>3 DEF OnThread, Working
  <2> QED BY <2>1, NobodyHome
<1>9. \A c \in Names : IsCapture(c) /\ Active(c)' =>
                       Active(c) /\ frame'[c].continuation = frame[c].continuation
  BY <1>2, <1>6 DEF Active
<1> QED BY <1>1, <1>2, <1>3, <1>4, <1>6, <1>7, <1>8, <1>9, HomeMoves

LEMMA DeliverHome ==
  ASSUME Inv, Inv', HomeInv, Deliver
  PROVE  HomeInv'
<1> SUFFICES ASSUME NEW task, task = program[Root].task PROVE HomeInv'
  OBVIOUS
<1>1. /\ task \in Names /\ ~IsCapture(task) /\ ~Active(task) /\ ~Active(Root)
      /\ Nowhere(run, ready, pending)
  BY TaskEnded DEF Deliver
<1>2. frame \in [Names -> FrameType] /\ Root \in Names /\ ~IsCapture(Root)
  BY RootFacts DEF Inv, Types
<1>3. /\ program' = program /\ run' = run
      /\ frame' = [f \in Names |-> IF f \in {Root, task}
                                   THEN [frame[f] EXCEPT !.phase = "destroyed"] ELSE frame[f]]
  BY DEF Deliver
<1>4. \A f \in Names : LET x == [frame[f] EXCEPT !.phase = "destroyed"]
                       IN x.phase = "destroyed" /\ x.payload = frame[f].payload /\ x.at = frame[f].at
  <2> SUFFICES ASSUME NEW f \in Names, NEW r \in FrameType
               PROVE  LET x == [r EXCEPT !.phase = "destroyed"]
                      IN x.phase = "destroyed" /\ x.payload = r.payload /\ x.at = r.at
    BY <1>2
  <2> QED BY DEF FrameType
<1>5. /\ \A g \in Names \ {Root, task} : frame'[g] = frame[g]
      /\ \A g \in {Root, task} :
           frame'[g].phase = "destroyed" /\ frame'[g].payload = frame[g].payload /\ frame'[g].at = frame[g].at
  BY <1>1, <1>2, <1>3, <1>4
<1>6. \A c \in Names : Onward(c)
  BY <1>1, <1>5, SameOnward DEF Onward, Active
<1>7. Homes'
  <2>1. \A u \in AllThreads : run'[u].doing # "body"
    BY <1>1, <1>3 DEF Nowhere, Working
  <2> QED BY <2>1, NobodyHome
<1>8. \A c \in Names : IsCapture(c) /\ Active(c)' =>
                       Active(c) /\ frame'[c].continuation = frame[c].continuation
  BY <1>1, <1>2, <1>5 DEF Active
<1> QED BY <1>1, <1>2, <1>3, <1>5, <1>6, <1>7, <1>8, HomeMoves

LEMMA BeginsHome ==
  ASSUME CoroutinesAssumption, \A p \in Programs : CatchesOwn(p), Init
  PROVE  HomeInv
<1>1. CatchesOwn(program)
  BY DEF Init
<1>2. \A f \in Names : frame[f].phase = "cold" /\ frame[f].at = 1
  BY DEF Init
<1>3. \A t \in AllThreads : run[t].doing = "nothing"
  BY DEF Init, Idle
<1> QED BY <1>1, <1>2, <1>3 DEF HomeInv, Fresh, Cold, CapturePayload, Homes, Active, In

LEMMA StepHome ==
  ASSUME Inv, Inv', HomeInv, [Next]_vars
  PROVE  HomeInv'
<1>1. CASE UNCHANGED vars
  <2>1. program' = program /\ frame' = frame /\ run' = run
    BY <1>1 DEF vars
  <2> QED BY <2>1, FramesStill
<1>2. ASSUME NEW t \in AllThreads, Post(t) \/ Notify(t) PROVE HomeInv'
  <2>1. program' = program /\ frame' = frame /\ run' = [run EXCEPT ![t] = Idle]
    BY <1>2 DEF Post, Notify, Leave
  <2>2. run \in [AllThreads -> [frame : Names, doing : {"nothing", "body", "posting", "notifying"}]]
    BY DEF Inv, Types
  <2>3. \A u \in AllThreads : run'[u].doing = "body" => run'[u] = run[u]
    BY <2>1, <2>2 DEF Idle
  <2> QED BY <2>1, <2>3, FramesStill
<1>3. ASSUME NEW t \in AllThreads,
             Await(t) \/ Schedule(t) \/ Wait(t) \/ Return(t) \/ Signal(t)
      PROVE  HomeInv'
  BY <1>3, AwaitHome, ScheduleHome, WaitHome, ReturnHome, SignalHome
<1>4. ASSUME NEW t \in DOMAIN Home, Resume(t) PROVE HomeInv'
  BY <1>4, ResumeHome
<1>5. CASE FallAsleep \/ \E s \in Schedulers : Fire(s)
  <2>1. program' = program /\ frame' = frame /\ run' = run
    BY <1>5 DEF FallAsleep, Fire
  <2> QED BY <2>1, FramesStill
<1>6. CASE Start \/ Deliver
  BY <1>6, StartHome, DeliverHome
<1> QED BY <1>1, <1>2, <1>3, <1>4, <1>5, <1>6 DEF Next

LEMMA HomeIs ==
  ASSUME HomeInv
  PROVE  ComesHome
<1> SUFFICES ASSUME NEW t \in AllThreads, NEW f, f = run[t].frame,
                    In(t, "body"), IsThisCoro(f), frame[f].at > 1, ~frame[f].exception,
                    Body(f)[frame[f].at - 1].op = "await",
                    Steal(Body(f)[frame[f].at - 1].of) # Body(f)[frame[f].at - 1].of
             PROVE  Scheduler(t) = frame[f].payload
  BY DEF ComesHome
<1>1. BackOn(f, Scheduler(t), frame[f])
  BY DEF HomeInv, Homes
<1>2. Captured(f, frame[f].at - 1)
  BY DEF Captured
<1> QED BY <1>1, <1>2 DEF BackOn

(***************************************************************************)
(* After awaiting what is no task of the library a coroutine goes on where *)
(* its payload says (executor.hpp:30, steal.hpp:14-29).  Without the       *)
(* hypothesis it need not: an exception leaves the capture_task before it  *)
(* moves back, and who catches it goes on wherever it came from.           *)
(***************************************************************************)
THEOREM ComesHomeAlways ==
  ASSUME CoroutinesAssumption, \A p \in Programs : CatchesOwn(p)
  PROVE  Spec => []ComesHome
<1>1. Init => HomeInv
  BY BeginsHome
<1>2. Inv /\ Inv' /\ HomeInv /\ [Next]_vars => HomeInv'
  BY StepHome
<1>3. HomeInv => ComesHome
  BY HomeIs
<1>4. Spec => []Inv
  BY Invariant
<1> QED BY <1>1, <1>2, <1>3, <1>4, PTL DEF Spec

=============================================================================
