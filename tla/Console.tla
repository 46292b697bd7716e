------------------------------- MODULE Console -------------------------------
(***************************************************************************)
(* col_stream: text in the colours of the top of a stack of states, with   *)
(* a cache of the escape sequence of that state; and log::msg, which       *)
(* prints a label and a message on such a stream under a lock, so in one   *)
(* step.  A cached sequence is the state it was made of; of a state, only  *)
(* the attributes that log::msg sets are kept.                             *)
(***************************************************************************)
EXTENDS Integers, SequencesExt

CONSTANTS
  Colors,   \* of the text
  MaxStack  \* bound of the model: states pushed

VARIABLES
  stream,   \* the stack of states and the cache, empty or one state
  depth,    \* states pushed and not popped by the callers
  printed,  \* the states that the chunks of the last print came out in
  wanted    \* those that its caller asked for

vars == <<stream, depth, printed, wanted>>

Plain == [color |-> "default", bold |-> FALSE, underline |-> FALSE, italic |-> FALSE]

States == [color : Colors, bold : BOOLEAN, underline : BOOLEAN, italic : BOOLEAN]

Top(s) == Last(s.stack)

-----------------------------------------------------------------------------
(* The operations, from a stream to a stream.                              *)

\* The attribute is swapped in; the cache goes if that made a difference.
Updated(s, attribute, value) ==
  [s EXCEPT !.stack[Len(s.stack)][attribute] = value,
            !.cache = IF Top(s)[attribute] = value THEN @ ELSE <<>>]

UpdatedAll(s, new) == [s EXCEPT !.stack[Len(s.stack)] = new, !.cache = <<>>]

Toggled(s) == [s EXCEPT !.stack[Len(s.stack)].italic = ~@, !.cache = <<>>]

\* The pushed state is a copy of the one below it, so the cache stays.
Pushed(s) == [s EXCEPT !.stack = Append(@, Top(s))]

\* Mutant: the cached sequence is that of the state that goes.
Popped_KeepsCache(s) ==
  IF Len(s.stack) <= 1 THEN s ELSE [s EXCEPT !.stack = Front(@)]

Popped(s) ==
  IF Len(s.stack) <= 1 THEN s ELSE [s EXCEPT !.stack = Front(@), !.cache = <<>>]

Cleared(s) == [s EXCEPT !.stack = <<Top(s)>>, !.cache = <<>>]

\* A chunk comes out in the cached state.
Cached(s) == IF s.cache = <<>> THEN [s EXCEPT !.cache = <<Top(s)>>] ELSE s
Chunk(s) == Cached(s).cache[1]

\* What the stream is after a print in another colour, and the chunk.
InColor(s, color) == Updated(Pushed(s), "color", color)
AfterInColor(s, color) == Popped(Cached(InColor(s, color)))

-----------------------------------------------------------------------------
(* log::msg on a colored stream: the label in italics, underlined and in   *)
(* the colour of the severity, a space, the message in bold.               *)

Labelled(s) == Updated(Updated(Pushed(s), "italic", TRUE), "underline", TRUE)

Message(s, color) ==
  LET label == Labelled(s)
      space == Popped(AfterInColor(label, color))
      message == Updated(Pushed(Cached(space)), "bold", TRUE)
  IN [stream |-> Popped(AfterInColor(message, color)),
      chunks |-> <<Chunk(InColor(label, color)), Chunk(space), Chunk(InColor(message, color))>>]

-----------------------------------------------------------------------------

Init ==
  /\ stream = [stack |-> <<Plain>>, cache |-> <<>>]
  /\ depth = 1
  /\ printed = <<>> /\ wanted = <<>>

Quietly(s) == stream' = s /\ UNCHANGED <<depth, printed, wanted>>

UpdateTop ==
  \/ \E color \in Colors : Quietly(Updated(stream, "color", color))
  \/ \E attribute \in {"bold", "underline", "italic"}, on \in BOOLEAN :
       Quietly(Updated(stream, attribute, on))
  \/ \E new \in States : Quietly(UpdatedAll(stream, new))
  \/ Quietly(Toggled(stream))

PushState ==
  /\ depth < MaxStack
  /\ stream' = Pushed(stream) /\ depth' = depth + 1
  /\ UNCHANGED <<printed, wanted>>

\* A pop of the last state is ignored.
PopState ==
  /\ stream' = Popped(stream)
  /\ depth' = IF depth = 1 THEN 1 ELSE depth - 1
  /\ UNCHANGED <<printed, wanted>>

ClearStates ==
  /\ stream' = Cleared(stream) /\ depth' = 1
  /\ UNCHANGED <<printed, wanted>>

PrintText ==
  /\ stream' = Cached(stream)
  /\ printed' = <<Chunk(stream)>> /\ wanted' = <<Top(stream)>>
  /\ UNCHANGED depth

PrintInColor(color) ==
  /\ stream' = AfterInColor(stream, color)
  /\ printed' = <<Chunk(InColor(stream, color))>>
  /\ wanted' = << [Top(stream) EXCEPT !.color = color] >>
  /\ UNCHANGED depth

Msg(color) ==
  LET all == Message(stream, color)
      base == Top(stream)
  IN /\ stream' = all.stream
     /\ printed' = all.chunks
     /\ wanted' = << [base EXCEPT !.color = color, !.italic = TRUE, !.underline = TRUE],
                     base, [base EXCEPT !.color = color, !.bold = TRUE] >>
     /\ UNCHANGED depth

Next ==
  \/ UpdateTop \/ PushState \/ PopState \/ ClearStates \/ PrintText
  \/ \E color \in Colors : PrintInColor(color) \/ Msg(color)

Spec == Init /\ [][Next]_vars

-----------------------------------------------------------------------------

(***************************************************************************)
(* Every chunk comes out in the state its caller asked for, and the stack  *)
(* is as deep as the callers made it: no cached sequence outlives the      *)
(* state it was made of, whatever was pushed, popped, toggled or printed   *)
(* in other colours since, and a log message leaves the stream as it was.  *)
(***************************************************************************)
PrintedAsWanted ==
  /\ printed = wanted
  /\ Len(stream.stack) = depth
  /\ stream.cache # <<>> => stream.cache[1] = Top(stream)
=============================================================================
