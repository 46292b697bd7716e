------------------------------- MODULE Checks -------------------------------
(***************************************************************************)
(* The checks of log.hpp: CTH_CRITICAL, CTH_THROW, CTH_WARN, ... and their *)
(* stable forms.  What a check is made of is decided by the preprocessor,  *)
(* from the build and the log level; a check that fails makes a LogObj,    *)
(* runs the block behind the macro and lets the object go.                 *)
(***************************************************************************)
EXTENDS Integers

VARIABLES
  build,    \* [debug, level]: CTH_DEBUG_MODE and CTH_LOG_LEVEL
  check,    \* [macro, stable, fails]: a check that is reached, and whether it fails
  at,       \* where the program is in it
  report,   \* the LogObj: "none", "held" or "moved" (by throwE)
  printed   \* times the report was printed

vars == <<build, check, at, report, printed>>

Macros == {"CRITICAL", "THROW", "ERR", "WARN", "INFO", "LOG"}

\* CRITICAL stands for ASSERT as well, which negates its expression.
Severity ==
  [m \in Macros |->
     CASE m = "CRITICAL" -> 4 [] m \in {"THROW", "ERR"} -> 3 [] m = "WARN" -> 2
       [] m = "INFO" -> 1 [] m = "LOG" -> 0]

LevelNone == 5

Builds == [debug : BOOLEAN, level : 0 .. LevelNone]
Reachable == [macro : Macros, stable : BOOLEAN, fails : BOOLEAN]

-----------------------------------------------------------------------------
(* Which macros are defined as checks; the conditions are nested.          *)

CriticalsOn == build.debug /\ build.level # LevelNone
ErrorsOn    == CriticalsOn /\ build.level # Severity["CRITICAL"]
WarningsOn  == ErrorsOn /\ build.level # Severity["ERR"]
InfosOn     == WarningsOn /\ build.level # Severity["WARN"]
LogsOn      == InfosOn /\ build.level # Severity["INFO"]

Enabled(m) ==
  \/ m = "CRITICAL" /\ CriticalsOn
  \/ m \in {"THROW", "ERR"} /\ ErrorsOn
  \/ m = "WARN" /\ WarningsOn
  \/ m = "INFO" /\ InfosOn
  \/ m = "LOG" /\ LogsOn

\* The stable ones are defined in every build.
IsCheck == check.stable \/ Enabled(check.macro)

Go(where) == at' = where /\ UNCHANGED <<build, check>>

-----------------------------------------------------------------------------

\* The expression is evaluated; if the check fails the report is made.
Evaluate ==
  /\ at = "reached" /\ IsCheck
  /\ Go(IF check.fails THEN "block" ELSE "passed")
  /\ report' = IF check.fails THEN "held" ELSE "none"
  /\ UNCHANGED printed

\* Disabled: CRITICAL becomes an assumption, the others do not look at all.
Disabled ==
  /\ at = "reached" /\ ~IsCheck
  /\ Go(IF check.macro = "CRITICAL" /\ check.fails THEN "undefined" ELSE "passed")
  /\ UNCHANGED <<report, printed>>

\* Mutant: the thrown report is a copy, and the object keeps its own.
EndOfBlock_Copies ==
  /\ at = "block"
  /\ Go(IF check.macro = "THROW" THEN "throwing" ELSE "leaving")
  /\ UNCHANGED <<report, printed>>

\* The end of the block: a THROW throws.
EndOfBlock ==
  /\ at = "block"
  /\ Go(IF check.macro = "THROW" THEN "throwing" ELSE "leaving")
  /\ report' = IF check.macro = "THROW" THEN "moved" ELSE report
  /\ UNCHANGED printed

\* A return or break in the block leaves the macro before throwE.
LeaveBlock ==
  /\ at = "block"
  /\ Go("leaving")
  /\ UNCHANGED <<report, printed>>

\* print and msg look at the level, for the stable checks as well.
PrintReport == printed' = IF Severity[check.macro] < build.level THEN printed ELSE printed + 1

Throw ==
  /\ at = "throwing"
  /\ PrintReport
  /\ Go("unwinding")
  /\ UNCHANGED report

\* ~LogObj, when the block is left or the exception unwinds it.
Destroy ==
  /\ at \in {"leaving", "unwinding"}
  /\ IF report = "moved" THEN UNCHANGED printed ELSE PrintReport
  /\ report' = "none"
  /\ Go(IF report # "moved" /\ check.macro = "CRITICAL" THEN "terminated"
        ELSE IF at = "unwinding" THEN "threw" ELSE "passed")

Init ==
  /\ build \in Builds /\ check \in Reachable
  /\ at = "reached" /\ report = "none" /\ printed = 0

Next == Evaluate \/ Disabled \/ EndOfBlock \/ LeaveBlock \/ Throw \/ Destroy

Spec == Init /\ [][Next]_vars

-----------------------------------------------------------------------------

Ended == at \in {"passed", "threw", "terminated", "undefined"}

(***************************************************************************)
(* A failing critical check that is compiled in ends the program whatever  *)
(* the block behind it does and whatever the level prints; no other check  *)
(* does; a check that holds changes nothing.  A report is printed once if  *)
(* its level is on and never otherwise, also when it is thrown.            *)
(***************************************************************************)
FailuresReported ==
  Ended =>
    /\ printed = IF IsCheck /\ check.fails /\ Severity[check.macro] >= build.level THEN 1 ELSE 0
    /\ at = "terminated" <=> IsCheck /\ check.fails /\ check.macro = "CRITICAL"
    /\ at = "threw" => check.fails /\ check.macro = "THROW"
    /\ at = "undefined" => check.fails /\ ~check.stable /\ ~CriticalsOn
    /\ ~check.fails => at = "passed"
=============================================================================
