----------------------------- MODULE RunControl -----------------------------
(***************************************************************************)
(* What every part of a daily run shares.  DailyRunner.run_today           *)
(* (src/src/runtime/daily_runner.py) is one sequential procedure: it calls *)
(* the outcome scheduler, then the research cycle engine, then the         *)
(* registry and the reporter.  "pc" is the point it has reached, so that   *)
(* a crash or an exception can fall between any two writes.                *)
(***************************************************************************)
EXTENDS Integers, FiniteSets

CONSTANT MaxFaults   \* bound: how many calls may raise in one behaviour

ASSUME RunControlAssumption == MaxFaults \in Nat

VARIABLES
  pc,      \* the step of run_today that is next; "idle" between runs
  day,     \* date_str of the current (or latest) run, as a day number
  faults   \* how many calls have raised so far

runVars == <<pc, day, faults>>

Phases == {"idle", "evaluate", "invalidate", "gather", "cycle", "research",
           "store", "save", "register", "report"}

RunTypeOK ==
  /\ pc \in Phases
  /\ day \in Nat
  /\ faults \in Nat

RunInit ==
  /\ pc = "idle"
  /\ day = 0
  /\ faults = 0

Goto(step) == pc' = step /\ UNCHANGED <<day, faults>>

(* A call raised: control resumes at "step", where the code catches it.    *)
Raise(step) ==
  /\ faults < MaxFaults
  /\ faults' = faults + 1
  /\ pc' = step
  /\ UNCHANGED day
=============================================================================
