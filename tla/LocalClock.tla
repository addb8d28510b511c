----------------------------- MODULE LocalClock -----------------------------
(***************************************************************************)
(* The local clock of a session: every component that compares ages,       *)
(* deadlines or expiries is constructed with the same callable integer     *)
(* clock (loop.py SimulationClock).  One unit stands for a fixed number of *)
(* nanoseconds; a clock that regresses is modelled in Lifecycle.           *)
(***************************************************************************)
EXTENDS Naturals

CONSTANT MaxTime  \* bound on the clock

ASSUME ClockAssumption == MaxTime \in Nat

VARIABLE now

Times == 0..MaxTime

Elapse == now < MaxTime /\ now' = now + 1
=============================================================================
