--------------------------- MODULE CommandAdapter ---------------------------
(***************************************************************************)
(* What the gate and the lifecycle rely on when they drive an adapter      *)
(* (gate.py CommandAdapter, docs/synthetic-plant.md): it holds at most one *)
(* accepted target, takes each command once and in order, moves only with  *)
(* a target and without a fault, and is repaired only once it holds none.  *)
(* How targets expire, what is sampled and when calls fail is left open.   *)
(***************************************************************************)
EXTENDS Naturals

VARIABLES
  held,      \* the sequence number of the target, 0 when there is none
  taken,     \* the last command taken as the target
  faulted,   \* the adapter reports a fault
  position   \* the number of steps moved

adapterState == <<held, taken, faulted, position>>

Init == held = 0 /\ taken = 0 /\ faulted = FALSE /\ position = 0

-----------------------------------------------------------------------------

\* apply: a command that is newer than every earlier one replaces the target.
Take ==
  /\ ~faulted
  /\ taken' > taken /\ held' = taken'
  /\ UNCHANGED <<faulted, position>>

\* cancel, hold and stop, and the expiry of the target: with or without a fault.
Drop ==
  /\ held' = 0
  /\ UNCHANGED <<taken, faulted, position>>

\* A request or a step fails.  It may have dropped the target by then.
Fail ==
  /\ faulted' = TRUE
  /\ held' \in {held, 0}
  /\ UNCHANGED <<taken, position>>

Repair ==
  /\ held = 0
  /\ faulted' = FALSE
  /\ UNCHANGED <<held, taken, position>>

Move ==
  /\ held # 0 /\ ~faulted
  /\ position' = position + 1
  /\ UNCHANGED <<held, taken, faulted>>

Next == Take \/ Drop \/ Fail \/ Repair \/ Move

Spec == Init /\ [][Next]_adapterState
=============================================================================
