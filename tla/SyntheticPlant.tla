--------------------------- MODULE SyntheticPlant ---------------------------
(***************************************************************************)
(* SyntheticController (plant.py): the command adapter and plant of the    *)
(* offline runtime.  The runner serializes all calls, so that each is one  *)
(* step, and advances the clock between them.                              *)
(*                                                                         *)
(* The joints are abstracted to the number of steps that moved them: what  *)
(* is at stake is when they may move, when a target is dropped and which   *)
(* sample shows what, not where the arm is; velocities are left out.  A    *)
(* submission that is refused before it is attempted (identity, timing,    *)
(* pose, stale feedback) raises and changes nothing but the log, and is no *)
(* step here.                                                              *)
(***************************************************************************)
EXTENDS LocalClock

CONSTANTS
  TickLength,    \* the length of a plant tick: PLANT_TICK_NS
  Horizon,       \* how long a target lasts: control_period_s
  StateTimeout,  \* the age up to which feedback is fresh: robot_state_timeout_s
  MaxCommand,    \* bound on command sequence numbers
  MaxCommandEpoch,  \* bound on the epochs of commands
  Failing        \* the operations that are made to fail (fail_next)

Operations == {"apply", "cancel", "hold", "stop", "advance"}

ASSUME PlantAssumption ==
  /\ TickLength \in Nat \ {0}
  /\ Horizon \in Nat \ {0}
  /\ StateTimeout \in Nat
  /\ MaxCommand \in Nat
  /\ MaxCommandEpoch \in Nat
  /\ Failing \subseteq Operations

VARIABLES
  stateTime,    \* when the joints were last committed: _state_ns
  target,       \* the accepted target, or NoTarget
  fault,        \* a fault is latched
  lastCommand, lastEpoch,
  position,     \* the joints, as the number of steps that moved them
  mode,         \* the feedback mode
  cached,       \* the message sampled last, or NoMessage
  failures      \* the operations whose next call fails

motionVars == <<stateTime, position>>
commandVars == <<target, lastCommand, lastEpoch>>
sampleVars == <<mode, cached>>
plantVars == <<now, motionVars, commandVars, fault, sampleVars, failures>>

Commands == 1..MaxCommand
Target == [command: Commands, epoch: 0..MaxCommandEpoch, accepted: Times, expires: Nat]
NoTarget == [command |-> 0, epoch |-> 0, accepted |-> 0, expires |-> 0]
StateMessage == [sequence: Nat, time: Times, position: Nat]
NoMessage == [sequence |-> 0, time |-> 0, position |-> 0]

PlantInit ==
  /\ now = 0
  /\ stateTime = 0 /\ position = 0
  /\ target = NoTarget /\ lastCommand = 0 /\ lastEpoch = 0
  /\ fault = FALSE
  /\ mode = "normal" /\ cached = NoMessage
  /\ failures = {}

-----------------------------------------------------------------------------
(* Failures.                                                                 *)

\* fail_next: the next call of the operation fails.
FailNext(op) ==
  /\ op \in Failing \ failures
  /\ failures' = failures \union {op}
  /\ UNCHANGED <<now, motionVars, commandVars, fault, sampleVars>>

\* _attempt, when a failure was injected: it is used up and latches the fault.
AttemptFails(op) ==
  /\ op \in failures
  /\ failures' = failures \ {op}
  /\ fault' = TRUE

\* inject_controller_fault
ControllerFault ==
  /\ fault' = TRUE
  /\ UNCHANGED <<now, motionVars, commandVars, sampleVars, failures>>

\* clear_fault
ClearFault ==
  /\ target = NoTarget
  /\ fault' = FALSE
  /\ UNCHANGED <<now, motionVars, commandVars, sampleVars, failures>>

-----------------------------------------------------------------------------
(* The command adapter.                                                      *)

\* Mutant: a command is compared with the target in place only.
NewMoveThanTarget(t) == t.command > target.command /\ t.epoch >= target.epoch

\* "target_not_new_move": newer than every command taken, of no older epoch.
NewMove(t) == t.command > lastCommand /\ t.epoch >= lastEpoch

\* A target that _attempt takes carries the time of its acceptance, which is now.
Installable(t) ==
  /\ t.accepted = now /\ t.expires = now + Horizon
  /\ NewMove(t)

\* apply.  A failed submission keeps the target in place.
Apply(t) ==
  /\ ~fault
  /\ Installable(t)
  /\ \/ AttemptFails("apply") /\ UNCHANGED commandVars
     \/ /\ "apply" \notin failures
        /\ target' = t /\ lastCommand' = t.command /\ lastEpoch' = t.epoch
        /\ UNCHANGED <<fault, failures>>
  /\ UNCHANGED <<now, motionVars, sampleVars>>

\* The common part of cancel, hold and stop.
Halt(op) ==
  /\ \/ AttemptFails(op) /\ UNCHANGED target
     \/ op \notin failures /\ target' = NoTarget /\ UNCHANGED <<fault, failures>>
  /\ UNCHANGED <<now, motionVars, lastCommand, lastEpoch, sampleVars>>

Cancel == Halt("cancel")

\* hold: only with feedback that is fresh; a stale one is refused.
Hold(sampled) ==
  /\ sampled <= now /\ now - sampled <= StateTimeout
  /\ Halt("hold")

\* stop needs no feedback.
Stop == Halt("stop")

-----------------------------------------------------------------------------
(* The plant.                                                                *)

\* Mutant: a target still moves the joints at its expiry.
ExpiredLate(t) == t # NoTarget /\ now > t.expires

\* At equality no motion is applied.
Expired(t) == t # NoTarget /\ now >= t.expires

\* Mutant: every call advances the plant by one tick, whatever the clock says.
ConsumeTickAnyTime ==
  /\ stateTime' = stateTime + TickLength
  /\ target' = IF Expired(target) THEN NoTarget ELSE target

\* What advance does before it attempts the step: the tick is consumed whatever
\* follows, and an expired target is dropped first.
ConsumeTick ==
  /\ now = stateTime + TickLength
  /\ stateTime' = now
  /\ target' = IF Expired(target) THEN NoTarget ELSE target

\* advance: one tick, exactly; a skipped or repeated one raises and changes
\* nothing.  A step of a live target may violate a constraint, which latches.
Advance ==
  /\ ConsumeTick
  /\ \/ AttemptFails("advance") /\ UNCHANGED position
     \/ /\ "advance" \notin failures
        /\ target' = NoTarget \/ fault
        /\ UNCHANGED <<position, fault, failures>>
     \/ /\ "advance" \notin failures
        /\ target' # NoTarget /\ ~fault
        /\ \/ position' = position + 1 /\ UNCHANGED fault
           \/ fault' = TRUE /\ UNCHANGED position
        /\ UNCHANGED failures
  /\ UNCHANGED <<now, lastCommand, lastEpoch, sampleVars>>

-----------------------------------------------------------------------------
(* The sampler.                                                              *)

SetFeedbackMode(m) ==
  /\ mode' = m
  /\ UNCHANGED <<now, motionVars, commandVars, fault, cached, failures>>

\* Mutant: the message is stamped with the time of the call.
StampedNow ==
  [sequence |-> cached.sequence + 1, time |-> now, position |-> position]

\* _message: the committed joints, stamped with the tick that committed them.
Stamped ==
  [sequence |-> cached.sequence + 1, time |-> stateTime, position |-> position]

\* sample, in the modes that observe nothing new ("missing" returns nothing,
\* "stale" the message sampled last), changes nothing.  A tick is sampled once.
Sample ==
  /\ mode = "normal"
  /\ cached = NoMessage \/ cached.time # stateTime
  /\ cached' = Stamped
  /\ UNCHANGED <<now, motionVars, commandVars, fault, mode, failures>>

-----------------------------------------------------------------------------

Clock == Elapse /\ UNCHANGED <<motionVars, commandVars, fault, sampleVars, failures>>

Submissions ==
  \/ \E t \in [command: Commands, epoch: 0..MaxCommandEpoch, accepted: {now}, expires: {now + Horizon}] :
       Apply(t)
  \/ Cancel
  \/ \E sampled \in Times : Hold(sampled)
  \/ Stop

Faults ==
  \/ \E op \in Operations : FailNext(op)
  \/ ControllerFault
  \/ ClearFault

Feedback ==
  \/ \E m \in {"normal", "missing", "stale"} : SetFeedbackMode(m)
  \/ Sample

PlantNext == Clock \/ Submissions \/ Faults \/ Advance \/ Feedback

PlantSpec == PlantInit /\ [][PlantNext]_plantVars

-----------------------------------------------------------------------------
(* Properties.                                                               *)

PlantTypeOK ==
  /\ now \in Times /\ stateTime \in 0..now
  /\ target \in Target \union {NoTarget}
  /\ fault \in BOOLEAN
  /\ lastCommand \in 0..MaxCommand /\ lastEpoch \in 0..MaxCommandEpoch
  /\ position \in Nat
  /\ mode \in {"normal", "missing", "stale"}
  /\ cached \in StateMessage \union {NoMessage}
  /\ failures \subseteq Operations

\* The joints move only within the horizon of the command last taken, whatever was
\* cancelled, failed or repaired since (plant.py apply, advance;
\* docs/synthetic-plant.md, "The plant enforces target expiry independently on its
\* ticks").
MotionWithinHorizon ==
  [][position' # position =>
       /\ target.command = lastCommand
       /\ target.accepted <= now /\ now < target.accepted + Horizon]_plantVars

\* Feedback is what the plant committed: the message sampled last never shows, for
\* the time it names, joints other than those committed at that time (plant.py
\* sample, _message; docs/synthetic-plant.md, "Sampling between ticks retains the
\* last tick's time").
FeedbackHonest == cached # NoMessage /\ cached.time = stateTime => cached.position = position

\* The plant is an adapter that the gate can rely on.
Adapter == INSTANCE CommandAdapter
             WITH held <- target.command, taken <- lastCommand, faulted <- fault

\* Each command is taken once and in order, also after a cancel, an expiry or a
\* repair, a fault stops the joints until a repair without a target and a command
\* newer than all before (plant.py apply, clear_fault, advance).
ImplementsAdapter == Adapter!Spec
=============================================================================
