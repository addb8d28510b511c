-------------------------- MODULE TimedCommandPath --------------------------
(***************************************************************************)
(* The path of a command through time: SnapshotCoordinator, CommandGate    *)
(* and SyntheticController on one clock.  A joystick sample goes into a    *)
(* snapshot, its dispatch to the solver, the result through the gate into  *)
(* the plant, and each component compares ages, deadlines and expiries for *)
(* itself.                                                                 *)
(*                                                                         *)
(* The runner (loop.py) serializes the calls and advances the plant at     *)
(* every tick.  Only the decision of the gate takes time: submit reads the *)
(* clock when the result arrives, when it starts to decide and before it   *)
(* applies, the locks being held from the second reading to the end.       *)
(* Granting and withdrawing authority are abstracted to what they do to    *)
(* gate, epoch and plant; Lifecycle models when they happen.               *)
(***************************************************************************)
EXTENDS SnapshotTiming, SyntheticPlant

\* The plant's bounds let every command pass that the coordinator's bounds allow: one
\* per snapshot, and per epoch the hold of its withdrawal and one of the gate itself.
ASSUME PathAssumption ==
  /\ MaxSnapshots + 2 * MaxEpochs + 1 <= MaxCommand
  /\ MaxEpochs <= MaxCommandEpoch

VARIABLES
  authority,     \* of the gate: "off", "on", or "closed" by the gate itself
  lastSequence,  \* the command accepted last: _last_sequence
  lastMove,      \* the snapshot of the move accepted last: _last_move_snapshot
  job            \* the result being submitted, or NoJob

gateVars == <<authority, lastSequence, lastMove, job>>
pathVars == <<snapshotVars, plantVars, gateVars>>

Statuses == {"move", "hold"}
NoJob == [phase |-> "none", snapshot |-> 0, status |-> "hold", received |-> 0]

PathInit ==
  /\ SnapshotInit /\ PlantInit
  /\ authority = "off" /\ lastSequence = 0 /\ lastMove = 0
  /\ job = NoJob

-----------------------------------------------------------------------------
(* Withdrawals.                                                              *)

\* CommandGate._local_hold: a host sequence number, accepted as a command, and a
\* cancel with a hold or stop.
LocalHold ==
  /\ AllocateLocal(TRUE)
  /\ lastSequence' = commandSeq'
  /\ Stop
  /\ UNCHANGED lastMove

\* LifecycleCoordinator._withdraw, for whatever reason.
Withdraw ==
  /\ epoch < MaxEpochs
  /\ AdvanceEpoch
  /\ authority' = "off"
  /\ LocalHold
  /\ UNCHANGED <<now, inputVars, bundle, activations, recordVars, job>>

\* An engagement, which the lifecycle grants once it has withdrawn the last one.
Grant ==
  /\ authority = "off" /\ bundle # 0 /\ InputsFresh /\ joystick.enabled /\ ~fault
  /\ authority' = "on"
  /\ UNCHANGED <<snapshotVars, plantVars, lastSequence, lastMove, job>>

-----------------------------------------------------------------------------
(* The gate.                                                                 *)

\* A result arrives, perhaps not for the first time: submit, up to its transaction.
Arrive(s, status) ==
  /\ job = NoJob /\ dispatches[s] # NoDispatch
  /\ job' = [phase |-> "arrived", snapshot |-> s, status |-> status, received |-> now]
  /\ UNCHANGED <<snapshotVars, plantVars, authority, lastSequence, lastMove>>

\* What supersedes a result, before anything else is looked at.
Superseded(s) ==
  \/ snapshots[s].epoch # epoch \/ snapshots[s].bundle # bundle
  \/ dispatches[s].command <= lastSequence \/ s <= lastMove
  \/ now >= snapshots[s].expires

Discard ==
  /\ job' = NoJob
  /\ UNCHANGED <<snapshotVars, plantVars, authority, lastSequence, lastMove>>

\* _reject_current: the gate closes itself and holds.
Reject ==
  /\ job' = NoJob /\ authority' = "closed"
  /\ LocalHold
  /\ UNCHANGED <<inputVars, contextVars, recordVars, selection>>

\* Mutant: the solver may take as long as the snapshot is valid.
TimelyButForDeadline(s) == InputsFresh /\ joystick.enabled

\* The checks that read the clock, up to the host's constraints; the deadline of the
\* solver counts for a move.
Timely(s) ==
  /\ job.status = "move" => job.received < dispatches[s].deadline
  /\ InputsFresh /\ joystick.enabled

DecideResult ==
  /\ job.phase = "arrived"
  /\ LET s == job.snapshot IN
     \/ (Superseded(s) \/ authority # "on") /\ Discard
     \/ /\ ~Superseded(s) /\ authority = "on"
        /\ job' = [job EXCEPT !.phase = IF Timely(s) THEN "checked" ELSE "refused"]
        /\ UNCHANGED <<snapshotVars, plantVars, authority, lastSequence, lastMove>>

AcceptedTarget(s) ==
  [command |-> dispatches[s].command, epoch |-> epoch, accepted |-> now, expires |-> now + Horizon]

\* What _accepted records of a worker's command.
Accepted(s) ==
  /\ previous' = AcceptedAt(dispatches[s].command, now)
  /\ lastSequence' = dispatches[s].command
  /\ job' = NoJob
  /\ UNCHANGED <<inputVars, contextVars, recordVars, commandSeq, selection>>

\* The adapter takes the move, if the inputs are fresh still.
AcceptMove(s) ==
  /\ InputsFresh
  /\ Apply(AcceptedTarget(s)) /\ Accepted(s)
  /\ lastMove' = s
  /\ UNCHANGED authority

\* A hold of the worker closes the gate.
AcceptHold(s) ==
  /\ Stop /\ Accepted(s)
  /\ authority' = "closed"
  /\ UNCHANGED lastMove

\* Mutant: the time at the start of the decision is good enough.
StillValidAsChecked(s) == TRUE

\* After the host's checks the time is looked at again.
StillValid(s) == now < snapshots[s].expires

\* The rest of submit, at a later time: the host's constraints hold or not.
FinishResult ==
  /\ job.phase \in {"checked", "refused"}
  /\ LET s == job.snapshot IN
     \/ ~StillValid(s) /\ Discard
     \/ /\ StillValid(s)
        /\ \/ Reject
           \/ job.phase = "checked" /\ job.status = "move" /\ AcceptMove(s)
           \/ job.phase = "checked" /\ job.status = "hold" /\ AcceptHold(s)

-----------------------------------------------------------------------------

KeepsPath == UNCHANGED <<motionVars, commandVars, fault, sampleVars, failures, gateVars>>

\* Samples are received as they are taken: what counts is how they age afterwards.
Joystick == \E enabled \in BOOLEAN : ReceiveJoystick(now, enabled)

\* The plant is sampled, and its message, of the last tick, received.
RobotFeedback == ReceiveRobotState(stateTime)

\* dispatch_cycle and the loop assemble, dispatch and select from the newest snapshot
\* while the lifecycle is ACTIVE.
Cycles ==
  /\ authority # "off"
  /\ \/ Assemble
     \/ \E s \in SnapshotIds : s = Len(snapshots) /\ (DispatchSnapshot(s) \/ RecordSelection(s))

AdvancePlant ==
  /\ Advance
  /\ UNCHANGED <<inputVars, contextVars, recordVars, commandSeq, selection, previous, gateVars>>

\* The runner does not let the clock pass a tick of the plant.
ElapseInTick ==
  /\ now < stateTime + TickLength
  /\ Elapse
  /\ UNCHANGED <<inputVars, contextVars, recordVars, commandSeq, selection, previous>>
  /\ KeepsPath

\* Whatever needs the locks waits for a decision that was started.
PathNext ==
  \/ ElapseInTick
  \/ DecideResult
  \/ FinishResult
  \/ /\ job.phase \notin {"checked", "refused"}
     /\ \/ (Joystick \/ RobotFeedback \/ ReplaceContext \/ Cycles) /\ KeepsPath
        \/ AdvancePlant
        \/ Grant
        \/ Withdraw
        \/ \E s \in SnapshotIds, status \in Statuses : Arrive(s, status)

PathSpec == PathInit /\ [][PathNext]_pathVars

-----------------------------------------------------------------------------
(* Properties.                                                               *)

PathTypeOK ==
  /\ PlantTypeOK
  /\ authority \in {"off", "on", "closed"}
  /\ lastSequence \in 0..commandSeq /\ lastMove \in 0..Len(snapshots)
  /\ lastMove # 0 => dispatches[lastMove].command <= lastSequence

\* The snapshot whose command the plant has as its target.
TargetSnapshot == CHOOSE s \in SnapshotIds : dispatches[s].command = target.command

\* From end to end: when the joints move, the joystick sample and the measured state
\* that the command was made from are younger than their timeout, the age of a
\* command and the horizon together (less one, as age and horizon are exclusive),
\* whatever was delayed, repeated or retried (snapshots.py assemble, dispatch;
\* gate.py submit; plant.py advance).
MotionAge ==
  [][position' # position =>
       LET snapshot == snapshots[TargetSnapshot] IN
       /\ now - snapshot.joystick < JoystickTimeout + MaxAge + Horizon - 1
       /\ now - snapshot.robotState < RobotStateTimeout + MaxAge + Horizon - 1]_pathVars

\* A move or hold of the worker becomes the command accepted last.
Accepts == job # NoJob /\ lastSequence' # lastSequence /\ lastSequence' = dispatches[job.snapshot].command

\* The result of every move accepted arrived within the solve budget counted from the
\* first dispatch, however often it was retried, and with the allowance for its
\* transport left (docs/snapshots.md, "it cannot renew either budget or expiry").
AcceptedInBudget ==
  [][Accepts /\ job.status = "move" =>
       LET s == job.snapshot IN
       /\ job.received < dispatches[s].dispatched + Budget
       /\ job.received + Transport < snapshots[s].expires]_pathVars

\* The adapter is called before the coordinator records the acceptance: the
\* coordinator never refuses it then, though it makes comparisons of its own
\* (gate.py submit, _accepted; snapshots.py _record_acceptance).
AcceptedIsRecorded == [][Accepts => AcceptanceInOrder(job.snapshot, now)]_pathVars
=============================================================================
