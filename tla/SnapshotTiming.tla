--------------------------- MODULE SnapshotTiming ---------------------------
(***************************************************************************)
(* SnapshotCoordinator (snapshots.py) with its clock: which samples are    *)
(* fresh, when a snapshot expires, until when its dispatch may be solved,  *)
(* what a retry returns and which selections and accepted commands may     *)
(* follow each other.  Every operation runs under the coordinator's lock   *)
(* and reads the clock once, so that each is one step.                     *)
(*                                                                         *)
(* A sample is its acquisition time and, for the joystick, whether it asks *)
(* for motion; a replayed, reversed or foreign one is refused and changes  *)
(* nothing.  A snapshot is named by its sequence number, a context by its  *)
(* activation.  Messages, the history of samples and the registry are left *)
(* out.                                                                    *)
(***************************************************************************)
EXTENDS LocalClock, Sequences

CONSTANTS
  JoystickTimeout,    \* joystick_timeout_s
  RobotStateTimeout,  \* robot_state_timeout_s
  MaxAge,             \* max_command_age_s
  Budget,             \* solve_budget_s
  Transport,          \* transport_allowance_ns
  MaxSnapshots,       \* bound on snapshots
  MaxContexts,        \* bound on activations
  MaxEpochs           \* bound on control epochs

\* assemble refuses a configuration whose budgets exceed the age ("budget_mismatch").
ASSUME TimingAssumption ==
  /\ JoystickTimeout \in Nat \ {0} /\ RobotStateTimeout \in Nat \ {0}
  /\ MaxAge \in Nat \ {0} /\ Budget \in Nat \ {0} /\ Transport \in Nat
  /\ Budget + Transport <= MaxAge
  /\ MaxSnapshots \in Nat /\ MaxContexts \in Nat /\ MaxEpochs \in Nat

VARIABLES
  joystick, robotState,  \* the newest samples
  epoch,                 \* the control epoch
  bundle, activations,   \* the active context, 0 when there is none; their number
  snapshots,             \* the snapshots, by sequence number
  dispatches,            \* the dispatch of each snapshot, or NoDispatch
  commandSeq,            \* the command sequence number allocated last
  selection,             \* the snapshot of the retained selection, 0 when none
  previous               \* the command accepted last and when, or NoCommand

inputVars == <<joystick, robotState>>
contextVars == <<epoch, bundle, activations>>
recordVars == <<snapshots, dispatches>>
snapshotVars == <<now, inputVars, contextVars, recordVars, commandSeq, selection, previous>>

Missing == [sampled |-> 0, enabled |-> FALSE, present |-> FALSE]
Sampled(t, moving) == [sampled |-> t, enabled |-> moving, present |-> TRUE]
NoDispatch == [command |-> 0, dispatched |-> 0, deadline |-> 0]
AcceptedAt(command, t) == [command |-> command, at |-> t]
NoCommand == AcceptedAt(0, 0)

SnapshotInit ==
  /\ now = 0
  /\ joystick = Missing /\ robotState = Missing
  /\ epoch = 0 /\ bundle = 0 /\ activations = 0
  /\ snapshots = <<>> /\ dispatches = <<>>
  /\ commandSeq = 0 /\ selection = 0 /\ previous = NoCommand

-----------------------------------------------------------------------------
(* Inputs, context and epoch.                                                *)

\* receive: the acquisition time is neither in the future nor before the last
\* one.  A sample that is stale already replaces a fresh one.
ReceiveJoystick(sampled, enabled) ==
  /\ sampled <= now /\ sampled >= joystick.sampled
  /\ joystick' = Sampled(sampled, enabled)
  /\ selection' = IF enabled THEN selection ELSE 0
  /\ UNCHANGED <<now, robotState, contextVars, recordVars, commandSeq, previous>>

\* Mutant: a sample from the future is taken.
ReceiveRobotStateFromAhead(sampled) ==
  /\ sampled >= robotState.sampled
  /\ robotState' = Sampled(sampled, FALSE)
  /\ UNCHANGED <<now, joystick, contextVars, recordVars, commandSeq, selection, previous>>

ReceiveRobotState(sampled) ==
  /\ sampled <= now /\ sampled >= robotState.sampled
  /\ robotState' = Sampled(sampled, FALSE)
  /\ UNCHANGED <<now, joystick, contextVars, recordVars, commandSeq, selection, previous>>

\* set_control_epoch
AdvanceEpoch ==
  /\ epoch' = epoch + 1
  /\ selection' = 0

\* The store activates another context, or loses the active one: nobody tells the
\* coordinator, which compares when it needs to.
ReplaceContext ==
  /\ \/ activations < MaxContexts /\ activations' = activations + 1 /\ bundle' = activations'
     \/ bundle' = 0 /\ UNCHANGED activations
  /\ UNCHANGED <<now, inputVars, epoch, recordVars, commandSeq, selection, previous>>

\* _fresh: inclusive of the timeout.
Fresh(sample, timeout) == sample.present /\ now - sample.sampled <= timeout

\* _inputs
InputsFresh == Fresh(joystick, JoystickTimeout) /\ Fresh(robotState, RobotStateTimeout)

-----------------------------------------------------------------------------
(* Snapshots and dispatches.                                                 *)

\* Mutant: a selection is retained until it is replaced.
RetainedUntilReplaced == selection

\* The selection that the next snapshot refers to: none of another context or epoch.
Retained ==
  IF selection # 0 /\ snapshots[selection].bundle = bundle /\ snapshots[selection].epoch = epoch
  THEN selection ELSE 0

\* assemble
Assemble ==
  /\ bundle # 0 /\ InputsFresh
  /\ Len(snapshots) < MaxSnapshots
  /\ selection' = Retained
  /\ snapshots' = Append(snapshots,
       [created |-> now, expires |-> now + MaxAge, epoch |-> epoch, bundle |-> bundle,
        joystick |-> joystick.sampled, robotState |-> robotState.sampled,
        eligible |-> joystick.enabled, selection |-> Retained])
  /\ dispatches' = Append(dispatches, NoDispatch)
  /\ UNCHANGED <<now, inputVars, contextVars, commandSeq, previous>>

\* The checks that dispatch repeats on every call: the snapshot is of this epoch
\* and context and has not expired, what it was made of and what is newest are
\* fresh, and both ask for motion.
Dispatchable(s) ==
  LET snapshot == snapshots[s] IN
  /\ snapshot.epoch = epoch /\ snapshot.bundle = bundle
  /\ now < snapshot.expires
  /\ now - snapshot.joystick <= JoystickTimeout
  /\ now - snapshot.robotState <= RobotStateTimeout
  /\ InputsFresh
  /\ snapshot.eligible /\ joystick.enabled

Earlier(t, u) == IF t <= u THEN t ELSE u

\* The solve budget from now on, if the age leaves as much.
SolveDeadline(s) == Earlier(now + Budget, snapshots[s].expires - Transport)

FirstDispatch(s) ==
  /\ dispatches[s] = NoDispatch
  /\ now < SolveDeadline(s)
  /\ commandSeq' = commandSeq + 1
  /\ dispatches' = [dispatches EXCEPT ![s] =
       [command |-> commandSeq', dispatched |-> now, deadline |-> SolveDeadline(s)]]

\* Mutant: a retry is given a solve budget of its own.
RetryRenewed(s) ==
  /\ dispatches[s] # NoDispatch
  /\ now < dispatches[s].deadline
  /\ dispatches' = [dispatches EXCEPT ![s].deadline = SolveDeadline(s)]
  /\ UNCHANGED commandSeq

\* The first record again, as long as its deadline has not passed.
Retry(s) ==
  /\ dispatches[s] # NoDispatch
  /\ now < dispatches[s].deadline
  /\ UNCHANGED <<dispatches, commandSeq>>

\* dispatch
DispatchSnapshot(s) ==
  /\ Dispatchable(s)
  /\ FirstDispatch(s) \/ Retry(s)
  /\ UNCHANGED <<now, inputVars, contextVars, snapshots, selection, previous>>

-----------------------------------------------------------------------------
(* Selections and accepted commands.                                         *)

\* record_selection, for the selection made from snapshot s.
RecordSelection(s) ==
  /\ snapshots[s].epoch = epoch /\ snapshots[s].bundle = bundle /\ bundle # 0
  /\ snapshots[s].eligible /\ joystick.enabled
  /\ selection # 0 => s > selection
  /\ selection' = s
  /\ UNCHANGED <<now, inputVars, contextVars, recordVars, commandSeq, previous>>

\* What record_acceptance requires of the result of dispatch s accepted at a time.
AcceptanceInOrder(s, checked) ==
  /\ snapshots[s].epoch = epoch
  /\ dispatches[s].command > previous.command /\ checked >= previous.at
  /\ dispatches[s].dispatched <= checked /\ checked < snapshots[s].expires
  /\ checked <= now

\* record_acceptance of a worker's result that was decided at a time.
RecordAcceptance(s, checked) ==
  /\ dispatches[s] # NoDispatch
  /\ AcceptanceInOrder(s, checked)
  /\ previous' = AcceptedAt(dispatches[s].command, checked)
  /\ UNCHANGED <<now, inputVars, contextVars, recordVars, commandSeq, selection>>

\* allocate_local_command_sequence, for a hold of the host that is recorded as an
\* accepted command unless the adapter refuses it.
AllocateLocal(accepted) ==
  /\ commandSeq' = commandSeq + 1
  /\ previous' = IF accepted THEN AcceptedAt(commandSeq', now) ELSE previous

-----------------------------------------------------------------------------

SnapshotIds == DOMAIN snapshots

Inputs ==
  \E sampled \in Times :
    \/ \E enabled \in BOOLEAN : ReceiveJoystick(sampled, enabled)
    \/ ReceiveRobotState(sampled)

Records ==
  \/ Assemble
  \/ \E s \in SnapshotIds : DispatchSnapshot(s) \/ RecordSelection(s)

Acceptances == \E s \in SnapshotIds, checked \in Times : RecordAcceptance(s, checked)

\* A withdrawal: the epoch moves on and the host holds.
Withdrawal ==
  /\ epoch < MaxEpochs
  /\ AdvanceEpoch
  /\ \E accepted \in BOOLEAN : AllocateLocal(accepted)
  /\ UNCHANGED <<now, inputVars, bundle, activations, recordVars>>

Time == Elapse /\ UNCHANGED <<inputVars, contextVars, recordVars, commandSeq, selection, previous>>

SnapshotNext == Inputs \/ ReplaceContext \/ Records \/ Acceptances \/ Withdrawal \/ Time

SnapshotSpec == SnapshotInit /\ [][SnapshotNext]_snapshotVars

-----------------------------------------------------------------------------
(* Properties.                                                               *)

SampleType == [sampled: Times, enabled: BOOLEAN, present: BOOLEAN]

SnapshotTypeOK ==
  /\ now \in Times
  /\ joystick \in SampleType /\ robotState \in SampleType
  /\ joystick.sampled <= now /\ robotState.sampled <= now
  /\ epoch \in 0..MaxEpochs /\ activations \in 0..MaxContexts /\ bundle \in {0, activations}
  /\ Len(dispatches) = Len(snapshots)
  /\ commandSeq \in Nat /\ previous \in [command: 0..commandSeq, at: 0..now]
  /\ selection \in 0..Len(snapshots)

\* Every dispatch keeps the budgets it was given first: its deadline is within the
\* solve budget of the first dispatch and leaves the allowance for the transport
\* before the snapshot expires, however late or often it is dispatched (snapshots.py
\* dispatch; docs/snapshots.md, "it cannot renew either budget or expiry").
DispatchValidity ==
  \A s \in SnapshotIds : dispatches[s] # NoDispatch =>
    /\ snapshots[s].created <= dispatches[s].dispatched
    /\ dispatches[s].dispatched < dispatches[s].deadline
    /\ dispatches[s].deadline <= dispatches[s].dispatched + Budget
    /\ dispatches[s].deadline + Transport <= snapshots[s].created + MaxAge

\* A selection is passed on only to later snapshots of the same context and epoch,
\* although it is recorded at a time of its own and nobody reports a change of
\* context (snapshots.py assemble, record_selection; docs/snapshots.md, "Release,
\* disable, epoch change or context replacement clears selection history").
SelectionLineage ==
  /\ \A s \in SnapshotIds : LET k == snapshots[s].selection IN
       k # 0 => /\ k < s
                /\ snapshots[k].bundle = snapshots[s].bundle
                /\ snapshots[k].epoch = snapshots[s].epoch
  /\ selection # 0 => joystick.enabled /\ snapshots[selection].epoch = epoch
=============================================================================
