# Verification of the shared-control runtime

TLA+ models of the robot side of this repository, from the runtime that grants
motion to the nodes that bring commands to the arm, the TLC runs that check them
on small instances and the proofs, checked by TLAPS, of what holds for every
instance. The source is referred to by file and line as it is in `src/` at this
commit; `offline/src/ssc_runtime/` is abbreviated to `ssc_runtime/`.

Contents: [the system](#1-the-system), [hard behaviours](#2-what-is-hard-here),
[the modules](#3-the-modules), [abstractions](#4-abstractions),
[runs](#5-the-runs), [findings](#6-where-code-and-documents-disagree),
[proofs](#7-proofs), [what is left out](#8-what-is-not-modelled), [what could follow](#9-what-could-follow).

## 1. The system

An operator steers a robot arm with a joystick; an optimizer in a worker process
turns snapshots of joystick and measured state into small assisted steps. The
*runtime* (`ssc_runtime`) decides when such a step may reach the controller.
Around it the repository holds ROS 2 nodes: a grasp pose client, the joint
interface of the Lio arm, teleoperation, and an inverse kinematics solver.

| Component | State it keeps | Operations | Correct when |
| --- | --- | --- | --- |
| Lifecycle coordinator (`lifecycle.py`) | state (UNINITIALIZED, VALIDATING, READY, ACTIVE, PAUSED, FAULT), session, readiness of controller and computation, pause causes, engaged bundle, arming, outstanding dispatches | `on_input`, `tick`, `dispatch_cycle`, `submit_result`, `begin_/prepare_/complete_initialization`, `initialize`, `invalidate_context`, `controller_status`, `computation_status`, `rearm`, `restart_session` | motion only while ACTIVE; every exit withdraws; FAULT is latched; neutral input before each engagement |
| Command gate (`gate.py`) | authority (enabled, epoch, controller ready), last command sequence, last move, accepted results | `set_authority`, `submit`, `local_hold`, `local_stop` | accepts only current results under authority; a failure closes it |
| Snapshot coordinator (`snapshots.py`) | newest samples, epoch, snapshots, dispatches, selection, last accepted command | `receive`, `set_control_epoch`, `assemble`, `dispatch`, `record_selection`, `record_acceptance`, `allocate_local_command_sequence`, `command_transaction` | ages and budgets are never renewed; lineage within one context and epoch |
| Active bundle store (`activation.py`) | current attempt, preparing and prepared bundle, active bundle | `begin`, `prepare`, `publish`, `invalidate`, `acquire`, `command_context` | only the newest attempt is published |
| Synthetic plant (`plant.py`) | target, fault, joints and the tick that committed them, last command, cached message, injected failures | `apply`, `cancel`, `hold`, `stop`, `advance`, `sample`, `clear_fault`, failure injection | moves within the horizon of a live target; honest feedback |
| Offline loop (`loop.py`, `runner.py`) | clock, pending solve, `_retired_notice` | `step`, `dispatch`, `poll`, `submit`, `cancel`, `prepare` | each solve is consumed once; a retired worker is reported |
| Host constraints (`constraints.py`) | none | geometric checks | numerical |
| Grasp pose client (`grasp_pose_client_node.py`, `http_client.py`) | latest frames, phases met (`_seen_phases`), deadline and run of the arm-stop log, marker | `request_grasp`, `upload_capture`, `_poll_publish`, `_check_ik_feasibility`, `_arm_stop_poll` | a run is commanded once; no phase is marked and forgotten; what is polled and commanded was found reachable |
| Panda IK (`panda-ik`: `main_teleop.cpp`, `lib.rs`) | commanded pose and velocity, joints, `run`, `initialized` | twist, command, direction, trajectory and pose callbacks, solver round | a commanded pose stands; no jumps but to the pose |
| Lio joint interface (`ik_stream_to_action.py`) | newest joints, last command | `_ik_cb`, `_control_tick`, `_on_sent` | within limits; the arm ends where the joints do |
| Teleoperation (`lio_teleop`) | newest command, stopped flag, button states | timers and callbacks | twists in the frame of the base |
| Gripper scripts, robot models, launch files, messages | none of their own | | |

How the parts of the runtime interact:

```
 joystick, robot state        operator, controller, supervisor
        | receive                     | reports, requests
        v                             v
 SnapshotCoordinator <-----  LifecycleCoordinator ----> worker canceller
   |  assemble, dispatch        |   ^   set_authority,
   v                            |   |   local_hold/stop
 worker (optimizer) -- result --+-> CommandGate -- apply, cancel, hold, stop --> adapter / plant
                                         |                                            |
   ActiveBundleStore <-- begin, prepare, publish, command_context          sample -> receive
```

Beside the runtime, commands reach the arm through three nodes:

```
 web UI, grasp server <-- HTTP, polled at 2 Hz --> grasp_pose_client
                                                        | /commanded_pose
 velocity_controller -- twists, others -- poses, words --> panda_ik_teleop (100 Hz, solver)
                                                        | joints, best effort
                                   ik_stream_to_action (50 Hz) -- goals --> action server of the arm
```

Locks are taken in the order lifecycle, coordinator, store state. The lifecycle
lock is *not* held while a sample is received, while the gate decides on a
result, and while an initialization resolves: these are the windows in which
threads interleave.

## 2. What is hard here

`PROJECT.json` lists each hazard at its line with the properties that would
catch it. In short:

* **Interleaving.** A release is received under one lock and processed later
  under another (`lifecycle.py:449`); the gate closes itself inside `submit` and
  the lifecycle learns of it when the thread gets its lock (`gate.py:361`).
* **Check, then act.** An engagement is decided before the transaction that
  grants it (`lifecycle.py:509`); the host's checks take time (`gate.py:383`).
* **Late, repeated, crossing results**, of older epochs, bundles and sessions.
* **Partial failure.** cancel succeeds and hold fails, or the reverse.
* **Restart and clock failure** with inputs, results and preparations of the old
  session in flight.
* **Boundaries of time**: inclusive ages, exclusive expiries, deadlines and
  retries compared in three modules.
* **Something must happen**: a worker that answers no more, a context that is
  lost behind the lifecycle's back, must end ACTIVE; an execution whose transform
  was missing must be retried; the arm must arrive at the last joints.
* **Offers that are repeated** by a server that is polled, marks that are set
  before the work and dropped for a retry (`grasp_pose_client_node.py:619-668`).
* **Callbacks of one node in several threads** that share a deadline, a label and
  a model (`:343`, `:347`, `:710`).
* **Unreliable delivery**: joints lost on the topic, goals lost, refused, and
  decided out of order, several of them on their way (`ik_stream_to_action.py:111`).
* **State of one command that outlives the next**: a velocity that is integrated
  without a timeout while poses come in (`main_teleop.cpp:149`, `:238`).

## 3. The modules

| Module | Models | State and actions |
| --- | --- | --- |
| `Lifecycle` | `lifecycle.py` with the parts of gate, coordinator and store it grants and withdraws authority through, and the adapter | the variables are grouped by the class that owns them; one action per entry point, cut where a lock is released |
| `LifecycleHistory` | the same, with history variables | `neutralSeen`, `unrecovered`, `applied` record what the code does not: they state properties about the past |
| `MCLifecycle` | symmetry of the delivering threads for TLC | |
| `LocalClock` | the one clock of a session (`loop.py` SimulationClock) | `now`, `Elapse` |
| `CommandAdapter` | abstract: what the gate relies on in an adapter (`gate.py` CommandAdapter) | `Take`, `Drop`, `Fail`, `Repair`, `Move` |
| `SyntheticPlant` | `plant.py` | one action per method; shown to implement `CommandAdapter` |
| `SnapshotTiming` | `snapshots.py` with its clock | reception, assembly, dispatch and retry, selections, acceptances |
| `TimedCommandPath` | composes `SnapshotTiming`, the gate and `SyntheticPlant` on one clock | `Arrive`, `DecideResult`, `FinishResult` are `submit` cut where it reads the clock; the plant ticks as the runner does |
| `GraspClient` | `grasp_pose_client_node.py`, `http_client.py` | a program counter for each handler (`service`, `poll`) and for the stop poll; cut at each HTTP request, transform lookup and shared assignment |
| `PandaTeleop` | `main_teleop.cpp`, `solve` of `lib.rs`, `on_twist` of `velocity_controller.py` | one action per callback, and `Round` for a round of the loop |
| `IkStream` | `ik_stream_to_action.py` and its action server | `IkCallback`, `Tick`, `OnSent`; `Decide` and `Vanish` are the server's |
| `CommandChain` | composes the two over the topic between them | `Deliver`; the fairness of the chain |
| `MCCommandChain` | an arm with two positions of its elbow for each place of the TCP | |
| `LifecycleProofs`, `LifecycleAuthorityProofs`, `LifecycleResultProofs`, `LifecycleHistoryProofs` | proofs about `Lifecycle` and `LifecycleHistory` | each extends the one before: types; authority and withdrawals; results and the target; inputs, engagements and commands over time |
| `SnapshotProofs`, `PathProofs` | proofs about `SnapshotTiming`; about `SyntheticPlant` and `TimedCommandPath` | |
| `GraspProofs`, `ChainProofs` | proofs about `GraspClient` and `CommandChain` | |

The actions of `Lifecycle`, by group:

* *Inputs*: `Receive` (coordinator lock only), `ProcessInput` (lifecycle lock)
  and `Grant`, the transaction that completes an engagement.
* *Tick*: the watchdogs of `tick()`. *DispatchCycle*: `dispatch_cycle()`.
* *Results*: `SubmitResult` (reads epoch and session), `Decide` (the gate, in a
  command transaction), `AfterDecision` (back under the lifecycle lock).
* *Initialization*: begin, the resolution outside every lock, complete.
* *Host*, *Controller*, *Supervisor*: invalidation, rearm, restart; fault and
  health reports; readiness of the computation.
* *NewSession* and *Time*: a failed clock, the factory of the next session,
  samples that age and dispatches that pass deadline and expiry.

`Withdraw` is one operator, as `_withdraw` is one method: revoke authority and
move the epoch on, hold or stop through the gate, cancel the worker, then settle
state and causes, with every outcome of the adapter's calls.

## 4. Abstractions

In `Lifecycle`:

* Time is reduced to the outcome of comparisons: a source is fresh or not, a
  dispatch is late or expired. Dispatches age only while they are outstanding.
  `SnapshotTiming` and `TimedCommandPath` put the numbers back.
* Joystick sequence numbers are reduced to the two comparisons the code makes.
* `superseded_snapshot` and the set of accepted result identities are subsumed
  by `superseded_command`, each snapshot being dispatched once.
* A clock that regresses is detected at the first reading of a step.
* Replayed and foreign inputs change nothing and are no steps. Records, logging,
  the registry, the worker canceller and the refusal of reentrant calls are left
  out; store operations of retired sessions have no effect and are left out.
* One adapter serves all sessions, as in the harness of
  `offline/tests/test_lifecycle.py`; each source delivers its samples one after
  the other. A hold and a stop are the same to the target.
* Each attempt is prepared once: what a second concurrent `prepare` of the same
  attempt returns (`attempt_busy`) is not modelled.
* The gate's verdict `controller_not_ready` cannot be reached: authority is
  never granted without a ready controller.

In the timed modules:

* One unit of time stands for a fixed number of nanoseconds; durations are small
  numbers of units in the same order as in the configuration (a tick is shorter
  than a horizon, budget and transport fit into the age of a command).
* The joints are the number of steps that moved them. At most one failure of an
  operation is queued at a time. Submissions that are refused before they are
  attempted change nothing but the log and are no steps.
* In `TimedCommandPath` the runner serializes the calls and the clock does not
  pass a tick of the plant; only `submit` takes time, and whatever needs its locks
  waits. Samples are received when they are taken: they age afterwards. The
  adapter does not fail there; it does in `SyntheticPlant` and in `Lifecycle`.

In `GraspClient`:

* A grasp is reachable or not, a transform is there or not (one flag for camera
  and TCP), the snapshot is young enough or not; each may change at any time.
  Transforms of poses, offsets, and images are data.
* A task of the web UI is its own run, as the default of `trace_id` has it. A run
  of the service is requested once: the server gives each request a new run.
* The server offers for the check what was captured, and for execution one grasp
  at most of those that were submitted for the task, as its web UI selects them;
  it may offer anything again, in any order, withdraw it, or send what is no
  result. Results are well formed otherwise; a grasp without a usable pose counts
  as none.
* The check passes any of the grasps that the solver reaches. It may miss one:
  the solver is iterative, and the stop poll computes with the same `_pin_data`
  in another thread. That interference cannot pass a grasp wrongly: the error is
  then of the pose the arm is in, which is small only where the arm has been.
* An exception that leaves a callback ends the executor; the handlers in other
  threads are taken to end with it.
* `ik_bypass` and a missing model are the constant `Bypass`, with which each check
  counts as skipped.

In the chain:

* One joint and one coordinate stand for six of each, velocities and the step of
  a word are whole units. At the ends of `Poses` the pose stays where it is.
* The solver returns any joint within the shrunk limits, or fails. `solve`
  replaces the position it is given with the one it reached: the comparison that
  lets a jump pass is with that one.
* The node publishes into one place, from which a message is taken, overwritten or
  lost. The ten places of the receiver would only delay what is taken.
* The action server executes the goal it accepted last and answers in the order in
  which it decides. `ConvergesToTarget` rests on this: if answers could overtake each
  other, the stream could take another goal than the executed one for the last.

## 5. The runs

Every bound is a constant of its configuration.

| Run | Bounds | Question |
| --- | --- | --- |
| `authority` | 1 thread, session, epoch beyond the first, attempt and dispatch; accepted and refused steps, a host, controller and supervisor that interfere, a session factory that fails, and an adapter whose every request may raise | Is the gate open only under current authority, does every exit withdraw, is a halt that failed known, does FAULT stay latched? |
| `results` | 2 threads (symmetric), 2 dispatches | Do late, repeated and crossing results do harm? |
| `restarts` | 2 sessions, 2 attempts, 1 epoch beyond the first in each, 1 dispatch; the clock may break | Does anything survive a restart? Does a held joystick engage? Is a command applied twice or out of order? |
| `liveness` | the host interferes, the clock breaks, the session factory fails; moves, holds and invalid results | Do release, stall, lost context and closed gate end ACTIVE? |
| `plant` | 7 units, ticks of 2, horizon 4, 2 commands, 2 epochs, all failures | When do the joints move, and is this an adapter? |
| `snapshots` | 2 snapshots, 2 contexts, 2 epochs, 3 units | Are budgets and lineage kept across retries and replacements? |
| `timing` | 1 snapshot, 2 contexts, 2 epochs, 4 units | How old is what the joints move on? |
| `grasp` | 1 task of the web UI, 1 request of the service, both sorts of grasps, unbounded offers | Is a run commanded once, is nothing marked and forgotten, is what is commanded reachable, does a retry come? |
| `chain` | 3 joints, 3 poses, velocities 0 and 1, jumps above 1, 2 goals on their way, rate limit 1 | Does a pose stand, do goals stay within limits, do jumps end near the pose, does the arm arrive? |
| `begin_failed_hold`, `late_fault`, `readiness_kept` | as small as the behaviour needs | see section 6 |

Why the bounds are enough to be of interest: one epoch beyond the first contains
an engagement, a withdrawal, and a result that comes back after it; the second
one (`late_fault`) a further engagement before that. Two dispatches
are the least that can cross. Two sessions are the least that can have something
left of the first, and two attempts the least of which one is superseded. The
longest delays of the timed runs exceed every timeout, age and horizon, so that each
comparison is met on both sides and at equality. One task of the web UI and one request are
the two handlers at work at once; what they share is one deadline, label and marker,
and two tasks do not meet in the poll, which is serial. Two goals on their way are the
least that can be overtaken, and one step of the rate limit is less than the way
between the ends of the joint. Three joints with two of them at the same place of the
TCP contain a jump that comes near the pose and one that does not. The proofs of
section 7 remove the bounds for the properties they cover.

`restarts` and `liveness` may stop: a clock that failed in the last session has no
session left to continue in, so deadlock is not checked in them. In every other run
some step is always possible.

The runs of `Lifecycle` divide its disturbances among them: a failing factory in
`authority` (safety) and `liveness`, a breaking clock in `liveness` and `restarts`
(which has a session to go on in). A measured state of another frame counts as none,
and one that the host checks refuse prevents a grant, like none, and has a result
rejected, like a refused step; the module has both, the runs use none and the refused
step in their place, and the theorems cover all of them.

What the properties say:

* `OnlyActiveGateOpen` – an open gate implies the current session, ACTIVE, the
  current epoch, and readiness, although authority is spread over three objects.
* `TargetUnderAuthority` – the target of the adapter is of the current session and
  epoch. It needs an adapter that refuses nothing: `late_fault` shows why.
* `EveryExitWithdraws`, `FaultLatched`, `LatestAttemptPublished` – what a step
  may never do.
* `ReleasePending`, `ClosedGateReported`, `OutstandingCurrent` – the states
  between two locks: a release not yet processed, a gate that closed itself, a
  dispatch that was answered, are each on their way to be handled.
* `HaltFailureKnown` – a halt that failed leaves FAULT or a request for it.
* `HeldInputNeverEngages`, `CommandsAdvance` – over several engagements and sessions.
* `ReleaseStops`, `StallStops`, `ContextLossStops`, `ClosedGateStops` – liveness.
* `MotionWithinHorizon`, `FeedbackHonest`, `ImplementsAdapter` – the plant.
* `DispatchValidity`, `SelectionLineage` – budgets and history of snapshots.
* `MotionAge`, `AcceptedInBudget`, `AcceptedIsRecorded` – from the joystick to
  the joints: a bound on the age of what the joints move on, which no single
  component computes (timeout + age + horizon); results within the budget of the
  first dispatch; and the coordinator's own comparisons never refuse a command
  that the adapter has already taken.
* `CommandedOnce`, `SeenIsSettled`, `PolledIsReachable`, `ExecutionRetried` – the
  marks of the poll, in both directions: what is marked is not done again, what is
  not done does not stay marked.
* `StopLogOneShot` – an entry is not logged that was not scheduled. The code does
  lose entries: one scheduled while the poll is blocked is cleared with the one due.
* `PoseStands`, `JumpsReach`, `GoalsWithinLimits`, `ConvergesToTarget` – from the
  operator's inputs to the goals the arm executes.

**Fairness** (`FairSpec`). Weak fairness of `Tick`, of `Grant`, of the failure of
a broken clock, of `ProcessInput` for each source, and of `Decide` and
`AfterDecision` for each thread. The runner calls `tick()` at every plant tick
(`loop.py:245`) and a thread that waits for a lock gets it, no step holding one
forever. Nothing is assumed of the host, the operator, the controller, the
worker or the sources: they may stop altogether, and that is the point.

`ClientFairness`: the timers fire and each request ends, by its timeout at the latest;
the polls do not fail for ever (strong fairness of `PollFindsPhase`).
`ExecutionRetried` speaks of an offer and of transforms that stay. `ChainFairness`: the
loop, the timer and the callbacks go on, the topic does not lose everything and the
server does not refuse everything (strong fairness). Under weak fairness of `Rounds`
the loss of every message would be a legal behaviour, and nothing would arrive.

## 6. Where code and documents disagree

Three runs check a sentence of the repository and TLC finds it violated:

* `begin_failed_hold` / `FailedHaltLatches`. `_begin` withdraws and then assigns
  VALIDATING (`lifecycle.py:696-702`), over the FAULT that a failed hold or stop
  has just latched. `docs/lifecycle.md:44`: "A failed cancel/hold/stop request
  latches FAULT, even if a fallback stop succeeded".
* `readiness_kept` / `ReadinessAfterFailure`. A worker hold whose thread comes
  back after another withdrawal is of an old epoch and dropped
  (`lifecycle.py:673`), the clearing of the readiness with it: motion can engage
  again on readiness reported before the failure. `lifecycle.py:368`: "earlier
  readiness no longer counts".
* `late_fault` / `ExitHalts`. A FAULT request has no epoch check
  (`lifecycle.py:670`) and withdraws around the halt of its own, old decision: a
  target accepted in a newer engagement is not halted. `docs/lifecycle.md:37`:
  "Every exit from READY or ACTIVE [...] performs one withdrawal".

Observed while modelling, without a run:

* A FAULT request of the gate is dropped when the session was restarted in the
  meantime (`lifecycle.py:652`); the adapter that failed serves the next session.
* `record_selection` takes the selection of a snapshot from before a release if
  the joystick moves again and the epoch is the same (`snapshots.py:318-325`),
  where `docs/snapshots.md:27` says that released selections cannot restore live
  history. In the runtime a release while ACTIVE moves the epoch on.
* An arm-stop entry that is scheduled while `_arm_stop_poll` waits for its
  transform is cleared with the one that was due, and the log names the newer run
  (`grasp_pose_client_node.py:356-360`), where line 349 has the delay count from the
  last commanded pose.
* The retry of the poll looks the transform up anew (`grasp_pose_client_node.py:659`),
  although the capture, and with it the camera on the arm, is of an earlier time; the
  request of the service takes the transform of the image (`:1070`).
* The service publishes to `/commanded_pose` without the feasibility check of the poll.
* The first round of `main_teleop.cpp` and the first goal of the stream are not limited
  (`initialized`, `_last_cmd_deg is None`): a jump there is of any size.
* The one-shot commands of `ik_stream_to_action.py` (read, write) call a method
  `send_goal` that its class does not have (lines 231 and 274).
* A tick moves the joints for its whole length on a target accepted during it
  (`plant.py` advance), and a tick that was skipped stops the plant for good.

## 7. Proofs

The proofs hold for every value of the constants under the named assumptions of the
modules that declare them, which TLC evaluates in the runs. Every invariant that a run
checks is stated by a theorem, and so is every action property.

| Theorem | Module | States |
| --- | --- | --- |
| `TypeCorrectness` | `LifecycleProofs` | `Spec => []TypeOK` |
| `AuthorityInductive`, `AuthoritySafety` | `LifecycleAuthorityProofs` | `[]AuthorityInv`, `[]OnlyActiveGateOpen` |
| `ExitsWithdraw`, `FaultStaysLatched` | `LifecycleAuthorityProofs` | `EveryExitWithdraws`, `FaultLatched` |
| `PublicationIsLatest`, `HaltFailuresKnown` | `LifecycleAuthorityProofs` | `LatestAttemptPublished`, `HaltFailureKnown` |
| `DeliveryInductive` | `LifecycleResultProofs` | `[]DeliveryInv`, the invariant behind the next two |
| `ClosedGatesAreReported`, `OutstandingIsCurrent` | `LifecycleResultProofs` | `[]ClosedGateReported`, `[]OutstandingCurrent` |
| `TargetInductive`, `TargetSafety` | `LifecycleResultProofs` | `[]TargetInv`, `[]TargetUnderAuthority`, if the adapter refuses nothing |
| `ReleasesArePending` | `LifecycleHistoryProofs` | `[]ReleasePending` |
| `HeldInputs`, `TargetsAdvance` | `LifecycleHistoryProofs` | `HSpec` implies `HeldInputNeverEngages`, `CommandsAdvance` |
| `SnapshotTypes`, `DispatchesKeepBudgets`, `SelectionsKeepLineage` | `SnapshotProofs` | `[]SnapshotTypeOK`, `[]DispatchValidity`, `[]SelectionLineage` |
| `PlantTypes`, `FeedbackIsHonest`, `MotionIsDated` | `PathProofs` | `PlantSpec` implies `[]PlantTypeOK`, `[]FeedbackHonest`, `MotionWithinHorizon` |
| `PlantIsAdapter` | `PathProofs` | `PlantSpec => Adapter!Spec` |
| `PathTypes`, `PathKeepsRecords` | `PathProofs` | `PathSpec` implies `[]PathTypeOK`, and `[]` of `DispatchValidity` and `SelectionLineage` |
| `AcceptancesRecorded`, `MovesInBudget`, `MotionIsFresh` | `PathProofs` | `AcceptedIsRecorded`, `AcceptedInBudget`, `MotionAge` |
| `PathUsesPlant`, `PathKeepsAdapter` | `PathProofs` | `PathSpec => PlantSpec`, and with it all that is proved of the plant |
| `ClientTypeCorrectness`, `CommandSafety`, `SeenSafety`, `ReachSafety`, `StopLogSafety` | `GraspProofs` | `ClientSpec` implies `[]` of `ClientTypeOK`, `CommandedOnce`, `SeenIsSettled`, `PolledIsReachable`, `StopLogOneShot` |
| `ChainTypeCorrectness`, `LimitsSafety`, `CommandedPoseStands` | `ChainProofs` | `ChainSpec` implies `[]` of `ChainTypeOK`, `GoalsWithinLimits`, `PoseStands` |
| `JumpsReachPose` | `ChainProofs` | `JumpsReach` |

*Authority.* `OnlyActiveGateOpen` is not inductive: `Grant` opens the gate on
what was checked before its transaction and looks only at the bundle again. What
the lifecycle lock guarantees in between is `GrantHeld`: while an engagement is
being granted the state is READY and controller and computation are ready.
`AuthorityInv == TypeOK /\ OnlyActiveGateOpen /\ GrantHeld` is inductive. Each
action is reduced to lemmas about `Withdraw` and the gate, on which all exits rest.

*Action properties.* Every step is classified by how it changes `state`
(`StepKind`): it keeps it, engages, withdraws or rearms. Both properties follow
from the kind of the step. `LatestAttemptPublished` and `HaltFailureKnown` follow
from what all steps but a grant, a dispatch and a delivery have in common (`Ordinary`);
the first needs that an attempt under way is the one begun last (`LatestAttempt`),
although preparations of older ones may still return.

*Results under way.* Neither `ClosedGateReported` nor `OutstandingCurrent` is
inductive. The first needs to know that the thread which reports a closed gate was
not overtaken: threads are never ahead of session and epoch (`JobsBehind`), and carry
dispatches that exist, of an epoch they are not ahead of (`JobsDispatched`). The second counts
any thread with a refusal as an answer on its way; one that comes back with a refusal
of an earlier epoch drops nothing and would leave the dispatch behind. What holds is
`OutstandingAnswered`: that thread withdraws this very authority, or brings the
acceptance of a command that answers or overtakes the dispatch.

*Inputs and engagements.* A release could be lost while an engagement is being granted:
`ReleasePending` is inductive with `GrantPending`, that a release received since the
grant was decided still waits behind the lock, and that the grant is not the
joystick's own. `HeldInputNeverEngages` rests on two facts of READY: a moving sample
that was looked at has disarmed the runtime unless it is being granted right then
(`MovingDisarms`), and whatever may engage has had its neutral sample (`ArmedByNeutral`).

*Commands over time.* `CommandsAdvance` compares each target with the one before it,
perhaps of an earlier session. `AppliedBehind` bounds the last target by what the
gate of its session has accepted, so that a result that passes the gate is later.

*Target.* `TargetInv` adds that no halt has failed, that the jobs of delivering
threads are not ahead of session and epoch (`JobsBehind`), and that a decision
which still has to be reported asks for PAUSED and, if it is of this epoch, has
left ACTIVE with a closed gate (`RequestsClosed`). Without the last one, the
withdrawal around an old decision would leave a target behind, as it does in
`late_fault`, where an adapter that refuses makes the gate ask for FAULT.

*Plant.* `PlantInv` adds that a target in place is the command taken last and
expires a horizon after its acceptance, and that the cached message is not newer
than the tick and agrees with the joints if it is of it. Steps are classified by
what they do to target, joints and message (`Kinds`), and each conjunct is
shown from the kinds alone. The refinement maps each method to one action of
`CommandAdapter` or a stutter; the only one that moves is a tick with a live
target and no fault.

*The path.* Each step of `TimedCommandPath` is a step of the plant (`PathPlantStep`), and
one of the coordinator or a hold of the gate itself (`PathSnapshotStep`): `SnapshotTiming`
alone knows the host's holds only with a withdrawal, which also moves the epoch on. So
`SnapshotInv` and `PlantInv` carry over, and `PathInv` adds what relates the parts: a
snapshot was made of samples that were fresh (`SnapshotsSampled`), each dispatch has a
command number of its own (`DispatchesOwned`), gate and coordinator agree on the last
command (`GateInOrder`), a decision that was started stays about a current result
(`JobCurrent`), and the plant's target is of a dispatch and was accepted before its
snapshot expired (`TargetAccepted`). `MotionAge` is the sum of these intervals.
The plant has a bound on command numbers for TLC, and so a path step is one of the
plant only if every number fits: `PathAssumption` says that the bound is not below
what snapshots and epochs can use up, and `CommandsBounded` counts them, one for each
dispatch, two for each epoch (the withdrawal's hold, the gate's own).

*Snapshots.* `SnapshotInv` adds to the two properties that a snapshot was made in
the past and expires when its age is up, and that no dispatch has a command
number that was not allocated yet. To the records a step does one of three
things (`StepRecords`): it appends a snapshot, makes a first dispatch, or leaves
them alone, as a retry does.

*Grasp client.* That a run is commanded once does not follow from the commands: a
handler is about to command in the middle of its work. `ClientInv` adds where each
handler may be and with which result (`PlaceInv`), that the commands of a task are
under its mark (`TraceInv`) and those of a request under its request
(`RequestInv`), and that a handler on its way to a command has none yet.
`ReachInv` follows what passed a check from the poll to the server, to its offers,
and back. `StopInv` counts the entries owed: one for the deadline, one for a poll
that has taken it.

*Chain.* A goal is made of a joint received and of one accepted, so `ChainInv` has
the limits at every place a joint passes: node, topic, stream, server, answers.
The rate limit stays between its two joints (`RateLimited`). `PoseStands` needs that a
velocity of zero moves nothing, and that no other callback leaves `standing`.

Only model-checked:

* `ReleaseStops`, `StallStops`, `ContextLossStops`, `ClosedGateStops`,
  `ExecutionRetried` and `ConvergesToTarget`. They are liveness under fairness, and the
  prover does not treat `ENABLED`. What their arguments rest on is proved:
  `ReleasesArePending` and `ClosedGatesAreReported` say that the step which ends ACTIVE
  is always under way, and the fairness of that step is what TLC adds.
* The three properties of section 6, which do not hold.

## 8. What is not modelled

* Geometry and numerics: `constraints.py`, the arithmetic of a plant step, the
  metric of a result, the optimizer of `panda-ik`. Models use their verdict.
* Scenarios, evidence and export: fixtures, hashing, files.
* Image conversion, poses and logging of the grasp client; its replay node, which is
  a test fixture; launch files, robot descriptions, message definitions; the vendor's
  script for the gripper.
* The bookkeeping of the offline loop: it has one thread and one caller, and its pending
  solve and retirement flag are sequential. The store's behaviour under a
  second concurrent preparation of the same attempt.
* The joystick nodes of `lio_teleop`, which map axes and buttons to messages and to
  services of the vendor; the single moves and reads of the joint interface; the stream's
  slow version, which the present one supersedes (it advances the last command when the
  goal is sent: the mutant of `ConvergesToTarget`); `main.cpp` and the hybrid solver.

## 9. What could follow

* An abstract `MotionAuthority` (granted, withdrawn, commanded) that `Lifecycle`
  implements, and `ActiveBundleStore` with `attempt_busy` as a module of its own.
* The retirement flag of `OfflineLoop` over the abstract lifecycle.
* A proof that `Lifecycle` implements such a `MotionAuthority`, and with it that the gate
  of `TimedCommandPath` abstracts that of `Lifecycle`.
