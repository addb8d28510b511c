----------------------------- MODULE PathProofs -----------------------------
(***************************************************************************)
(* Proofs about the plant, and about the path of a command through the     *)
(* coordinator, the gate and the plant, for every timeout, age, budget,    *)
(* horizon and tick and for every number of snapshots, contexts and epochs.*)
(* The plant moves only within the horizon of the command taken last and   *)
(* implements the adapter; every step of the path is a step of the plant   *)
(* and, but for the holds of the gate itself, one of the coordinator; and  *)
(* from sample to motion the ages add up to no more than their budgets.    *)
(***************************************************************************)
EXTENDS TimedCommandPath, SnapshotProofs

USE ClockAssumption, PlantAssumption

-----------------------------------------------------------------------------
(* The plant by itself, of which PlantInv is the inductive invariant: a      *)
(* target in place is the command taken last and expires one horizon after   *)
(* it was accepted; the message sampled last is not newer than the tick, and *)
(* agrees with the joints when it is of it.                                  *)

TargetDated ==
  target # NoTarget =>
    /\ target.command = lastCommand
    /\ target.accepted <= now
    /\ target.expires = target.accepted + Horizon

SampleDated ==
  cached # NoMessage =>
    /\ cached.time <= stateTime
    /\ cached.time = stateTime => cached.position = position

PlantInv == PlantTypeOK /\ TargetDated /\ SampleDated

\* A step does one of few things to each part of the plant: what it may do to the
\* target, to the joints and to the message.
KeepsTarget == target' \in {target, NoTarget} /\ UNCHANGED <<lastCommand, lastEpoch>>

TakesTarget ==
  /\ target' \in Target /\ target'.accepted = now /\ target'.expires = now + Horizon
  /\ lastCommand' = target'.command /\ lastEpoch' = target'.epoch
  /\ lastCommand' > lastCommand
  /\ ~fault

KeepsMotion == UNCHANGED motionVars

Ticks == /\ now = stateTime + TickLength /\ stateTime' = now
         /\ UNCHANGED <<now, cached>>
         /\ position' \in {position, position + 1}

KeepsSample == UNCHANGED cached

SamplesTick == cached' = Stamped

Kinds ==
  /\ now' \in Times /\ now' >= now
  /\ KeepsTarget \/ (TakesTarget /\ now' = now)
  /\ KeepsMotion \/ Ticks
  /\ KeepsSample \/ (SamplesTick /\ KeepsMotion)
  /\ fault' \in BOOLEAN /\ failures' \subseteq Operations
  /\ mode' \in {"normal", "missing", "stale"}

\* Every step of the plant is of these kinds.
LEMMA StepKinds ==
  ASSUME PlantTypeOK, [PlantNext]_plantVars
  PROVE  Kinds
<1> USE DEF PlantTypeOK, Kinds, KeepsTarget, KeepsMotion, KeepsSample, Times, motionVars
<1>1. CASE Clock
  BY <1>1 DEF Clock, Elapse, commandVars, sampleVars
<1>2. ASSUME NEW t \in [command: Commands, epoch: 0..MaxCommandEpoch, accepted: {now}, expires: {now + Horizon}],
             Apply(t)
      PROVE  Kinds
  <2>1. CASE AttemptFails("apply") /\ UNCHANGED commandVars
    BY <1>2, <2>1 DEF Apply, AttemptFails, commandVars, sampleVars
  <2>2. CASE /\ "apply" \notin failures
             /\ target' = t /\ lastCommand' = t.command /\ lastEpoch' = t.epoch
             /\ UNCHANGED <<fault, failures>>
    <3>1. t \in Target /\ t.accepted = now /\ t.expires = now + Horizon
      BY <1>2 DEF Target
    <3>2. TakesTarget
      BY <1>2, <2>2, <3>1 DEF Apply, Installable, NewMove, TakesTarget
    <3> QED
      BY <1>2, <2>2, <3>2 DEF Apply, sampleVars
  <2> QED
    BY <1>2, <2>1, <2>2 DEF Apply
<1>3. ASSUME NEW op \in Operations, Halt(op)
      PROVE  Kinds
  <2>1. KeepsTarget /\ KeepsMotion /\ KeepsSample /\ UNCHANGED <<now, mode>>
    BY <1>3 DEF Halt, sampleVars
  <2>2. fault' \in BOOLEAN /\ failures' \subseteq Operations
    BY <1>3 DEF Halt, AttemptFails
  <2> QED
    BY <2>1, <2>2
<1>4. CASE \E op \in Operations : FailNext(op)
  BY <1>4 DEF FailNext, commandVars, sampleVars
<1>5. CASE ControllerFault \/ ClearFault
  <2>1. KeepsTarget /\ KeepsMotion /\ KeepsSample /\ UNCHANGED <<now, mode, failures>>
    BY <1>5 DEF ControllerFault, ClearFault, commandVars, sampleVars
  <2>2. fault' \in BOOLEAN
    BY <1>5 DEF ControllerFault, ClearFault
  <2> QED
    BY <2>1, <2>2
<1>6. CASE Advance
  <2>1. KeepsTarget
    BY <1>6 DEF Advance, ConsumeTick
  <2>2. Ticks
    BY <1>6 DEF Advance, ConsumeTick, Ticks, sampleVars
  <2>3. fault' \in BOOLEAN /\ failures' \subseteq Operations
    BY <1>6 DEF Advance, AttemptFails
  <2> QED
    BY <1>6, <2>1, <2>2, <2>3 DEF Advance, Ticks, sampleVars
<1>7. CASE \E m \in {"normal", "missing", "stale"} : SetFeedbackMode(m)
  BY <1>7 DEF SetFeedbackMode, commandVars
<1>8. CASE Sample
  BY <1>8 DEF Sample, SamplesTick, commandVars
<1>9. CASE UNCHANGED plantVars
  BY <1>9 DEF plantVars, commandVars, sampleVars
<1>10. CASE Submissions
  <2>1. CASE Cancel
    BY <2>1, <1>3 DEF Cancel, Operations
  <2>2. CASE \E sampled \in Times : Hold(sampled)
    BY <2>2, <1>3 DEF Hold, Operations
  <2>3. CASE Stop
    BY <2>3, <1>3 DEF Stop, Operations
  <2> QED
    BY <1>10, <1>2, <2>1, <2>2, <2>3 DEF Submissions
<1> QED
  BY <1>1, <1>4, <1>5, <1>6, <1>7, <1>8, <1>9, <1>10 DEF PlantNext, Faults, Feedback

LEMMA PlantInvInit == PlantInit => PlantInv
<1> SUFFICES ASSUME PlantInit PROVE PlantInv
  OBVIOUS
<1>1. TargetDated /\ SampleDated
  BY DEF PlantInit, TargetDated, SampleDated
<1>2. fault \in BOOLEAN /\ target \in {NoTarget} /\ cached \in {NoMessage} /\ failures \subseteq Operations
  BY DEF PlantInit
<1>3. now \in Times /\ stateTime \in 0..now /\ lastCommand \in 0..MaxCommand /\ lastEpoch \in 0..MaxCommandEpoch
  BY DEF PlantInit, Times
<1>4. position \in Nat /\ mode \in {"normal", "missing", "stale"}
  BY DEF PlantInit
<1> QED
  BY <1>1, <1>2, <1>3, <1>4 DEF PlantInv, PlantTypeOK

LEMMA PlantInvStep == PlantInv /\ [PlantNext]_plantVars => PlantInv'
<1> SUFFICES ASSUME PlantInv, [PlantNext]_plantVars
             PROVE  PlantInv'
  OBVIOUS
<1>1. PlantTypeOK /\ TargetDated /\ SampleDated
  BY DEF PlantInv
<1>2. Kinds
  BY <1>1, StepKinds
<1>3. TargetDated'
  <2>1. CASE KeepsTarget
    BY <1>1, <1>2, <2>1 DEF TargetDated, KeepsTarget, Kinds, PlantTypeOK, Target, NoTarget, Times
  <2>2. CASE TakesTarget /\ now' = now
    <3>1. now \in Nat
      BY <1>1 DEF PlantTypeOK, Times
    <3> QED
      BY <2>2, <3>1 DEF TargetDated, TakesTarget
  <2> QED
    BY <1>2, <2>1, <2>2 DEF Kinds
<1>4. SampleDated'
  <2>1. CASE KeepsSample /\ KeepsMotion
    BY <1>1, <2>1 DEF SampleDated, KeepsSample, KeepsMotion, motionVars
  <2>2. CASE KeepsSample /\ Ticks
    <3>1. cached.time \in Nat /\ stateTime \in Nat
      BY <1>1 DEF PlantTypeOK, StateMessage, NoMessage, Times
    <3>2. stateTime' > stateTime /\ cached' = cached
      BY <2>2, <3>1 DEF KeepsSample, Ticks
    <3>3. cached # NoMessage => cached.time <= stateTime
      BY <1>1 DEF SampleDated
    <3>4. stateTime' \in Nat
      BY <1>1, <2>2 DEF Ticks, PlantTypeOK, Times
    <3> QED
      BY <3>1, <3>2, <3>3, <3>4 DEF SampleDated
  <2>3. CASE SamplesTick /\ KeepsMotion
    BY <1>1, <2>3 DEF SampleDated, SamplesTick, Stamped, KeepsMotion, motionVars, PlantTypeOK, Times
  <2> QED
    BY <1>2, <2>1, <2>2, <2>3 DEF Kinds
<1>5. PlantTypeOK'
  <2>1. now' \in Times /\ stateTime' \in 0..now' /\ position' \in Nat
    BY <1>1, <1>2 DEF Kinds, KeepsMotion, Ticks, motionVars, PlantTypeOK, Times
  <2>2. /\ target' \in Target \union {NoTarget}
        /\ lastCommand' \in 0..MaxCommand /\ lastEpoch' \in 0..MaxCommandEpoch
    BY <1>1, <1>2 DEF Kinds, KeepsTarget, TakesTarget, PlantTypeOK, Target, Commands
  <2>3. cached' \in StateMessage \union {NoMessage}
    <3>1. cached.sequence \in Nat /\ stateTime \in Times
      BY <1>1 DEF PlantTypeOK, StateMessage, NoMessage, Times
    <3> QED
      BY <1>1, <1>2, <3>1 DEF Kinds, KeepsSample, SamplesTick, Stamped, PlantTypeOK, StateMessage
  <2> QED
    BY <1>2, <2>1, <2>2, <2>3 DEF PlantTypeOK, Kinds
<1> QED
  BY <1>3, <1>4, <1>5 DEF PlantInv

LEMMA PlantInvariance == PlantSpec => []PlantInv
  BY PlantInvInit, PlantInvStep, PTL DEF PlantSpec

-----------------------------------------------------------------------------

\* Every variable of the plant keeps its type; the tick committed last is never ahead
\* of the clock (plant.py advance).
THEOREM PlantTypes == PlantSpec => []PlantTypeOK
<1>1. PlantInv => PlantTypeOK
  BY DEF PlantInv
<1> QED
  BY <1>1, PlantInvariance, PTL

\* Feedback shows what the plant committed at the time it names (plant.py sample,
\* _message).
THEOREM FeedbackIsHonest == PlantSpec => []FeedbackHonest
<1>1. PlantInv => FeedbackHonest
  BY DEF PlantInv, SampleDated, FeedbackHonest
<1> QED
  BY <1>1, PlantInvariance, PTL

\* Only a tick with a live target, which it keeps, moves the joints.
LEMMA MovesAreSteps ==
  ASSUME PlantTypeOK, [PlantNext]_plantVars, position' # position
  PROVE  /\ target # NoTarget /\ target' = target /\ now < target.expires
         /\ ~fault /\ UNCHANGED <<fault, lastCommand>> /\ position' = position + 1
<1>1. Advance
  BY DEF PlantNext, plantVars, Clock, Submissions, Apply, Cancel, Hold, Stop, Halt, Faults, FailNext,
     ControllerFault, ClearFault, Feedback, SetFeedbackMode, Sample, motionVars
<1>2. ConsumeTick /\ target' # NoTarget /\ ~fault /\ position' = position + 1 /\ UNCHANGED <<fault, lastCommand>>
  BY <1>1 DEF Advance
<1>3. target' = target /\ ~Expired(target) /\ target # NoTarget
  BY <1>2 DEF ConsumeTick
<1>4. target.expires \in Nat /\ now \in Nat
  BY <1>3 DEF PlantTypeOK, Target, Times
<1> QED
  BY <1>2, <1>3, <1>4 DEF Expired

\* The joints move only within the horizon of the command last taken (plant.py apply,
\* advance).
THEOREM MotionIsDated == PlantSpec => MotionWithinHorizon
<1>1. PlantInv /\ [PlantNext]_plantVars =>
        [position' # position =>
           /\ target.command = lastCommand
           /\ target.accepted <= now /\ now < target.accepted + Horizon]_plantVars
  <2> SUFFICES ASSUME PlantInv, [PlantNext]_plantVars, position' # position
               PROVE  /\ target.command = lastCommand
                      /\ target.accepted <= now /\ now < target.accepted + Horizon
    OBVIOUS
  <2>1. target # NoTarget /\ now < target.expires
    BY MovesAreSteps DEF PlantInv
  <2> QED
    BY <2>1 DEF PlantInv, TargetDated
<1> QED
  BY <1>1, PlantInvariance, PTL DEF PlantSpec, MotionWithinHorizon

-----------------------------------------------------------------------------
(* The plant implements the adapter.                                         *)

LEMMA AdapterInit == PlantInit => Adapter!Init
  BY DEF PlantInit, NoTarget, Adapter!Init

LEMMA AdapterStep ==
  ASSUME PlantInv, [PlantNext]_plantVars
  PROVE  [Adapter!Next]_(Adapter!adapterState)
<1> DEFINE Step == [Adapter!Next]_(Adapter!adapterState)
<1>0. /\ PlantTypeOK /\ TargetDated
      /\ target # NoTarget => target.command # 0
      /\ lastCommand \in Nat
      /\ NoTarget.command = 0
  BY DEF PlantInv, PlantTypeOK, Target, Commands, NoTarget
<1>1. CASE UNCHANGED <<target, lastCommand, fault, position>>
  BY <1>1 DEF Adapter!adapterState
<1>2. CASE target' \in {target, NoTarget} /\ fault' = TRUE /\ UNCHANGED <<lastCommand, position>>
  <2>1. Adapter!Fail
    BY <1>0, <1>2 DEF Adapter!Fail
  <2> QED
    BY <2>1 DEF Adapter!Next
<1>3. CASE target' = NoTarget /\ UNCHANGED <<lastCommand, fault, position>>
  <2>1. Adapter!Drop
    BY <1>0, <1>3 DEF Adapter!Drop
  <2> QED
    BY <2>1 DEF Adapter!Next
<1>4. ASSUME NEW t \in [command: Commands, epoch: 0..MaxCommandEpoch, accepted: {now}, expires: {now + Horizon}],
             Apply(t)
      PROVE  Step
  <2>1. CASE AttemptFails("apply") /\ UNCHANGED commandVars
    BY <1>4, <2>1, <1>2 DEF Apply, AttemptFails, commandVars, motionVars
  <2>2. CASE target' = t /\ lastCommand' = t.command /\ UNCHANGED <<fault, failures>>
    <3>1. Adapter!Take
      BY <1>4, <2>2 DEF Apply, Installable, NewMove, motionVars, Adapter!Take
    <3> QED
      BY <3>1 DEF Adapter!Next
  <2> QED
    BY <1>4, <2>1, <2>2 DEF Apply
<1>5. ASSUME NEW op \in Operations, Halt(op)
      PROVE  Step
  BY <1>5, <1>2, <1>3 DEF Halt, AttemptFails, motionVars
<1>6. CASE ClearFault
  <2>1. Adapter!Repair
    BY <1>0, <1>6 DEF ClearFault, motionVars, commandVars, Adapter!Repair
  <2> QED
    BY <2>1 DEF Adapter!Next
<1>7. CASE ControllerFault
  BY <1>7, <1>2 DEF ControllerFault, motionVars, commandVars
<1>8. CASE Advance
  <2>1. target' \in {target, NoTarget} /\ UNCHANGED lastCommand
    BY <1>8 DEF Advance, ConsumeTick
  <2>2. CASE position' # position
    <3>1. Adapter!Move
      BY <1>0, <2>2, MovesAreSteps DEF Adapter!Move
    <3> QED
      BY <3>1 DEF Adapter!Next
  <2>3. CASE position' = position /\ fault' = TRUE
    BY <2>1, <2>3, <1>2
  <2>4. CASE position' = position /\ fault' = fault
    BY <2>1, <2>4, <1>1, <1>3
  <2>5. position' # position \/ fault' \in {fault, TRUE}
    BY <1>8 DEF Advance, AttemptFails
  <2> QED
    BY <2>2, <2>3, <2>4, <2>5
<1>9. CASE Submissions
  <2>1. CASE Cancel
    BY <2>1, <1>5 DEF Cancel, Operations
  <2>2. CASE \E sampled \in Times : Hold(sampled)
    BY <2>2, <1>5 DEF Hold, Operations
  <2>3. CASE Stop
    BY <2>3, <1>5 DEF Stop, Operations
  <2> QED
    BY <1>9, <1>4, <2>1, <2>2, <2>3 DEF Submissions
<1>10. CASE Clock \/ Feedback \/ (\E op \in Operations : FailNext(op)) \/ UNCHANGED plantVars
  BY <1>10, <1>1 DEF Clock, Feedback, SetFeedbackMode, Sample, FailNext, plantVars, motionVars, commandVars
<1> QED
  BY <1>6, <1>7, <1>8, <1>9, <1>10 DEF PlantNext, Faults

\* The plant takes each command once and in order, drops its target on every halt that
\* succeeds, moves only with a target and without a fault and is repaired only without
\* a target (plant.py apply, cancel, hold, stop, advance, clear_fault).
THEOREM PlantIsAdapter == PlantSpec => ImplementsAdapter
<1>1. PlantInv /\ [PlantNext]_plantVars => [Adapter!Next]_(Adapter!adapterState)
  BY AdapterStep
<1> QED
  BY <1>1, AdapterInit, PlantInvariance, PTL DEF PlantSpec, ImplementsAdapter, Adapter!Spec

-----------------------------------------------------------------------------
(* The path: what its steps rely on.                                         *)

\* A snapshot was made of samples that were fresh.
SnapshotSampled(s) ==
  LET snapshot == snapshots[s] IN
  /\ snapshot.joystick <= snapshot.created
  /\ snapshot.created <= snapshot.joystick + JoystickTimeout
  /\ snapshot.robotState <= snapshot.created
  /\ snapshot.created <= snapshot.robotState + RobotStateTimeout

SnapshotsSampled == \A s \in 1..Len(snapshots) : SnapshotSampled(s)

\* Every dispatch has a command of its own.
DispatchesOwned ==
  \A s \in 1..Len(snapshots) : dispatches[s] # NoDispatch =>
    /\ dispatches[s].command # 0 /\ dispatches[s].dispatched <= now
    /\ \A r \in 1..Len(snapshots) : dispatches[r].command = dispatches[s].command => r = s

\* Commands are of a snapshot's dispatch, of a withdrawal or of a gate that closed itself.
Pending == IF Len(snapshots) # 0 /\ dispatches[Len(snapshots)] = NoDispatch THEN 1 ELSE 0
Closed == IF authority = "closed" THEN 1 ELSE 0

CommandsBounded ==
  /\ Len(snapshots) <= MaxSnapshots
  /\ commandSeq + Pending <= Len(snapshots) + 2 * epoch + Closed

\* The gate and the coordinator agree on the command accepted last.
GateInOrder ==
  /\ previous.command = lastSequence
  /\ lastMove # 0 => dispatches[lastMove] # NoDispatch

Deciding == job.phase \in {"checked", "refused"}

JobTyped ==
  job # NoJob =>
    /\ job \in [phase: {"arrived", "checked", "refused"}, snapshot: 1..Len(snapshots),
                status: Statuses, received: 0..now]
    /\ dispatches[job.snapshot] # NoDispatch

\* A decision that was started is one about a current result, and stays so.
JobCurrent ==
  Deciding =>
    LET s == job.snapshot IN
    /\ authority = "on"
    /\ snapshots[s].epoch = epoch /\ snapshots[s].bundle = bundle
    /\ dispatches[s].command > lastSequence /\ s > lastMove
    /\ job.phase = "checked" /\ job.status = "move" => job.received < dispatches[s].deadline

\* The target is the command of a dispatch, accepted before its snapshot expired.
TargetAccepted ==
  target # NoTarget =>
    \E s \in 1..Len(snapshots) : /\ dispatches[s].command = target.command
                                 /\ target.accepted < snapshots[s].expires

RecordPart == SnapshotsSampled /\ DispatchesOwned
GatePart == PathTypeOK /\ GateInOrder /\ JobTyped /\ JobCurrent /\ TargetAccepted

PathInv == SnapshotInv /\ PlantInv /\ RecordPart /\ CommandsBounded /\ GatePart

\* The types that the comparisons below need.
LEMMA PathNumbers ==
  ASSUME PathInv
  PROVE  /\ now \in Nat /\ commandSeq \in Nat /\ lastSequence \in Nat /\ lastMove \in Nat
         /\ epoch \in 0..MaxEpochs /\ bundle \in Nat /\ stateTime \in Nat /\ stateTime <= now
         /\ Len(snapshots) \in Nat /\ Len(dispatches) = Len(snapshots)
         /\ SnapshotIds = 1..Len(snapshots) /\ lastSequence <= commandSeq
         /\ joystick.sampled \in Nat /\ robotState.sampled \in Nat
         /\ joystick.sampled <= now /\ robotState.sampled <= now
         /\ previous.at \in Nat /\ previous.at <= now
  BY DEF PathInv, SnapshotInv, SnapshotTypeOK, SampleType, RecordTypes, SnapshotIds, GatePart,
         PathTypeOK, PlantTypeOK, Times

LEMMA PathRecords ==
  ASSUME PathInv, NEW s \in 1..Len(snapshots)
  PROVE  /\ snapshots[s].created \in Nat /\ snapshots[s].joystick \in Nat
         /\ snapshots[s].robotState \in Nat
         /\ snapshots[s].expires = snapshots[s].created + MaxAge
         /\ dispatches[s].command \in Nat /\ dispatches[s].dispatched \in Nat
         /\ dispatches[s].deadline \in Nat /\ dispatches[s].command <= commandSeq
<1>1. snapshots[s] \in SnapshotRecord /\ dispatches[s] \in DispatchRecord
      /\ s \in 1..Len(dispatches)
  BY DEF PathInv, SnapshotInv, RecordTypes
<1> QED BY <1>1 DEF PathInv, SnapshotInv, SnapshotsDated, SnapshotDated, DispatchesNumbered,
                    SnapshotRecord, DispatchRecord

-----------------------------------------------------------------------------
(* The steps of the path as steps of its parts.                              *)

\* A hold of the gate itself, which moves no epoch on.
GateHold ==
  /\ AllocateLocal(TRUE)
  /\ UNCHANGED <<now, inputVars, contextVars, recordVars, selection>>

\* A result whose decision was started is the current one.
LEMMA DecidingCurrent ==
  ASSUME PathInv, Deciding
  PROVE  /\ job # NoJob /\ job.snapshot \in 1..Len(snapshots)
         /\ dispatches[job.snapshot] # NoDispatch
         /\ authority = "on" /\ snapshots[job.snapshot].epoch = epoch
         /\ dispatches[job.snapshot].command > lastSequence /\ job.snapshot > lastMove
         /\ dispatches[job.snapshot].dispatched <= now
<1>1. job # NoJob
  BY DEF Deciding, NoJob
<1> QED BY <1>1 DEF PathInv, GatePart, JobTyped, JobCurrent, RecordPart, DispatchesOwned

\* What the coordinator compares when an acceptance is recorded holds whenever the gate
\* accepts, although the gate compared something else.
LEMMA AcceptanceRecorded ==
  ASSUME PathInv, Deciding, StillValid(job.snapshot)
  PROVE  AcceptanceInOrder(job.snapshot, now)
<1>1. /\ snapshots[job.snapshot].epoch = epoch /\ previous.command = lastSequence
      /\ dispatches[job.snapshot].command > lastSequence
      /\ dispatches[job.snapshot].dispatched <= now
  BY DecidingCurrent DEF PathInv, GatePart, GateInOrder
<1> QED BY <1>1, PathNumbers DEF AcceptanceInOrder, StillValid

\* Every step of the path is a step of the plant: the bounds let its commands pass.
LEMMA PathPlantStep == ASSUME PathInv, [PathNext]_pathVars PROVE [PlantNext]_plantVars
<1>1. CASE UNCHANGED plantVars
  BY <1>1
<1>2. CASE Stop
  BY <1>2 DEF PlantNext, Submissions
<1>3. CASE Advance
  BY <1>3 DEF PlantNext
<1>4. CASE ElapseInTick
  BY <1>4 DEF ElapseInTick, KeepsPath, PlantNext, Clock
<1>5. CASE Deciding /\ AcceptMove(job.snapshot)
  <2> DEFINE t == AcceptedTarget(job.snapshot)
  <2>1. /\ dispatches[job.snapshot].command \in Nat /\ dispatches[job.snapshot].command > lastSequence
        /\ dispatches[job.snapshot].command <= commandSeq
    BY <1>5, DecidingCurrent, PathRecords
  <2>2. commandSeq <= MaxSnapshots + 2 * epoch /\ epoch \in 0..MaxEpochs
    <3>1. commandSeq + Pending <= Len(snapshots) + 2 * epoch + Closed /\ authority = "on"
          /\ Len(snapshots) <= MaxSnapshots
      BY <1>5, DecidingCurrent DEF PathInv, CommandsBounded
    <3>2. Pending \in {0, 1} /\ Closed = 0
      BY <3>1 DEF Pending, Closed
    <3> QED BY <3>1, <3>2, PathNumbers, TimingAssumption
  <2>3. dispatches[job.snapshot].command \in Commands /\ epoch \in 0..MaxCommandEpoch
    <3>1. MaxSnapshots + 2 * epoch <= MaxSnapshots + 2 * MaxEpochs + 1 /\ epoch <= MaxEpochs
      BY <2>2, TimingAssumption
    <3>2. MaxCommand \in Nat /\ MaxCommandEpoch \in Nat
      BY PlantAssumption
    <3>3. dispatches[job.snapshot].command <= MaxCommand
      BY <2>1, <2>2, <3>1, <3>2, PathNumbers, PathAssumption, TimingAssumption
    <3>4. dispatches[job.snapshot].command # 0
      BY <2>1, PathNumbers
    <3> QED BY <2>1, <2>2, <3>1, <3>2, <3>3, <3>4, PathAssumption, TimingAssumption DEF Commands
  <2>4. t \in [command: Commands, epoch: 0..MaxCommandEpoch, accepted: {now},
               expires: {now + Horizon}]
    BY <2>3 DEF AcceptedTarget
  <2>5. Apply(t)
    BY <1>5 DEF AcceptMove
  <2> HIDE DEF t
  <2> QED BY <2>4, <2>5 DEF PlantNext, Submissions
<1>6. CASE (Joystick \/ RobotFeedback \/ ReplaceContext \/ Cycles) /\ KeepsPath
  <2>1. UNCHANGED now
    BY <1>6 DEF Joystick, RobotFeedback, ReceiveJoystick, ReceiveRobotState, ReplaceContext, Cycles,
                Assemble, DispatchSnapshot, RecordSelection
  <2> QED BY <1>1, <1>6, <2>1 DEF KeepsPath, plantVars
<1>7. CASE DecideResult
  BY <1>1, <1>7 DEF DecideResult, Discard
<1>8. CASE FinishResult
  BY <1>1, <1>2, <1>5, <1>8 DEF FinishResult, Deciding, Discard, Reject, LocalHold, AcceptHold
<1>9. CASE AdvancePlant \/ Grant \/ Withdraw \/ \E s \in SnapshotIds, status \in Statuses : Arrive(s, status)
  BY <1>1, <1>2, <1>3, <1>9 DEF AdvancePlant, Grant, Withdraw, LocalHold, Arrive
<1>10. CASE UNCHANGED pathVars
  BY <1>1, <1>10 DEF pathVars
<1> QED BY <1>4, <1>6, <1>7, <1>8, <1>9, <1>10 DEF PathNext

\* And, but for the holds of the gate itself, one of the coordinator.
LEMMA PathSnapshotStep ==
  ASSUME PathInv, [PathNext]_pathVars PROVE [SnapshotNext]_snapshotVars \/ GateHold
<1>1. CASE UNCHANGED snapshotVars
  BY <1>1
<1>2. CASE ElapseInTick
  BY <1>2 DEF ElapseInTick, SnapshotNext, Time
<1>3. CASE Deciding /\ StillValid(job.snapshot) /\ Accepted(job.snapshot) /\ UNCHANGED now
  <2>1. RecordAcceptance(job.snapshot, now)
    BY <1>3, AcceptanceRecorded, DecidingCurrent DEF Accepted, RecordAcceptance
  <2>2. job.snapshot \in SnapshotIds /\ now \in Times
    BY <1>3, DecidingCurrent, PathNumbers DEF PathInv, PlantInv, PlantTypeOK
  <2> QED BY <2>1, <2>2 DEF SnapshotNext, Acceptances
<1>4. CASE Joystick \/ RobotFeedback
  <2>1. now \in Times /\ stateTime \in Times
    BY PathNumbers DEF PathInv, PlantInv, PlantTypeOK, Times
  <2> QED BY <1>4, <2>1 DEF Joystick, RobotFeedback, SnapshotNext, Inputs
<1>5. CASE ReplaceContext \/ Cycles
  BY <1>5 DEF Cycles, SnapshotNext, Records
<1>6. CASE Withdraw
  <2>1. Withdrawal
    BY <1>6 DEF Withdraw, LocalHold, Withdrawal
  <2> QED BY <2>1 DEF SnapshotNext
<1>7. CASE Reject
  BY <1>7 DEF Reject, LocalHold, Stop, Halt, GateHold
<1>8. CASE FinishResult
  BY <1>1, <1>3, <1>7, <1>8 DEF FinishResult, Deciding, Discard, AcceptMove, AcceptHold, Apply,
                               Stop, Halt
<1>9. CASE DecideResult \/ Grant \/ \E s \in SnapshotIds, status \in Statuses : Arrive(s, status)
  BY <1>1, <1>9 DEF DecideResult, Discard, Grant, Arrive
<1>10. CASE AdvancePlant
  BY <1>1, <1>10 DEF AdvancePlant, Advance, snapshotVars
<1>11. CASE UNCHANGED pathVars
  BY <1>1, <1>11 DEF pathVars
<1> QED BY <1>2, <1>4, <1>5, <1>6, <1>8, <1>9, <1>10, <1>11 DEF PathNext

\* A hold of the gate keeps what the coordinator's own steps keep.
LEMMA GateHoldKeeps == ASSUME SnapshotInv, GateHold PROVE SnapshotInv'
<1>1. /\ commandSeq' = commandSeq + 1 /\ previous' = AcceptedAt(commandSeq', now)
      /\ UNCHANGED <<now, joystick, robotState, epoch, bundle, activations, snapshots, dispatches>>
      /\ UNCHANGED selection
  BY DEF GateHold, AllocateLocal, inputVars, contextVars, recordVars
<1>2. commandSeq \in Nat /\ now \in Nat
  BY DEF SnapshotInv, SnapshotTypeOK, Times
<1>3. commandSeq' \in Nat /\ previous' \in [command: 0..commandSeq', at: 0..now']
  BY <1>1, <1>2 DEF AcceptedAt
<1>4. SnapshotTypeOK'
  BY <1>1, <1>3 DEF SnapshotInv, SnapshotTypeOK
<1>5. DispatchesNumbered'
  <2>1. \A s \in 1..Len(dispatches) : dispatches[s].command \in Nat
    BY RecordFields DEF SnapshotInv, RecordTypes
  <2> QED BY <1>1, <1>2, <2>1 DEF SnapshotInv, DispatchesNumbered
<1>6. RecordTypes' /\ SnapshotsDated'
  BY <1>1 DEF SnapshotInv, RecordTypes, SnapshotsDated, SnapshotDated
<1>7. DispatchValidity' /\ SelectionLineage'
  BY <1>1 DEF SnapshotInv, DispatchValidity, SelectionLineage, SnapshotIds
<1> QED BY <1>4, <1>5, <1>6, <1>7 DEF SnapshotInv


LEMMA PathPartsStep == ASSUME PathInv, [PathNext]_pathVars PROVE SnapshotInv' /\ PlantInv'
<1>1. SnapshotInv /\ PlantInv
  BY DEF PathInv
<1> QED BY <1>1, PathPlantStep, PlantInvStep, PathSnapshotStep, SnapshotInvStep, GateHoldKeeps

-----------------------------------------------------------------------------
(* What the steps keep of the records.                                       *)

\* Time and commands go on; snapshots stay, and so does a dispatch once it is made.
Grows ==
  /\ now' \in Nat /\ now' >= now /\ commandSeq' \in Nat /\ commandSeq' >= commandSeq
  /\ Len(snapshots') \in Nat /\ Len(snapshots') >= Len(snapshots)
  /\ \A s \in 1..Len(snapshots) :
       /\ s \in 1..Len(snapshots') /\ snapshots'[s] = snapshots[s]
       /\ dispatches[s] # NoDispatch => dispatches'[s] = dispatches[s]

LEMMA PathRecordsStep ==
  ASSUME PathInv, [PathNext]_pathVars
  PROVE  Grows /\ SnapshotsSampled' /\ DispatchesOwned'
<1>1. /\ RecordTypes /\ SnapshotsSampled /\ DispatchesOwned
      /\ now \in Nat /\ commandSeq \in Nat
      /\ joystick.sampled \in Nat /\ robotState.sampled \in Nat
      /\ joystick.sampled <= now /\ robotState.sampled <= now
  BY PathNumbers DEF PathInv, SnapshotInv, RecordPart
<1>2. now' \in Nat /\ commandSeq' \in Nat
  BY PathPartsStep DEF SnapshotInv, SnapshotTypeOK, Times
<1>3. \A s \in 1..Len(snapshots) :
        /\ dispatches[s].command \in Nat /\ dispatches[s].command <= commandSeq
        /\ dispatches[s].dispatched \in Nat
  BY PathRecords
<1>4. CASE AppendsRecord
  <2>1. PICK created \in SnapshotRecord :
          /\ created.created = now
          /\ created.joystick = joystick.sampled /\ created.robotState = robotState.sampled
          /\ snapshots' = Append(snapshots, created)
    BY <1>4 DEF AppendsRecord
  <2>2. dispatches' = Append(dispatches, NoDispatch) /\ UNCHANGED <<now, commandSeq>> /\ InputsFresh
    BY <1>4 DEF AppendsRecord
  <2>3. /\ Len(snapshots') = Len(snapshots) + 1 /\ Len(dispatches') = Len(snapshots')
        /\ Len(snapshots) \in Nat
        /\ \A s \in 1..Len(snapshots) : snapshots'[s] = snapshots[s] /\ dispatches'[s] = dispatches[s]
        /\ snapshots'[Len(snapshots')] = created /\ dispatches'[Len(snapshots')] = NoDispatch
        /\ \A s \in 1..Len(snapshots') : s \in 1..Len(snapshots) \/ s = Len(snapshots')
    BY <1>1, <2>1, <2>2 DEF RecordTypes
  <2>4. Grows
    BY <1>1, <2>2, <2>3 DEF Grows
  <2>5. SnapshotsSampled'
    <3>1. /\ created.joystick <= created.created
          /\ created.created <= created.joystick + JoystickTimeout
          /\ created.robotState <= created.created
          /\ created.created <= created.robotState + RobotStateTimeout
      BY <1>1, <2>1, <2>2, TimingAssumption DEF InputsFresh, Fresh
    <3> QED BY <1>1, <2>3, <3>1 DEF SnapshotsSampled, SnapshotSampled
  <2>6. DispatchesOwned'
    BY <1>1, <2>2, <2>3 DEF DispatchesOwned, NoDispatch
  <2> QED BY <2>4, <2>5, <2>6
<1>5. CASE DispatchesOne
  <2>1. PICK s \in 1..Len(snapshots) : FirstDispatch(s)
    BY <1>5 DEF DispatchesOne
  <2> DEFINE record == [command |-> commandSeq + 1, dispatched |-> now, deadline |-> SolveDeadline(s)]
  <2>2. /\ dispatches[s] = NoDispatch /\ commandSeq' = commandSeq + 1
        /\ dispatches' = [dispatches EXCEPT ![s] = record]
        /\ UNCHANGED <<now, snapshots>>
    BY <1>5, <2>1 DEF FirstDispatch, DispatchesOne
  <2>3. record.command = commandSeq + 1 /\ record.dispatched = now
    OBVIOUS
  <2> HIDE DEF record
  <2>4. /\ dispatches'[s] = record
        /\ \A r \in 1..Len(snapshots) : r # s => dispatches'[r] = dispatches[r]
    BY <1>1, <2>2 DEF RecordTypes
  <2>5. Grows
    BY <1>1, <2>2, <2>4 DEF Grows, RecordTypes
  <2>6. SnapshotsSampled'
    BY <1>1, <2>2 DEF SnapshotsSampled, SnapshotSampled
  <2>7. DispatchesOwned'
    BY <1>1, <1>3, <2>2, <2>3, <2>4 DEF DispatchesOwned
  <2> QED BY <2>5, <2>6, <2>7
<1>6. CASE KeepsRecords
  <2>1. UNCHANGED <<snapshots, dispatches>> /\ now' >= now /\ commandSeq' >= commandSeq
    BY <1>6 DEF KeepsRecords, recordVars
  <2>2. Grows
    BY <1>1, <1>2, <2>1 DEF Grows, RecordTypes
  <2>3. SnapshotsSampled'
    BY <1>1, <2>1 DEF SnapshotsSampled, SnapshotSampled
  <2>4. DispatchesOwned'
    BY <1>1, <1>2, <1>3, <2>1 DEF DispatchesOwned
  <2> QED BY <2>2, <2>3, <2>4
<1>7. GateHold => KeepsRecords
  BY <1>1 DEF GateHold, AllocateLocal, KeepsRecords
<1>8. SnapshotInv
  BY DEF PathInv
<1> QED BY <1>4, <1>5, <1>6, <1>7, <1>8, PathSnapshotStep, StepRecords

-----------------------------------------------------------------------------
(* What the steps do to the gate.                                            *)

\* A command is numbered for a snapshot that has none, and only for the newest one.
Numbers ==
  \/ UNCHANGED <<recordVars, commandSeq>>
  \/ Assemble
  \/ Len(snapshots) # 0 /\ FirstDispatch(Len(snapshots)) /\ UNCHANGED snapshots

\* The gate is not touched; its target may be dropped.
Quiet ==
  /\ UNCHANGED <<gateVars, previous, epoch>>
  /\ target' \in {target, NoTarget}
  /\ Deciding => UNCHANGED bundle
  /\ Numbers

KeepsCommands == UNCHANGED <<snapshotVars, plantVars, lastSequence, lastMove>>

\* The result whose decision was started is finished, one way or another.
Finishes ==
  /\ Deciding
  /\ LET s == job.snapshot IN
     \/ Discard
     \/ Reject
     \/ StillValid(s) /\ job.status = "move" /\ job.phase = "checked" /\ AcceptMove(s)
     \/ StillValid(s) /\ job.status = "hold" /\ AcceptHold(s)

LEMMA PathStepKinds ==
  ASSUME PathInv, [PathNext]_pathVars
  PROVE  \/ Quiet \/ Grant \/ DecideResult \/ Finishes
         \/ Withdraw /\ ~Deciding
         \/ \E s \in SnapshotIds, status \in Statuses : Arrive(s, status)
<1>1. CASE UNCHANGED pathVars
  BY <1>1 DEF pathVars, snapshotVars, contextVars, plantVars, commandVars, Quiet, Numbers
<1>2. CASE ElapseInTick
  BY <1>2 DEF ElapseInTick, KeepsPath, contextVars, commandVars, Quiet, Numbers
<1>3. CASE ~Deciding /\ (Joystick \/ RobotFeedback \/ ReplaceContext) /\ KeepsPath
  BY <1>3 DEF Joystick, RobotFeedback, ReceiveJoystick, ReceiveRobotState, ReplaceContext, KeepsPath,
              contextVars, commandVars, Quiet, Numbers
<1>4. CASE ~Deciding /\ Cycles /\ KeepsPath
  <2>1. UNCHANGED <<gateVars, previous, epoch>> /\ target' = target
    BY <1>4 DEF Cycles, Assemble, DispatchSnapshot, RecordSelection, KeepsPath, contextVars, commandVars
  <2>2. Numbers
    BY <1>4, PathNumbers DEF Cycles, DispatchSnapshot, Retry, RecordSelection, Numbers, recordVars
  <2> QED BY <1>4, <2>1, <2>2 DEF Quiet
<1>5. CASE ~Deciding /\ AdvancePlant
  BY <1>5 DEF AdvancePlant, Advance, ConsumeTick, contextVars, Quiet, Numbers
<1>6. CASE FinishResult
  BY <1>6 DEF FinishResult, Finishes, Deciding
<1> QED BY <1>1, <1>2, <1>3, <1>4, <1>5, <1>6 DEF PathNext, Deciding

LEMMA PathCommandsStep == ASSUME PathInv, [PathNext]_pathVars PROVE CommandsBounded'
<1>1. /\ commandSeq + Pending <= Len(snapshots) + 2 * epoch + Closed
      /\ Len(snapshots) <= MaxSnapshots
      /\ commandSeq \in Nat /\ Len(snapshots) \in Nat /\ epoch \in Nat
      /\ Pending \in {0, 1} /\ Pending' \in {0, 1} /\ Closed \in {0, 1} /\ Closed' \in {0, 1}
      /\ RecordTypes
  BY PathNumbers, TimingAssumption DEF PathInv, CommandsBounded, Pending, Closed, SnapshotInv
<1>2. CASE Quiet
  <2>1. Closed' = Closed /\ epoch' = epoch
    BY <1>2 DEF Quiet, gateVars, Closed
  <2>2. CASE UNCHANGED <<recordVars, commandSeq>>
    <3>1. Pending' = Pending /\ snapshots' = snapshots /\ commandSeq' = commandSeq
      BY <2>2 DEF recordVars, Pending
    <3> QED BY <1>1, <2>1, <3>1 DEF CommandsBounded
  <2>3. CASE Assemble
    <3>1. AppendsRecord
      BY <2>3, Assembles DEF PathInv
    <3>2. Len(snapshots') = Len(snapshots) + 1 /\ commandSeq' = commandSeq
          /\ Len(snapshots) < MaxSnapshots
      BY <1>1, <3>1 DEF AppendsRecord, RecordTypes
    <3> QED BY <1>1, <2>1, <3>2, TimingAssumption DEF CommandsBounded
  <2>4. CASE Len(snapshots) # 0 /\ FirstDispatch(Len(snapshots)) /\ UNCHANGED snapshots
    <3>1. /\ dispatches[Len(snapshots)] = NoDispatch /\ commandSeq' = commandSeq + 1
          /\ dispatches' = [dispatches EXCEPT ![Len(snapshots)] =
               [command |-> commandSeq + 1, dispatched |-> now, deadline |-> SolveDeadline(Len(snapshots))]]
      BY <2>4 DEF FirstDispatch
    <3>2. Len(snapshots) \in DOMAIN dispatches
      BY <1>1, <2>4 DEF RecordTypes
    <3>3. dispatches'[Len(snapshots)].command = commandSeq + 1
      BY <3>1, <3>2
    <3>4. Pending = 1 /\ Pending' = 0
      BY <1>1, <2>4, <3>1, <3>3 DEF Pending, NoDispatch
    <3> QED BY <1>1, <2>1, <2>4, <3>1, <3>4 DEF CommandsBounded
  <2> QED BY <1>2, <2>2, <2>3, <2>4 DEF Quiet, Numbers
<1>3. CASE Withdraw \/ (Finishes /\ Reject)
  <2>1. commandSeq' = commandSeq + 1 /\ Pending' = Pending /\ snapshots' = snapshots
    BY <1>3 DEF Withdraw, Reject, LocalHold, AllocateLocal, recordVars, Pending
  <2>2. CASE Withdraw
    <3>1. Closed' = 0 /\ epoch' = epoch + 1
      BY <2>2 DEF Withdraw, AdvanceEpoch, Closed
    <3> QED BY <1>1, <2>1, <3>1 DEF CommandsBounded
  <2>3. CASE Finishes /\ Reject
    <3>1. Closed = 0 /\ Closed' = 1 /\ epoch' = epoch
      BY <2>3, DecidingCurrent DEF Finishes, Reject, contextVars, Closed
    <3> QED BY <1>1, <2>1, <3>1 DEF CommandsBounded
  <2> QED BY <1>3, <2>2, <2>3
<1>4. ASSUME UNCHANGED <<recordVars, commandSeq, epoch>>, Closed' >= Closed PROVE CommandsBounded'
  <2>1. Pending' = Pending /\ snapshots' = snapshots /\ commandSeq' = commandSeq /\ epoch' = epoch
    BY <1>4 DEF recordVars, Pending
  <2> QED BY <1>1, <1>4, <2>1 DEF CommandsBounded
<1>5. ASSUME Finishes, ~Reject PROVE CommandsBounded'
  <2>1. UNCHANGED <<recordVars, commandSeq, epoch>>
    BY <1>5 DEF Finishes, Discard, AcceptMove, AcceptHold, Accepted, snapshotVars, contextVars
  <2>2. Closed = 0
    BY <1>5, DecidingCurrent DEF Finishes, Closed
  <2> QED BY <1>1, <1>4, <2>1, <2>2
<1>6. CASE Grant \/ DecideResult \/ \E s \in SnapshotIds, status \in Statuses : Arrive(s, status)
  <2>1. UNCHANGED <<recordVars, commandSeq, epoch>> /\ (authority = "off" \/ authority' = authority)
    BY <1>6 DEF Grant, DecideResult, Discard, Arrive, snapshotVars, contextVars
  <2>2. Closed' >= Closed
    BY <1>1, <2>1 DEF Closed
  <2> QED BY <1>4, <2>1, <2>2
<1> QED BY <1>2, <1>3, <1>5, <1>6, PathStepKinds

-----------------------------------------------------------------------------
(* The gate, step by step.                                                   *)

\* What a step may do to the commands accepted: nothing, accept a hold of the host, or
\* a command of the worker.
AcceptsNone == UNCHANGED <<lastSequence, lastMove, previous>>

AcceptsLocal ==
  /\ lastSequence' = commandSeq' /\ previous' = AcceptedAt(commandSeq', now)
  /\ UNCHANGED lastMove

AcceptsWorker ==
  LET s == job.snapshot IN
  /\ Deciding /\ lastSequence' = dispatches[s].command
  /\ previous' = AcceptedAt(dispatches[s].command, now)
  /\ lastMove' \in {lastMove, s}

LEMMA AcceptedStep ==
  ASSUME PathInv, [PathNext]_pathVars
  PROVE  AcceptsNone \/ AcceptsLocal \/ AcceptsWorker
<1>1. LocalHold => AcceptsLocal
  BY DEF LocalHold, AllocateLocal, AcceptsLocal
<1>2. CASE Finishes
  BY <1>1, <1>2 DEF Finishes, Discard, Reject, AcceptMove, AcceptHold, Accepted, snapshotVars,
                    AcceptsNone, AcceptsWorker
<1>3. CASE Withdraw
  BY <1>1, <1>3 DEF Withdraw
<1>4. CASE Quiet \/ Grant \/ DecideResult \/ \E s \in SnapshotIds, status \in Statuses : Arrive(s, status)
  BY <1>4 DEF Quiet, gateVars, Grant, DecideResult, Discard, Arrive, snapshotVars, AcceptsNone
<1> QED BY <1>2, <1>3, <1>4, PathStepKinds

LEMMA OrderStep ==
  ASSUME PathInv, [PathNext]_pathVars
  PROVE  /\ lastSequence' \in 0..commandSeq' /\ lastMove' \in 0..Len(snapshots')
         /\ lastMove' # 0 => dispatches'[lastMove'].command <= lastSequence'
         /\ GateInOrder'
<1>1. /\ Grows /\ lastSequence \in 0..commandSeq /\ lastMove \in 0..Len(snapshots)
      /\ lastMove # 0 => /\ dispatches[lastMove].command <= lastSequence
                         /\ dispatches[lastMove] # NoDispatch
      /\ previous.command = lastSequence
      /\ commandSeq \in Nat /\ Len(snapshots) \in Nat
  BY PathRecordsStep, PathNumbers DEF PathInv, GatePart, PathTypeOK, GateInOrder
<1>2. lastMove # 0 =>
        /\ dispatches'[lastMove] = dispatches[lastMove]
        /\ dispatches[lastMove].command \in Nat
  BY <1>1, PathRecords DEF Grows
<1>3. CASE AcceptsNone
  BY <1>1, <1>2, <1>3 DEF AcceptsNone, Grows, GateInOrder
<1>4. CASE AcceptsLocal
  BY <1>1, <1>2, <1>4 DEF AcceptsLocal, AcceptedAt, Grows, GateInOrder
<1>5. CASE AcceptsWorker
  <2> DEFINE s == job.snapshot
  <2>1. /\ s \in 1..Len(snapshots) /\ dispatches[s] # NoDispatch
        /\ dispatches[s].command > lastSequence
        /\ dispatches[s].command \in Nat /\ dispatches[s].command <= commandSeq
        /\ dispatches'[s] = dispatches[s]
    BY <1>1, <1>5, DecidingCurrent, PathRecords DEF AcceptsWorker, Grows
  <2>2. /\ lastSequence' = dispatches[s].command /\ previous'.command = dispatches[s].command
        /\ lastMove' \in {lastMove, s}
    BY <1>5 DEF AcceptsWorker, AcceptedAt
  <2> HIDE DEF s
  <2> QED BY <1>1, <1>2, <2>1, <2>2 DEF Grows, GateInOrder
<1> QED BY <1>3, <1>4, <1>5, AcceptedStep

\* What a step may do to the result being submitted: keep it with all it was compared
\* with, keep it before its decision, take one up, decide it or be done with it.
JobKept == UNCHANGED <<job, authority, lastSequence, lastMove, epoch, bundle>>
JobWaits == ~Deciding /\ UNCHANGED job
JobDone == job' = NoJob
JobArrives == \E s \in SnapshotIds, status \in Statuses : Arrive(s, status)
JobDecided == DecideResult /\ job' # NoJob

LEMMA JobStepKinds ==
  ASSUME PathInv, [PathNext]_pathVars
  PROVE  JobKept \/ JobWaits \/ JobDone \/ JobArrives \/ JobDecided
<1>1. CASE Quiet
  BY <1>1 DEF Quiet, gateVars, JobKept, JobWaits
<1>2. CASE Grant
  <2>1. ~Deciding
    BY <1>2, DecidingCurrent DEF Grant
  <2> QED BY <1>2, <2>1 DEF Grant, JobWaits
<1>3. CASE Withdraw /\ ~Deciding
  BY <1>3 DEF Withdraw, JobWaits
<1>4. CASE DecideResult
  BY <1>4 DEF JobDone, JobDecided
<1>5. CASE Finishes
  BY <1>5 DEF Finishes, Discard, Reject, AcceptMove, AcceptHold, Accepted, JobDone
<1> QED BY <1>1, <1>2, <1>3, <1>4, <1>5, PathStepKinds DEF JobArrives

LEMMA JobStep == ASSUME PathInv, [PathNext]_pathVars PROVE JobTyped' /\ JobCurrent'
<1> DEFINE s == job.snapshot
<1>1. /\ Grows /\ JobTyped /\ JobCurrent
      /\ now \in Nat /\ Len(snapshots) \in Nat /\ SnapshotIds = 1..Len(snapshots)
  BY PathRecordsStep, PathNumbers DEF PathInv, GatePart
<1>2. job # NoJob => /\ s \in 1..Len(snapshots) /\ s \in 1..Len(snapshots')
                     /\ snapshots'[s] = snapshots[s] /\ dispatches'[s] = dispatches[s]
                     /\ dispatches[s] # NoDispatch
  BY <1>1 DEF JobTyped, Grows
<1>3. ASSUME UNCHANGED job PROVE JobTyped'
  <2> SUFFICES ASSUME job # NoJob
               PROVE  /\ job \in [phase: {"arrived", "checked", "refused"}, snapshot: 1..Len(snapshots'),
                                  status: Statuses, received: 0..now']
                      /\ dispatches'[s] # NoDispatch
    BY <1>3 DEF JobTyped
  <2>1. job \in [phase: {"arrived", "checked", "refused"}, snapshot: 1..Len(snapshots),
                 status: Statuses, received: 0..now]
    BY <1>1 DEF JobTyped
  <2>2. 0..now \subseteq 0..now' /\ 1..Len(snapshots) \subseteq 1..Len(snapshots')
    BY <1>1 DEF Grows
  <2> QED BY <1>2, <2>1, <2>2
<1>4. CASE JobKept
  <2>1. job' = job /\ authority' = authority /\ lastSequence' = lastSequence /\ lastMove' = lastMove
        /\ epoch' = epoch /\ bundle' = bundle
    BY <1>4 DEF JobKept
  <2>2. Deciding => job # NoJob
    BY DEF Deciding, NoJob
  <2>3. JobCurrent'
    BY <1>1, <1>2, <2>1, <2>2 DEF JobCurrent, Deciding
  <2> QED BY <1>3, <2>1, <2>3
<1>5. CASE JobWaits
  BY <1>3, <1>5 DEF JobWaits, JobCurrent, Deciding
<1>6. CASE JobDone
  BY <1>6 DEF JobDone, JobTyped, JobCurrent, Deciding, NoJob
<1>7. CASE JobArrives
  <2>1. PICK r \in SnapshotIds, status \in Statuses : Arrive(r, status)
    BY <1>7 DEF JobArrives
  <2>2. /\ job' = [phase |-> "arrived", snapshot |-> r, status |-> status, received |-> now]
        /\ dispatches[r] # NoDispatch /\ UNCHANGED <<now, snapshots, dispatches>>
    BY <2>1 DEF Arrive, snapshotVars, recordVars
  <2>3. JobTyped'
    BY <1>1, <2>2 DEF JobTyped
  <2>4. JobCurrent'
    BY <2>2 DEF JobCurrent, Deciding
  <2> QED BY <2>3, <2>4
<1>8. CASE JobDecided
  <2>1. /\ job.phase = "arrived" /\ ~Superseded(s) /\ authority = "on"
        /\ job' = [job EXCEPT !.phase = IF Timely(s) THEN "checked" ELSE "refused"]
        /\ UNCHANGED <<snapshotVars, authority, lastSequence, lastMove>>
    BY <1>8 DEF JobDecided, DecideResult, Discard
  <2>2. job # NoJob
    BY <2>1 DEF NoJob
  <2>3. /\ job \in [phase: {"arrived", "checked", "refused"}, snapshot: 1..Len(snapshots),
                    status: Statuses, received: 0..now]
        /\ dispatches[s] # NoDispatch
    BY <1>1, <2>2 DEF JobTyped
  <2>4. /\ job'.phase \in {"checked", "refused"} /\ job'.snapshot = s
        /\ job'.status = job.status /\ job'.received = job.received
        /\ job' \in [phase: {"arrived", "checked", "refused"}, snapshot: 1..Len(snapshots),
                     status: Statuses, received: 0..now]
        /\ job'.phase = "checked" => Timely(s)
    BY <2>1, <2>3
  <2>5. UNCHANGED <<now, epoch, bundle, snapshots, dispatches>>
    BY <2>1 DEF snapshotVars, contextVars, recordVars
  <2>6. JobTyped'
    BY <2>3, <2>4, <2>5 DEF JobTyped
  <2>7. dispatches[s].command > lastSequence /\ s > lastMove
        /\ snapshots[s].epoch = epoch /\ snapshots[s].bundle = bundle
    <3>1. /\ ~(dispatches[s].command <= lastSequence) /\ ~(s <= lastMove)
          /\ snapshots[s].epoch = epoch /\ snapshots[s].bundle = bundle
      BY <2>1 DEF Superseded
    <3>2. /\ s \in Nat /\ lastMove \in Nat /\ lastSequence \in Nat
          /\ dispatches[s].command \in Nat
      BY <1>2, <2>2, PathNumbers, PathRecords
    <3> QED BY <3>1, <3>2
  <2> HIDE DEF s
  <2>8. JobCurrent'
    BY <2>1, <2>4, <2>5, <2>7 DEF JobCurrent, Timely
  <2> QED BY <2>6, <2>8
<1> QED BY <1>4, <1>5, <1>6, <1>7, <1>8, JobStepKinds

LEMMA TargetStep == ASSUME PathInv, [PathNext]_pathVars PROVE TargetAccepted'
<1>1. Grows /\ TargetAccepted
  BY PathRecordsStep DEF PathInv, GatePart
<1>2. ASSUME target' \in {target, NoTarget} PROVE TargetAccepted'
  <2> SUFFICES ASSUME target' # NoTarget PROVE TargetAccepted'
    BY DEF TargetAccepted
  <2>1. PICK s \in 1..Len(snapshots) : /\ dispatches[s].command = target.command
                                       /\ target.accepted < snapshots[s].expires
    BY <1>1, <1>2 DEF TargetAccepted
  <2>2. dispatches[s] # NoDispatch
    <3>1. target.command # 0
      BY <1>2 DEF PathInv, PlantInv, PlantTypeOK, Target, Commands
    <3> QED BY <2>1, <3>1 DEF NoDispatch
  <2> QED BY <1>1, <1>2, <2>1, <2>2 DEF Grows, TargetAccepted
<1>3. CASE Finishes /\ StillValid(job.snapshot) /\ AcceptMove(job.snapshot)
  <2>1. target' \in {target, AcceptedTarget(job.snapshot)} /\ UNCHANGED recordVars
    BY <1>3 DEF AcceptMove, Accepted, Apply, commandVars
  <2>2. CASE target' = AcceptedTarget(job.snapshot)
    <3>1. /\ job.snapshot \in 1..Len(snapshots) /\ now < snapshots[job.snapshot].expires
          /\ target'.command = dispatches[job.snapshot].command /\ target'.accepted = now
      BY <1>3, <2>2, DecidingCurrent DEF Finishes, StillValid, AcceptedTarget
    <3> QED BY <2>1, <3>1 DEF TargetAccepted, recordVars
  <2> QED BY <1>2, <2>1, <2>2
<1>4. Stop => target' \in {target, NoTarget}
  BY DEF Stop, Halt
<1>5. CASE Finishes /\ ~AcceptMove(job.snapshot)
  BY <1>2, <1>4, <1>5 DEF Finishes, Discard, Reject, LocalHold, AcceptHold, plantVars, commandVars
<1>6. CASE Quiet \/ Grant \/ DecideResult \/ Withdraw \/ \E s \in SnapshotIds, status \in Statuses : Arrive(s, status)
  BY <1>2, <1>4, <1>6 DEF Quiet, Grant, DecideResult, Discard, Withdraw, LocalHold, Arrive, plantVars, commandVars
<1>7. CASE Finishes /\ AcceptMove(job.snapshot) /\ ~StillValid(job.snapshot)
  BY <1>2, <1>4, <1>7 DEF Finishes, Discard, Reject, LocalHold, plantVars, commandVars
<1> QED BY <1>3, <1>5, <1>6, <1>7, PathStepKinds

LEMMA GateStep == ASSUME PathInv, [PathNext]_pathVars PROVE GatePart'
<1>1. PlantTypeOK'
  BY PathPartsStep DEF PlantInv
<1>2. authority' \in {"off", "on", "closed"}
  <2>1. authority \in {"off", "on", "closed"}
    BY DEF PathInv, GatePart, PathTypeOK
  <2>2. CASE Quiet \/ Grant \/ DecideResult \/ Withdraw \/ \E s \in SnapshotIds, status \in Statuses : Arrive(s, status)
    BY <2>1, <2>2 DEF Quiet, gateVars, Grant, DecideResult, Discard, Withdraw, Arrive
  <2>3. CASE Finishes
    BY <2>1, <2>3 DEF Finishes, Discard, Reject, AcceptMove, AcceptHold
  <2> QED BY <2>2, <2>3, PathStepKinds
<1>3. PathTypeOK'
  BY <1>1, <1>2, OrderStep DEF PathTypeOK
<1> QED BY <1>3, OrderStep, JobStep, TargetStep DEF GatePart

LEMMA PathInvInit == PathInit => PathInv
<1> SUFFICES ASSUME PathInit PROVE PathInv
  OBVIOUS
<1>1. /\ SnapshotInv /\ PlantInv
      /\ snapshots = <<>> /\ dispatches = <<>> /\ commandSeq = 0 /\ previous.command = 0
      /\ target = NoTarget /\ authority = "off" /\ lastSequence = 0 /\ lastMove = 0 /\ job = NoJob
      /\ epoch = 0
  BY SnapshotInvInit, PlantInvInit DEF PathInit, SnapshotInit, PlantInit, NoCommand, AcceptedAt
<1>2. Len(snapshots) = 0 /\ 1..Len(snapshots) = {}
  BY <1>1
<1>3. RecordPart
  BY <1>2 DEF RecordPart, SnapshotsSampled, DispatchesOwned
<1>4. CommandsBounded
  <2>1. Pending = 0 /\ Closed = 0
    BY <1>1, <1>2 DEF Pending, Closed
  <2> QED BY <1>1, <1>2, <2>1, TimingAssumption DEF CommandsBounded
<1>5. PathTypeOK
  <2>1. PlantTypeOK
    BY <1>1 DEF PlantInv
  <2> QED BY <1>1, <1>2, <2>1 DEF PathTypeOK
<1>6. GateInOrder /\ JobTyped /\ JobCurrent /\ TargetAccepted
  BY <1>1 DEF GateInOrder, JobTyped, JobCurrent, TargetAccepted, Deciding, NoJob
<1> QED BY <1>1, <1>3, <1>4, <1>5, <1>6 DEF PathInv, GatePart

LEMMA PathInvStep == PathInv /\ [PathNext]_pathVars => PathInv'
  BY PathPartsStep, PathRecordsStep, PathCommandsStep, GateStep DEF PathInv, RecordPart

LEMMA PathInvariance == PathSpec => []PathInv
  BY PathInvInit, PathInvStep, PTL DEF PathSpec

-----------------------------------------------------------------------------
(* What the path guarantees.                                                 *)

\* Plant and gate keep their types; the last command accepted was numbered by the
\* coordinator and no move accepted is newer (gate.py _accepted).
THEOREM PathTypes == PathSpec => []PathTypeOK
<1>1. PathInv => PathTypeOK
  BY DEF PathInv, GatePart
<1> QED BY <1>1, PathInvariance, PTL

\* However the gate's own holds come in between, a dispatch keeps its budgets and a
\* selection its lineage (snapshots.py dispatch, assemble).
THEOREM PathKeepsRecords == PathSpec => [](DispatchValidity /\ SelectionLineage)
<1>1. PathInv => DispatchValidity /\ SelectionLineage
  BY DEF PathInv, SnapshotInv
<1> QED BY <1>1, PathInvariance, PTL

\* The gate takes a result of the worker only at the end of a decision, while its
\* snapshot is valid, and a move only if it passed the checks.
LEMMA AcceptsFinish ==
  ASSUME PathInv, [PathNext]_pathVars, Accepts
  PROVE  /\ Deciding /\ StillValid(job.snapshot)
         /\ job.status = "move" => job.phase = "checked"
<1>1. /\ job # NoJob /\ lastSequence' # lastSequence
      /\ lastSequence' = dispatches[job.snapshot].command
  BY DEF Accepts
<1>2. ~LocalHold
  <2>1. job.snapshot \in 1..Len(snapshots)
    BY <1>1 DEF PathInv, GatePart, JobTyped
  <2>2. dispatches[job.snapshot].command \in Nat /\ dispatches[job.snapshot].command <= commandSeq
    BY <2>1, PathRecords
  <2>3. LocalHold => lastSequence' = commandSeq + 1
    BY DEF LocalHold, AllocateLocal
  <2> QED BY <1>1, <2>2, <2>3, PathNumbers
<1>3. Finishes
  BY <1>1, <1>2, PathStepKinds DEF Quiet, gateVars, Grant, DecideResult, Discard, Withdraw, Arrive
<1> QED BY <1>1, <1>2, <1>3 DEF Finishes, Discard, Reject

\* The coordinator never refuses an acceptance that the adapter carried out already
\* (gate.py submit, _accepted; snapshots.py _record_acceptance).
THEOREM AcceptancesRecorded == PathSpec => AcceptedIsRecorded
<1>1. PathInv /\ [PathNext]_pathVars => [Accepts => AcceptanceInOrder(job.snapshot, now)]_pathVars
  BY AcceptsFinish, AcceptanceRecorded
<1> QED BY <1>1, PathInvariance, PTL DEF PathSpec, AcceptedIsRecorded

\* What is in time for a deadline is within the budgets that the deadline keeps.
LEMMA InTime ==
  ASSUME NEW received \in Nat, NEW deadline \in Nat, NEW dispatched \in Nat, NEW expires \in Nat,
         received < deadline, deadline <= dispatched + Budget, deadline + Transport <= expires
  PROVE  received < dispatched + Budget /\ received + Transport < expires
  BY TimingAssumption

\* A move accepted arrived within the solve budget of its first dispatch and with the
\* allowance for its transport left (snapshots.py dispatch; gate.py submit).
THEOREM MovesInBudget == PathSpec => AcceptedInBudget
<1>1. ASSUME PathInv, [PathNext]_pathVars, Accepts, job.status = "move"
      PROVE  /\ job.received < dispatches[job.snapshot].dispatched + Budget
             /\ job.received + Transport < snapshots[job.snapshot].expires
  <2> DEFINE s == job.snapshot
  <2>1. Deciding /\ job.phase = "checked"
    BY <1>1, AcceptsFinish
  <2>2. s \in 1..Len(snapshots) /\ dispatches[s] # NoDispatch /\ job.received \in Nat
        /\ job.received < dispatches[s].deadline
    <3>1. job # NoJob /\ job.received \in 0..now
      BY <1>1 DEF Accepts, PathInv, GatePart, JobTyped
    <3> QED BY <1>1, <2>1, <3>1, DecidingCurrent DEF PathInv, GatePart, JobCurrent
  <2>3. /\ dispatches[s].deadline <= dispatches[s].dispatched + Budget
        /\ dispatches[s].deadline + Transport <= snapshots[s].created + MaxAge
    BY <1>1, <2>2, PathNumbers DEF PathInv, SnapshotInv, DispatchValidity
  <2>4. /\ dispatches[s].deadline \in Nat /\ dispatches[s].dispatched \in Nat
        /\ snapshots[s].created \in Nat /\ snapshots[s].expires = snapshots[s].created + MaxAge
    BY <1>1, <2>2, PathRecords
  <2> HIDE DEF s
  <2>5. snapshots[s].expires \in Nat /\ dispatches[s].deadline + Transport <= snapshots[s].expires
    BY <2>3, <2>4, TimingAssumption
  <2>6. /\ job.received < dispatches[s].dispatched + Budget
        /\ job.received + Transport < snapshots[s].expires
    BY <2>2, <2>3, <2>4, <2>5, InTime
  <2> QED BY <2>6 DEF s
<1>2. PathInv /\ [PathNext]_pathVars =>
        [Accepts /\ job.status = "move" =>
           LET s == job.snapshot IN
           /\ job.received < dispatches[s].dispatched + Budget
           /\ job.received + Transport < snapshots[s].expires]_pathVars
  BY <1>1
<1> QED BY <1>2, PathInvariance, PTL DEF PathSpec, AcceptedInBudget

\* The command in the plant names its snapshot, as no other dispatch has its number.
LEMMA TargetNamesSnapshot ==
  ASSUME PathInv, target # NoTarget
  PROVE  /\ TargetSnapshot \in 1..Len(snapshots)
         /\ target.accepted < snapshots[TargetSnapshot].expires
<1>1. PICK s \in 1..Len(snapshots) : /\ dispatches[s].command = target.command
                                     /\ target.accepted < snapshots[s].expires
  BY DEF PathInv, GatePart, TargetAccepted
<1>2. target.command # 0
  BY DEF PathInv, PlantInv, PlantTypeOK, Target, Commands
<1>3. \A r \in 1..Len(snapshots) : dispatches[r].command = target.command => r = s
  BY <1>1, <1>2 DEF PathInv, RecordPart, DispatchesOwned, NoDispatch
<1>4. TargetSnapshot = s
  BY <1>1, <1>3, PathNumbers DEF TargetSnapshot
<1> QED BY <1>1, <1>4

\* The ages between sample, snapshot, acceptance and motion add up.
LEMMA AgesAddUp ==
  ASSUME NEW sampled \in Nat, NEW created \in Nat, NEW accepted \in Nat, NEW moved \in Nat,
         NEW timeout \in Nat,
         created <= sampled + timeout, accepted < created + MaxAge, moved < accepted + Horizon
  PROVE  moved - sampled < timeout + MaxAge + Horizon - 1
  BY TimingAssumption

\* From sample to motion the ages add up to no more than their budgets, whatever was
\* delayed, repeated or retried (snapshots.py assemble, dispatch; gate.py submit;
\* plant.py advance).
THEOREM MotionIsFresh == PathSpec => MotionAge
<1>1. ASSUME PathInv, [PathNext]_pathVars, position' # position
      PROVE  /\ now - snapshots[TargetSnapshot].joystick < JoystickTimeout + MaxAge + Horizon - 1
             /\ now - snapshots[TargetSnapshot].robotState < RobotStateTimeout + MaxAge + Horizon - 1
  <2> DEFINE s == TargetSnapshot
  <2>1. PlantInv /\ PlantTypeOK
    BY <1>1 DEF PathInv, PlantInv
  <2>2. target # NoTarget /\ now < target.expires
    BY <1>1, <2>1, PathPlantStep, MovesAreSteps
  <2>3. target.accepted \in Nat /\ target.expires = target.accepted + Horizon
    BY <2>1, <2>2 DEF PlantInv, TargetDated, PlantTypeOK, Target, Times
  <2>4. s \in 1..Len(snapshots) /\ target.accepted < snapshots[s].expires
    BY <1>1, <2>2, TargetNamesSnapshot
  <2>5. /\ snapshots[s].created \in Nat /\ snapshots[s].joystick \in Nat
        /\ snapshots[s].robotState \in Nat
        /\ snapshots[s].expires = snapshots[s].created + MaxAge
    BY <1>1, <2>4, PathRecords
  <2>6. /\ snapshots[s].created <= snapshots[s].joystick + JoystickTimeout
        /\ snapshots[s].created <= snapshots[s].robotState + RobotStateTimeout
    BY <1>1, <2>4 DEF PathInv, RecordPart, SnapshotsSampled, SnapshotSampled
  <2>7. now \in Nat
    BY <1>1, PathNumbers
  <2> HIDE DEF s
  <2>8. target.accepted < snapshots[s].created + MaxAge /\ now < target.accepted + Horizon
    BY <2>2, <2>3, <2>4, <2>5
  <2>9. /\ now - snapshots[s].joystick < JoystickTimeout + MaxAge + Horizon - 1
        /\ now - snapshots[s].robotState < RobotStateTimeout + MaxAge + Horizon - 1
    BY <2>3, <2>5, <2>6, <2>7, <2>8, AgesAddUp, TimingAssumption
  <2> QED BY <2>9 DEF s
<1>2. PathInv /\ [PathNext]_pathVars =>
        [position' # position =>
           LET snapshot == snapshots[TargetSnapshot] IN
           /\ now - snapshot.joystick < JoystickTimeout + MaxAge + Horizon - 1
           /\ now - snapshot.robotState < RobotStateTimeout + MaxAge + Horizon - 1]_pathVars
  BY <1>1
<1> QED BY <1>2, PathInvariance, PTL DEF PathSpec, MotionAge

\* Seen from the plant, the coordinator and the gate are but one caller of many: what
\* is proved of the plant by itself holds in the path (loop.py; plant.py).
THEOREM PathUsesPlant == PathSpec => PlantSpec
<1>1. PathInit => PlantInit
  BY DEF PathInit
<1>2. PathInv /\ [PathNext]_pathVars => [PlantNext]_plantVars
  BY PathPlantStep
<1> QED BY <1>1, <1>2, PathInvariance, PTL DEF PathSpec, PlantSpec

\* So the path drives its plant as an adapter, within the horizon of its last command
\* (gate.py submit; plant.py apply, stop, advance).
THEOREM PathKeepsAdapter == PathSpec => ImplementsAdapter /\ MotionWithinHorizon /\ []FeedbackHonest
  BY PathUsesPlant, PlantIsAdapter, MotionIsDated, FeedbackIsHonest
=============================================================================
