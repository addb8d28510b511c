--------------------------- MODULE SnapshotProofs ---------------------------
(***************************************************************************)
(* Proofs about the timing of snapshots, for every age, budget, allowance  *)
(* and number of snapshots, contexts and epochs: their types, that every   *)
(* dispatch keeps the budgets it was given first, and that a selection is  *)
(* passed on only within its context and epoch.                            *)
(***************************************************************************)
EXTENDS SnapshotTiming, Integers, TLAPS

USE ClockAssumption, TimingAssumption DEF Times

-----------------------------------------------------------------------------
(* The inductive invariant.                                                  *)

SnapshotRecord == [created: Nat, expires: Nat, epoch: Nat, bundle: Nat, joystick: Nat,
                   robotState: Nat, eligible: BOOLEAN, selection: Nat]
DispatchRecord == [command: Nat, dispatched: Nat, deadline: Nat]

RecordTypes ==
  /\ snapshots \in Seq(SnapshotRecord) /\ dispatches \in Seq(DispatchRecord)
  /\ Len(dispatches) = Len(snapshots)

\* A snapshot was made in the past and lasts as long as a command may be old.
SnapshotDated(s) ==
  /\ snapshots[s].created <= now
  /\ snapshots[s].expires = snapshots[s].created + MaxAge

SnapshotsDated == \A s \in 1..Len(snapshots) : SnapshotDated(s)

DispatchesNumbered == \A s \in 1..Len(dispatches) : dispatches[s].command <= commandSeq

SnapshotInv ==
  /\ SnapshotTypeOK /\ RecordTypes
  /\ SnapshotsDated /\ DispatchesNumbered /\ DispatchValidity /\ SelectionLineage

LEMMA RecordFields ==
  ASSUME RecordTypes
  PROVE  \A s \in 1..Len(snapshots) :
           /\ snapshots[s].created \in Nat /\ snapshots[s].expires \in Nat /\ snapshots[s].selection \in Nat
           /\ dispatches[s].command \in Nat
<1>1. \A s \in 1..Len(snapshots) : snapshots[s] \in SnapshotRecord /\ dispatches[s] \in DispatchRecord
  BY DEF RecordTypes
<1> QED
  BY <1>1 DEF SnapshotRecord, DispatchRecord

-----------------------------------------------------------------------------
(* What the steps do to the records.                                         *)

\* Assembly appends, dispatch changes one record, nothing else touches them.
AppendsRecord ==
  /\ bundle # 0
  /\ selection' = Retained
  /\ \E created \in SnapshotRecord :
       /\ created.created = now /\ created.expires = now + MaxAge
       /\ created.epoch = epoch /\ created.bundle = bundle /\ created.selection = Retained
       /\ created.joystick = joystick.sampled /\ created.robotState = robotState.sampled
       /\ snapshots' = Append(snapshots, created)
  /\ InputsFresh /\ Len(snapshots) < MaxSnapshots
  /\ dispatches' = Append(dispatches, NoDispatch)
  /\ UNCHANGED <<now, joystick, epoch, commandSeq>>

DispatchesOne ==
  /\ \E s \in 1..Len(snapshots) : FirstDispatch(s)
  /\ UNCHANGED <<now, joystick, epoch, snapshots, selection>>

KeepsRecords == UNCHANGED recordVars /\ now' >= now /\ commandSeq' >= commandSeq

LEMMA RetainedInRange ==
  ASSUME SnapshotInv
  PROVE  /\ Retained \in 0..Len(snapshots)
         /\ Retained # 0 => Retained = selection /\ snapshots[Retained].bundle = bundle
                             /\ snapshots[Retained].epoch = epoch
  BY DEF SnapshotInv, SnapshotTypeOK, Retained, RecordTypes

LEMMA Assembles ==
  ASSUME SnapshotInv, Assemble
  PROVE  AppendsRecord
<1> DEFINE created == [created |-> now, expires |-> now + MaxAge, epoch |-> epoch, bundle |-> bundle,
                       joystick |-> joystick.sampled, robotState |-> robotState.sampled,
                       eligible |-> joystick.enabled, selection |-> Retained]
<1>1. /\ now \in Nat /\ epoch \in Nat /\ bundle \in Nat
      /\ joystick.sampled \in Nat /\ robotState.sampled \in Nat /\ joystick.enabled \in BOOLEAN
  BY DEF SnapshotInv, SnapshotTypeOK, SampleType
<1>2. Retained \in Nat
  BY RetainedInRange DEF SnapshotInv, RecordTypes
<1>3. created \in SnapshotRecord
  <2>1. now + MaxAge \in Nat
    BY <1>1
  <2> QED
    BY <1>1, <1>2, <2>1 DEF SnapshotRecord
<1>4. snapshots' = Append(snapshots, created)
  BY DEF Assemble
<1> QED
  BY <1>3, <1>4 DEF Assemble, AppendsRecord, inputVars, contextVars

LEMMA StepRecords ==
  ASSUME SnapshotInv, [SnapshotNext]_snapshotVars
  PROVE  AppendsRecord \/ DispatchesOne \/ KeepsRecords
<1>1. now \in Nat /\ commandSeq \in Nat /\ SnapshotIds = 1..Len(snapshots)
  BY DEF SnapshotInv, SnapshotTypeOK, RecordTypes, SnapshotIds
<1>2. CASE Inputs
  <2>1. UNCHANGED <<now, commandSeq, recordVars>>
    BY <1>2 DEF Inputs, ReceiveJoystick, ReceiveRobotState
  <2> QED
    BY <1>1, <2>1 DEF KeepsRecords
<1>3. CASE ReplaceContext
  BY <1>1, <1>3 DEF ReplaceContext, KeepsRecords
<1>4. CASE Assemble
  BY <1>4, Assembles
<1>5. ASSUME NEW s \in SnapshotIds, DispatchSnapshot(s)
      PROVE  DispatchesOne \/ KeepsRecords
  BY <1>1, <1>5 DEF DispatchSnapshot, Retry, DispatchesOne, KeepsRecords, inputVars, contextVars, recordVars
<1>6. ASSUME NEW s \in SnapshotIds, RecordSelection(s)
      PROVE  KeepsRecords
  BY <1>1, <1>6 DEF RecordSelection, KeepsRecords
<1>7. CASE Acceptances
  BY <1>1, <1>7 DEF Acceptances, RecordAcceptance, KeepsRecords
<1>8. CASE Withdrawal
  BY <1>1, <1>8 DEF Withdrawal, AllocateLocal, KeepsRecords
<1>9. CASE Time
  BY <1>1, <1>9 DEF Time, Elapse, KeepsRecords
<1>10. CASE UNCHANGED snapshotVars
  BY <1>1, <1>10 DEF snapshotVars, KeepsRecords
<1> QED
  BY <1>2, <1>3, <1>4, <1>5, <1>6, <1>7, <1>8, <1>9, <1>10 DEF SnapshotNext, Records

-----------------------------------------------------------------------------
(* Types.                                                                    *)

LEMMA TypesStep ==
  ASSUME SnapshotInv, [SnapshotNext]_snapshotVars
  PROVE  SnapshotTypeOK'
<1> DEFINE InputTypes == /\ joystick \in SampleType /\ robotState \in SampleType
                         /\ joystick.sampled <= now /\ robotState.sampled <= now
           ContextTypes == epoch \in 0..MaxEpochs /\ activations \in 0..MaxContexts /\ bundle \in {0, activations}
           RecordLengths == Len(dispatches) = Len(snapshots) /\ selection \in 0..Len(snapshots)
           CommandTypes == commandSeq \in Nat /\ previous \in [command: 0..commandSeq, at: 0..now]
<1>1. /\ now \in Times /\ InputTypes /\ ContextTypes /\ RecordLengths /\ CommandTypes
      /\ RecordTypes /\ SnapshotIds = 1..Len(snapshots)
  BY DEF SnapshotInv, SnapshotTypeOK, RecordTypes, SnapshotIds
<1>2. SUFFICES now' \in Times /\ InputTypes' /\ ContextTypes' /\ RecordLengths' /\ CommandTypes'
  BY DEF SnapshotTypeOK
<1>3. ASSUME NEW sampled \in Times, NEW enabled \in BOOLEAN,
             ReceiveJoystick(sampled, enabled) \/ ReceiveRobotState(sampled)
      PROVE  SnapshotTypeOK'
  <2>1. Sampled(sampled, enabled) \in SampleType /\ Sampled(sampled, FALSE) \in SampleType
        /\ Sampled(sampled, enabled).sampled = sampled /\ Sampled(sampled, FALSE).sampled = sampled
    BY DEF Sampled, SampleType
  <2>2. InputTypes'
    <3>1. now' = now /\ sampled <= now
      BY <1>3 DEF ReceiveJoystick, ReceiveRobotState
    <3>2. \/ joystick' = Sampled(sampled, enabled) /\ robotState' = robotState
          \/ robotState' = Sampled(sampled, FALSE) /\ joystick' = joystick
      BY <1>3 DEF ReceiveJoystick, ReceiveRobotState
    <3> QED
      BY <1>1, <2>1, <3>1, <3>2
  <2>3. ContextTypes' /\ RecordLengths' /\ CommandTypes' /\ now' \in Times
    <3>1. UNCHANGED <<now, contextVars, recordVars, commandSeq, previous>>
      BY <1>3 DEF ReceiveJoystick, ReceiveRobotState
    <3>2. selection' \in {selection, 0}
      BY <1>3 DEF ReceiveJoystick, ReceiveRobotState
    <3> QED
      BY <1>1, <3>1, <3>2 DEF contextVars, recordVars
  <2> QED
    BY <2>2, <2>3 DEF SnapshotTypeOK
<1>4. CASE ReplaceContext
  BY <1>1, <1>4 DEF ReplaceContext, inputVars, recordVars
<1>5. CASE Assemble
  <2>1. now' \in Times /\ InputTypes' /\ ContextTypes' /\ CommandTypes'
    BY <1>1, <1>5 DEF Assemble, inputVars, contextVars
  <2>2. /\ Retained \in 0..Len(snapshots) /\ selection' = Retained
        /\ Len(snapshots') = Len(snapshots) + 1 /\ Len(dispatches') = Len(dispatches) + 1
    BY <1>1, <1>5, RetainedInRange DEF Assemble, RecordTypes
  <2> QED
    BY <1>1, <2>1, <2>2 DEF RecordTypes
<1>6. ASSUME NEW s \in SnapshotIds, DispatchSnapshot(s)
      PROVE  SnapshotTypeOK'
  <2>1. now' \in Times /\ InputTypes' /\ ContextTypes'
    BY <1>1, <1>6 DEF DispatchSnapshot, inputVars, contextVars
  <2>2. RecordLengths'
    BY <1>1, <1>6 DEF DispatchSnapshot, FirstDispatch, Retry, RecordTypes
  <2>3. CommandTypes'
    <3>1. commandSeq' \in {commandSeq, commandSeq + 1} /\ UNCHANGED <<previous, now>>
      BY <1>6 DEF DispatchSnapshot, FirstDispatch, Retry
    <3> QED
      BY <1>1, <3>1
  <2> QED
    BY <2>1, <2>2, <2>3 DEF SnapshotTypeOK
<1>7. ASSUME NEW s \in SnapshotIds, RecordSelection(s)
      PROVE  SnapshotTypeOK'
  <2>1. now' \in Times /\ InputTypes' /\ ContextTypes' /\ RecordLengths' /\ CommandTypes'
    BY <1>1, <1>7 DEF RecordSelection, inputVars, contextVars, recordVars
  <2> QED
    BY <2>1 DEF SnapshotTypeOK
<1>8. ASSUME NEW s \in SnapshotIds, NEW checked \in Times, RecordAcceptance(s, checked)
      PROVE  SnapshotTypeOK'
  <2>1. now' \in Times /\ InputTypes' /\ ContextTypes' /\ RecordLengths'
    BY <1>1, <1>8 DEF RecordAcceptance, inputVars, contextVars, recordVars
  <2>2. dispatches[s].command \in 0..commandSeq
    <3>1. s \in 1..Len(dispatches) /\ dispatches[s].command \in Nat
      BY <1>1, RecordFields
    <3> QED
      BY <1>1, <3>1 DEF SnapshotInv, DispatchesNumbered
  <2>3. checked \in 0..now
    BY <1>1, <1>8 DEF RecordAcceptance, AcceptanceInOrder
  <2>4. CommandTypes'
    BY <1>1, <1>8, <2>2, <2>3 DEF RecordAcceptance, AcceptedAt
  <2> QED
    BY <2>1, <2>4 DEF SnapshotTypeOK
<1>9. CASE Withdrawal
  <2>1. now' \in Times /\ InputTypes' /\ ContextTypes' /\ RecordLengths'
    BY <1>1, <1>9 DEF Withdrawal, AdvanceEpoch, inputVars, recordVars, RecordTypes
  <2>2. /\ commandSeq' = commandSeq + 1 /\ now' = now
        /\ previous' = AcceptedAt(commandSeq', now) \/ previous' = previous
    BY <1>9 DEF Withdrawal, AllocateLocal
  <2>3. CommandTypes'
    BY <1>1, <2>2 DEF AcceptedAt
  <2> QED
    BY <2>1, <2>3
<1>10. CASE Time
  <2>1. now' = now + 1 /\ now' \in Times
    BY <1>1, <1>10 DEF Time, Elapse
  <2>2. InputTypes'
    BY <1>1, <1>10, <2>1 DEF Time, inputVars, SampleType
  <2>3. ContextTypes' /\ RecordLengths'
    BY <1>1, <1>10 DEF Time, contextVars, recordVars
  <2>4. CommandTypes'
    BY <1>1, <1>10, <2>1 DEF Time
  <2> QED
    BY <2>1, <2>2, <2>3, <2>4
<1>11. CASE UNCHANGED snapshotVars
  BY <1>1, <1>11 DEF snapshotVars, inputVars, contextVars, recordVars
<1>12. SnapshotTypeOK' => now' \in Times /\ InputTypes' /\ ContextTypes' /\ RecordLengths' /\ CommandTypes'
  BY DEF SnapshotTypeOK
<1> QED
  BY <1>3, <1>4, <1>5, <1>6, <1>7, <1>8, <1>9, <1>10, <1>11, <1>12 DEF SnapshotNext, Inputs, Records, Acceptances

-----------------------------------------------------------------------------
(* Records, budgets.                                                         *)

\* The earlier of two times is one of them and not after either.
LEMMA EarlierOfTwo ==
  ASSUME NEW t \in Int, NEW u \in Int
  PROVE  Earlier(t, u) \in Int /\ Earlier(t, u) <= t /\ Earlier(t, u) <= u
<1>1. CASE t <= u
  BY <1>1 DEF Earlier
<1>2. CASE ~(t <= u)
  BY <1>2 DEF Earlier
<1> QED
  BY <1>1, <1>2

\* The deadline that a first dispatch sets is within both budgets.
LEMMA DeadlineInBudgets ==
  ASSUME SnapshotInv, NEW s \in 1..Len(snapshots), now < SolveDeadline(s)
  PROVE  /\ SolveDeadline(s) \in Nat
         /\ SolveDeadline(s) <= now + Budget
         /\ SolveDeadline(s) + Transport <= snapshots[s].created + MaxAge
<1>1. /\ now \in Nat /\ snapshots[s].created \in Nat /\ snapshots[s].expires \in Nat
      /\ snapshots[s].expires = snapshots[s].created + MaxAge
  BY RecordFields DEF SnapshotInv, SnapshotTypeOK, SnapshotsDated, SnapshotDated
<1>2. now + Budget \in Int /\ snapshots[s].expires - Transport \in Int
  BY <1>1, TimingAssumption
<1>3. /\ SolveDeadline(s) <= now + Budget /\ SolveDeadline(s) <= snapshots[s].expires - Transport
      /\ SolveDeadline(s) \in Int
  BY <1>2, EarlierOfTwo DEF SolveDeadline
<1> QED
  BY <1>1, <1>2, <1>3, TimingAssumption

LEMMA RecordsStep ==
  ASSUME SnapshotInv, [SnapshotNext]_snapshotVars
  PROVE  RecordTypes' /\ SnapshotsDated' /\ DispatchesNumbered' /\ DispatchValidity'
<1>1. /\ RecordTypes /\ SnapshotsDated /\ DispatchesNumbered /\ DispatchValidity
      /\ now \in Nat /\ commandSeq \in Nat
  BY DEF SnapshotInv, SnapshotTypeOK
<1>2. SnapshotIds = 1..Len(snapshots)
  BY <1>1 DEF SnapshotIds, RecordTypes
<1>3. CASE AppendsRecord
  <2>1. PICK created \in SnapshotRecord :
          /\ created.created = now /\ created.expires = now + MaxAge
          /\ snapshots' = Append(snapshots, created)
    BY <1>3 DEF AppendsRecord
  <2>2. dispatches' = Append(dispatches, NoDispatch) /\ UNCHANGED <<now, commandSeq>>
    BY <1>3 DEF AppendsRecord
  <2>3. NoDispatch \in DispatchRecord /\ NoDispatch.command = 0
    BY DEF NoDispatch, DispatchRecord
  <2>4. RecordTypes'
    BY <1>1, <2>1, <2>2, <2>3 DEF RecordTypes
  <2>5. /\ Len(snapshots') = Len(snapshots) + 1 /\ Len(dispatches') = Len(snapshots')
        /\ \A s \in 1..Len(snapshots) : snapshots'[s] = snapshots[s] /\ dispatches'[s] = dispatches[s]
        /\ snapshots'[Len(snapshots')] = created /\ dispatches'[Len(snapshots')] = NoDispatch
        /\ \A s \in 1..Len(snapshots') : s \in 1..Len(snapshots) \/ s = Len(snapshots')
    BY <1>1, <2>1, <2>2 DEF RecordTypes
  <2>6. SnapshotsDated'
    BY <1>1, <2>1, <2>2, <2>5 DEF SnapshotsDated, SnapshotDated
  <2>7. DispatchesNumbered'
    BY <1>1, <2>2, <2>3, <2>5 DEF DispatchesNumbered, RecordTypes
  <2>8. DispatchValidity'
    <3>1. SnapshotIds' = 1..Len(snapshots')
      BY <2>4 DEF SnapshotIds, RecordTypes
    <3> QED
      BY <1>1, <1>2, <2>5, <3>1 DEF DispatchValidity
  <2> QED
    BY <2>4, <2>6, <2>7, <2>8
<1>4. CASE DispatchesOne
  <2>1. PICK s \in 1..Len(snapshots) : FirstDispatch(s)
    BY <1>4 DEF DispatchesOne
  <2> DEFINE record == [command |-> commandSeq + 1, dispatched |-> now, deadline |-> SolveDeadline(s)]
  <2>2. /\ now < SolveDeadline(s) /\ commandSeq' = commandSeq + 1
        /\ dispatches' = [dispatches EXCEPT ![s] = record]
        /\ UNCHANGED <<now, snapshots>>
    BY <1>4, <2>1 DEF FirstDispatch, DispatchesOne
  <2>3. /\ SolveDeadline(s) \in Nat /\ SolveDeadline(s) <= now + Budget
        /\ SolveDeadline(s) + Transport <= snapshots[s].created + MaxAge
    BY <2>2, DeadlineInBudgets
  <2>4. record \in DispatchRecord
    BY <1>1, <2>3 DEF DispatchRecord
  <2> HIDE DEF record
  <2>5. /\ dispatches' \in Seq(DispatchRecord) /\ Len(dispatches') = Len(dispatches)
        /\ dispatches'[s] = record
        /\ \A r \in 1..Len(snapshots) : r # s => dispatches'[r] = dispatches[r]
    BY <1>1, <2>2, <2>4 DEF RecordTypes
  <2>6. RecordTypes' /\ SnapshotsDated'
    BY <1>1, <2>2, <2>5 DEF RecordTypes, SnapshotsDated, SnapshotDated
  <2>7. DispatchesNumbered'
    <3>1. record.command = commandSeq'
      BY <2>2 DEF record
    <3>2. \A r \in 1..Len(dispatches) : dispatches[r].command \in Nat /\ dispatches[r].command <= commandSeq
      BY <1>1, RecordFields DEF DispatchesNumbered, RecordTypes
    <3> QED
      BY <1>1, <2>2, <2>5, <3>1, <3>2 DEF DispatchesNumbered, RecordTypes
  <2>8. DispatchValidity'
    <3>1. SnapshotIds' = SnapshotIds
      BY <2>2 DEF SnapshotIds
    <3>2. snapshots[s].created <= now
      BY <1>1 DEF SnapshotsDated, SnapshotDated
    <3>3. record.dispatched = now /\ record.deadline = SolveDeadline(s)
      BY DEF record
    <3> QED
      BY <1>1, <1>2, <2>2, <2>3, <2>5, <3>1, <3>2, <3>3 DEF DispatchValidity
  <2> QED
    BY <2>6, <2>7, <2>8
<1>5. CASE KeepsRecords
  <2>1. UNCHANGED <<snapshots, dispatches>> /\ now' >= now /\ commandSeq' >= commandSeq
    BY <1>5 DEF KeepsRecords, recordVars
  <2>2. now' \in Nat /\ commandSeq' \in Nat
    BY TypesStep DEF SnapshotTypeOK
  <2>3. \A s \in 1..Len(snapshots) : snapshots[s].created \in Nat /\ dispatches[s].command \in Nat
    BY <1>1, RecordFields
  <2>4. RecordTypes'
    BY <1>1, <2>1 DEF RecordTypes
  <2>5. SnapshotsDated'
    BY <1>1, <2>1, <2>2, <2>3 DEF SnapshotsDated, SnapshotDated
  <2>6. DispatchesNumbered'
    BY <1>1, <2>1, <2>2, <2>3 DEF DispatchesNumbered, RecordTypes
  <2>7. DispatchValidity'
    BY <1>1, <2>1 DEF DispatchValidity, SnapshotIds
  <2> QED
    BY <2>4, <2>5, <2>6, <2>7
<1> QED
  BY <1>3, <1>4, <1>5, StepRecords

-----------------------------------------------------------------------------
(* Selections.                                                               *)

\* Which selections the snapshots refer to.
Passed(records) ==
  \A s \in 1..Len(records) : LET k == records[s].selection IN
    k # 0 => k < s /\ records[k].bundle = records[s].bundle /\ records[k].epoch = records[s].epoch

\* The selection retained for the next snapshot.
RetainedCurrent == selection # 0 => joystick.enabled /\ snapshots[selection].epoch = epoch

LEMMA RetainedStep ==
  ASSUME SnapshotInv, [SnapshotNext]_snapshotVars
  PROVE  RetainedCurrent'
<1>1. /\ RetainedCurrent /\ RecordTypes /\ selection \in 0..Len(snapshots)
      /\ SnapshotIds = 1..Len(snapshots)
  BY DEF SnapshotInv, SnapshotTypeOK, RecordTypes, SnapshotIds, SelectionLineage, RetainedCurrent
<1>2. CASE Inputs
  BY <1>1, <1>2 DEF Inputs, ReceiveJoystick, ReceiveRobotState, RetainedCurrent, Sampled, contextVars, recordVars
<1>3. CASE ReplaceContext
  BY <1>1, <1>3 DEF ReplaceContext, RetainedCurrent, inputVars, recordVars
<1>4. CASE Assemble
  <2>1. AppendsRecord
    BY <1>4, Assembles
  <2>2. \A k \in 1..Len(snapshots) : snapshots'[k] = snapshots[k]
    BY <1>1, <2>1 DEF AppendsRecord, RecordTypes
  <2>3. selection' = Retained /\ UNCHANGED <<joystick, epoch>>
    BY <2>1 DEF AppendsRecord
  <2>4. selection' # 0 => selection' = selection
    BY <2>3, RetainedInRange
  <2> QED
    BY <1>1, <2>2, <2>3, <2>4 DEF RetainedCurrent
<1>5. ASSUME NEW s \in SnapshotIds, DispatchSnapshot(s)
      PROVE  RetainedCurrent'
  BY <1>1, <1>5 DEF DispatchSnapshot, RetainedCurrent, inputVars, contextVars
<1>6. ASSUME NEW s \in SnapshotIds, RecordSelection(s)
      PROVE  RetainedCurrent'
  BY <1>1, <1>6 DEF RecordSelection, RetainedCurrent, inputVars, contextVars, recordVars
<1>7. CASE Acceptances
  BY <1>1, <1>7 DEF Acceptances, RecordAcceptance, RetainedCurrent, inputVars, contextVars, recordVars
<1>8. CASE Withdrawal
  BY <1>8 DEF Withdrawal, AdvanceEpoch, RetainedCurrent
<1>9. CASE Time \/ UNCHANGED snapshotVars
  BY <1>1, <1>9 DEF Time, snapshotVars, RetainedCurrent, inputVars, contextVars, recordVars
<1> QED
  BY <1>2, <1>3, <1>4, <1>5, <1>6, <1>7, <1>8, <1>9 DEF SnapshotNext, Records

LEMMA PassedStep ==
  ASSUME SnapshotInv, [SnapshotNext]_snapshotVars
  PROVE  Passed(snapshots')
<1>1. /\ Passed(snapshots) /\ RecordTypes
  BY DEF SnapshotInv, RecordTypes, SnapshotIds, SelectionLineage, Passed
<1>2. CASE UNCHANGED snapshots
  BY <1>1, <1>2
<1>3. CASE AppendsRecord
  <2>1. PICK created \in SnapshotRecord :
          /\ created.epoch = epoch /\ created.bundle = bundle /\ created.selection = Retained
          /\ snapshots' = Append(snapshots, created)
    BY <1>3 DEF AppendsRecord
  <2>2. /\ Len(snapshots') = Len(snapshots) + 1 /\ Len(snapshots) \in Nat
        /\ \A s \in 1..Len(snapshots) : snapshots'[s] = snapshots[s] /\ snapshots[s].selection \in Nat
        /\ snapshots'[Len(snapshots')] = created
    BY <1>1, <2>1, RecordFields DEF RecordTypes
  <2>3. ASSUME NEW s \in 1..Len(snapshots'), snapshots'[s].selection # 0
        PROVE  LET k == snapshots'[s].selection IN
               k < s /\ snapshots'[k].bundle = snapshots'[s].bundle /\ snapshots'[k].epoch = snapshots'[s].epoch
    <3>1. CASE s = Len(snapshots')
      <4>1. snapshots'[s] = created /\ Retained # 0 /\ Retained \in 1..Len(snapshots)
        BY <2>1, <2>2, <2>3, <3>1, RetainedInRange
      <4>2. snapshots'[Retained].bundle = bundle /\ snapshots'[Retained].epoch = epoch
        BY <2>2, <4>1, RetainedInRange
      <4> QED
        BY <2>1, <2>2, <3>1, <4>1, <4>2
    <3>2. CASE s # Len(snapshots')
      <4>1. s \in 1..Len(snapshots) /\ snapshots'[s] = snapshots[s]
        BY <2>2, <3>2
      <4>2. snapshots[s].selection \in 1..Len(snapshots)
        BY <1>1, <2>2, <2>3, <4>1 DEF Passed
      <4> QED
        BY <1>1, <2>2, <2>3, <4>1, <4>2 DEF Passed
    <3> QED
      BY <3>1, <3>2
  <2> QED
    BY <2>3 DEF Passed
<1> QED
  BY <1>2, <1>3, StepRecords DEF DispatchesOne, KeepsRecords, recordVars

-----------------------------------------------------------------------------

LEMMA SnapshotInvInit == SnapshotInit => SnapshotInv
<1> SUFFICES ASSUME SnapshotInit PROVE SnapshotInv
  OBVIOUS
<1>1. /\ now = 0 /\ joystick = Missing /\ robotState = Missing
      /\ snapshots = <<>> /\ dispatches = <<>> /\ selection = 0
      /\ commandSeq = 0 /\ previous = [command |-> 0, at |-> 0]
      /\ epoch = 0 /\ bundle = 0 /\ activations = 0
  BY DEF SnapshotInit, NoCommand, AcceptedAt
<1>2. Missing \in SampleType /\ Missing.sampled = 0
  BY DEF Missing, SampleType
<1>3. SnapshotTypeOK
  BY <1>1, <1>2 DEF SnapshotTypeOK
<1>4. RecordTypes /\ SnapshotsDated /\ DispatchesNumbered
  BY <1>1 DEF RecordTypes, SnapshotsDated, DispatchesNumbered
<1>5. SnapshotIds = {}
  BY <1>1 DEF SnapshotIds
<1>6. DispatchValidity /\ SelectionLineage
  BY <1>1, <1>5 DEF DispatchValidity, SelectionLineage
<1> QED
  BY <1>3, <1>4, <1>6 DEF SnapshotInv

LEMMA SnapshotInvStep == SnapshotInv /\ [SnapshotNext]_snapshotVars => SnapshotInv'
<1> SUFFICES ASSUME SnapshotInv, [SnapshotNext]_snapshotVars
             PROVE  SnapshotInv'
  OBVIOUS
<1>1. SnapshotTypeOK' /\ RecordTypes' /\ SnapshotsDated' /\ DispatchesNumbered' /\ DispatchValidity'
  BY TypesStep, RecordsStep
<1>2. SelectionLineage'
  <2>1. SnapshotIds' = 1..Len(snapshots')
    BY <1>1 DEF RecordTypes, SnapshotIds
  <2>2. Passed(snapshots') /\ RetainedCurrent'
    BY PassedStep, RetainedStep
  <2> QED
    BY <2>1, <2>2 DEF SelectionLineage, Passed, RetainedCurrent
<1> QED
  BY <1>1, <1>2 DEF SnapshotInv

LEMMA SnapshotInvariance == SnapshotSpec => []SnapshotInv
  BY SnapshotInvInit, SnapshotInvStep, PTL DEF SnapshotSpec

\* Every variable of the coordinator keeps its type, and no sample is newer than the
\* clock (snapshots.py receive).
THEOREM SnapshotTypes == SnapshotSpec => []SnapshotTypeOK
<1>1. SnapshotInv => SnapshotTypeOK
  BY DEF SnapshotInv
<1> QED
  BY <1>1, SnapshotInvariance, PTL

\* However late or often a snapshot is dispatched, its dispatch keeps the solve budget
\* and the expiry it was given first (snapshots.py dispatch).
THEOREM DispatchesKeepBudgets == SnapshotSpec => []DispatchValidity
<1>1. SnapshotInv => DispatchValidity
  BY DEF SnapshotInv
<1> QED
  BY <1>1, SnapshotInvariance, PTL

\* A snapshot refers only to selections of earlier snapshots of its own context and
\* epoch (snapshots.py assemble, record_selection, set_control_epoch).
THEOREM SelectionsKeepLineage == SnapshotSpec => []SelectionLineage
<1>1. SnapshotInv => SelectionLineage
  BY DEF SnapshotInv
<1> QED
  BY <1>1, SnapshotInvariance, PTL
=============================================================================
