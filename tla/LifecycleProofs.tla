--------------------------- MODULE LifecycleProofs ---------------------------
(***************************************************************************)
(* Type correctness of the runtime: TypeOK is inductive.  One lemma per    *)
(* action and per operator the actions share, each about the groups of     *)
(* variables (LifeTypeOK, EngageTypeOK, ...) it assigns.                   *)
(***************************************************************************)
EXTENDS Lifecycle, TLAPS

USE DEF lifeVars, engageVars, authVars, seqVars, dispatchVars, inputVars, storeVars,
        prepVars, adapterVars, workerVars

\* Closing the gate and moving the epoch on keeps both typed.
LEMMA RevokeTypes ==
  ASSUME TypeOK, NEW ready \in BOOLEAN, Revoke(ready)
  PROVE  AuthTypeOK'
  BY DEF TypeOK, LifeTypeOK, AuthTypeOK, Revoke

\* A local hold allocates a sequence number and leaves the adapter typed.
LEMMA LocalHoldTypes ==
  ASSUME TypeOK, NEW s \in Sessions, NEW h \in Halts, LocalHold(s, h)
  PROVE  SeqTypeOK' /\ AdapterTypeOK'
  BY DEF TypeOK, SeqTypeOK, AdapterTypeOK, LocalHold, AdapterHalts, Halts

\* Forgetting the engagement keeps its variables and the dispatches typed.
LEMMA DisengageTypes ==
  ASSUME TypeOK, Disengage, granting' = granting, UNCHANGED dispatchVars
  PROVE  EngageTypeOK' /\ DispatchTypeOK'
<1>0. engagedBundle' \in 0..MaxAttempt
  BY BoundsAssumption DEF Disengage
<1>1. armed' \in BOOLEAN /\ seen' \in BOOLEAN /\ newer' \in BOOLEAN
  BY DEF Disengage
<1>2. granting' \in [source: Sources, bundle: Attempts] \union {NoGrant}
  BY DEF TypeOK, EngageTypeOK
<1>3. DispatchTypeOK'
  BY DEF TypeOK, DispatchTypeOK, Disengage
<1> QED BY <1>0, <1>1, <1>2, <1>3 DEF EngageTypeOK

\* A withdrawal ends in a state of the lifecycle.
LEMMA SettleTypes ==
  ASSUME TypeOK, NEW to \in States, NEW failed \in BOOLEAN, NEW ready \in BOOLEAN,
         Settle(to, failed, ready)
  PROVE  /\ state' \in States /\ faultCleared' \in BOOLEAN /\ controllerReady' \in BOOLEAN
  BY DEF TypeOK, LifeTypeOK, Settle, States

\* The causes a withdrawal leaves behind are causes.
LEMMA BlameTypes ==
  ASSUME TypeOK, NEW causes \in SUBSET Causes, Blame(causes)
  PROVE  pauseCauses' \subseteq Causes /\ computationReady' \in BOOLEAN
  BY DEF TypeOK, LifeTypeOK, Blame

\* A withdrawal keeps every group of variables it assigns typed.
LEMMA WithdrawTypes ==
  ASSUME TypeOK, NEW to \in States, NEW causes \in SUBSET Causes, NEW ready \in BOOLEAN,
         NEW h \in Halts, Withdraw(to, causes, ready, h),
         UNCHANGED <<session, granting, dispatchVars>>, attempt' \in 0..MaxAttempt
  PROVE  LifeTypeOK' /\ EngageTypeOK' /\ AuthTypeOK' /\ SeqTypeOK' /\ DispatchTypeOK' /\ AdapterTypeOK'
<1>1. session \in Sessions /\ Failed(h) \in BOOLEAN
  BY DEF TypeOK, LifeTypeOK, Failed
<1>2. EngageTypeOK' /\ DispatchTypeOK'
  BY DisengageTypes DEF Withdraw
<1>3. AuthTypeOK' /\ SeqTypeOK' /\ AdapterTypeOK'
  BY <1>1, RevokeTypes, LocalHoldTypes DEF Withdraw
<1>4. LifeTypeOK'
  BY <1>1, SettleTypes, BlameTypes DEF Withdraw, LifeTypeOK, TypeOK
<1> QED BY <1>2, <1>3, <1>4

\* So does a pause, and it leaves the store and the threads alone.
LEMMA PauseTypes ==
  ASSUME TypeOK, NEW causes \in SUBSET Causes, NEW ready \in BOOLEAN, Pause(causes, ready)
  PROVE  /\ LifeTypeOK' /\ EngageTypeOK' /\ AuthTypeOK' /\ SeqTypeOK' /\ DispatchTypeOK'
         /\ AdapterTypeOK' /\ StoreTypeOK' /\ WorkerTypeOK'
<1>1. PICK h \in Halts : Withdraw("PAUSED", causes, ready, h)
  BY DEF Pause
<1>2. UNCHANGED <<session, granting, dispatchVars>> /\ attempt' \in 0..MaxAttempt
  BY DEF Pause, KeepsAfterWithdrawal, TypeOK, LifeTypeOK
<1>3. "PAUSED" \in States
  BY DEF States
<1>4. StoreTypeOK' /\ WorkerTypeOK'
  BY DEF Pause, KeepsAfterWithdrawal, TypeOK, StoreTypeOK, WorkerTypeOK
<1> QED BY <1>1, <1>2, <1>3, <1>4, WithdrawTypes

\* Entering READY, with the newest joystick sample at hand.
LEMMA EnterReadyTypes ==
  ASSUME TypeOK, EnterReady
  PROVE  state' \in States /\ seen' \in BOOLEAN /\ armed' \in BOOLEAN
  BY DEF EnterReady, States, TypeOK, InputTypeOK

\* A recovery from PAUSED to READY.
LEMMA RecoverTypes ==
  ASSUME TypeOK, Recover, computationReady' \in BOOLEAN
  PROVE  /\ LifeTypeOK' /\ EngageTypeOK' /\ AuthTypeOK' /\ SeqTypeOK' /\ DispatchTypeOK'
         /\ AdapterTypeOK' /\ StoreTypeOK' /\ WorkerTypeOK'
<1>1. LifeTypeOK'
  BY EnterReadyTypes DEF Recover, TypeOK, LifeTypeOK
<1>2. EngageTypeOK'
  BY EnterReadyTypes DEF Recover, TypeOK, EngageTypeOK
<1>3. AuthTypeOK' /\ SeqTypeOK' /\ DispatchTypeOK'
  BY DEF Recover, TypeOK, AuthTypeOK, SeqTypeOK, DispatchTypeOK
<1>4. AdapterTypeOK' /\ StoreTypeOK' /\ WorkerTypeOK'
  BY DEF Recover, TypeOK, AdapterTypeOK, StoreTypeOK, WorkerTypeOK
<1> QED BY <1>1, <1>2, <1>3, <1>4

\* The reception of a sample.
LEMMA ReceiveTypes == ASSUME NEW src \in Sources, TypeOK, Receive(src) PROVE TypeOK'
<1>1. InputTypeOK'
  <2>1. inputPc' \in [Sources -> 0..MaxSession]
    BY BoundsAssumption DEF TypeOK, Receive, InputTypeOK, LifeTypeOK, Sessions
  <2> QED BY <2>1 DEF TypeOK, Receive, RobotStates, InputTypeOK
<1>2. EngageTypeOK'
  <2>1. granting' \in [source: Sources, bundle: Attempts] \union {NoGrant}
    BY DEF TypeOK, Receive, EngageTypeOK
  <2> QED BY <2>1 DEF TypeOK, Receive, EngageTypeOK
<1> QED BY <1>1, <1>2 DEF TypeOK, Receive, LifeTypeOK, AuthTypeOK, SeqTypeOK, DispatchTypeOK, StoreTypeOK, AdapterTypeOK, WorkerTypeOK

\* What the checks of inputs, watchdog and dispatch blame is a cause.
LEMMA CausesTypes ==
  /\ SourceCause \in SUBSET Causes /\ InputCause \in SUBSET Causes
  /\ WatchdogCause \in SUBSET Causes /\ ReadyCause \in SUBSET Causes
  /\ DispatchCause \in SUBSET Causes /\ {"computation"} \in SUBSET Causes
  BY DEF SourceCause, InputCause, WatchdogCause, ReadyCause, DispatchCause, Causes

\* A thread that is done with its sample.
LEMMA IdleTypes ==
  ASSUME TypeOK, NEW src \in Sources, Idle(src), UNCHANGED <<inputVars, idle>>
  PROVE  InputTypeOK'
<1>1. inputPc' \in [Sources -> 0..MaxSession]
  BY BoundsAssumption DEF TypeOK, InputTypeOK, Idle
<1> QED BY <1>1 DEF TypeOK, InputTypeOK

\* A sample processed while READY.
LEMMA ReadyInputTypes ==
  ASSUME TypeOK, NEW src \in Sources, ReadyInput(src),
         UNCHANGED <<engagedBundle, newer, inputVars, idle>>
  PROVE  EngageTypeOK' /\ InputTypeOK'
<1>1. CASE active = 0 \/ joy = "none" \/ seen
  <2>1. InputTypeOK'
    BY <1>1, IdleTypes DEF ReadyInput, Idle
  <2>2. EngageTypeOK'
    BY <1>1 DEF TypeOK, EngageTypeOK, ReadyInput
  <2> QED BY <2>1, <2>2
<1>2. CASE ~(active = 0 \/ joy = "none" \/ seen)
  <2>1. seen' \in BOOLEAN
    BY <1>2 DEF ReadyInput
  <2>2. armed' \in BOOLEAN
    BY <1>2 DEF ReadyInput, TypeOK, InputTypeOK, EngageTypeOK
  <2>3. active \in Attempts
    BY <1>2, BoundsAssumption DEF TypeOK, StoreTypeOK, Attempts
  <2>4. CASE joy = "moving" /\ armed /\ ~EngagementRefused
    <3>1. granting' = [source |-> src, bundle |-> active] /\ UNCHANGED inputPc
      BY <1>2, <2>4 DEF ReadyInput
    <3>2. InputTypeOK'
      BY <3>1 DEF TypeOK, InputTypeOK
    <3>3. granting' \in [source: Sources, bundle: Attempts]
      BY <3>1, <2>3
    <3> QED BY <2>1, <2>2, <3>2, <3>3 DEF TypeOK, EngageTypeOK
  <2>5. CASE ~(joy = "moving" /\ armed /\ ~EngagementRefused)
    <3>1. UNCHANGED granting /\ Idle(src)
      BY <1>2, <2>5 DEF ReadyInput, Idle
    <3>2. InputTypeOK'
      BY <3>1, IdleTypes
    <3> QED BY <2>1, <2>2, <3>1, <3>2 DEF TypeOK, EngageTypeOK
  <2> QED BY <2>4, <2>5
<1> QED BY <1>1, <1>2

\* A received sample, in whatever state it is processed.
LEMMA ProcessInputTypes == ASSUME TypeOK, NEW src \in Sources, ProcessInput(src) PROVE TypeOK'
<1>1. CASE /\ Idle(src)
           /\ UNCHANGED <<lifeVars, attempt, engageVars, granting, authVars, seqVars,
                          dispatchVars, inputVars, idle, storeVars, prepVars, adapterVars,
                          workerVars>>
  <2>1. InputTypeOK'
    BY <1>1, IdleTypes
  <2>2. LifeTypeOK' /\ EngageTypeOK' /\ AuthTypeOK' /\ SeqTypeOK'
    BY <1>1 DEF TypeOK, LifeTypeOK, EngageTypeOK, AuthTypeOK, SeqTypeOK
  <2>3. DispatchTypeOK' /\ StoreTypeOK' /\ AdapterTypeOK' /\ WorkerTypeOK'
    BY <1>1 DEF TypeOK, DispatchTypeOK, StoreTypeOK, AdapterTypeOK, WorkerTypeOK
  <2> QED BY <2>1, <2>2, <2>3 DEF TypeOK
<1>2. CASE Pause(InputCause, controllerReady) /\ Idle(src)
  <2>1. InputTypeOK'
    BY <1>2, IdleTypes DEF Pause, KeepsAfterWithdrawal
  <2>2. controllerReady \in BOOLEAN
    BY DEF TypeOK, LifeTypeOK
  <2> QED BY <1>2, <2>1, <2>2, PauseTypes, CausesTypes DEF TypeOK
<1>3. CASE Recover /\ Idle(src) /\ UNCHANGED computationReady
  <2>1. InputTypeOK'
    BY <1>3, IdleTypes DEF Recover
  <2>2. computationReady' \in BOOLEAN
    BY <1>3 DEF TypeOK, LifeTypeOK
  <2> QED BY <1>3, <2>1, <2>2, RecoverTypes DEF TypeOK
<1>4. CASE /\ ReadyInput(src)
           /\ UNCHANGED <<lifeVars, attempt, engagedBundle, newer, outstanding, authVars,
                          seqVars, dispatchVars, inputVars, idle, storeVars, prepVars,
                          adapterVars, workerVars>>
  <2>1. EngageTypeOK' /\ InputTypeOK'
    BY <1>4, ReadyInputTypes
  <2>2. LifeTypeOK' /\ AuthTypeOK' /\ SeqTypeOK' /\ DispatchTypeOK'
    BY <1>4 DEF TypeOK, LifeTypeOK, AuthTypeOK, SeqTypeOK, DispatchTypeOK
  <2>3. StoreTypeOK' /\ AdapterTypeOK' /\ WorkerTypeOK'
    BY <1>4 DEF TypeOK, StoreTypeOK, AdapterTypeOK, WorkerTypeOK
  <2> QED BY <2>1, <2>2, <2>3 DEF TypeOK
<1> QED BY <1>1, <1>2, <1>3, <1>4 DEF ProcessInput

\* The grant: the gate is opened with the current epoch.
LEMMA GrantTypes == ASSUME TypeOK, Grant PROVE TypeOK'
<1>1. granting \in [source: Sources, bundle: Attempts] /\ granting.source \in Sources
  BY DEF Grant, TypeOK, EngageTypeOK
<1>2. InputTypeOK'
  <2>1. inputPc' \in [Sources -> 0..MaxSession]
    BY <1>1, BoundsAssumption DEF Grant, Idle, TypeOK, InputTypeOK
  <2>2. idle' \in BOOLEAN
    BY DEF Grant, TypeOK, InputTypeOK
  <2> QED BY <2>1, <2>2 DEF Grant, TypeOK, InputTypeOK
<1>3. EngageTypeOK'
  <2>1. granting' = NoGrant /\ engagedBundle' \in {active, engagedBundle}
    BY DEF Grant
  <2>2. engagedBundle' \in 0..MaxAttempt
    BY <2>1 DEF TypeOK, EngageTypeOK, StoreTypeOK
  <2>3. armed' \in BOOLEAN /\ seen' \in BOOLEAN /\ newer' \in BOOLEAN
    BY DEF Grant, TypeOK, EngageTypeOK
  <2> QED BY <2>1, <2>2, <2>3 DEF EngageTypeOK
<1>4. AuthTypeOK'
  BY DEF Grant, TypeOK, AuthTypeOK, LifeTypeOK
<1>5. LifeTypeOK'
  BY DEF Grant, TypeOK, LifeTypeOK, States
<1>6. DispatchTypeOK'
  BY DEF Grant, TypeOK, DispatchTypeOK
<1>7. SeqTypeOK' /\ StoreTypeOK' /\ AdapterTypeOK' /\ WorkerTypeOK'
  BY DEF Grant, TypeOK, SeqTypeOK, StoreTypeOK, AdapterTypeOK, WorkerTypeOK
<1> QED BY <1>2, <1>3, <1>4, <1>5, <1>6, <1>7 DEF TypeOK

\* The watchdog.
LEMMA TickTypes == ASSUME TypeOK, Tick PROVE TypeOK'
<1>1. controllerReady \in BOOLEAN /\ computationReady \in BOOLEAN
  BY DEF TypeOK, LifeTypeOK
<1>2. InputTypeOK'
  BY DEF Tick, Pause, Recover, KeepsAfterWithdrawal, TypeOK, InputTypeOK
<1>3. CASE Pause(WatchdogCause, controllerReady)
  BY <1>1, <1>2, <1>3, PauseTypes, CausesTypes DEF TypeOK
<1>4. CASE Pause(ReadyCause, controllerReady)
  BY <1>1, <1>2, <1>4, PauseTypes, CausesTypes DEF TypeOK
<1>5. CASE Recover /\ UNCHANGED computationReady
  BY <1>1, <1>2, <1>5, RecoverTypes DEF TypeOK
<1> QED BY <1>3, <1>4, <1>5 DEF Tick

\* A dispatch gets the next sequence number, or the cycle withdraws.
LEMMA DispatchCycleTypes == ASSUME TypeOK, DispatchCycle PROVE TypeOK'
<1>1. controllerReady \in BOOLEAN
  BY DEF TypeOK, LifeTypeOK
<1>2. InputTypeOK'
  BY DEF DispatchCycle, Pause, KeepsAfterWithdrawal, TypeOK, InputTypeOK
<1>3. CASE Pause(DispatchCause, controllerReady)
  BY <1>1, <1>2, <1>3, PauseTypes, CausesTypes DEF TypeOK
<1>4. CASE Pause({"computation"}, controllerReady)
  BY <1>1, <1>2, <1>4, PauseTypes, CausesTypes DEF TypeOK
<1>5. CASE ~Pause(DispatchCause, controllerReady) /\ ~Pause({"computation"}, controllerReady)
  <2> DEFINE d == [session |-> session, epoch |-> epoch[session],
                   seq |-> cmdSeq[session] + 1, bundle |-> active]
  <2>1. active # 0
    BY <1>5 DEF DispatchCycle, DispatchCause
  <2>2. active \in Attempts
    BY <2>1, BoundsAssumption DEF TypeOK, StoreTypeOK, Attempts
  <2>3. session \in Sessions /\ epoch[session] \in Nat /\ cmdSeq[session] \in Nat
    BY DEF TypeOK, LifeTypeOK, AuthTypeOK, SeqTypeOK
  <2>4. d \in Dispatch
    BY <2>2, <2>3 DEF Dispatch
  <2>5. /\ dispatched' = dispatched \union {d} /\ outstanding' = outstanding \union {d}
        /\ UNCHANGED <<late, expired>>
    BY <1>5 DEF DispatchCycle
  <2>6. DispatchTypeOK'
    BY <2>4, <2>5 DEF TypeOK, DispatchTypeOK
  <2>7. SeqTypeOK'
    BY <1>5, <2>3 DEF DispatchCycle, TypeOK, SeqTypeOK
  <2>8. LifeTypeOK' /\ EngageTypeOK' /\ AuthTypeOK'
    BY <1>5 DEF DispatchCycle, TypeOK, LifeTypeOK, EngageTypeOK, AuthTypeOK
  <2>9. StoreTypeOK' /\ AdapterTypeOK' /\ WorkerTypeOK'
    BY <1>5 DEF DispatchCycle, TypeOK, StoreTypeOK, AdapterTypeOK, WorkerTypeOK
  <2> QED BY <1>2, <2>6, <2>7, <2>8, <2>9 DEF TypeOK
<1> QED BY <1>3, <1>4, <1>5

\* A delivering thread leaves the gate with a decision.
LEMMA DecidedTypes ==
  ASSUME TypeOK, NEW w \in Workers, pc[w] = "submitted",
         NEW disposition \in Dispositions, NEW request \in Requests, NEW cause \in Causes,
         Decided(w, disposition, request, cause)
  PROVE  WorkerTypeOK'
<1>1. job[w] \in Submission
  BY DEF TypeOK, WorkerTypeOK
<1> DEFINE decision == [result |-> job[w].result, session |-> job[w].session,
                        epoch |-> job[w].epoch, disposition |-> disposition,
                        request |-> request, cause |-> cause]
<1>2. decision \in Decision
  BY <1>1 DEF Submission, Decision
<1>3. job' = [job EXCEPT ![w] = decision] /\ pc' = [pc EXCEPT ![w] = "decided"]
  BY DEF Decided
<1> HIDE DEF decision
<1> QED BY <1>2, <1>3 DEF TypeOK, WorkerTypeOK

\* A delivering thread enters with a submission.
LEMMA SubmitResultTypes == ASSUME TypeOK, NEW w \in Workers, SubmitResult(w) PROVE TypeOK'
<1>1. PICK d \in dispatched, c \in Contents :
        job' = [job EXCEPT ![w] = [result |-> d, content |-> c, late |-> d \in late,
                                   session |-> session, epoch |-> epoch[session]]]
  BY DEF SubmitResult
<1> DEFINE submission == [result |-> d, content |-> c, late |-> d \in late,
                          session |-> session, epoch |-> epoch[session]]
<1>2. d \in Dispatch /\ session \in Sessions /\ epoch[session] \in Nat
  BY DEF TypeOK, DispatchTypeOK, LifeTypeOK, AuthTypeOK
<1>3. submission \in Submission
  BY <1>2 DEF Submission
<1>4. job' = [job EXCEPT ![w] = submission] /\ pc' = [pc EXCEPT ![w] = "submitted"]
  BY <1>1 DEF SubmitResult
<1> HIDE DEF submission
<1>5. WorkerTypeOK'
  BY <1>3, <1>4 DEF TypeOK, WorkerTypeOK
<1>6. LifeTypeOK' /\ EngageTypeOK' /\ AuthTypeOK' /\ SeqTypeOK' /\ DispatchTypeOK'
  BY DEF SubmitResult, TypeOK, LifeTypeOK, EngageTypeOK, AuthTypeOK, SeqTypeOK, DispatchTypeOK
<1>7. InputTypeOK' /\ StoreTypeOK' /\ AdapterTypeOK'
  BY DEF SubmitResult, TypeOK, InputTypeOK, StoreTypeOK, AdapterTypeOK
<1> QED BY <1>5, <1>6, <1>7 DEF TypeOK

\* The gate's rejection of a current result.
LEMMA RejectCurrentTypes ==
  ASSUME TypeOK, NEW w \in Workers, pc[w] = "submitted", NEW cause \in Causes,
         NEW fault \in BOOLEAN, RejectCurrent(w, cause, fault), UNCHANGED <<epoch, authEpoch, gateReady>>
  PROVE  /\ WorkerTypeOK' /\ SeqTypeOK' /\ AdapterTypeOK' /\ AuthTypeOK' /\ idle' \in BOOLEAN
<1>1. PICK h \in Halts :
        /\ enabled' = [enabled EXCEPT ![job[w].session] = FALSE]
        /\ LocalHold(job[w].session, h)
        /\ Decided(w, "rejected", IF fault \/ Failed(h) THEN "FAULT" ELSE "PAUSED", cause)
        /\ UNCHANGED idle
  BY DEF RejectCurrent
<1>2. job[w].session \in Sessions
  BY DEF TypeOK, WorkerTypeOK, Submission
<1>3. SeqTypeOK' /\ AdapterTypeOK'
  BY <1>1, <1>2, LocalHoldTypes
<1>4. AuthTypeOK' /\ idle' \in BOOLEAN
  BY <1>1 DEF TypeOK, AuthTypeOK, InputTypeOK
<1>5. /\ "rejected" \in Dispositions
      /\ (IF fault \/ Failed(h) THEN "FAULT" ELSE "PAUSED") \in Requests
  BY DEF Dispositions, Requests
<1>6. WorkerTypeOK'
  BY <1>1, <1>5, DecidedTypes
<1> QED BY <1>3, <1>4, <1>6

\* The gate's acceptance of a hold.
LEMMA AcceptHoldTypes ==
  ASSUME TypeOK, NEW w \in Workers, pc[w] = "submitted", AcceptHold(w),
         UNCHANGED <<epoch, authEpoch, gateReady>>
  PROVE  /\ WorkerTypeOK' /\ SeqTypeOK' /\ AdapterTypeOK' /\ AuthTypeOK' /\ idle' \in BOOLEAN
<1>1. PICK h \in Halts :
        /\ enabled' = [enabled EXCEPT ![job[w].session] = FALSE]
        /\ AdapterHalts(h)
        /\ UNCHANGED cmdSeq
        /\ IF Failed(h)
           THEN /\ Decided(w, "adapter_failure", "FAULT", "computation")
                /\ UNCHANGED <<lastSeq, idle>>
           ELSE /\ Decided(w, "accepted_hold", "PAUSED", "computation")
                /\ lastSeq' = [lastSeq EXCEPT ![job[w].session] = job[w].result.seq]
                /\ idle' = FALSE
  BY DEF AcceptHold
<1>2. job[w].session \in Sessions /\ job[w].result.seq \in Nat
  BY DEF TypeOK, WorkerTypeOK, Submission, Dispatch
<1>3. AdapterTypeOK'
  BY <1>1 DEF TypeOK, AdapterTypeOK, AdapterHalts, Halts
<1>4. AuthTypeOK' /\ idle' \in BOOLEAN
  BY <1>1 DEF TypeOK, AuthTypeOK, InputTypeOK
<1>5. SeqTypeOK'
  BY <1>1, <1>2 DEF TypeOK, SeqTypeOK
<1>6. /\ {"adapter_failure", "accepted_hold"} \subseteq Dispositions
      /\ {"FAULT", "PAUSED"} \subseteq Requests /\ "computation" \in Causes
  BY DEF Dispositions, Requests, Causes
<1>7. WorkerTypeOK'
  BY <1>1, <1>6, DecidedTypes
<1> QED BY <1>3, <1>4, <1>5, <1>7

\* The gate's acceptance of a step.
LEMMA AcceptMoveTypes ==
  ASSUME TypeOK, NEW w \in Workers, pc[w] = "submitted", AcceptMove(w),
         UNCHANGED <<epoch, authEpoch, gateReady>>
  PROVE  /\ WorkerTypeOK' /\ SeqTypeOK' /\ AdapterTypeOK' /\ AuthTypeOK' /\ idle' \in BOOLEAN
<1> DEFINE d == job[w].result
<1>1. job[w].session \in Sessions /\ d.seq \in Nat /\ d.epoch \in Nat
  BY DEF TypeOK, WorkerTypeOK, Submission, Dispatch
<1>2. target' = [session |-> job[w].session, epoch |-> d.epoch, seq |-> d.seq] /\ haltFailed' = FALSE
  BY DEF AcceptMove
<1>3. AdapterTypeOK'
  BY <1>1, <1>2 DEF AdapterTypeOK, Target
<1>4. AuthTypeOK' /\ idle' \in BOOLEAN
  BY DEF AcceptMove, TypeOK, AuthTypeOK
<1>5. SeqTypeOK'
  BY <1>1 DEF AcceptMove, TypeOK, SeqTypeOK
<1>6. "accepted_move" \in Dispositions /\ "none" \in Requests /\ "computation" \in Causes
  BY DEF Dispositions, Requests, Causes
<1>7. WorkerTypeOK'
  BY <1>6, DecidedTypes DEF AcceptMove
<1> QED BY <1>3, <1>4, <1>5, <1>7

\* The command transaction of CommandGate.submit.
LEMMA DecideTypes == ASSUME TypeOK, NEW w \in Workers, Decide(w) PROVE TypeOK'
<1>1. /\ pc[w] = "submitted"
      /\ UNCHANGED <<lifeVars, attempt, engageVars, granting, epoch, authEpoch, gateReady,
                     dispatchVars, inputVars, storeVars, prepVars, inputPc>>
  BY DEF Decide
<1>2. LifeTypeOK' /\ EngageTypeOK' /\ DispatchTypeOK' /\ StoreTypeOK'
  BY <1>1 DEF TypeOK, LifeTypeOK, EngageTypeOK, DispatchTypeOK, StoreTypeOK
<1>3. idle' \in BOOLEAN => InputTypeOK'
  BY <1>1 DEF TypeOK, InputTypeOK
<1>4. "computation" \in Causes /\ "input" \in Causes /\ "host_rejection" \in Causes
  BY DEF Causes
<1>5. CASE \E v \in Causes, fault \in BOOLEAN : RejectCurrent(w, v, fault)
  BY <1>1, <1>2, <1>3, <1>5, RejectCurrentTypes DEF TypeOK
<1>6. CASE AcceptHold(w)
  BY <1>1, <1>2, <1>3, <1>6, AcceptHoldTypes DEF TypeOK
<1>7. CASE AcceptMove(w)
  BY <1>1, <1>2, <1>3, <1>7, AcceptMoveTypes DEF TypeOK
<1>8. CASE /\ Decided(w, "discarded", "none", "computation")
           /\ UNCHANGED <<enabled, seqVars, idle, adapterVars>>
  <2>1. WorkerTypeOK'
    BY <1>1, <1>4, <1>8, DecidedTypes DEF Dispositions, Requests
  <2>2. AuthTypeOK' /\ SeqTypeOK' /\ AdapterTypeOK' /\ idle' \in BOOLEAN
    BY <1>1, <1>8 DEF TypeOK, AuthTypeOK, SeqTypeOK, AdapterTypeOK, InputTypeOK
  <2> QED BY <1>2, <1>3, <2>1, <2>2 DEF TypeOK
<1>9. \/ \E v \in Causes, fault \in BOOLEAN : RejectCurrent(w, v, fault)
      \/ AcceptHold(w) \/ AcceptMove(w)
      \/ /\ Decided(w, "discarded", "none", "computation")
         /\ UNCHANGED <<enabled, seqVars, idle, adapterVars>>
  BY <1>4 DEF Decide
<1> QED BY <1>5, <1>6, <1>7, <1>8, <1>9

\* A withdrawal around a decision of the gate.
LEMMA WithdrawAroundTypes ==
  ASSUME TypeOK, NEW to \in States, NEW causes \in SUBSET Causes, NEW failed \in BOOLEAN,
         WithdrawAround(to, causes, failed), UNCHANGED <<session, attempt, granting, dispatchVars>>
  PROVE  LifeTypeOK' /\ EngageTypeOK' /\ AuthTypeOK' /\ DispatchTypeOK'
<1>1. controllerReady \in BOOLEAN
  BY DEF TypeOK, LifeTypeOK
<1>2. AuthTypeOK'
  BY <1>1, RevokeTypes DEF WithdrawAround
<1>3. EngageTypeOK' /\ DispatchTypeOK'
  BY DisengageTypes DEF WithdrawAround
<1>4. LifeTypeOK'
  BY <1>1, SettleTypes, BlameTypes DEF WithdrawAround, LifeTypeOK, TypeOK
<1> QED BY <1>2, <1>3, <1>4

\* A delivering thread comes back to the lifecycle.
LEMMA AfterDecisionTypes == ASSUME TypeOK, NEW w \in Workers, AfterDecision(w) PROVE TypeOK'
<1>1. /\ pc[w] = "decided"
      /\ pc' = [pc EXCEPT ![w] = "idle"] /\ job' = [job EXCEPT ![w] = NoJob]
      /\ UNCHANGED <<session, attempt, granting, seqVars, dispatchVars, inputVars, idle,
                    storeVars, prepVars, adapterVars, inputPc>>
  BY DEF AfterDecision
<1>2. WorkerTypeOK'
  BY <1>1 DEF TypeOK, WorkerTypeOK
<1>3. SeqTypeOK' /\ InputTypeOK' /\ StoreTypeOK' /\ AdapterTypeOK'
  BY <1>1 DEF TypeOK, SeqTypeOK, InputTypeOK, StoreTypeOK, AdapterTypeOK
<1>4. job[w].cause \in Causes /\ {job[w].cause} \in SUBSET Causes /\ {} \in SUBSET Causes
  BY <1>1 DEF TypeOK, WorkerTypeOK, Decision
<1>5. "FAULT" \in States /\ "PAUSED" \in States
  BY DEF States
<1>6. CASE WithdrawAround("FAULT", {}, job[w].disposition = "adapter_failure")
  BY <1>1, <1>2, <1>3, <1>4, <1>5, <1>6, WithdrawAroundTypes DEF TypeOK
<1>7. CASE WithdrawAround("PAUSED", {job[w].cause}, FALSE)
  BY <1>1, <1>2, <1>3, <1>4, <1>5, <1>7, WithdrawAroundTypes DEF TypeOK
<1>8. CASE /\ outstanding' = IF job[w].session = session THEN Remaining(job[w]) ELSE outstanding
           /\ UNCHANGED <<lifeVars, engagedBundle, armed, seen, newer, authVars>>
  <2>1. DispatchTypeOK'
    BY <1>1, <1>8 DEF TypeOK, DispatchTypeOK, Remaining
  <2>2. LifeTypeOK' /\ EngageTypeOK' /\ AuthTypeOK'
    BY <1>1, <1>8 DEF TypeOK, LifeTypeOK, EngageTypeOK, AuthTypeOK
  <2> QED BY <1>2, <1>3, <2>1, <2>2 DEF TypeOK
<1> QED BY <1>6, <1>7, <1>8 DEF AfterDecision

\* An invalidated store is empty.
LEMMA InvalidateStoreTypes ==
  ASSUME TypeOK, InvalidateStore
  PROVE  active' \in 0..MaxAttempt /\ storeAttempt' \in 0..MaxAttempt /\ prepared' \in 0..MaxAttempt
  BY BoundsAssumption DEF InvalidateStore

\* A new attempt is numbered within its bound.
LEMMA BeginInitializationTypes == ASSUME TypeOK, BeginInitialization PROVE TypeOK'
<1>1. begun \in Nat /\ begun < MaxAttempt /\ begun + 1 \in Attempts /\ 0 \in 0..MaxAttempt
      /\ begun + 1 \in 0..MaxAttempt
  BY BoundsAssumption DEF BeginInitialization, TypeOK, StoreTypeOK, Attempts
<1>2. StoreTypeOK'
  <2>1. prep' \in [Attempts -> {"none", "issued", "resolving", "prepared", "refused", "raised",
                                "done"}]
    BY <1>1 DEF BeginInitialization, TypeOK, StoreTypeOK
  <2> QED BY <1>1, <2>1 DEF BeginInitialization, StoreTypeOK
<1>3. InputTypeOK' /\ WorkerTypeOK'
  BY DEF BeginInitialization, TypeOK, InputTypeOK, WorkerTypeOK
<1>4. attempt' \in 0..MaxAttempt /\ session' = session /\ state' \in States
      /\ UNCHANGED <<granting, dispatchVars, computationReady>>
  BY <1>1 DEF BeginInitialization, States
<1>5. CASE state \in {"ACTIVE", "READY"}
  <2>1. PICK h \in Halts :
          /\ Revoke(controllerReady) /\ LocalHold(session, h) /\ Disengage
          /\ faultCleared' = (faultCleared /\ ~Failed(h))
          /\ controllerReady' = (controllerReady /\ ~Failed(h))
          /\ pauseCauses' = IF state = "ACTIVE" /\ ~Failed(h) THEN {"context"} ELSE {}
    BY <1>5 DEF BeginInitialization
  <2>2. session \in Sessions /\ controllerReady \in BOOLEAN
    BY DEF TypeOK, LifeTypeOK
  <2>3. AuthTypeOK' /\ SeqTypeOK' /\ AdapterTypeOK'
    BY <2>1, <2>2, RevokeTypes, LocalHoldTypes
  <2>4. EngageTypeOK' /\ DispatchTypeOK'
    BY <1>4, <2>1, DisengageTypes
  <2>5. pauseCauses' \subseteq Causes
    BY <2>1 DEF Causes
  <2>6. faultCleared' \in BOOLEAN /\ controllerReady' \in BOOLEAN
    BY <2>1 DEF TypeOK, LifeTypeOK
  <2>7. LifeTypeOK'
    BY <1>4, <2>5, <2>6 DEF TypeOK, LifeTypeOK
  <2> QED BY <1>2, <1>3, <2>3, <2>4, <2>7 DEF TypeOK
<1>6. CASE state \notin {"ACTIVE", "READY"}
  <2>1. UNCHANGED <<authVars, seqVars, adapterVars, engageVars, faultCleared,
                    controllerReady, pauseCauses>>
    BY <1>6 DEF BeginInitialization
  <2>2. LifeTypeOK' /\ EngageTypeOK' /\ AuthTypeOK'
    BY <1>4, <2>1 DEF TypeOK, LifeTypeOK, EngageTypeOK, AuthTypeOK
  <2>3. SeqTypeOK' /\ DispatchTypeOK' /\ AdapterTypeOK'
    BY <1>4, <2>1 DEF TypeOK, SeqTypeOK, DispatchTypeOK, AdapterTypeOK
  <2> QED BY <1>2, <1>3, <2>2, <2>3 DEF TypeOK
<1> QED BY <1>5, <1>6

\* The steps of a preparation change the store only.
LEMMA PreparationTypes ==
  ASSUME TypeOK, NEW a \in Attempts, PrepareStart(a) \/ PrepareFinish(a) \/ PrepareRaises(a)
  PROVE  TypeOK'
<1>1. StoreTypeOK'
  <2>1. prep' \in [Attempts -> {"none", "issued", "resolving", "prepared", "refused", "raised",
                                "done"}]
    BY DEF PrepareStart, PrepareFinish, PrepareRaises, TypeOK, StoreTypeOK
  <2>2. /\ active' \in 0..MaxAttempt /\ storeAttempt' \in 0..MaxAttempt
        /\ prepared' \in 0..MaxAttempt
    <3>1. a \in 0..MaxAttempt
      BY BoundsAssumption DEF Attempts
    <3>2. CASE InvalidateStore
      BY <3>2, InvalidateStoreTypes
    <3>3. CASE ~InvalidateStore
      BY <3>1, <3>3 DEF PrepareStart, PrepareFinish, PrepareRaises, TypeOK, StoreTypeOK
    <3> QED BY <3>2, <3>3
  <2> QED BY <2>1, <2>2 DEF PrepareStart, PrepareFinish, PrepareRaises, TypeOK, StoreTypeOK
<1>2. LifeTypeOK' /\ EngageTypeOK' /\ AuthTypeOK' /\ SeqTypeOK'
  BY DEF PrepareStart, PrepareFinish, PrepareRaises, TypeOK, LifeTypeOK, EngageTypeOK,
         AuthTypeOK, SeqTypeOK
<1>3. DispatchTypeOK' /\ InputTypeOK' /\ AdapterTypeOK' /\ WorkerTypeOK'
  BY DEF PrepareStart, PrepareFinish, PrepareRaises, TypeOK, DispatchTypeOK, InputTypeOK,
         AdapterTypeOK, WorkerTypeOK
<1> QED BY <1>1, <1>2, <1>3 DEF TypeOK

\* The lifecycle's answer to an exception of the host.
LEMMA HostFailureTypes == ASSUME TypeOK, NEW a \in Attempts, HostFailure(a) PROVE TypeOK'
<1>1. StoreTypeOK' /\ InputTypeOK' /\ WorkerTypeOK'
  BY DEF HostFailure, TypeOK, StoreTypeOK, InputTypeOK, WorkerTypeOK
<1>2. UNCHANGED <<session, granting, dispatchVars>>
  BY DEF HostFailure
<1>3. CASE attempt = a /\ state = "VALIDATING"
  <2>1. PICK h \in Halts : Withdraw("FAULT", {}, controllerReady, h)
    BY <1>3 DEF HostFailure
  <2>2. attempt' \in 0..MaxAttempt
    BY <1>3, BoundsAssumption DEF HostFailure
  <2>3. "FAULT" \in States /\ controllerReady \in BOOLEAN /\ {} \in SUBSET Causes
    BY DEF States, TypeOK, LifeTypeOK
  <2> QED BY <1>1, <1>2, <2>1, <2>2, <2>3, WithdrawTypes DEF TypeOK
<1>4. CASE ~(attempt = a /\ state = "VALIDATING")
  <2>1. UNCHANGED <<lifeVars, attempt, engageVars, authVars, seqVars, adapterVars>>
    BY <1>4 DEF HostFailure
  <2>2. LifeTypeOK' /\ EngageTypeOK' /\ AuthTypeOK'
    BY <1>2, <2>1 DEF TypeOK, LifeTypeOK, EngageTypeOK, AuthTypeOK
  <2>3. SeqTypeOK' /\ DispatchTypeOK' /\ AdapterTypeOK'
    BY <1>2, <2>1 DEF TypeOK, SeqTypeOK, DispatchTypeOK, AdapterTypeOK
  <2> QED BY <1>1, <2>2, <2>3 DEF TypeOK
<1> QED BY <1>3, <1>4

\* The lifecycle waits for a new context.
LEMMA AwaitContextTypes ==
  ASSUME TypeOK, AwaitContext
  PROVE  /\ attempt' \in 0..MaxAttempt /\ active' \in 0..MaxAttempt
         /\ storeAttempt' \in 0..MaxAttempt /\ prepared' \in 0..MaxAttempt
         /\ state' \in States /\ pauseCauses' \subseteq Causes
<1>1. attempt' \in 0..MaxAttempt
  BY BoundsAssumption DEF AwaitContext
<1>2. state' \in States /\ pauseCauses' \subseteq Causes
  BY DEF AwaitContext, States, Causes
<1> QED BY <1>1, <1>2, InvalidateStoreTypes DEF AwaitContext

\* Publication, or its refusal.
LEMMA CompleteInitializationTypes ==
  ASSUME TypeOK, NEW a \in Attempts, CompleteInitialization(a) PROVE TypeOK'
<1>1. AuthTypeOK' /\ SeqTypeOK' /\ DispatchTypeOK'
  BY DEF CompleteInitialization, TypeOK, AuthTypeOK, SeqTypeOK, DispatchTypeOK
<1>2. InputTypeOK' /\ AdapterTypeOK' /\ WorkerTypeOK'
  BY DEF CompleteInitialization, TypeOK, InputTypeOK, AdapterTypeOK, WorkerTypeOK
<1>3. /\ prep' \in [Attempts -> {"none", "issued", "resolving", "prepared", "refused", "raised",
                                 "done"}]
      /\ UNCHANGED <<session, controllerReady, computationReady, faultCleared, engagedBundle,
                    newer, granting, begun>>
  BY DEF CompleteInitialization, TypeOK, StoreTypeOK
<1>4. CASE UNCHANGED <<state, pauseCauses, attempt, seen, armed, storeVars>>
  <2>1. LifeTypeOK' /\ EngageTypeOK' /\ StoreTypeOK'
    BY <1>3, <1>4 DEF TypeOK, LifeTypeOK, EngageTypeOK, StoreTypeOK
  <2> QED BY <1>1, <1>2, <2>1 DEF TypeOK
<1>5. CASE /\ attempt' = 0 /\ active' = a /\ storeAttempt' = 0 /\ prepared' = 0
           /\ EnterReady /\ UNCHANGED pauseCauses
  <2>1. attempt' \in 0..MaxAttempt /\ active' \in 0..MaxAttempt
        /\ storeAttempt' \in 0..MaxAttempt /\ prepared' \in 0..MaxAttempt
    BY <1>5, BoundsAssumption DEF Attempts
  <2>2. LifeTypeOK'
    BY <1>3, <1>5, <2>1, EnterReadyTypes DEF TypeOK, LifeTypeOK
  <2>3. EngageTypeOK'
    BY <1>3, <1>5, EnterReadyTypes DEF TypeOK, EngageTypeOK
  <2>4. StoreTypeOK'
    BY <1>3, <2>1 DEF TypeOK, StoreTypeOK
  <2> QED BY <1>1, <1>2, <2>2, <2>3, <2>4 DEF TypeOK
<1>6. CASE AwaitContext /\ UNCHANGED <<seen, armed>>
  <2>1. LifeTypeOK'
    BY <1>3, <1>6, AwaitContextTypes DEF TypeOK, LifeTypeOK
  <2>2. EngageTypeOK'
    BY <1>3, <1>6 DEF TypeOK, EngageTypeOK
  <2>3. StoreTypeOK'
    BY <1>3, <1>6, AwaitContextTypes DEF TypeOK, StoreTypeOK
  <2> QED BY <1>1, <1>2, <2>1, <2>2, <2>3 DEF TypeOK
<1> QED BY <1>4, <1>5, <1>6 DEF CompleteInitialization

\* The host invalidates the context through the lifecycle.
LEMMA InvalidateContextTypes == ASSUME TypeOK, InvalidateContext PROVE TypeOK'
<1>1. /\ InvalidateStore
      /\ UNCHANGED <<session, granting, dispatchVars, inputVars, idle, prepVars, inputPc,
                    workerVars>>
  BY DEF InvalidateContext, KeepsAfterWithdrawal
<1>2. StoreTypeOK' /\ InputTypeOK' /\ WorkerTypeOK'
  BY <1>1, InvalidateStoreTypes DEF TypeOK, StoreTypeOK, InputTypeOK, WorkerTypeOK
<1>3. CASE state \in {"ACTIVE", "READY"}
  <2>1. PICK h \in Halts : Withdraw("PAUSED", {"context"}, controllerReady, h)
    BY <1>3 DEF InvalidateContext
  <2>2. attempt' \in 0..MaxAttempt
    BY <1>3 DEF InvalidateContext, TypeOK, LifeTypeOK
  <2>3. "PAUSED" \in States /\ controllerReady \in BOOLEAN /\ {"context"} \in SUBSET Causes
    BY DEF States, Causes, TypeOK, LifeTypeOK
  <2> QED BY <1>1, <1>2, <2>1, <2>2, <2>3, WithdrawTypes DEF TypeOK
<1>4. CASE state \notin {"ACTIVE", "READY"}
  <2>1. UNCHANGED <<controllerReady, computationReady, faultCleared, authVars, seqVars,
                    engageVars, adapterVars>>
    BY <1>4 DEF InvalidateContext
  <2>2. attempt' \in 0..MaxAttempt
    BY <1>4, BoundsAssumption DEF InvalidateContext, TypeOK, LifeTypeOK
  <2>3. state' \in States /\ pauseCauses' \subseteq Causes
    BY <1>4 DEF InvalidateContext, TypeOK, LifeTypeOK, States, Causes
  <2>4. LifeTypeOK' /\ EngageTypeOK' /\ AuthTypeOK'
    BY <1>1, <2>1, <2>2, <2>3 DEF TypeOK, LifeTypeOK, EngageTypeOK, AuthTypeOK
  <2>5. SeqTypeOK' /\ DispatchTypeOK' /\ AdapterTypeOK'
    BY <1>1, <2>1 DEF TypeOK, SeqTypeOK, DispatchTypeOK, AdapterTypeOK
  <2> QED BY <1>2, <2>4, <2>5 DEF TypeOK
<1> QED BY <1>3, <1>4

\* The host cancels an initialization.
LEMMA CancelInitializationTypes == ASSUME TypeOK, CancelInitialization PROVE TypeOK'
<1>1. LifeTypeOK'
  BY AwaitContextTypes DEF CancelInitialization, KeepsAfterWithdrawal, TypeOK, LifeTypeOK
<1>2. StoreTypeOK'
  BY AwaitContextTypes DEF CancelInitialization, KeepsAfterWithdrawal, TypeOK, StoreTypeOK
<1>3. EngageTypeOK' /\ AuthTypeOK' /\ SeqTypeOK' /\ DispatchTypeOK'
  BY DEF CancelInitialization, KeepsAfterWithdrawal, TypeOK, EngageTypeOK, AuthTypeOK,
         SeqTypeOK, DispatchTypeOK
<1>4. InputTypeOK' /\ AdapterTypeOK' /\ WorkerTypeOK'
  BY DEF CancelInitialization, KeepsAfterWithdrawal, TypeOK, InputTypeOK, AdapterTypeOK,
         WorkerTypeOK
<1> QED BY <1>1, <1>2, <1>3, <1>4 DEF TypeOK

\* The host invalidates the context behind the lifecycle.
LEMMA HostInvalidatesStoreTypes == ASSUME TypeOK, HostInvalidatesStore PROVE TypeOK'
<1>1. StoreTypeOK'
  BY InvalidateStoreTypes DEF HostInvalidatesStore, TypeOK, StoreTypeOK
<1>2. LifeTypeOK' /\ EngageTypeOK' /\ AuthTypeOK' /\ SeqTypeOK'
  BY DEF HostInvalidatesStore, TypeOK, LifeTypeOK, EngageTypeOK, AuthTypeOK, SeqTypeOK
<1>3. DispatchTypeOK' /\ InputTypeOK' /\ AdapterTypeOK' /\ WorkerTypeOK'
  BY DEF HostInvalidatesStore, TypeOK, DispatchTypeOK, InputTypeOK, AdapterTypeOK, WorkerTypeOK
<1> QED BY <1>1, <1>2, <1>3 DEF TypeOK

\* A controller report without a fault.
LEMMA ControllerStatusTypes ==
  ASSUME TypeOK, NEW ready \in BOOLEAN, ControllerStatus(ready) PROVE TypeOK'
<1>1. CASE Pause({"controller"}, FALSE) /\ UNCHANGED inputPc
  <2>1. {"controller"} \in SUBSET Causes
    BY DEF Causes
  <2>2. InputTypeOK'
    BY <1>1 DEF Pause, KeepsAfterWithdrawal, TypeOK, InputTypeOK
  <2> QED BY <1>1, <2>1, <2>2, PauseTypes DEF TypeOK
<1>2. CASE /\ controllerReady' = ready
           /\ faultCleared' = (faultCleared \/ (state = "FAULT" /\ ready))
           /\ UNCHANGED <<state, session, computationReady, pauseCauses, attempt, engageVars,
                         granting, authVars, seqVars, dispatchVars, inputVars, idle,
                         storeVars, prepVars, adapterVars, workerVars>>
           /\ UNCHANGED inputPc
  <2>1. LifeTypeOK'
    BY <1>2 DEF TypeOK, LifeTypeOK
  <2>2. EngageTypeOK' /\ AuthTypeOK' /\ SeqTypeOK' /\ DispatchTypeOK'
    BY <1>2 DEF TypeOK, EngageTypeOK, AuthTypeOK, SeqTypeOK, DispatchTypeOK
  <2>3. InputTypeOK' /\ StoreTypeOK' /\ AdapterTypeOK' /\ WorkerTypeOK'
    BY <1>2 DEF TypeOK, InputTypeOK, StoreTypeOK, AdapterTypeOK, WorkerTypeOK
  <2> QED BY <2>1, <2>2, <2>3 DEF TypeOK
<1> QED BY <1>1, <1>2 DEF ControllerStatus

\* A controller report of a fault.
LEMMA ControllerFaultTypes == ASSUME TypeOK, ControllerFault PROVE TypeOK'
<1>1. UNCHANGED <<session, granting, dispatchVars, inputVars, idle, prepVars, attempt,
                  storeVars, inputPc, workerVars>>
  BY DEF ControllerFault, KeepsAfterWithdrawal
<1>2. InputTypeOK' /\ StoreTypeOK' /\ WorkerTypeOK'
  BY <1>1 DEF TypeOK, InputTypeOK, StoreTypeOK, WorkerTypeOK
<1>3. CASE state = "FAULT"
  <2>1. /\ controllerReady' = FALSE /\ faultCleared' = FALSE
        /\ UNCHANGED <<state, computationReady, pauseCauses, engageVars, authVars, seqVars,
                      adapterVars>>
    BY <1>3 DEF ControllerFault
  <2>2. LifeTypeOK' /\ EngageTypeOK' /\ AuthTypeOK'
    BY <1>1, <2>1 DEF TypeOK, LifeTypeOK, EngageTypeOK, AuthTypeOK
  <2>3. SeqTypeOK' /\ DispatchTypeOK' /\ AdapterTypeOK'
    BY <1>1, <2>1 DEF TypeOK, SeqTypeOK, DispatchTypeOK, AdapterTypeOK
  <2> QED BY <1>2, <2>2, <2>3 DEF TypeOK
<1>4. CASE state # "FAULT"
  <2>1. PICK h \in Halts : Withdraw("FAULT", {}, FALSE, h)
    BY <1>4 DEF ControllerFault
  <2>2. attempt' \in 0..MaxAttempt
    BY <1>1 DEF TypeOK, LifeTypeOK
  <2>3. "FAULT" \in States /\ {} \in SUBSET Causes
    BY DEF States
  <2> QED BY <1>1, <1>2, <2>1, <2>2, <2>3, WithdrawTypes DEF TypeOK
<1> QED BY <1>3, <1>4

\* A supervisor report.
LEMMA ComputationStatusTypes ==
  ASSUME TypeOK, NEW ready \in BOOLEAN, ComputationStatus(ready) PROVE TypeOK'
<1>1. controllerReady \in BOOLEAN
  BY DEF TypeOK, LifeTypeOK
<1>2. InputTypeOK'
  BY DEF ComputationStatus, Pause, Recover, KeepsAfterWithdrawal, TypeOK, InputTypeOK
<1>3. CASE Pause({"computation"}, controllerReady)
  BY <1>1, <1>2, <1>3, PauseTypes, CausesTypes DEF TypeOK
<1>4. CASE Recover /\ computationReady' = TRUE
  BY <1>2, <1>4, RecoverTypes DEF TypeOK
<1>5. CASE /\ computationReady' = ready
           /\ UNCHANGED <<state, session, controllerReady, faultCleared, pauseCauses, attempt,
                         engageVars, granting, authVars, seqVars, dispatchVars, inputVars,
                         idle, storeVars, prepVars, adapterVars, workerVars>>
  <2>1. LifeTypeOK'
    BY <1>5 DEF TypeOK, LifeTypeOK
  <2>2. EngageTypeOK' /\ AuthTypeOK' /\ SeqTypeOK' /\ DispatchTypeOK'
    BY <1>5 DEF TypeOK, EngageTypeOK, AuthTypeOK, SeqTypeOK, DispatchTypeOK
  <2>3. StoreTypeOK' /\ AdapterTypeOK' /\ WorkerTypeOK'
    BY <1>5 DEF TypeOK, StoreTypeOK, AdapterTypeOK, WorkerTypeOK
  <2> QED BY <1>2, <2>1, <2>2, <2>3 DEF TypeOK
<1> QED BY <1>3, <1>4, <1>5 DEF ComputationStatus

\* The rearm after a cleared fault.
LEMMA RearmTypes == ASSUME TypeOK, Rearm PROVE TypeOK'
<1>1. UNCHANGED <<session, granting, dispatched, late, expired, inputVars, idle, prepVars,
                  controllerReady, computationReady, authVars, seqVars, adapterVars, inputPc,
                  workerVars>>
  BY DEF Rearm, KeepsAfterWithdrawal
<1>2. 0 \in 0..MaxAttempt
  BY BoundsAssumption
<1>3. LifeTypeOK'
  BY <1>1, <1>2 DEF Rearm, TypeOK, LifeTypeOK, States
<1>4. EngageTypeOK'
  BY <1>1, <1>2 DEF Rearm, TypeOK, EngageTypeOK
<1>5. StoreTypeOK'
  BY <1>1, InvalidateStoreTypes DEF Rearm, TypeOK, StoreTypeOK
<1>6. DispatchTypeOK' /\ AuthTypeOK' /\ SeqTypeOK'
  BY <1>1 DEF Rearm, TypeOK, DispatchTypeOK, AuthTypeOK, SeqTypeOK
<1>7. InputTypeOK' /\ AdapterTypeOK' /\ WorkerTypeOK'
  BY <1>1 DEF TypeOK, InputTypeOK, AdapterTypeOK, WorkerTypeOK
<1> QED BY <1>3, <1>4, <1>5, <1>6, <1>7 DEF TypeOK

\* What replacing the session does to everything but the withdrawal's own groups.
LEMMA ReplaceSessionTypes ==
  ASSUME TypeOK, NEW created \in BOOLEAN, MayCreate(created), ReplaceSession(created)
  PROVE  /\ session' \in Sessions /\ attempt' \in 0..MaxAttempt
         /\ StoreTypeOK' /\ InputTypeOK' /\ WorkerTypeOK'
         /\ granting' = granting /\ UNCHANGED dispatchVars
<1>1. session' = session \/ (session < MaxSession /\ session' = session + 1)
  BY DEF ReplaceSession, MayCreate
<1>2. session' \in Sessions
  BY <1>1, BoundsAssumption DEF TypeOK, LifeTypeOK, Sessions
<1>3. attempt' \in 0..MaxAttempt
  BY BoundsAssumption DEF ReplaceSession, TypeOK, LifeTypeOK
<1>4. StoreTypeOK'
  BY InvalidateStoreTypes DEF ReplaceSession, TypeOK, StoreTypeOK
<1>5. InputTypeOK'
  BY DEF ReplaceSession, TypeOK, InputTypeOK, RobotStates
<1>6. WorkerTypeOK' /\ granting' = granting /\ UNCHANGED dispatchVars
  BY DEF ReplaceSession, TypeOK, WorkerTypeOK
<1> QED BY <1>2, <1>3, <1>4, <1>5, <1>6

\* A restart at the operator's request.
LEMMA RestartSessionTypes == ASSUME TypeOK, RestartSession PROVE TypeOK'
<1>1. PICK h \in Halts, created \in BOOLEAN :
        /\ MayCreate(created)
        /\ Revoke(controllerReady) /\ LocalHold(session, h)
        /\ Settle(IF state = "FAULT" THEN "FAULT" ELSE "UNINITIALIZED",
                  Failed(h) \/ (~created /\ state # "FAULT"), controllerReady)
        /\ ReplaceSession(created)
        /\ created \/ (Disengage /\ pauseCauses' = {} /\ UNCHANGED computationReady)
  BY DEF RestartSession
<1>2. session \in Sessions /\ controllerReady \in BOOLEAN
  BY DEF TypeOK, LifeTypeOK
<1>3. AuthTypeOK' /\ SeqTypeOK' /\ AdapterTypeOK'
  BY <1>1, <1>2, RevokeTypes, LocalHoldTypes
<1>4. StoreTypeOK' /\ InputTypeOK' /\ WorkerTypeOK'
  BY <1>1, <1>2, ReplaceSessionTypes
<1>5. Disengage /\ pauseCauses' = {} /\ computationReady' \in {FALSE, computationReady}
  BY <1>1 DEF ReplaceSession
<1>6. EngageTypeOK' /\ DispatchTypeOK'
  BY <1>1, <1>2, <1>5, ReplaceSessionTypes, DisengageTypes
<1>7. (IF state = "FAULT" THEN "FAULT" ELSE "UNINITIALIZED") \in States
  BY DEF States
<1>8. (Failed(h) \/ (~created /\ state # "FAULT")) \in BOOLEAN
  BY DEF Failed
<1>9. state' \in States /\ faultCleared' \in BOOLEAN /\ controllerReady' \in BOOLEAN
  BY <1>1, <1>2, <1>7, <1>8, SettleTypes
<1>10. session' \in Sessions /\ attempt' \in 0..MaxAttempt
  BY <1>1, <1>2, ReplaceSessionTypes
<1>11. LifeTypeOK'
  BY <1>5, <1>9, <1>10 DEF TypeOK, LifeTypeOK
<1> QED BY <1>3, <1>4, <1>6, <1>11 DEF TypeOK

\* A failed clock.
LEMMA ClockFailureTypes == ASSUME TypeOK, ClockFailure PROVE TypeOK'
<1>1. PICK h \in Halts, created \in BOOLEAN :
        /\ MayCreate(created)
        /\ Revoke(FALSE) /\ AdapterHalts(h) /\ UNCHANGED seqVars
        /\ Settle(IF state = "FAULT" THEN "FAULT" ELSE "UNINITIALIZED",
                  Failed(h) \/ (~created /\ state # "FAULT"), controllerReady)
        /\ ReplaceSession(created)
        /\ created \/ UNCHANGED <<engageVars, pauseCauses, computationReady>>
  BY DEF ClockFailure
<1>2. session \in Sessions /\ controllerReady \in BOOLEAN
  BY DEF TypeOK, LifeTypeOK
<1>3. AuthTypeOK' /\ SeqTypeOK'
  BY <1>1, RevokeTypes DEF TypeOK, SeqTypeOK
<1>4. AdapterTypeOK'
  BY <1>1 DEF TypeOK, AdapterTypeOK, AdapterHalts, Halts
<1>5. /\ StoreTypeOK' /\ InputTypeOK' /\ WorkerTypeOK'
      /\ session' \in Sessions /\ attempt' \in 0..MaxAttempt
      /\ granting' = granting /\ UNCHANGED dispatchVars
  BY <1>1, <1>2, ReplaceSessionTypes
<1>6. EngageTypeOK' /\ DispatchTypeOK'
  <2>1. CASE Disengage
    BY <1>5, <2>1, DisengageTypes
  <2>2. CASE UNCHANGED engageVars
    BY <1>5, <2>2 DEF TypeOK, EngageTypeOK, DispatchTypeOK
  <2> QED BY <1>1, <2>1, <2>2 DEF ReplaceSession
<1>7. pauseCauses' \in {{}, pauseCauses} /\ computationReady' \in {FALSE, computationReady}
  BY <1>1 DEF ReplaceSession
<1>8. (IF state = "FAULT" THEN "FAULT" ELSE "UNINITIALIZED") \in States
  BY DEF States
<1>9. (Failed(h) \/ (~created /\ state # "FAULT")) \in BOOLEAN
  BY DEF Failed
<1>10. state' \in States /\ faultCleared' \in BOOLEAN /\ controllerReady' \in BOOLEAN
  BY <1>1, <1>2, <1>8, <1>9, SettleTypes
<1>11. LifeTypeOK'
  BY <1>5, <1>7, <1>10 DEF TypeOK, LifeTypeOK
<1> QED BY <1>3, <1>4, <1>5, <1>6, <1>11 DEF TypeOK

\* The passage of time changes samples, ages, deadlines and the target only.
LEMMA TimeTypes == ASSUME TypeOK, Time PROVE TypeOK'
<1>1. Unmoved
  BY DEF Time, JoystickAges, RobotStateAges, LivenessDeadlinePasses, TargetExpires, ClockBreaks,
         SolveDeadlinePasses, DispatchExpires
<1>2. LifeTypeOK' /\ EngageTypeOK' /\ AuthTypeOK' /\ SeqTypeOK'
  BY <1>1 DEF Unmoved, TypeOK, LifeTypeOK, EngageTypeOK, AuthTypeOK, SeqTypeOK
<1>3. StoreTypeOK' /\ WorkerTypeOK'
  BY <1>1 DEF Unmoved, TypeOK, StoreTypeOK, WorkerTypeOK
<1>4. DispatchTypeOK'
  <2>1. ASSUME NEW d \in outstanding, SolveDeadlinePasses(d) \/ DispatchExpires(d)
        PROVE  DispatchTypeOK'
    BY <1>1, <2>1 DEF Unmoved, SolveDeadlinePasses, DispatchExpires, TypeOK, DispatchTypeOK
  <2>2. CASE UNCHANGED dispatchVars
    BY <1>1, <2>2 DEF Unmoved, TypeOK, DispatchTypeOK
  <2> QED BY <2>1, <2>2 DEF Time, JoystickAges, RobotStateAges, LivenessDeadlinePasses,
                            TargetExpires, ClockBreaks
<1>5. AdapterTypeOK'
  BY DEF Time, JoystickAges, RobotStateAges, LivenessDeadlinePasses, TargetExpires, ClockBreaks,
         SolveDeadlinePasses, DispatchExpires, TypeOK, AdapterTypeOK
<1>6. InputTypeOK'
  BY <1>1 DEF Unmoved, Time, JoystickAges, RobotStateAges, LivenessDeadlinePasses,
         TargetExpires, ClockBreaks, SolveDeadlinePasses, DispatchExpires, TypeOK, InputTypeOK,
         RobotStates
<1> QED BY <1>2, <1>3, <1>4, <1>5, <1>6 DEF TypeOK

\* The initial state is typed.
LEMMA InitTypes == Init => TypeOK
<1> SUFFICES ASSUME Init PROVE TypeOK
  OBVIOUS
<1>1. 0 \in 0..MaxAttempt /\ 0 \in 0..MaxSession /\ 1 \in Sessions
  BY BoundsAssumption DEF Sessions
<1>2. LifeTypeOK
  BY <1>1 DEF Init, LifeTypeOK, States
<1>3. EngageTypeOK
  BY <1>1 DEF Init, EngageTypeOK
<1>4. AuthTypeOK /\ SeqTypeOK
  BY DEF Init, AuthTypeOK, SeqTypeOK
<1>5. DispatchTypeOK /\ AdapterTypeOK
  BY DEF Init, DispatchTypeOK, AdapterTypeOK
<1>6. InputTypeOK
  BY <1>1 DEF Init, InputTypeOK, RobotStates
<1>7. StoreTypeOK
  BY <1>1 DEF Init, StoreTypeOK
<1>8. WorkerTypeOK
  BY DEF Init, WorkerTypeOK
<1> QED BY <1>2, <1>3, <1>4, <1>5, <1>6, <1>7, <1>8 DEF TypeOK

\* Types do not depend on anything but the variables.
LEMMA StutterTypes == ASSUME TypeOK, UNCHANGED vars PROVE TypeOK'
<1>1. LifeTypeOK' /\ EngageTypeOK' /\ AuthTypeOK' /\ SeqTypeOK' /\ DispatchTypeOK'
  BY DEF vars, TypeOK, LifeTypeOK, EngageTypeOK, AuthTypeOK, SeqTypeOK, DispatchTypeOK
<1>2. InputTypeOK' /\ StoreTypeOK' /\ AdapterTypeOK' /\ WorkerTypeOK'
  BY DEF vars, TypeOK, InputTypeOK, StoreTypeOK, AdapterTypeOK, WorkerTypeOK
<1> QED BY <1>1, <1>2 DEF TypeOK

\* TypeOK is inductive: one case per group of actions.
LEMMA NextTypes == ASSUME TypeOK, [Next]_vars PROVE TypeOK'
<1>1. CASE Inputs
  BY <1>1, ReceiveTypes, ProcessInputTypes DEF Inputs
<1>2. CASE Grant \/ Tick \/ DispatchCycle
  BY <1>2, GrantTypes, TickTypes, DispatchCycleTypes
<1>3. CASE Results
  BY <1>3, SubmitResultTypes, DecideTypes, AfterDecisionTypes DEF Results
<1>4. CASE Initialization
  BY <1>4, BeginInitializationTypes, PreparationTypes, HostFailureTypes,
     CompleteInitializationTypes DEF Initialization
<1>5. CASE Host
  BY <1>5, InvalidateContextTypes, HostInvalidatesStoreTypes, CancelInitializationTypes,
     PreparationTypes DEF Host
<1>6. CASE Controller
  BY <1>6, ControllerStatusTypes, ControllerFaultTypes, RearmTypes DEF Controller
<1>7. CASE Supervisor \/ ComputationStatus(TRUE)
  BY <1>7, ComputationStatusTypes DEF Supervisor
<1>8. CASE NewSession
  BY <1>8, RestartSessionTypes, ClockFailureTypes DEF NewSession
<1>9. CASE Time
  BY <1>9, TimeTypes
<1>10. CASE UNCHANGED vars
  BY <1>10, StutterTypes
<1> QED BY <1>1, <1>2, <1>3, <1>4, <1>5, <1>6, <1>7, <1>8, <1>9, <1>10
        DEF Next, NextUnreported

\* The variables of the runtime keep their types in every behaviour, for any number
\* of sessions, epochs, attempts, dispatches and delivering threads.
THEOREM TypeCorrectness == Spec => []TypeOK
<1>1. Init => TypeOK
  BY InitTypes
<1>2. TypeOK /\ [Next]_vars => TypeOK'
  BY NextTypes
<1> QED BY <1>1, <1>2, PTL DEF Spec
=============================================================================
