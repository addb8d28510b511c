----------------------- MODULE LifecycleAuthorityProofs -----------------------
(***************************************************************************)
(* The gate of the runtime is open only under the authority of its state:  *)
(* OnlyActiveGateOpen, by the inductive invariant AuthorityInv.  And what  *)
(* a step of the runtime may never do, from one classification of the      *)
(* steps by what they do to the state: leave READY or ACTIVE without a     *)
(* withdrawal, leave FAULT without a cleared rearm, publish another        *)
(* context than that of the attempt begun last, lose a failed halt.        *)
(***************************************************************************)
EXTENDS LifecycleProofs

USE DEF lifeVars, engageVars, authVars, seqVars, dispatchVars, inputVars, storeVars,
        prepVars, adapterVars, workerVars

\* Every gate is closed: what a withdrawal leaves behind, in whatever session.
AllClosed == \A s \in Sessions : ~enabled[s]

\* A withdrawal leaves every gate closed: the others were closed before.
LEMMA RevokeCloses ==
  ASSUME AuthorityInv, NEW ready, Revoke(ready)
  PROVE  AllClosed'
  BY DEF AuthorityInv, OnlyActiveGateOpen, TypeOK, LifeTypeOK, AuthTypeOK, Revoke, AllClosed

\* Only an ACTIVE runtime has an open gate.
LEMMA ClosedOutsideActive ==
  ASSUME AuthorityInv, state # "ACTIVE" PROVE AllClosed
  BY DEF AuthorityInv, OnlyActiveGateOpen, AllClosed

\* With every gate closed and no grant under way there is nothing to show.
LEMMA ClosedIsSafe ==
  ASSUME AllClosed', granting' = NoGrant PROVE OnlyActiveGateOpen' /\ GrantHeld'
  BY DEF AllClosed, OnlyActiveGateOpen, GrantHeld

\* A step that leaves the state, the session, the readiness and the gates alone.
LEMMA AuthorityUntouched ==
  ASSUME AuthorityInv, granting' = granting,
         UNCHANGED <<state, session, controllerReady, computationReady, authVars>>
  PROVE  OnlyActiveGateOpen' /\ GrantHeld'
  BY DEF AuthorityInv, OnlyActiveGateOpen, GrantHeld

\* A pause, by whichever handler.
LEMMA PauseAuthority ==
  ASSUME AuthorityInv, Entered, NEW causes, NEW ready, Pause(causes, ready)
  PROVE  OnlyActiveGateOpen' /\ GrantHeld'
<1>1. Revoke(ready) /\ granting' = NoGrant
  BY DEF Pause, Withdraw, KeepsAfterWithdrawal, Entered
<1> QED BY <1>1, RevokeCloses, ClosedIsSafe

\* A recovery opens no gate.
LEMMA RecoverAuthority ==
  ASSUME AuthorityInv, Entered, state = "PAUSED", Recover
  PROVE  OnlyActiveGateOpen' /\ GrantHeld'
<1>1. AllClosed' /\ granting' = NoGrant
  BY ClosedOutsideActive DEF Recover, AllClosed, Entered
<1> QED BY <1>1, ClosedIsSafe

\* A sample at most starts a grant, with controller and computation ready.
LEMMA InputsAuthority ==
  ASSUME AuthorityInv, Inputs PROVE OnlyActiveGateOpen' /\ GrantHeld'
<1>1. ASSUME NEW src \in Sources, Receive(src) PROVE OnlyActiveGateOpen' /\ GrantHeld'
  BY <1>1, AuthorityUntouched DEF Receive
<1>2. ASSUME NEW src \in Sources, ProcessInput(src) PROVE OnlyActiveGateOpen' /\ GrantHeld'
  <2>1. Entered
    BY <1>2 DEF ProcessInput
  <2>2. CASE UNCHANGED <<lifeVars, granting, authVars>>
    BY <2>2, AuthorityUntouched
  <2>3. CASE Pause(InputCause, controllerReady)
    BY <2>1, <2>3, PauseAuthority
  <2>4. CASE state = "PAUSED" /\ Recover
    BY <2>1, <2>4, RecoverAuthority
  <2>5. CASE state = "READY" /\ ReadyInput(src) /\ UNCHANGED <<lifeVars, authVars>>
    <3>1. AllClosed'
      BY <2>5, ClosedOutsideActive DEF AllClosed
    <3>2. OnlyActiveGateOpen'
      BY <3>1 DEF AllClosed, OnlyActiveGateOpen
    <3>3. granting' # NoGrant => controllerReady /\ computationReady
      BY <2>1, <2>5 DEF ReadyInput, EngagementRefused, Entered
    <3> QED BY <2>5, <3>2, <3>3 DEF GrantHeld
  <2> QED BY <1>2, <2>2, <2>3, <2>4, <2>5 DEF ProcessInput
<1> QED BY <1>1, <1>2 DEF Inputs

\* The grant opens the gate under what GrantHeld has kept true since its checks.
LEMMA GrantAuthority ==
  ASSUME AuthorityInv, Grant PROVE OnlyActiveGateOpen' /\ GrantHeld'
<1>1. state = "READY" /\ controllerReady /\ computationReady /\ AllClosed
  BY ClosedOutsideActive DEF Grant, AuthorityInv, GrantHeld
<1>2. GrantHeld'
  BY DEF Grant, GrantHeld
<1>3. CASE active = granting.bundle
  <2>1. /\ state' = "ACTIVE" /\ session' = session /\ epoch' = epoch
        /\ controllerReady' = controllerReady /\ computationReady' = computationReady
    BY <1>3 DEF Grant
  <2>2. /\ enabled' = [enabled EXCEPT ![session] = TRUE]
        /\ gateReady' = [gateReady EXCEPT ![session] = TRUE]
        /\ authEpoch' = [authEpoch EXCEPT ![session] = epoch[session]]
    BY <1>3 DEF Grant
  <2>3. session \in Sessions /\ AuthTypeOK
    BY DEF AuthorityInv, TypeOK, LifeTypeOK
  <2>4. \A s \in Sessions : enabled'[s] => s = session
    BY <1>1, <2>2, <2>3 DEF AllClosed, AuthTypeOK
  <2>5. gateReady'[session] /\ authEpoch'[session] = epoch'[session]
    BY <2>1, <2>2, <2>3 DEF AuthTypeOK
  <2>6. OnlyActiveGateOpen'
    BY <1>1, <2>1, <2>4, <2>5, Zenon DEF OnlyActiveGateOpen
  <2> QED BY <1>2, <2>6
<1>4. CASE active # granting.bundle
  <2>1. enabled' = enabled
    BY <1>4 DEF Grant
  <2>2. OnlyActiveGateOpen'
    BY <1>1, <2>1, Zenon DEF AllClosed, OnlyActiveGateOpen
  <2> QED BY <1>2, <2>2
<1> QED BY <1>2, <1>3, <1>4

\* Watchdog and dispatch.
LEMMA WatchdogAuthority ==
  ASSUME AuthorityInv, Tick \/ DispatchCycle PROVE OnlyActiveGateOpen' /\ GrantHeld'
<1>1. Entered
  BY DEF Tick, DispatchCycle
<1>2. CASE \E causes : Pause(causes, controllerReady)
  BY <1>1, <1>2, PauseAuthority
<1>3. CASE state = "PAUSED" /\ Recover
  BY <1>1, <1>3, RecoverAuthority
<1>4. CASE UNCHANGED <<lifeVars, granting, authVars>>
  BY <1>4, AuthorityUntouched
<1> QED BY <1>2, <1>3, <1>4 DEF Tick, DispatchCycle

\* Delivering threads only ever close gates, whatever the lifecycle does meanwhile.
LEMMA ResultsAuthority ==
  ASSUME AuthorityInv, Results PROVE OnlyActiveGateOpen' /\ GrantHeld'
<1>1. ASSUME NEW w \in Workers, SubmitResult(w) PROVE OnlyActiveGateOpen' /\ GrantHeld'
  BY <1>1, AuthorityUntouched DEF SubmitResult
<1>2. ASSUME NEW w \in Workers, Decide(w) PROVE OnlyActiveGateOpen' /\ GrantHeld'
  <2>1. UNCHANGED <<lifeVars, granting, epoch, authEpoch, gateReady>>
    BY <1>2 DEF Decide
  <2>2. enabled' = enabled \/ enabled' = [enabled EXCEPT ![job[w].session] = FALSE]
    BY <1>2 DEF Decide, RejectCurrent, AcceptHold, AcceptMove
  <2>3. \A s \in Sessions : enabled'[s] => enabled[s]
    BY <2>2 DEF AuthorityInv, TypeOK, AuthTypeOK
  <2> QED BY <2>1, <2>3 DEF AuthorityInv, OnlyActiveGateOpen, GrantHeld
<1>3. ASSUME NEW w \in Workers, AfterDecision(w) PROVE OnlyActiveGateOpen' /\ GrantHeld'
  <2>1. granting' = NoGrant
    BY <1>3 DEF AfterDecision, Entered
  <2>2. CASE Revoke(controllerReady)
    BY <2>1, <2>2, RevokeCloses, ClosedIsSafe
  <2>3. CASE UNCHANGED <<lifeVars, granting, authVars>>
    BY <2>3, AuthorityUntouched
  <2> QED BY <1>3, <2>2, <2>3 DEF AfterDecision, WithdrawAround
<1> QED BY <1>1, <1>2, <1>3 DEF Results

\* Initialization starts with a withdrawal and ends with the gate closed.
LEMMA InitializationAuthority ==
  ASSUME AuthorityInv, Initialization PROVE OnlyActiveGateOpen' /\ GrantHeld'
<1>1. CASE BeginInitialization
  <2>1. granting' = NoGrant
    BY <1>1 DEF BeginInitialization, Entered
  <2>2. CASE Revoke(controllerReady)
    BY <2>1, <2>2, RevokeCloses, ClosedIsSafe
  <2>3. CASE state \notin {"ACTIVE", "READY"} /\ UNCHANGED authVars
    <3>1. AllClosed'
      BY <2>3, ClosedOutsideActive DEF AllClosed
    <3> QED BY <2>1, <3>1, ClosedIsSafe
  <2> QED BY <1>1, <2>2, <2>3 DEF BeginInitialization
<1>2. ASSUME NEW a \in Attempts, PrepareStart(a) \/ PrepareFinish(a)
      PROVE  OnlyActiveGateOpen' /\ GrantHeld'
  BY <1>2, AuthorityUntouched DEF PrepareStart, PrepareFinish
<1>3. ASSUME NEW a \in Attempts, HostFailure(a) PROVE OnlyActiveGateOpen' /\ GrantHeld'
  <2>1. granting' = NoGrant
    BY <1>3 DEF HostFailure, Entered
  <2>2. CASE Revoke(controllerReady)
    BY <2>1, <2>2, RevokeCloses, ClosedIsSafe
  <2>3. CASE UNCHANGED <<lifeVars, granting, authVars>>
    BY <2>3, AuthorityUntouched
  <2> QED BY <1>3, <2>2, <2>3 DEF HostFailure, Withdraw
<1>4. ASSUME NEW a \in Attempts, CompleteInitialization(a)
      PROVE  OnlyActiveGateOpen' /\ GrantHeld'
  <2>1. granting' = NoGrant
    BY <1>4 DEF CompleteInitialization, Entered
  <2>2. CASE state = "VALIDATING"
    <3>1. AllClosed'
      BY <1>4, <2>2, ClosedOutsideActive DEF CompleteInitialization, AllClosed
    <3> QED BY <2>1, <3>1, ClosedIsSafe
  <2>3. CASE state # "VALIDATING"
    BY <1>4, <2>3, AuthorityUntouched DEF CompleteInitialization
  <2> QED BY <2>2, <2>3
<1> QED BY <1>1, <1>2, <1>3, <1>4 DEF Initialization

\* What the host does on his own account.
LEMMA HostAuthority ==
  ASSUME AuthorityInv, Host PROVE OnlyActiveGateOpen' /\ GrantHeld'
<1>1. CASE InvalidateContext
  <2>1. granting' = NoGrant
    BY <1>1 DEF InvalidateContext, KeepsAfterWithdrawal, Entered
  <2>2. CASE Revoke(controllerReady)
    BY <2>1, <2>2, RevokeCloses, ClosedIsSafe
  <2>3. CASE state \notin {"ACTIVE", "READY"} /\ UNCHANGED authVars
    <3>1. AllClosed'
      BY <2>3, ClosedOutsideActive DEF AllClosed
    <3> QED BY <2>1, <3>1, ClosedIsSafe
  <2> QED BY <1>1, <2>2, <2>3 DEF InvalidateContext, Withdraw
<1>2. CASE HostInvalidatesStore
  BY <1>2, AuthorityUntouched DEF HostInvalidatesStore
<1>3. CASE CancelInitialization
  <2>1. granting' = NoGrant
    BY <1>3 DEF CancelInitialization, KeepsAfterWithdrawal, Entered
  <2>2. AllClosed'
    BY <1>3, ClosedOutsideActive DEF CancelInitialization, AllClosed
  <2> QED BY <2>1, <2>2, ClosedIsSafe
<1>4. ASSUME NEW a \in Attempts, PrepareRaises(a) PROVE OnlyActiveGateOpen' /\ GrantHeld'
  BY <1>4, AuthorityUntouched DEF PrepareRaises
<1> QED BY <1>1, <1>2, <1>3, <1>4 DEF Host

\* Losing the controller's readiness while ACTIVE withdraws first.
LEMMA ControllerAuthority ==
  ASSUME AuthorityInv, Controller PROVE OnlyActiveGateOpen' /\ GrantHeld'
<1>1. ASSUME NEW ready \in BOOLEAN, ControllerStatus(ready)
      PROVE  OnlyActiveGateOpen' /\ GrantHeld'
  <2>1. Entered
    BY <1>1 DEF ControllerStatus
  <2>2. CASE Pause({"controller"}, FALSE)
    BY <2>1, <2>2, PauseAuthority
  <2>3. CASE /\ ~(state = "ACTIVE" /\ ~ready) /\ controllerReady' = ready
             /\ UNCHANGED <<state, session, computationReady, authVars, granting>>
    <3>1. OnlyActiveGateOpen'
      BY <2>3 DEF AuthorityInv, OnlyActiveGateOpen
    <3>2. GrantHeld'
      BY <2>1, <2>3 DEF Entered, GrantHeld
    <3> QED BY <3>1, <3>2
  <2> QED BY <1>1, <2>2, <2>3 DEF ControllerStatus
<1>2. CASE ControllerFault
  <2>1. granting' = NoGrant
    BY <1>2 DEF ControllerFault, KeepsAfterWithdrawal, Entered
  <2>2. CASE Revoke(FALSE)
    BY <2>1, <2>2, RevokeCloses, ClosedIsSafe
  <2>3. CASE state = "FAULT" /\ UNCHANGED authVars
    <3>1. AllClosed'
      BY <2>3, ClosedOutsideActive DEF AllClosed
    <3> QED BY <2>1, <3>1, ClosedIsSafe
  <2> QED BY <1>2, <2>2, <2>3 DEF ControllerFault, Withdraw
<1>3. CASE Rearm
  <2>1. granting' = NoGrant
    BY <1>3 DEF Rearm, KeepsAfterWithdrawal, Entered
  <2>2. AllClosed'
    BY <1>3, ClosedOutsideActive DEF Rearm, AllClosed
  <2> QED BY <2>1, <2>2, ClosedIsSafe
<1> QED BY <1>1, <1>2, <1>3 DEF Controller

\* Losing the computation's readiness while ACTIVE withdraws first.
LEMMA ComputationAuthority ==
  ASSUME AuthorityInv, NEW ready \in BOOLEAN, ComputationStatus(ready)
  PROVE  OnlyActiveGateOpen' /\ GrantHeld'
<1>1. Entered
  BY DEF ComputationStatus
<1>2. CASE Pause({"computation"}, controllerReady)
  BY <1>1, <1>2, PauseAuthority
<1>3. CASE state = "PAUSED" /\ Recover
  BY <1>1, <1>3, RecoverAuthority
<1>4. CASE /\ ~(~ready /\ state = "ACTIVE") /\ computationReady' = ready
           /\ UNCHANGED <<state, session, controllerReady, authVars, granting>>
  <2>1. OnlyActiveGateOpen'
    BY <1>4 DEF AuthorityInv, OnlyActiveGateOpen
  <2>2. GrantHeld'
    BY <1>1, <1>4 DEF Entered, GrantHeld
  <2> QED BY <2>1, <2>2
<1> QED BY <1>2, <1>3, <1>4 DEF ComputationStatus

\* A session is replaced, or not, after a withdrawal.
LEMMA NewSessionAuthority ==
  ASSUME AuthorityInv, NewSession PROVE OnlyActiveGateOpen' /\ GrantHeld'
<1>1. granting' = NoGrant
  BY DEF NewSession, RestartSession, ClockFailure, ReplaceSession, Entered
<1>2. Revoke(controllerReady) \/ Revoke(FALSE)
  BY DEF NewSession, RestartSession, ClockFailure
<1> QED BY <1>1, <1>2, RevokeCloses, ClosedIsSafe

\* Time touches no authority.
LEMMA TimeAuthority ==
  ASSUME AuthorityInv, Time PROVE OnlyActiveGateOpen' /\ GrantHeld'
<1>1. UNCHANGED <<lifeVars, granting, authVars>>
  BY DEF Time, JoystickAges, RobotStateAges, LivenessDeadlinePasses, TargetExpires,
         ClockBreaks, SolveDeadlinePasses, DispatchExpires, Unmoved
<1> QED BY <1>1, AuthorityUntouched

\* AuthorityInv is inductive.
LEMMA NextAuthority ==
  ASSUME AuthorityInv, [Next]_vars PROVE AuthorityInv'
<1>1. TypeOK'
  BY NextTypes DEF AuthorityInv
<1>2. OnlyActiveGateOpen' /\ GrantHeld'
  <2>1. CASE Inputs \/ Grant \/ Tick \/ DispatchCycle
    BY <2>1, InputsAuthority, GrantAuthority, WatchdogAuthority
  <2>2. CASE Results \/ Initialization \/ Host
    BY <2>2, ResultsAuthority, InitializationAuthority, HostAuthority
  <2>3. CASE Controller \/ Supervisor \/ ComputationStatus(TRUE)
    BY <2>3, ControllerAuthority, ComputationAuthority DEF Supervisor
  <2>4. CASE NewSession \/ Time
    BY <2>4, NewSessionAuthority, TimeAuthority
  <2>5. CASE UNCHANGED vars
    BY <2>5, AuthorityUntouched DEF vars
  <2> QED BY <2>1, <2>2, <2>3, <2>4, <2>5 DEF Next, NextUnreported
<1> QED BY <1>1, <1>2 DEF AuthorityInv

\* At the start every gate is closed.
LEMMA InitAuthority == Init => AuthorityInv
<1> SUFFICES ASSUME Init PROVE OnlyActiveGateOpen /\ GrantHeld
  BY InitTypes DEF AuthorityInv
<1> QED BY DEF Init, OnlyActiveGateOpen, GrantHeld

\* Whatever the interleaving, the adapter's failures and the bounds, the authority
\* of the runtime is what its state allows, also while an engagement is under way.
THEOREM AuthorityInductive == Spec => []AuthorityInv
<1>1. Init => AuthorityInv
  BY InitAuthority
<1>2. AuthorityInv /\ [Next]_vars => AuthorityInv'
  BY NextAuthority
<1> QED BY <1>1, <1>2, PTL DEF Spec

\* A gate is open only in the current session, while ACTIVE, for the current epoch,
\* with controller and computation ready: no thread that comes back late, no
\* restart and no failed request leaves motion enabled behind the lifecycle.
THEOREM AuthoritySafety == Spec => []OnlyActiveGateOpen
<1>1. AuthorityInv => OnlyActiveGateOpen
  BY DEF AuthorityInv
<1> QED BY <1>1, AuthorityInductive, PTL

-----------------------------------------------------------------------------
(* What a step does to the state.                                            *)

\* A withdrawal: the epoch moves on, the gate closes, motion is over, FAULT stays.
Withdrawn ==
  /\ epoch'[session] = epoch[session] + 1 /\ ~enabled'[session]
  /\ state' \notin {"READY", "ACTIVE"} /\ (state = "FAULT" => state' = "FAULT")

\* The progress of a runtime without authority: on its way to READY or back, to READY
\* by a recovery or the end of an initialization, and from there by a grant.
Progressed ==
  /\ state \in {"UNINITIALIZED", "VALIDATING", "PAUSED"}
  /\ state' \in {"VALIDATING", "PAUSED"}

Recovered == state = "PAUSED" /\ state' = "READY" /\ Recover

Completed ==
  /\ state = "VALIDATING" /\ state' \in {"READY", "PAUSED"}
  /\ \E a \in Attempts : CompleteInitialization(a)

Engaged == state = "READY" /\ state' = "ACTIVE" /\ Grant

StepKind ==
  \/ state' = state \/ Withdrawn \/ Progressed \/ Recovered \/ Completed \/ Engaged
  \/ Rearm

\* Revoke is the part of a withdrawal that concerns the epoch and the gate.
LEMMA RevokeWithdraws ==
  ASSUME AuthorityInv, NEW ready, Revoke(ready)
  PROVE  epoch'[session] = epoch[session] + 1 /\ ~enabled'[session]
  BY DEF AuthorityInv, TypeOK, LifeTypeOK, AuthTypeOK, Revoke

\* Settle ends in the state it is asked for or in FAULT.
LEMMA SettleEnds ==
  ASSUME NEW to, NEW failed, NEW ready, Settle(to, failed, ready)
  PROVE  state' = to \/ state' = "FAULT"
  BY DEF Settle

\* A withdrawal to PAUSED or FAULT from a state other than FAULT.
LEMMA WithdrawKind ==
  ASSUME AuthorityInv, state # "FAULT", NEW to \in {"PAUSED", "FAULT"}, NEW causes,
         NEW ready, NEW h, Withdraw(to, causes, ready, h)
  PROVE  Withdrawn
<1>1. epoch'[session] = epoch[session] + 1 /\ ~enabled'[session]
  BY RevokeWithdraws DEF Withdraw
<1>2. state' = to \/ state' = "FAULT"
  BY SettleEnds DEF Withdraw
<1> QED BY <1>1, <1>2 DEF Withdrawn

\* The same for a pause.
LEMMA PauseKind ==
  ASSUME AuthorityInv, state # "FAULT", NEW causes, NEW ready, Pause(causes, ready)
  PROVE  Withdrawn
  BY WithdrawKind DEF Pause

\* A recovery leads from PAUSED to READY.
LEMMA RecoverKind == ASSUME state = "PAUSED", Recover PROVE Recovered
  BY DEF Recover, EnterReady, Recovered

\* Inputs, the grant, the watchdog and dispatch.
LEMMA InputKind ==
  ASSUME AuthorityInv, Inputs \/ Grant \/ Tick \/ DispatchCycle PROVE StepKind
<1>1. ASSUME NEW src \in Sources, Receive(src) PROVE state' = state
  BY <1>1 DEF Receive
<1>2. ASSUME NEW src \in Sources, ProcessInput(src) PROVE StepKind
  <2>1. CASE state' = state
    BY <2>1 DEF StepKind
  <2>2. CASE state = "ACTIVE" /\ Pause(InputCause, controllerReady)
    BY <2>2, PauseKind DEF StepKind
  <2>3. CASE state = "PAUSED" /\ Recover
    BY <2>3, RecoverKind DEF StepKind
  <2> QED BY <1>2, <2>1, <2>2, <2>3 DEF ProcessInput
<1>3. CASE Grant
  BY <1>3 DEF Grant, AuthorityInv, GrantHeld, StepKind, Engaged
<1>4. CASE Tick \/ DispatchCycle
  <2>1. CASE state' = state
    BY <2>1 DEF StepKind
  <2>2. CASE state # "FAULT" /\ \E causes : Pause(causes, controllerReady)
    BY <2>2, PauseKind DEF StepKind
  <2>3. CASE state = "PAUSED" /\ Recover
    BY <2>3, RecoverKind DEF StepKind
  <2> QED BY <1>4, <2>1, <2>2, <2>3 DEF Tick, DispatchCycle
<1> QED BY <1>1, <1>2, <1>3, <1>4 DEF Inputs, StepKind

\* The delivery of results.
LEMMA ResultKind == ASSUME AuthorityInv, Results PROVE StepKind
<1>1. ASSUME NEW w \in Workers, SubmitResult(w) \/ Decide(w) PROVE state' = state
  BY <1>1 DEF SubmitResult, Decide
<1>2. ASSUME NEW w \in Workers, AfterDecision(w) PROVE StepKind
  <2>1. CASE state' = state
    BY <2>1 DEF StepKind
  <2>2. CASE state # "FAULT" /\ \E to \in {"PAUSED", "FAULT"} :
               \E causes, failed : WithdrawAround(to, causes, failed)
    <3>0. PICK to \in {"PAUSED", "FAULT"} : \E causes, failed : WithdrawAround(to, causes, failed)
      BY <2>2
    <3>1. PICK causes, failed : WithdrawAround(to, causes, failed)
      BY <3>0
    <3>2. epoch'[session] = epoch[session] + 1 /\ ~enabled'[session]
      BY <3>1, RevokeWithdraws DEF WithdrawAround
    <3>3. state' = to \/ state' = "FAULT"
      BY <3>1, SettleEnds DEF WithdrawAround
    <3> QED BY <2>2, <3>2, <3>3 DEF StepKind, Withdrawn
  <2>3. \/ state' = state
        \/ state # "FAULT" /\ WithdrawAround("FAULT", {}, job[w].disposition = "adapter_failure")
        \/ state # "FAULT" /\ WithdrawAround("PAUSED", {job[w].cause}, FALSE)
    BY <1>2 DEF AfterDecision
  <2> QED BY <2>1, <2>2, <2>3
<1> QED BY <1>1, <1>2 DEF Results, StepKind

\* Initialization and the host.
LEMMA InitializationKind == ASSUME AuthorityInv, Initialization \/ Host PROVE StepKind
<1>1. CASE BeginInitialization
  <2>1. state' = "VALIDATING" /\ state # "FAULT"
    BY <1>1 DEF BeginInitialization
  <2>2. CASE state \in {"ACTIVE", "READY"}
    <3>1. epoch'[session] = epoch[session] + 1 /\ ~enabled'[session]
      BY <1>1, <2>2, RevokeWithdraws DEF BeginInitialization
    <3> QED BY <2>1, <3>1 DEF StepKind, Withdrawn
  <2>3. CASE state \notin {"ACTIVE", "READY"}
    BY <2>1, <2>3 DEF StepKind, Progressed, AuthorityInv, TypeOK, LifeTypeOK, States
  <2> QED BY <2>2, <2>3
<1>2. ASSUME NEW a \in Attempts, PrepareStart(a) \/ PrepareFinish(a) \/ PrepareRaises(a)
      PROVE  state' = state
  BY <1>2 DEF PrepareStart, PrepareFinish, PrepareRaises
<1>3. ASSUME NEW a \in Attempts, HostFailure(a) PROVE StepKind
  <2>1. CASE state' = state
    BY <2>1 DEF StepKind
  <2>2. CASE state = "VALIDATING" /\ \E h \in Halts : Withdraw("FAULT", {}, controllerReady, h)
    BY <2>2, WithdrawKind DEF StepKind
  <2> QED BY <1>3, <2>1, <2>2 DEF HostFailure
<1>4. ASSUME NEW a \in Attempts, CompleteInitialization(a) PROVE StepKind
  <2>1. CASE state' = state
    BY <2>1 DEF StepKind
  <2>2. CASE state' # state
    <3>1. state = "VALIDATING" /\ state' \in {"READY", "PAUSED"}
      BY <1>4, <2>2 DEF CompleteInitialization, EnterReady, AwaitContext
    <3> QED BY <1>4, <3>1 DEF Completed, StepKind
  <2> QED BY <2>1, <2>2
<1>5. CASE InvalidateContext
  <2>1. CASE state \in {"ACTIVE", "READY"}
    BY <1>5, <2>1, WithdrawKind DEF InvalidateContext, StepKind
  <2>2. CASE state \notin {"ACTIVE", "READY"}
    BY <1>5, <2>2 DEF InvalidateContext, StepKind, Progressed
  <2> QED BY <2>1, <2>2
<1>6. CASE HostInvalidatesStore \/ CancelInitialization
  BY <1>6 DEF HostInvalidatesStore, CancelInitialization, AwaitContext, StepKind, Progressed
<1> QED BY <1>1, <1>2, <1>3, <1>4, <1>5, <1>6 DEF Initialization, Host, StepKind

\* Controller, supervisor and operator.
LEMMA ControllerKind ==
  ASSUME AuthorityInv, Controller \/ Supervisor \/ ComputationStatus(TRUE) PROVE StepKind
<1>1. ASSUME NEW ready \in BOOLEAN, ControllerStatus(ready) PROVE StepKind
  BY <1>1, PauseKind DEF ControllerStatus, StepKind
<1>2. CASE ControllerFault
  BY <1>2, WithdrawKind DEF ControllerFault, StepKind
<1>3. ASSUME NEW ready \in BOOLEAN, ComputationStatus(ready) PROVE StepKind
  BY <1>3, PauseKind, RecoverKind DEF ComputationStatus, StepKind
<1> QED BY <1>1, <1>2, <1>3 DEF Controller, Supervisor, StepKind

\* A new session keeps FAULT and ends everything else.
LEMMA NewSessionKind == ASSUME AuthorityInv, NewSession PROVE StepKind
<1>1. epoch'[session] = epoch[session] + 1 /\ ~enabled'[session]
  BY RevokeWithdraws DEF NewSession, RestartSession, ClockFailure
<1>2. PICK failed : Settle(IF state = "FAULT" THEN "FAULT" ELSE "UNINITIALIZED", failed,
                           controllerReady)
  BY DEF NewSession, RestartSession, ClockFailure
<1>3. \/ state' = IF state = "FAULT" THEN "FAULT" ELSE "UNINITIALIZED"
      \/ state' = "FAULT"
  BY <1>2, SettleEnds
<1> QED BY <1>1, <1>3 DEF StepKind, Withdrawn

\* Every step keeps the state, withdraws, makes progress, engages or rearms.
LEMMA StepKinds == ASSUME AuthorityInv, [Next]_vars PROVE StepKind
<1>1. CASE Time
  BY <1>1 DEF Time, JoystickAges, RobotStateAges, LivenessDeadlinePasses, TargetExpires,
              ClockBreaks, SolveDeadlinePasses, DispatchExpires, Unmoved, StepKind
<1>2. CASE UNCHANGED vars
  BY <1>2 DEF vars, StepKind
<1> QED BY <1>1, <1>2, InputKind, ResultKind, InitializationKind, ControllerKind,
           NewSessionKind DEF Next, NextUnreported

\* Every exit from READY or ACTIVE but the engagement moves the epoch on and leaves
\* the gate closed, on every path of every handler.
THEOREM ExitsWithdraw == Spec => EveryExitWithdraws
<1>1. AuthorityInv /\ [Next]_vars => [ExitWithdraws]_vars
  <2> SUFFICES ASSUME AuthorityInv, [Next]_vars PROVE ExitWithdraws
    OBVIOUS
  <2>1. StepKind
    BY StepKinds
  <2>2. CASE Rearm
    BY <2>2 DEF Rearm, ExitWithdraws
  <2> QED BY <2>1, <2>2 DEF StepKind, Withdrawn, Progressed, Recovered, Completed, Engaged,
                              ExitWithdraws
<1> QED BY <1>1, AuthorityInductive, PTL DEF Spec, EveryExitWithdraws

\* FAULT is left only by a rearm after a healthy report: restarts, clock failures
\* and whatever was in flight when it was latched leave it latched.
THEOREM FaultStaysLatched == Spec => FaultLatched
<1>1. AuthorityInv /\ [Next]_vars => [FaultLeftCleared]_vars
  <2> SUFFICES ASSUME AuthorityInv, [Next]_vars PROVE FaultLeftCleared
    OBVIOUS
  <2>1. StepKind
    BY StepKinds
  <2>2. CASE Rearm
    <3>1. AllClosed /\ session \in Sessions
      BY <2>2, ClosedOutsideActive DEF Rearm, AuthorityInv, TypeOK, LifeTypeOK
    <3> QED BY <2>2, <3>1 DEF Rearm, InvalidateStore, KeepsAfterWithdrawal, AllClosed,
                              FaultLeftCleared
  <2> QED BY <2>1, <2>2 DEF StepKind, Withdrawn, Progressed, Recovered, Completed, Engaged,
                              FaultLeftCleared
<1> QED BY <1>1, AuthorityInductive, PTL DEF Spec, FaultLatched

-----------------------------------------------------------------------------
(* What a step does besides.                                                 *)

\* What every step does but a grant, a dispatch and the delivery of a result: whatever
\* it is about, it leaves threads and dispatches alone, moves epoch, session and
\* sequences only forward, gives the adapter no target, replaces the attempt only by
\* the one begun last, and stays in ACTIVE only if it touches nothing of the authority.
Ordinary ==
  /\ UNCHANGED <<dispatched, workerVars>>
  /\ epoch' \in {epoch, [epoch EXCEPT ![session] = @ + 1]}
  /\ \/ UNCHANGED seqVars
     \/ /\ cmdSeq' = [cmdSeq EXCEPT ![session] = @ + 1]
        /\ lastSeq' \in {lastSeq, [lastSeq EXCEPT ![session] = cmdSeq[session] + 1]}
  /\ session' \in {session, session + 1}
  /\ target' \in {target, NoTarget}
  /\ haltFailed' /\ ~haltFailed => state' = "FAULT" \/ begun' # begun
  /\ (attempt' \in {0, attempt} /\ begun' = begun) \/ attempt' = begun'
  /\ state' = "ACTIVE" => /\ UNCHANGED <<state, session, epoch, enabled, seqVars>>
                          /\ UNCHANGED <<engagedBundle, outstanding>>
                          /\ active' \in {active, 0}

\* A round of cancel and hold or stop gives no target, and leaves one behind only if
\* it failed.
LEMMA HaltEffect ==
  ASSUME NEW h, AdapterHalts(h)
  PROVE  target' \in {target, NoTarget} /\ (haltFailed' => Failed(h))
  BY DEF AdapterHalts, Failed

\* The local hold with it allocates a sequence of its own.
LEMMA LocalHoldEffect ==
  ASSUME AuthorityInv, NEW h, LocalHold(session, h)
  PROVE  /\ cmdSeq' = [cmdSeq EXCEPT ![session] = @ + 1]
         /\ lastSeq' \in {lastSeq, [lastSeq EXCEPT ![session] = cmdSeq[session] + 1]}
         /\ target' \in {target, NoTarget} /\ (haltFailed' => Failed(h))
<1>1. lastSeq' = [lastSeq EXCEPT ![session] = IF Failed(h) THEN @ ELSE cmdSeq[session] + 1]
  BY DEF LocalHold
<1>2. CASE Failed(h)
  <2>1. lastSeq' = lastSeq
    BY <1>1, <1>2 DEF AuthorityInv, TypeOK, SeqTypeOK
  <2> QED BY <2>1, HaltEffect DEF LocalHold
<1>3. CASE ~Failed(h)
  BY <1>1, <1>3, HaltEffect DEF LocalHold
<1> QED BY <1>2, <1>3

\* A withdrawal with a hold of its own.
LEMMA WithdrawOrdinary ==
  ASSUME AuthorityInv, NEW to \in {"PAUSED", "FAULT"}, NEW causes, NEW ready, NEW h \in Halts,
         Withdraw(to, causes, ready, h), UNCHANGED <<session, dispatched, workerVars>>,
         attempt' \in {0, attempt}, begun' = begun
  PROVE  Ordinary
  BY LocalHoldEffect DEF Withdraw, Revoke, Settle, Ordinary

\* The same for a pause.
LEMMA PauseOrdinary ==
  ASSUME AuthorityInv, NEW causes, NEW ready, Pause(causes, ready) PROVE Ordinary
  BY WithdrawOrdinary DEF Pause, KeepsAfterWithdrawal

\* A step that leaves authority, threads, sequences and attempts alone, and ACTIVE as
\* it is.
LEMMA QuietOrdinary ==
  ASSUME UNCHANGED <<session, epoch, enabled, seqVars, dispatched, engagedBundle, outstanding>>,
         UNCHANGED workerVars, target' \in {target, NoTarget}, haltFailed' => haltFailed,
         attempt' \in {0, attempt}, begun' = begun,
         state' = "ACTIVE" => state = "ACTIVE" /\ active' \in {active, 0}
  PROVE  Ordinary
  BY DEF Ordinary

\* A recovery touches no authority.
LEMMA RecoverOrdinary == ASSUME Recover PROVE Ordinary
  BY QuietOrdinary DEF Recover, EnterReady

\* Samples and the watchdog.
LEMMA InputOrdinary ==
  ASSUME AuthorityInv, Inputs \/ Tick PROVE Ordinary
<1>1. ASSUME NEW src \in Sources, Receive(src) PROVE Ordinary
  BY <1>1, QuietOrdinary DEF Receive
<1>2. ASSUME NEW src \in Sources, ProcessInput(src) PROVE Ordinary
  <2>1. CASE Pause(InputCause, controllerReady)
    BY <2>1, PauseOrdinary
  <2>2. CASE Recover
    BY <2>2, RecoverOrdinary
  <2>3. CASE /\ UNCHANGED <<lifeVars, attempt, engagedBundle, outstanding, authVars, seqVars>>
             /\ UNCHANGED <<dispatchVars, storeVars, prepVars, adapterVars, workerVars>>
    BY <2>3, QuietOrdinary
  <2> QED BY <1>2, <2>1, <2>2, <2>3 DEF ProcessInput
<1>3. CASE Tick
  BY <1>3, PauseOrdinary, RecoverOrdinary DEF Tick
<1> QED BY <1>1, <1>2, <1>3 DEF Inputs

\* Initialization and the host.
LEMMA InitializationOrdinary ==
  ASSUME AuthorityInv, Initialization \/ Host PROVE Ordinary
<1>1. CASE BeginInitialization
  <2>1. /\ UNCHANGED <<session, dispatched, workerVars>> /\ state' = "VALIDATING"
        /\ attempt' = begun' /\ begun' = begun + 1 /\ begun \in Nat
    BY <1>1 DEF BeginInitialization, AuthorityInv, TypeOK, StoreTypeOK
  <2>2. CASE state \in {"ACTIVE", "READY"}
    BY <1>1, <2>1, <2>2, LocalHoldEffect DEF BeginInitialization, Revoke, Ordinary
  <2>3. CASE state \notin {"ACTIVE", "READY"}
    BY <1>1, <2>1, <2>3 DEF BeginInitialization, Ordinary
  <2> QED BY <2>2, <2>3
<1>2. ASSUME NEW a \in Attempts, PrepareStart(a) \/ PrepareFinish(a) \/ PrepareRaises(a)
      PROVE  Ordinary
  BY <1>2, QuietOrdinary DEF PrepareStart, PrepareFinish, PrepareRaises, InvalidateStore
<1>3. ASSUME NEW a \in Attempts, HostFailure(a) PROVE Ordinary
  <2>1. CASE attempt = a /\ state = "VALIDATING"
    BY <1>3, <2>1, WithdrawOrdinary DEF HostFailure
  <2>2. CASE ~(attempt = a /\ state = "VALIDATING")
    BY <1>3, <2>2, QuietOrdinary DEF HostFailure
  <2> QED BY <2>1, <2>2
<1>4. ASSUME NEW a \in Attempts, CompleteInitialization(a) PROVE Ordinary
  BY <1>4, QuietOrdinary DEF CompleteInitialization, EnterReady, AwaitContext, InvalidateStore
<1>5. CASE InvalidateContext
  <2>1. CASE state \in {"ACTIVE", "READY"}
    BY <1>5, <2>1, WithdrawOrdinary DEF InvalidateContext, KeepsAfterWithdrawal
  <2>2. CASE state \notin {"ACTIVE", "READY"}
    BY <1>5, <2>2, QuietOrdinary DEF InvalidateContext, KeepsAfterWithdrawal
  <2> QED BY <2>1, <2>2
<1>6. CASE HostInvalidatesStore \/ CancelInitialization
  BY <1>6, QuietOrdinary DEF HostInvalidatesStore, CancelInitialization, AwaitContext,
                             InvalidateStore, KeepsAfterWithdrawal
<1> QED BY <1>1, <1>2, <1>3, <1>4, <1>5, <1>6 DEF Initialization, Host

\* Controller, supervisor and operator.
LEMMA ControllerOrdinary ==
  ASSUME AuthorityInv, Controller \/ Supervisor \/ ComputationStatus(TRUE) PROVE Ordinary
<1>1. ASSUME NEW ready \in BOOLEAN, ControllerStatus(ready) PROVE Ordinary
  BY <1>1, PauseOrdinary, QuietOrdinary DEF ControllerStatus
<1>2. CASE ControllerFault
  <2>1. CASE state = "FAULT"
    BY <1>2, <2>1, QuietOrdinary DEF ControllerFault, KeepsAfterWithdrawal
  <2>2. CASE state # "FAULT"
    BY <1>2, <2>2, WithdrawOrdinary DEF ControllerFault, KeepsAfterWithdrawal
  <2> QED BY <2>1, <2>2
<1>3. CASE Rearm
  BY <1>3 DEF Rearm, KeepsAfterWithdrawal, InvalidateStore, Ordinary
<1>4. ASSUME NEW ready \in BOOLEAN, ComputationStatus(ready) PROVE Ordinary
  <2>1. CASE Pause({"computation"}, controllerReady)
    BY <2>1, PauseOrdinary
  <2>2. CASE Recover
    BY <2>2, RecoverOrdinary
  <2>3. CASE /\ UNCHANGED <<state, session, attempt, engageVars, authVars, seqVars, dispatchVars>>
             /\ UNCHANGED <<storeVars, prepVars, adapterVars, workerVars>>
    BY <2>3, QuietOrdinary
  <2> QED BY <1>4, <2>1, <2>2, <2>3 DEF ComputationStatus
<1> QED BY <1>1, <1>2, <1>3, <1>4 DEF Controller, Supervisor

\* A restart and a clock failure, whether or not a new session can be made.
LEMMA NewSessionOrdinary == ASSUME AuthorityInv, NewSession PROVE Ordinary
<1>1. PICK h \in Halts, ready \in {controllerReady, FALSE}, created \in BOOLEAN :
        /\ Revoke(ready) /\ ReplaceSession(created)
        /\ LocalHold(session, h) \/ (AdapterHalts(h) /\ UNCHANGED seqVars)
        /\ Settle(IF state = "FAULT" THEN "FAULT" ELSE "UNINITIALIZED",
                  Failed(h) \/ (~created /\ state # "FAULT"), controllerReady)
  BY DEF NewSession, RestartSession, ClockFailure
<1>2. /\ target' \in {target, NoTarget} /\ (haltFailed' => Failed(h))
      /\ \/ UNCHANGED seqVars
         \/ /\ cmdSeq' = [cmdSeq EXCEPT ![session] = @ + 1]
            /\ lastSeq' \in {lastSeq, [lastSeq EXCEPT ![session] = cmdSeq[session] + 1]}
  BY <1>1, HaltEffect, LocalHoldEffect
<1>3. state' \in {"FAULT", "UNINITIALIZED"} /\ (Failed(h) => state' = "FAULT")
  BY <1>1 DEF Settle
<1>4. /\ UNCHANGED <<dispatched, workerVars>> /\ session' \in {session, session + 1}
      /\ attempt' \in {0, attempt} /\ begun' = begun
  BY <1>1 DEF ReplaceSession
<1>5. epoch' = [epoch EXCEPT ![session] = @ + 1]
  BY <1>1 DEF Revoke
<1> QED BY <1>2, <1>3, <1>4, <1>5 DEF Ordinary

\* The passage of time.
LEMMA TimeOrdinary == ASSUME AuthorityInv, Time PROVE Ordinary
<1>1. /\ UNCHANGED <<state, session, epoch, enabled, seqVars, dispatched, engagedBundle>>
      /\ UNCHANGED <<outstanding, active, attempt, begun, workerVars>>
  BY DEF Time, JoystickAges, RobotStateAges, LivenessDeadlinePasses, TargetExpires,
         ClockBreaks, SolveDeadlinePasses, DispatchExpires, Unmoved
<1>2. target' \in {target, NoTarget} /\ (haltFailed' => haltFailed)
  BY DEF Time, JoystickAges, RobotStateAges, LivenessDeadlinePasses, TargetExpires,
         ClockBreaks, SolveDeadlinePasses, DispatchExpires, Unmoved
<1> QED BY <1>1, <1>2, QuietOrdinary

\* A dispatch of the cycle, as opposed to its refusal.
Dispatches ==
  /\ DispatchCycle /\ DispatchCause = {}
  /\ LET d == [session |-> session, epoch |-> epoch[session], seq |-> cmdSeq[session] + 1,
               bundle |-> active]
     IN /\ dispatched' = dispatched \union {d}
        /\ outstanding' = outstanding \union {d}
  /\ cmdSeq' = [cmdSeq EXCEPT ![session] = @ + 1]
  /\ UNCHANGED <<lifeVars, attempt, engagedBundle, armed, seen, newer, granting,
                 authVars, lastSeq, late, expired, inputVars, idle, storeVars,
                 prepVars, adapterVars, workerVars>>

\* Every step is ordinary, a grant, a dispatch or the delivery of a result.
LEMMA OrdinarySteps ==
  ASSUME AuthorityInv, [Next]_vars PROVE Ordinary \/ Grant \/ Dispatches \/ Results
<1>1. CASE DispatchCycle
  BY <1>1, PauseOrdinary DEF DispatchCycle, Dispatches
<1>2. CASE UNCHANGED vars
  BY <1>2, QuietOrdinary DEF vars
<1> QED BY <1>1, <1>2, InputOrdinary, InitializationOrdinary, ControllerOrdinary,
           NewSessionOrdinary, TimeOrdinary DEF Next, NextUnreported

\* What the gate decides and what a thread does with it leave attempts alone.
LEMMA ResultsKeepAttempts ==
  ASSUME Grant \/ Dispatches \/ Results PROVE UNCHANGED <<attempt, prepVars>>
  BY DEF Grant, Dispatches, Results, SubmitResult, Decide, AfterDecision

\* An attempt under way is the one begun last.
LatestAttempt == attempt \in {0, begun}

\* LatestAttempt is an invariant: only a new attempt replaces one under way.
LEMMA LatestAttemptInvariant == Spec => [](AuthorityInv /\ LatestAttempt)
<1>1. Init => LatestAttempt
  BY DEF Init, LatestAttempt
<1>2. AuthorityInv /\ LatestAttempt /\ [Next]_vars => LatestAttempt'
  <2> SUFFICES ASSUME AuthorityInv, LatestAttempt, [Next]_vars PROVE LatestAttempt'
    OBVIOUS
  <2>1. CASE Ordinary
    BY <2>1 DEF Ordinary, LatestAttempt
  <2>2. CASE Grant \/ Dispatches \/ Results
    BY <2>2, ResultsKeepAttempts DEF LatestAttempt
  <2> QED BY <2>1, <2>2, OrdinarySteps
<1> QED BY <1>1, <1>2, AuthorityInductive, PTL DEF Spec

\* Whatever other attempts, of this session or a replaced one, resolve meanwhile, an
\* initialization ends in READY only with the context of the attempt begun last.
THEOREM PublicationIsLatest == Spec => LatestAttemptPublished
<1>1. AuthorityInv /\ LatestAttempt /\ [Next]_vars => [PublishesLatest]_vars
  <2> SUFFICES ASSUME AuthorityInv, LatestAttempt, [Next]_vars,
                      state = "VALIDATING", state' = "READY"
               PROVE  active' = begun /\ storeAttempt' = 0
    BY DEF PublishesLatest
  <2>1. StepKind
    BY StepKinds
  <2>2. PICK a \in Attempts : CompleteInitialization(a)
    BY <2>1 DEF StepKind, Withdrawn, Progressed, Recovered, Completed, Engaged, Rearm
  <2>3. attempt = a /\ active' = a /\ storeAttempt' = 0
    BY <2>2 DEF CompleteInitialization, AwaitContext
  <2> QED BY <2>3 DEF LatestAttempt, Attempts
<1> QED BY <1>1, LatestAttemptInvariant, PTL DEF Spec, LatestAttemptPublished

\* A thread that comes from the gate with a request of FAULT.
FaultRequested == \E w \in Workers : pc'[w] = "decided" /\ job'[w].request = "FAULT"

\* The gate gives up a target that stays only with a request of FAULT.
LEMMA ResultHalts ==
  ASSUME AuthorityInv, Results, haltFailed', ~haltFailed PROVE FaultRequested
<1>1. PICK w \in Workers : Decide(w)
  BY DEF Results, SubmitResult, AfterDecision
<1>2. pc \in [Workers -> {"idle", "submitted", "decided"}] /\ DOMAIN job = Workers
  BY DEF AuthorityInv, TypeOK, WorkerTypeOK
<1>3. ASSUME NEW disposition, NEW cause, Decided(w, disposition, "FAULT", cause)
      PROVE  FaultRequested
  BY <1>2, <1>3 DEF Decided, FaultRequested
<1>4. ASSUME NEW cause, NEW fault, RejectCurrent(w, cause, fault) PROVE FaultRequested
  <2>1. PICK h \in Halts :
          /\ LocalHold(job[w].session, h)
          /\ Decided(w, "rejected", IF fault \/ Failed(h) THEN "FAULT" ELSE "PAUSED", cause)
    BY <1>4 DEF RejectCurrent
  <2>2. Failed(h)
    BY <2>1, HaltEffect DEF LocalHold
  <2> QED BY <1>3, <2>1, <2>2
<1>5. CASE AcceptHold(w)
  BY <1>3, <1>5, HaltEffect DEF AcceptHold
<1>6. ~AcceptMove(w)
  BY DEF AcceptMove
<1> QED BY <1>1, <1>4, <1>5, <1>6 DEF Decide

\* An adapter that refuses both requests of a round, so that its target stays, is
\* never passed over: whoever asked latches FAULT or carries it to the lifecycle, but
\* for the beginning of an initialization, on every path of every handler.
THEOREM HaltFailuresKnown == Spec => HaltFailureKnown
<1>1. AuthorityInv /\ [Next]_vars =>
        [haltFailed' /\ ~haltFailed =>
           \/ state' = "FAULT"
           \/ begun' # begun
           \/ \E w \in Workers : pc'[w] = "decided" /\ job'[w].request = "FAULT"]_vars
  <2> SUFFICES ASSUME AuthorityInv, [Next]_vars, haltFailed', ~haltFailed
               PROVE  state' = "FAULT" \/ begun' # begun \/ FaultRequested
    BY DEF FaultRequested
  <2>1. CASE Ordinary
    BY <2>1 DEF Ordinary
  <2>2. ~Grant /\ ~Dispatches
    BY DEF Grant, Dispatches
  <2> QED BY <2>1, <2>2, OrdinarySteps, ResultHalts
<1> QED BY <1>1, AuthorityInductive, PTL DEF Spec, HaltFailureKnown

=============================================================================
