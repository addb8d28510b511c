------------------------------ MODULE Lifecycle ------------------------------
(***************************************************************************)
(* The robot-side runtime of offline/src/ssc_runtime: LifecycleCoordinator *)
(* (lifecycle.py) together with the parts of SnapshotCoordinator           *)
(* (snapshots.py), CommandGate (gate.py) and ActiveBundleStore             *)
(* (activation.py) through which it grants and withdraws motion authority, *)
(* and the command adapter they drive.                                     *)
(*                                                                         *)
(* Threads.  Every entry point of the coordinator is one step, taken under *)
(* its lock, except where the code releases or does not hold it:           *)
(*   - on_input receives a sample under the coordinator's lock only and    *)
(*     processes it later under the lifecycle lock (Receive, ProcessInput);*)
(*   - an engagement is checked first and granted inside a later command   *)
(*     transaction, the lifecycle lock being held throughout (Grant);      *)
(*   - submit_result reads the epoch, lets the gate decide in a command    *)
(*     transaction and comes back under the lifecycle lock (SubmitResult,  *)
(*     Decide, AfterDecision);                                             *)
(*   - prepare_initialization resolves outside every lock.                 *)
(*                                                                         *)
(* Time is abstracted to what the code compares: whether the newest sample *)
(* of a source is within its timeout, whether a dispatch has passed its    *)
(* solve deadline or its expiry, whether the liveness deadline has passed. *)
(* Joystick sequence numbers are abstracted to the comparisons the code    *)
(* makes with the newest one: "seen" is sequence <= _ready_seen_seq and    *)
(* "newer" is sequence > _withdrawal_input_seq.                            *)
(***************************************************************************)
EXTENDS Naturals, FiniteSets

CONSTANTS
  Workers,         \* threads that deliver worker results (submit_result)
  MaxSession,      \* bound on sessions: restarts and clock resets
  MaxEpoch,        \* bound on epochs: READY is entered only below it
  MaxAttempt,      \* bound on begin_initialization calls
  MaxDispatch,     \* bound on dispatches
  Readings,        \* the measured states that arrive
  Contents,        \* the results that workers submit
  Disturbances,    \* who interferes on his own account: host, controller, supervisor,
                   \* a clock that breaks, a session factory that fails
  AdapterFailures  \* the adapter's requests that may raise: apply, cancel, halt

\* A measured state is of another frame, refused by the host checks, or accepted
\* by them.  A result says: a step, a hold, a message that the gate's parsing,
\* identity or budget checks refuse, or a step the host constraints refuse.
ASSUME BoundsAssumption ==
  /\ MaxSession \in Nat \ {0}
  /\ MaxEpoch \in Nat
  /\ MaxAttempt \in Nat
  /\ MaxDispatch \in Nat
  /\ Readings \subseteq {"misframed", "infeasible", "ok"}
  /\ Contents \subseteq {"move", "hold", "invalid", "unsafe"}
  /\ Disturbances \subseteq {"host", "controller", "supervisor", "clock", "factory"}
  /\ AdapterFailures \subseteq {"apply", "cancel", "halt"}

VARIABLES
  \* LifecycleCoordinator
  state, session, controllerReady, computationReady, faultCleared,
  pauseCauses, attempt, engagedBundle, armed, seen, newer, outstanding,
  granting,        \* the engagement being granted under the lifecycle lock
  \* SnapshotCoordinator, per session where a retired session's is still read
  epoch, cmdSeq, dispatched, late, expired, joy, joyFresh, robot, clockOk,
  \* CommandGate, per session
  enabled, authEpoch, gateReady, lastSeq, idle,
  \* ActiveBundleStore of the current session
  active, storeAttempt, prepared, prep, begun,
  \* the command adapter
  target, haltFailed,
  \* threads: the session of a received, unprocessed sample; result delivery
  inputPc, pc, job

lifeVars == <<state, session, controllerReady, computationReady, faultCleared,
              pauseCauses>>
engageVars == <<engagedBundle, armed, seen, newer, outstanding>>
authVars == <<epoch, enabled, authEpoch, gateReady>>
seqVars == <<cmdSeq, lastSeq>>
dispatchVars == <<dispatched, late, expired>>
inputVars == <<joy, joyFresh, robot, clockOk>>
storeVars == <<active, storeAttempt, prepared>>
prepVars == <<prep, begun>>
adapterVars == <<target, haltFailed>>
workerVars == <<pc, job>>

vars == <<lifeVars, attempt, engageVars, granting, authVars, seqVars, dispatchVars,
          inputVars, idle, storeVars, prepVars, adapterVars, inputPc, workerVars>>

-----------------------------------------------------------------------------
(* Values.  Bundles are named by the attempt that published them; 0 is none. *)

Sessions == 1..MaxSession
Attempts == 1..MaxAttempt
Sources == {"joystick", "robot"}

States == {"UNINITIALIZED", "VALIDATING", "READY", "ACTIVE", "PAUSED", "FAULT"}
Causes == {"release", "input", "computation", "host_rejection", "context", "controller"}

Dispatch == [session: Sessions, epoch: Nat, seq: Nat, bundle: Attempts]
Target == [session: Sessions, epoch: Nat, seq: Nat]
NoTarget == [session |-> 0, epoch |-> 0, seq |-> 0]
NoGrant == [source |-> "none", bundle |-> 0]

Dispositions == {"discarded", "rejected", "accepted_hold", "adapter_failure",
                 "accepted_move"}
Requests == {"none", "PAUSED", "FAULT"}

\* What a delivering thread carries: the result, whether it came in time, and the
\* session and epoch read at the start; then the gate's decision about it.
Submission == [result: Dispatch, content: Contents, late: BOOLEAN,
               session: Sessions, epoch: Nat]
Decision == [result: Dispatch, session: Sessions, epoch: Nat,
             disposition: Dispositions, request: Requests, cause: Causes]
NoJob == [session |-> 0]

\* The newest measured state: missing or stale, or a fresh reading.
RobotStates == Readings \union {"none"}

\* A round of cancel followed by hold or stop: which of the two requests the
\* adapter took.  Which one of hold and stop was asked is not distinguished.
Halts == {h \in [cancelled: BOOLEAN, halted: BOOLEAN] :
            /\ "cancel" \in AdapterFailures \/ h.cancelled
            /\ "halt" \in AdapterFailures \/ h.halted}
Failed(h) == ~(h.cancelled /\ h.halted)

Init ==
  /\ state = "UNINITIALIZED" /\ session = 1
  /\ controllerReady = FALSE /\ computationReady = FALSE /\ faultCleared = FALSE
  /\ pauseCauses = {} /\ attempt = 0 /\ engagedBundle = 0
  /\ armed = FALSE /\ seen = FALSE /\ newer = FALSE /\ outstanding = {}
  /\ granting = NoGrant
  /\ epoch = [s \in Sessions |-> 0] /\ authEpoch = [s \in Sessions |-> 0]
  /\ enabled = [s \in Sessions |-> FALSE] /\ gateReady = [s \in Sessions |-> FALSE]
  /\ cmdSeq = [s \in Sessions |-> 0] /\ lastSeq = [s \in Sessions |-> 0]
  /\ dispatched = {} /\ late = {} /\ expired = {}
  /\ joy = "none" /\ joyFresh = FALSE /\ robot = "none" /\ clockOk = TRUE
  /\ idle = FALSE
  /\ active = 0 /\ storeAttempt = 0 /\ prepared = 0
  /\ prep = [a \in Attempts |-> "none"] /\ begun = 0
  /\ target = NoTarget /\ haltFailed = FALSE
  /\ inputPc = [src \in Sources |-> 0]
  /\ pc = [w \in Workers |-> "idle"] /\ job = [w \in Workers |-> NoJob]

-----------------------------------------------------------------------------
(* Withdrawal.  Each operator assigns one group of variables, so that a      *)
(* caller reads as the list of what its handler does.                        *)

\* READY is entered only below the epoch bound, and left whatever the epoch; a
\* fault, restart or clock failure in another state stays below it.
BelowBound == state \in {"ACTIVE", "READY"} \/ epoch[session] < MaxEpoch

\* An entry point gets the lifecycle lock and a working local clock.
Entered == granting = NoGrant /\ clockOk

\* The adapter drops its target with the first request it takes.
AdapterHalts(h) ==
  /\ target' = IF h.cancelled \/ h.halted THEN NoTarget ELSE target
  /\ haltFailed' = (~h.cancelled /\ ~h.halted /\ target # NoTarget)

\* Mutant: the hold is recorded as a command but never reaches the adapter.
LocalHoldUnsent(s, h) ==
  /\ cmdSeq' = [cmdSeq EXCEPT ![s] = @ + 1]
  /\ lastSeq' = [lastSeq EXCEPT ![s] = IF Failed(h) THEN @ ELSE cmdSeq[s] + 1]
  /\ UNCHANGED adapterVars

\* CommandGate._local_hold: a newly allocated host sequence, accepted unless a
\* request failed.  (The callers close the gate.)
LocalHold(s, h) ==
  /\ cmdSeq' = [cmdSeq EXCEPT ![s] = @ + 1]
  /\ lastSeq' = [lastSeq EXCEPT ![s] = IF Failed(h) THEN @ ELSE cmdSeq[s] + 1]
  /\ AdapterHalts(h)

\* Mutant: the epoch moves on but the gate keeps its authority.
RevokeEpochOnly(ready) ==
  /\ epoch' = [epoch EXCEPT ![session] = @ + 1]
  /\ authEpoch' = [authEpoch EXCEPT ![session] = epoch[session] + 1]
  /\ gateReady' = [gateReady EXCEPT ![session] = ready]
  /\ UNCHANGED enabled

\* set_control_epoch(old + 1) and set_authority(motion_enabled=False).
Revoke(ready) ==
  /\ epoch' = [epoch EXCEPT ![session] = @ + 1]
  /\ authEpoch' = [authEpoch EXCEPT ![session] = epoch[session] + 1]
  /\ enabled' = [enabled EXCEPT ![session] = FALSE]
  /\ gateReady' = [gateReady EXCEPT ![session] = ready]

Disengage ==
  /\ engagedBundle' = 0 /\ armed' = FALSE /\ seen' = FALSE
  /\ newer' = FALSE /\ outstanding' = {}

\* Mutant: the outcome of the hold or stop request is not looked at.
SettleRegardless(to, failed, ready) ==
  /\ state' = to
  /\ faultCleared' = (faultCleared /\ to # "FAULT")
  /\ controllerReady' = (ready /\ to # "FAULT")

\* The state a withdrawal ends in: FAULT when a request failed, and a new latch
\* (clearance revoked, controller not ready) for every new cause of FAULT.
Settle(to, failed, ready) ==
  LET next == IF failed THEN "FAULT" ELSE to
      latched == next = "FAULT" /\ (state # "FAULT" \/ failed)
  IN /\ state' = next
     /\ faultCleared' = (faultCleared /\ ~latched)
     /\ controllerReady' = (ready /\ ~latched)

Blame(causes) ==
  /\ pauseCauses' = IF state' = "PAUSED" THEN causes ELSE {}
  /\ computationReady' = (computationReady /\ "computation" \notin causes)

\* LifecycleCoordinator._withdraw with a local hold or stop of its own.
Withdraw(to, causes, ready, h) ==
  /\ Revoke(ready)
  /\ LocalHold(session, h)
  /\ Disengage
  /\ Settle(to, Failed(h), ready)
  /\ Blame(causes)

\* Mutant: the gate has closed itself already, so its epoch is left alone.
WithdrawAroundKeepingEpoch(to, causes, failed) ==
  /\ UNCHANGED authVars
  /\ Disengage
  /\ Settle(to, failed, controllerReady)
  /\ Blame(causes)

\* LifecycleCoordinator._withdraw around a decision in which the gate has
\* already cancelled and held or stopped.
WithdrawAround(to, causes, failed) ==
  /\ Revoke(controllerReady)
  /\ Disengage
  /\ Settle(to, failed, controllerReady)
  /\ Blame(causes)

\* Everything a withdrawal in place leaves alone.
KeepsAfterWithdrawal == UNCHANGED <<session, granting, dispatchVars, inputVars, idle, prepVars>>

\* ActiveBundleStore.invalidate
InvalidateStore == active' = 0 /\ storeAttempt' = 0 /\ prepared' = 0

-----------------------------------------------------------------------------
(* Inputs.                                                                   *)

\* SnapshotCoordinator.receive of an admissible sample, in on_input: under the
\* coordinator's lock only.  A sample that is stale on arrival is one that ages at
\* once.  An adapter delivers its samples one at a time.
Receive(src) ==
  /\ inputPc[src] = 0 /\ clockOk
  /\ inputPc' = [inputPc EXCEPT ![src] = session]
  /\ \/ /\ src = "joystick"
        /\ joy' \in {"neutral", "moving"} /\ joyFresh' = TRUE
        /\ seen' = FALSE /\ newer' = TRUE
        /\ UNCHANGED robot
     \/ /\ src = "robot"
        /\ robot' \in Readings
        /\ UNCHANGED <<joy, joyFresh, seen, newer>>
  /\ UNCHANGED <<lifeVars, attempt, engagedBundle, armed, outstanding, granting, authVars,
                 seqVars, dispatchVars, clockOk, idle, storeVars, prepVars, adapterVars,
                 workerVars>>

\* CommandGate._feedback: fresh measured state that passes the host checks.
Feedback == active # 0 /\ robot = "ok"

\* Mutant: whatever fresh sample is there at the entry arms the engagement.
EnterReadyArmed ==
  /\ state' = "READY"
  /\ seen' = FALSE
  /\ armed' = (joy # "none" /\ joyFresh)

\* _enter_ready: a fresh neutral sample already there arms the engagement.
EnterReady ==
  /\ state' = "READY"
  /\ seen' = (joy # "none")
  /\ armed' = (joy = "neutral" /\ joyFresh)

\* The conditions of _try_recover.
Recoverable(ready) ==
  /\ active # 0 /\ joy = "neutral" /\ joyFresh /\ newer /\ robot = "ok"
  /\ "computation" \in pauseCauses => ready
  /\ epoch[session] < MaxEpoch

Recover ==
  /\ EnterReady
  /\ pauseCauses' = {}
  /\ UNCHANGED <<session, controllerReady, faultCleared, attempt, engagedBundle, newer,
                 outstanding, granting, authVars, seqVars, dispatchVars, inputVars, idle,
                 storeVars, prepVars, adapterVars, workerVars>>

\* A withdrawal that leaves attempt, store and threads alone.
Pause(causes, ready) ==
  /\ \E h \in Halts : Withdraw("PAUSED", causes, ready, h)
  /\ UNCHANGED <<attempt, storeVars, workerVars>>
  /\ KeepsAfterWithdrawal

\* Mutant: whether the engaged context is still current is left to the gate.
SourceCauseOfAges == IF ~joyFresh \/ robot = "none" THEN {"input"} ELSE {}

\* The source checks of _check_active, in its order.
SourceCause ==
  IF active # engagedBundle THEN {"context"}
  ELSE IF ~joyFresh \/ robot = "none" THEN {"input"}
  ELSE {}

\* Mutant: a release is left to the next dispatch cycle.
InputCauseOfSources == SourceCause

\* _process_inputs while ACTIVE: a release withdraws at once, then the sources.
InputCause == IF joy = "neutral" THEN {"release"} ELSE SourceCause

EngagementRefused == ~(joyFresh /\ Feedback /\ controllerReady /\ computationReady)

\* _ready_input up to its command transaction.  The checks of an engagement that
\* nothing refuses are done here; the lifecycle lock is kept until Grant.
ReadyInput(src) ==
  IF active = 0 \/ joy = "none" \/ seen
  THEN UNCHANGED <<seen, armed, granting>> /\ inputPc' = [inputPc EXCEPT ![src] = 0]
  ELSE /\ seen' = TRUE
       /\ armed' = IF joy = "neutral" THEN joyFresh ELSE armed /\ ~EngagementRefused
       /\ IF joy = "moving" /\ armed /\ ~EngagementRefused
          THEN granting' = [source |-> src, bundle |-> active] /\ UNCHANGED inputPc
          ELSE UNCHANGED granting /\ inputPc' = [inputPc EXCEPT ![src] = 0]

Idle(src) == inputPc' = [inputPc EXCEPT ![src] = 0]

\* The rest of on_input, under the lifecycle lock.  A sample received by a
\* session that has been replaced since is not processed.
ProcessInput(src) ==
  /\ Entered /\ inputPc[src] # 0
  /\ \/ /\ \/ inputPc[src] # session
           \/ state \in {"UNINITIALIZED", "VALIDATING", "FAULT"}
           \/ (state = "ACTIVE" /\ InputCause = {})
           \/ (state = "PAUSED" /\ ~Recoverable(computationReady))
        /\ Idle(src)
        /\ UNCHANGED <<lifeVars, attempt, engageVars, granting, authVars, seqVars,
                       dispatchVars, inputVars, idle, storeVars, prepVars, adapterVars,
                       workerVars>>
     \/ /\ inputPc[src] = session /\ state = "ACTIVE" /\ InputCause # {}
        /\ Pause(InputCause, controllerReady)
        /\ Idle(src)
     \/ /\ inputPc[src] = session /\ state = "PAUSED" /\ Recoverable(computationReady)
        /\ Recover
        /\ Idle(src) /\ UNCHANGED computationReady
     \/ /\ inputPc[src] = session /\ state = "READY"
        /\ ReadyInput(src)
        /\ UNCHANGED <<lifeVars, attempt, engagedBundle, newer, outstanding, authVars,
                       seqVars, dispatchVars, inputVars, idle, storeVars, prepVars,
                       adapterVars, workerVars>>

\* The command transaction of _ready_input: the grant, unless the context moved.
Grant ==
  /\ granting # NoGrant
  /\ granting' = NoGrant
  /\ Idle(granting.source)
  /\ IF active = granting.bundle
     THEN /\ authEpoch' = [authEpoch EXCEPT ![session] = epoch[session]]
          /\ enabled' = [enabled EXCEPT ![session] = TRUE]
          /\ gateReady' = [gateReady EXCEPT ![session] = TRUE]
          /\ engagedBundle' = active /\ outstanding' = {} /\ idle' = FALSE
          /\ state' = "ACTIVE"
          /\ UNCHANGED armed
     ELSE /\ armed' = FALSE
          /\ UNCHANGED <<state, authEpoch, enabled, gateReady, engagedBundle, outstanding, idle>>
  /\ UNCHANGED <<session, controllerReady, computationReady, faultCleared, pauseCauses,
                 attempt, seen, newer, epoch, seqVars, dispatchVars, inputVars, storeVars,
                 prepVars, adapterVars, workerVars>>

-----------------------------------------------------------------------------
(* Watchdogs and dispatch.                                                   *)

\* Mutant: the watchdog knows no liveness deadline.
WatchdogCauseOfResults ==
  IF SourceCause # {} THEN SourceCause
  ELSE IF (outstanding \intersect expired) # {} THEN {"computation"}
  ELSE {}

\* _check_active: sources, then missed deadlines, then liveness.
WatchdogCause ==
  IF SourceCause # {} THEN SourceCause
  ELSE IF (outstanding \intersect expired) # {} \/ idle THEN {"computation"}
  ELSE {}

\* tick() while READY: the context, then the required inputs.
ReadyCause ==
  IF active = 0 THEN {"context"}
  ELSE IF ~joyFresh \/ robot = "none" THEN {"input"}
  ELSE {}

Tick ==
  /\ Entered
  /\ UNCHANGED inputPc
  /\ \/ /\ state = "ACTIVE" /\ WatchdogCause # {}
        /\ Pause(WatchdogCause, controllerReady)
     \/ /\ state = "READY" /\ ReadyCause # {}
        /\ Pause(ReadyCause, controllerReady)
     \/ /\ state = "PAUSED" /\ Recoverable(computationReady)
        /\ Recover /\ UNCHANGED computationReady

\* SnapshotCoordinator._inputs: both sources fresh, the state in our frames.
InputsUsable == joyFresh /\ robot \in {"infeasible", "ok"}

\* Why assemble() or dispatch() refuses.  Any other exception of theirs (no
\* solve budget left, a registry error) is blamed on the computation.
DispatchCause ==
  IF active = 0 THEN {"context"}
  ELSE IF ~InputsUsable THEN {"input"}
  ELSE IF joy = "neutral" THEN {"release"}
  ELSE {}

DispatchCycle ==
  /\ Entered /\ state = "ACTIVE"
  /\ UNCHANGED inputPc
  /\ \/ /\ DispatchCause = {} /\ Cardinality(dispatched) < MaxDispatch
        /\ LET d == [session |-> session, epoch |-> epoch[session],
                     seq |-> cmdSeq[session] + 1, bundle |-> active]
           IN /\ dispatched' = dispatched \union {d}
              /\ outstanding' = outstanding \union {d}
        /\ cmdSeq' = [cmdSeq EXCEPT ![session] = @ + 1]
        /\ UNCHANGED <<lifeVars, attempt, engagedBundle, armed, seen, newer, granting,
                       authVars, lastSeq, late, expired, inputVars, idle, storeVars,
                       prepVars, adapterVars, workerVars>>
     \/ DispatchCause # {} /\ Pause(DispatchCause, controllerReady)
     \/ DispatchCause = {} /\ Pause({"computation"}, controllerReady)

-----------------------------------------------------------------------------
(* Results.  A worker thread delivers any result for any dispatch, at any    *)
(* time and as often as it likes.                                            *)

ActiveIn(s) == IF s = session THEN active ELSE 0

\* submit_result up to the gate's first clock reading: the runtime and the epoch
\* are read, and whether the result arrived before the solve deadline.
SubmitResult(w) ==
  /\ pc[w] = "idle" /\ clockOk
  /\ \E d \in dispatched, c \in Contents :
        job' = [job EXCEPT ![w] = [result |-> d, content |-> c, late |-> d \in late,
                                   session |-> session, epoch |-> epoch[session]]]
  /\ pc' = [pc EXCEPT ![w] = "submitted"]
  /\ UNCHANGED <<lifeVars, attempt, engageVars, granting, authVars, seqVars, dispatchVars,
                 inputVars, idle, storeVars, prepVars, adapterVars, inputPc>>

\* Mutant: a command that was answered already is not superseded.
CausalRepeatedly(j) ==
  LET s == j.session
      d == j.result
  IN /\ d.session = s /\ d.epoch = epoch[s]
     /\ d.bundle = ActiveIn(s)
     /\ d \notin expired
     /\ enabled[s] /\ authEpoch[s] = epoch[s]

\* The supersession tests, which precede every cancel, hold and stop, and the
\* gate's own authority.  Under the lifecycle a later dispatch has both the later
\* snapshot and the later command sequence, so that superseded_snapshot and an
\* already accepted result_id are cases of superseded_command.
Causal(j) ==
  LET s == j.session
      d == j.result
  IN /\ d.session = s /\ d.epoch = epoch[s]
     /\ d.bundle = ActiveIn(s)
     /\ d.seq > lastSeq[s]
     /\ d \notin expired
     /\ enabled[s] /\ authEpoch[s] = epoch[s]

\* What the gate makes of a causal result, in the order of its tests.
Verdict(j) ==
  IF ~gateReady[j.session] THEN "controller_not_ready"
  ELSE IF j.content = "invalid" \/ (j.content # "hold" /\ j.late) THEN "computation"
  ELSE IF ~InputsUsable \/ joy # "moving" THEN "input"
  ELSE IF j.content = "hold" THEN "hold"
  ELSE IF j.content = "unsafe" \/ robot # "ok" THEN "host_rejection"
  ELSE "move"

\* Mutant: the delivering thread starts over instead of returning its decision.
DecidedAgain(w, disposition, request, cause) ==
  /\ UNCHANGED pc
  /\ job' = [job EXCEPT ![w] =
               [result |-> @.result, session |-> @.session, epoch |-> @.epoch,
                disposition |-> disposition, request |-> request, cause |-> cause]]

\* CommandGate.submit returns its decision to the delivering thread.
Decided(w, disposition, request, cause) ==
  /\ pc' = [pc EXCEPT ![w] = "decided"]
  /\ job' = [job EXCEPT ![w] =
               [result |-> @.result, session |-> @.session, epoch |-> @.epoch,
                disposition |-> disposition, request |-> request, cause |-> cause]]

\* Mutant: the gate holds for itself and asks nothing of the lifecycle.
RejectCurrentSilently(w, cause, fault) ==
  \E h \in Halts :
    /\ enabled' = [enabled EXCEPT ![job[w].session] = FALSE]
    /\ LocalHold(job[w].session, h)
    /\ Decided(w, "rejected", IF fault \/ Failed(h) THEN "FAULT" ELSE "none", cause)
    /\ UNCHANGED idle

\* _reject_current: the gate closes itself and holds or stops locally.
RejectCurrent(w, cause, fault) ==
  \E h \in Halts :
    /\ enabled' = [enabled EXCEPT ![job[w].session] = FALSE]
    /\ LocalHold(job[w].session, h)
    /\ Decided(w, "rejected", IF fault \/ Failed(h) THEN "FAULT" ELSE "PAUSED", cause)
    /\ UNCHANGED idle

\* An accepted worker hold closes the gate and counts as progress.
AcceptHold(w) ==
  \E h \in Halts :
    /\ enabled' = [enabled EXCEPT ![job[w].session] = FALSE]
    /\ AdapterHalts(h)
    /\ UNCHANGED cmdSeq
    /\ IF Failed(h)
       THEN /\ Decided(w, "adapter_failure", "FAULT", "computation")
            /\ UNCHANGED <<lastSeq, idle>>
       ELSE /\ Decided(w, "accepted_hold", "PAUSED", "computation")
            /\ lastSeq' = [lastSeq EXCEPT ![job[w].session] = job[w].result.seq]
            /\ idle' = FALSE

\* An accepted step becomes the adapter's target.
AcceptMove(w) ==
  LET d == job[w].result
  IN /\ target' = [session |-> job[w].session, epoch |-> d.epoch, seq |-> d.seq]
     /\ haltFailed' = FALSE
     /\ lastSeq' = [lastSeq EXCEPT ![job[w].session] = d.seq]
     /\ idle' = FALSE
     /\ Decided(w, "accepted_move", "none", "computation")
     /\ UNCHANGED <<enabled, cmdSeq>>

\* CommandGate.submit, its command transaction: one step, whatever the lifecycle
\* lock's holder is doing.
Decide(w) ==
  LET j == job[w]
      v == Verdict(j)
  IN /\ pc[w] = "submitted"
     /\ j.session = session => clockOk
     /\ \/ /\ ~Causal(j)
           /\ Decided(w, "discarded", "none", "computation")
           /\ UNCHANGED <<enabled, seqVars, idle, adapterVars>>
        \/ /\ Causal(j) /\ v \in {"computation", "input", "host_rejection"}
           /\ RejectCurrent(w, v, FALSE)
        \/ /\ Causal(j)
           /\ v = "controller_not_ready" \/ (v = "move" /\ "apply" \in AdapterFailures)
           /\ RejectCurrent(w, "computation", TRUE)
        \/ Causal(j) /\ v = "hold" /\ AcceptHold(w)
        \/ Causal(j) /\ v = "move" /\ AcceptMove(w)
     /\ UNCHANGED <<lifeVars, attempt, engageVars, granting, epoch, authEpoch, gateReady,
                    dispatchVars, inputVars, storeVars, prepVars, inputPc>>

\* Mutant: only the dispatches before the accepted one are dropped.
RemainingWithAccepted(j) ==
  {d \in outstanding :
     /\ j.disposition \notin {"discarded", "accepted_move"} => d # j.result
     /\ j.disposition = "accepted_move" => d.seq >= j.result.seq}

\* The dispatches still outstanding after a decision.
Remaining(j) ==
  {d \in outstanding :
     /\ j.disposition # "discarded" => d # j.result
     /\ j.disposition = "accepted_move" => d.seq > j.result.seq}

\* _after_decision, under the lifecycle lock, unless the session was replaced.
AfterDecision(w) ==
  LET j == job[w]
  IN /\ Entered /\ pc[w] = "decided"
     /\ pc' = [pc EXCEPT ![w] = "idle"] /\ job' = [job EXCEPT ![w] = NoJob]
     /\ \/ /\ j.session = session /\ j.request = "FAULT" /\ state # "FAULT"
           /\ WithdrawAround("FAULT", {}, j.disposition = "adapter_failure")
        \/ /\ j.session = session /\ j.request = "PAUSED"
           /\ state = "ACTIVE" /\ epoch[session] = j.epoch
           /\ WithdrawAround("PAUSED", {j.cause}, FALSE)
        \/ /\ \/ j.session # session \/ j.request = "none"
              \/ j.request = "FAULT" /\ state = "FAULT"
              \/ j.request = "PAUSED" /\ ~(state = "ACTIVE" /\ epoch[session] = j.epoch)
           /\ outstanding' = IF j.session = session THEN Remaining(j) ELSE outstanding
           /\ UNCHANGED <<lifeVars, engagedBundle, armed, seen, newer, authVars>>
     /\ UNCHANGED <<session, attempt, granting, seqVars, dispatchVars, inputVars, idle,
                    storeVars, prepVars, adapterVars, inputPc>>

-----------------------------------------------------------------------------
(* Initialization.                                                           *)

\* _begin: withdraws from ACTIVE or READY, then VALIDATING whatever the
\* withdrawal ended in (the state is assigned after it).
BeginInitialization ==
  /\ Entered /\ state # "FAULT" /\ begun < MaxAttempt
  /\ begun' = begun + 1 /\ attempt' = begun + 1
  /\ prep' = [prep EXCEPT ![begun + 1] = "issued"]
  /\ active' = 0 /\ prepared' = 0 /\ storeAttempt' = begun + 1
  /\ state' = "VALIDATING"
  /\ IF state \in {"ACTIVE", "READY"}
     THEN \E h \in Halts :
            /\ Revoke(controllerReady) /\ LocalHold(session, h) /\ Disengage
            /\ faultCleared' = (faultCleared /\ ~Failed(h))
            /\ controllerReady' = (controllerReady /\ ~Failed(h))
            /\ pauseCauses' = IF state = "ACTIVE" /\ ~Failed(h) THEN {"context"} ELSE {}
     ELSE UNCHANGED <<authVars, seqVars, adapterVars, engageVars, faultCleared,
                      controllerReady, pauseCauses>>
  /\ UNCHANGED <<session, computationReady, granting, dispatchVars, inputVars, idle,
                 inputPc, workerVars>>

\* prepare_initialization: the lifecycle's test and the store's, which claims
\* the attempt; what follows is outside every lock.
PrepareStart(a) ==
  /\ granting = NoGrant /\ prep[a] = "issued"
  /\ prep' = [prep EXCEPT ![a] = IF a = attempt /\ state = "VALIDATING" /\ a = storeAttempt
                                 THEN "resolving" ELSE "refused"]
  /\ UNCHANGED <<lifeVars, attempt, engageVars, granting, authVars, seqVars, dispatchVars,
                 inputVars, idle, storeVars, begun, adapterVars, inputPc, workerVars>>

\* ActiveBundleStore.prepare, its end: only the attempt still current leaves a
\* trace in the store.
PrepareFinish(a) ==
  /\ prep[a] = "resolving"
  /\ \/ /\ a = storeAttempt
        /\ \/ prep' = [prep EXCEPT ![a] = "prepared"] /\ prepared' = a
              /\ UNCHANGED <<active, storeAttempt>>
           \/ prep' = [prep EXCEPT ![a] = "refused"] /\ InvalidateStore
     \/ /\ a # storeAttempt
        /\ prep' = [prep EXCEPT ![a] = "refused"]
        /\ UNCHANGED storeVars
  /\ UNCHANGED <<lifeVars, attempt, engageVars, granting, authVars, seqVars, dispatchVars,
                 inputVars, idle, begun, adapterVars, inputPc, workerVars>>

\* An unexpected exception while resolving: the store retires the attempt, then
\* the lifecycle latches FAULT if it still waits for it.
PrepareRaises(a) ==
  /\ prep[a] = "resolving"
  /\ prep' = [prep EXCEPT ![a] = "raised"]
  /\ IF a = storeAttempt THEN InvalidateStore ELSE UNCHANGED storeVars
  /\ UNCHANGED <<lifeVars, attempt, engageVars, granting, authVars, seqVars, dispatchVars,
                 inputVars, idle, begun, adapterVars, inputPc, workerVars>>

HostFailure(a) ==
  /\ Entered /\ prep[a] = "raised"
  /\ prep' = [prep EXCEPT ![a] = "done"]
  /\ IF attempt = a /\ state = "VALIDATING"
     THEN /\ attempt' = 0
          /\ \E h \in Halts : Withdraw("FAULT", {}, controllerReady, h)
     ELSE UNCHANGED <<lifeVars, attempt, engageVars, authVars, seqVars, adapterVars>>
  /\ UNCHANGED <<session, granting, dispatchVars, inputVars, idle, storeVars, begun, inputPc,
                 workerVars>>

\* The lifecycle drops its attempt and waits for a new context.
AwaitContext ==
  /\ attempt' = 0
  /\ InvalidateStore
  /\ state' = "PAUSED" /\ pauseCauses' = {"context"}

\* Mutant: whatever was prepared is published, whichever attempt is waited for.
CompleteAnyInitialization(a) ==
  /\ Entered /\ prep[a] \in {"prepared", "refused"}
  /\ prep' = [prep EXCEPT ![a] = "done"]
  /\ \/ /\ state # "VALIDATING"
        /\ UNCHANGED <<state, pauseCauses, attempt, seen, armed, storeVars>>
     \/ /\ state = "VALIDATING" /\ prep[a] = "prepared"
        /\ epoch[session] < MaxEpoch
        /\ attempt' = 0
        /\ active' = a /\ storeAttempt' = 0 /\ prepared' = 0
        /\ EnterReady /\ UNCHANGED pauseCauses
     \/ /\ state = "VALIDATING" /\ prep[a] # "prepared"
        /\ AwaitContext /\ UNCHANGED <<seen, armed>>
  /\ UNCHANGED <<session, controllerReady, computationReady, faultCleared, engagedBundle,
                 newer, outstanding, granting, authVars, seqVars, dispatchVars, inputVars,
                 idle, begun, adapterVars, inputPc, workerVars>>

\* _complete: publication and READY, or PAUSED for want of a context; a result
\* the lifecycle does not wait for is discarded.
CompleteInitialization(a) ==
  /\ Entered /\ prep[a] \in {"prepared", "refused"}
  /\ prep' = [prep EXCEPT ![a] = "done"]
  /\ \/ /\ state # "VALIDATING" \/ attempt # a
        /\ UNCHANGED <<state, pauseCauses, attempt, seen, armed, storeVars>>
     \/ /\ state = "VALIDATING" /\ attempt = a /\ prep[a] = "prepared" /\ prepared = a
        /\ epoch[session] < MaxEpoch
        /\ attempt' = 0
        /\ active' = a /\ storeAttempt' = 0 /\ prepared' = 0
        /\ EnterReady /\ UNCHANGED pauseCauses
     \/ /\ state = "VALIDATING" /\ attempt = a /\ (prep[a] # "prepared" \/ prepared # a)
        /\ AwaitContext /\ UNCHANGED <<seen, armed>>
  /\ UNCHANGED <<session, controllerReady, computationReady, faultCleared, engagedBundle,
                 newer, outstanding, granting, authVars, seqVars, dispatchVars, inputVars,
                 idle, begun, adapterVars, inputPc, workerVars>>

-----------------------------------------------------------------------------
(* Host, controller, supervisor and operator.                                *)

\* _invalidate: with authority or READY, the withdrawal comes first.
InvalidateContext ==
  /\ Entered
  /\ InvalidateStore
  /\ IF state \in {"ACTIVE", "READY"}
     THEN /\ \E h \in Halts : Withdraw("PAUSED", {"context"}, controllerReady, h)
          /\ UNCHANGED attempt
     ELSE /\ IF state = "VALIDATING"
             THEN state' = "PAUSED" /\ pauseCauses' = {"context"} /\ attempt' = 0
             ELSE /\ pauseCauses' = IF state = "PAUSED" THEN pauseCauses \union {"context"}
                                    ELSE pauseCauses
                  /\ UNCHANGED <<state, attempt>>
          /\ UNCHANGED <<controllerReady, computationReady, faultCleared, authVars, seqVars,
                         engageVars, adapterVars>>
  /\ KeepsAfterWithdrawal /\ UNCHANGED <<inputPc, workerVars>>

CancelInitialization ==
  /\ Entered /\ state = "VALIDATING"
  /\ AwaitContext
  /\ KeepsAfterWithdrawal
  /\ UNCHANGED <<controllerReady, computationReady, faultCleared, authVars, seqVars,
                 engageVars, adapterVars, inputPc, workerVars>>

\* The host withdraws the context in the store itself, which the store allows at
\* any time; the watchdog and the gate have to notice.
HostInvalidatesStore ==
  /\ active # 0 \/ storeAttempt # 0
  /\ InvalidateStore
  /\ UNCHANGED <<lifeVars, attempt, engageVars, granting, authVars, seqVars, dispatchVars,
                 inputVars, idle, prepVars, adapterVars, inputPc, workerVars>>

\* controller_status without a fault.
ControllerStatus(ready) ==
  /\ Entered
  /\ IF state = "ACTIVE" /\ ~ready
     THEN Pause({"controller"}, FALSE)
     ELSE /\ controllerReady' = ready
          /\ faultCleared' = (faultCleared \/ (state = "FAULT" /\ ready))
          /\ UNCHANGED <<state, session, computationReady, pauseCauses, attempt, engageVars,
                         granting, authVars, seqVars, dispatchVars, inputVars, idle,
                         storeVars, prepVars, adapterVars, workerVars>>
  /\ UNCHANGED inputPc

\* controller_status with a fault: latched from every state, clearance revoked.
ControllerFault ==
  /\ Entered
  /\ IF state = "FAULT"
     THEN /\ controllerReady' = FALSE /\ faultCleared' = FALSE
          /\ UNCHANGED <<state, computationReady, pauseCauses, engageVars, authVars, seqVars,
                         adapterVars>>
     ELSE /\ BelowBound
          /\ \E h \in Halts : Withdraw("FAULT", {}, FALSE, h)
  /\ KeepsAfterWithdrawal
  /\ UNCHANGED <<attempt, storeVars, inputPc, workerVars>>

\* computation_status: losing readiness withdraws, gaining it may recover.
ComputationStatus(ready) ==
  /\ Entered
  /\ \/ /\ ~ready /\ state = "ACTIVE"
        /\ Pause({"computation"}, controllerReady)
     \/ /\ ready /\ state = "PAUSED" /\ Recoverable(TRUE)
        /\ Recover /\ computationReady' = TRUE
     \/ /\ ~(~ready /\ state = "ACTIVE")
        /\ ~(ready /\ state = "PAUSED" /\ Recoverable(TRUE))
        /\ computationReady' = ready
        /\ UNCHANGED <<state, session, controllerReady, faultCleared, pauseCauses, attempt,
                       engageVars, granting, authVars, seqVars, dispatchVars, inputVars, idle,
                       storeVars, prepVars, adapterVars, workerVars>>
  /\ UNCHANGED inputPc

\* Mutant: rearm does not wait for a healthy controller report.
RearmAtOnce ==
  /\ Entered /\ state = "FAULT"
  /\ InvalidateStore
  /\ state' = "UNINITIALIZED" /\ faultCleared' = FALSE
  /\ pauseCauses' = {} /\ attempt' = 0 /\ engagedBundle' = 0
  /\ armed' = FALSE /\ seen' = FALSE /\ newer' = (joy # "none") /\ outstanding' = {}
  /\ KeepsAfterWithdrawal
  /\ UNCHANGED <<controllerReady, computationReady, authVars, seqVars, adapterVars, inputPc,
                 workerVars>>

\* rearm: only out of a cleared FAULT; _withdrawal_input_seq goes back to -1.
Rearm ==
  /\ Entered /\ state = "FAULT" /\ faultCleared
  /\ InvalidateStore
  /\ state' = "UNINITIALIZED" /\ faultCleared' = FALSE
  /\ pauseCauses' = {} /\ attempt' = 0 /\ engagedBundle' = 0
  /\ armed' = FALSE /\ seen' = FALSE /\ newer' = (joy # "none") /\ outstanding' = {}
  /\ KeepsAfterWithdrawal
  /\ UNCHANGED <<controllerReady, computationReady, authVars, seqVars, adapterVars, inputPc,
                 workerVars>>

\* _replace_session: the old store is invalidated; a factory that fails leaves
\* the old runtime in place (and FAULT latched by the caller's Settle).
ReplaceSession(created) ==
  /\ InvalidateStore
  /\ IF created
     THEN /\ session' = session + 1
          /\ attempt' = 0 /\ pauseCauses' = {} /\ computationReady' = FALSE
          /\ Disengage
          /\ joy' = "none" /\ joyFresh' = FALSE /\ robot' = "none" /\ clockOk' = TRUE
          /\ idle' = FALSE
     ELSE UNCHANGED <<session, attempt, inputVars, idle>>
  /\ UNCHANGED <<granting, dispatchVars, prepVars, inputPc, workerVars>>

\* The session factory creates the next session or, if it may, fails.
MayCreate(created) == IF created THEN session < MaxSession ELSE "factory" \in Disturbances

\* restart_session: withdraw, then replace the session; FAULT stays latched.
RestartSession ==
  /\ Entered /\ BelowBound
  /\ \E h \in Halts, created \in BOOLEAN :
        /\ MayCreate(created)
        /\ Revoke(controllerReady) /\ LocalHold(session, h)
        /\ Settle(IF state = "FAULT" THEN "FAULT" ELSE "UNINITIALIZED",
                  Failed(h) \/ (~created /\ state # "FAULT"), controllerReady)
        /\ ReplaceSession(created)
        /\ created \/ (Disengage /\ pauseCauses' = {} /\ UNCHANGED computationReady)

\* _clock_failure, on a failed reading or an explicit clock_domain_reset: no
\* time can be trusted, so cancel and stop go to the adapter directly.
ClockFailure ==
  /\ granting = NoGrant /\ BelowBound
  /\ \E h \in Halts, created \in BOOLEAN :
        /\ MayCreate(created)
        /\ Revoke(FALSE) /\ AdapterHalts(h) /\ UNCHANGED seqVars
        /\ Settle(IF state = "FAULT" THEN "FAULT" ELSE "UNINITIALIZED",
                  Failed(h) \/ (~created /\ state # "FAULT"), controllerReady)
        /\ ReplaceSession(created)
        /\ created \/ UNCHANGED <<engageVars, pauseCauses, computationReady>>

-----------------------------------------------------------------------------
(* The passage of time, and the adapter's own expiry of a target.            *)

Unmoved == UNCHANGED <<lifeVars, attempt, engageVars, granting, authVars, seqVars,
                       storeVars, prepVars, inputPc, workerVars>>

JoystickAges ==
  /\ joyFresh /\ joyFresh' = FALSE
  /\ Unmoved /\ UNCHANGED <<joy, robot, clockOk, dispatchVars, idle, adapterVars>>

RobotStateAges ==
  /\ robot # "none" /\ robot' = "none"
  /\ Unmoved /\ UNCHANGED <<joy, joyFresh, clockOk, dispatchVars, idle, adapterVars>>

\* A dispatch that is no longer outstanding has been answered or is of an earlier
\* authority: the gate refuses its results whatever its age.
SolveDeadlinePasses(d) ==
  /\ d \notin late /\ late' = late \union {d}
  /\ Unmoved /\ UNCHANGED <<dispatched, expired, inputVars, idle, adapterVars>>

DispatchExpires(d) ==
  /\ d \in late \ expired /\ expired' = expired \union {d}
  /\ Unmoved /\ UNCHANGED <<dispatched, late, inputVars, idle, adapterVars>>

LivenessDeadlinePasses ==
  /\ state = "ACTIVE" /\ ~idle /\ idle' = TRUE
  /\ Unmoved /\ UNCHANGED <<dispatchVars, inputVars, adapterVars>>

TargetExpires ==
  /\ target # NoTarget /\ target' = NoTarget /\ haltFailed' = FALSE
  /\ Unmoved /\ UNCHANGED <<dispatchVars, inputVars, idle>>

ClockBreaks ==
  /\ "clock" \in Disturbances /\ clockOk /\ BelowBound
  /\ clockOk' = FALSE
  /\ Unmoved /\ UNCHANGED <<joy, joyFresh, robot, dispatchVars, idle, adapterVars>>

-----------------------------------------------------------------------------

Inputs == \E src \in Sources : Receive(src) \/ ProcessInput(src)

Results == \E w \in Workers : SubmitResult(w) \/ Decide(w) \/ AfterDecision(w)

Initialization ==
  \/ BeginInitialization
  \/ \E a \in Attempts : \/ PrepareStart(a) \/ PrepareFinish(a)
                         \/ HostFailure(a) \/ CompleteInitialization(a)

Host ==
  /\ "host" \in Disturbances
  /\ \/ InvalidateContext \/ HostInvalidatesStore \/ CancelInitialization
     \/ \E a \in Attempts : PrepareRaises(a)

Controller ==
  \/ ControllerStatus(TRUE) \/ Rearm
  \/ "controller" \in Disturbances /\ (ControllerStatus(FALSE) \/ ControllerFault)

Supervisor == "supervisor" \in Disturbances /\ ComputationStatus(FALSE)

NewSession == RestartSession \/ ClockFailure

Time ==
  \/ JoystickAges \/ RobotStateAges \/ LivenessDeadlinePasses \/ TargetExpires \/ ClockBreaks
  \/ \E d \in outstanding : SolveDeadlinePasses(d) \/ DispatchExpires(d)

\* Every step but the report that the computation is ready.
NextUnreported ==
  \/ Inputs \/ Grant \/ Tick \/ DispatchCycle \/ Results \/ Initialization \/ Host
  \/ Controller \/ Supervisor \/ NewSession \/ Time

Next == NextUnreported \/ ComputationStatus(TRUE)

Spec == Init /\ [][Next]_vars

\* The runner calls tick() at every plant tick, a thread that has entered the
\* runtime gets the locks it waits for and goes on, and a failed clock is met by
\* the next tick.  Nothing is assumed of the host, the operator, the sources or of
\* how often results arrive.
Fairness ==
  /\ WF_vars(Tick) /\ WF_vars(Grant)
  /\ WF_vars(~clockOk /\ ClockFailure)
  /\ \A src \in Sources : WF_vars(ProcessInput(src))
  /\ \A w \in Workers : WF_vars(Decide(w)) /\ WF_vars(AfterDecision(w))

FairSpec == Spec /\ Fairness

-----------------------------------------------------------------------------
(* Properties.                                                               *)

LifeTypeOK ==
  /\ state \in States /\ session \in Sessions
  /\ controllerReady \in BOOLEAN /\ computationReady \in BOOLEAN /\ faultCleared \in BOOLEAN
  /\ pauseCauses \subseteq Causes /\ attempt \in 0..MaxAttempt

EngageTypeOK ==
  /\ engagedBundle \in 0..MaxAttempt
  /\ armed \in BOOLEAN /\ seen \in BOOLEAN /\ newer \in BOOLEAN
  /\ granting \in [source: Sources, bundle: Attempts] \union {NoGrant}

AuthTypeOK ==
  /\ epoch \in [Sessions -> Nat] /\ authEpoch \in [Sessions -> Nat]
  /\ enabled \in [Sessions -> BOOLEAN] /\ gateReady \in [Sessions -> BOOLEAN]

SeqTypeOK == cmdSeq \in [Sessions -> Nat] /\ lastSeq \in [Sessions -> Nat]

DispatchTypeOK ==
  /\ dispatched \subseteq Dispatch /\ outstanding \subseteq dispatched
  /\ late \subseteq dispatched /\ expired \subseteq late

InputTypeOK ==
  /\ joy \in {"none", "neutral", "moving"} /\ joyFresh \in BOOLEAN
  /\ robot \in RobotStates /\ clockOk \in BOOLEAN /\ idle \in BOOLEAN
  /\ inputPc \in [Sources -> 0..MaxSession]

StoreTypeOK ==
  /\ active \in 0..MaxAttempt /\ storeAttempt \in 0..MaxAttempt /\ prepared \in 0..MaxAttempt
  /\ prep \in [Attempts -> {"none", "issued", "resolving", "prepared", "refused", "raised",
                            "done"}]
  /\ begun \in 0..MaxAttempt

AdapterTypeOK == target \in Target \union {NoTarget} /\ haltFailed \in BOOLEAN

WorkerTypeOK ==
  /\ pc \in [Workers -> {"idle", "submitted", "decided"}]
  /\ job \in [Workers -> Submission \union Decision \union {NoJob}]
  /\ \A w \in Workers : /\ pc[w] = "submitted" => job[w] \in Submission
                        /\ pc[w] = "decided" => job[w] \in Decision

\* Every variable has its type; a thread carries what its stage needs, and
\* everything outstanding, late or expired was dispatched.
TypeOK ==
  /\ LifeTypeOK /\ EngageTypeOK /\ AuthTypeOK /\ SeqTypeOK /\ DispatchTypeOK
  /\ InputTypeOK /\ StoreTypeOK /\ AdapterTypeOK /\ WorkerTypeOK

\* A gate is open only in the current session, while ACTIVE, for the current
\* epoch, with controller and computation ready.  The gate is a separate object
\* with an epoch of its own, which it is given at every withdrawal and grant
\* (lifecycle.py _withdraw, _ready_input; gate.py set_authority).
OnlyActiveGateOpen ==
  \A s \in Sessions : enabled[s] =>
    /\ s = session /\ state = "ACTIVE"
    /\ authEpoch[s] = epoch[s] /\ gateReady[s]
    /\ controllerReady /\ computationReady

\* Between the checks of an engagement and its grant nothing takes away what the
\* grant will rely on: the lifecycle lock is held, and the threads that do not need
\* it touch neither the state nor the readiness (lifecycle.py _ready_input).
GrantHeld == granting # NoGrant => state = "READY" /\ controllerReady /\ computationReady

\* The authority the runtime has given away is never more than its state allows:
\* this is inductive, OnlyActiveGateOpen alone is not.
AuthorityInv == TypeOK /\ OnlyActiveGateOpen /\ GrantHeld

\* The adapter follows a target only under an open gate, of the session and epoch
\* it was accepted in, unless the adapter refused both the cancel and the hold or
\* stop that should have dropped it.  No result that is late, repeated or of an
\* old epoch or session moves the robot after a withdrawal.
TargetUnderAuthority ==
  target # NoTarget =>
    \/ haltFailed
    \/ /\ target.session = session /\ target.epoch = epoch[session]
       /\ enabled[session]

\* A gate that has closed itself while ACTIVE has a decision on its way to the
\* lifecycle: the window between CommandGate.submit and _after_decision is the
\* only time the two disagree.
ClosedGateReported ==
  state = "ACTIVE" /\ ~enabled[session] =>
    \E w \in Workers : /\ pc[w] = "decided" /\ job[w].session = session
                       /\ job[w].epoch = epoch[session] /\ job[w].request # "none"

\* A thread's session and epoch are never ahead of the runtime's, and a decision
\* that asks for a withdrawal of the current epoch has closed the gate of an ACTIVE
\* runtime; while the adapter refuses nothing, no decision asks for FAULT.
JobsBehind ==
  \A w \in Workers : pc[w] # "idle" =>
    /\ job[w].session <= session
    /\ job[w].session = session => job[w].epoch <= epoch[session]

RequestsClosed ==
  \A w \in Workers : pc[w] = "decided" /\ job[w].request # "none" =>
    /\ job[w].request = "PAUSED"
    /\ job[w].session = session /\ job[w].epoch = epoch[session] =>
         state = "ACTIVE" /\ ~enabled[session]

\* What makes TargetUnderAuthority inductive with an adapter that refuses nothing.
TargetInv ==
  AuthorityInv /\ TargetUnderAuthority /\ ~haltFailed /\ JobsBehind /\ RequestsClosed

\* While ACTIVE a released joystick is one whose sample is being processed: no
\* release, received at whatever moment (before the grant, while another thread
\* holds the lifecycle lock), is overlooked by on_input.
ReleasePending ==
  state = "ACTIVE" /\ joy = "neutral" => inputPc["joystick"] = session

\* While ACTIVE the watchdog waits only for dispatches of this authority that the
\* gate has not answered yet, but for an answer whose thread has not come back:
\* missed_result_deadline is never raised for a dispatch of an earlier epoch, nor
\* for one that an accepted result answers or overtakes, once _after_decision ran.
OutstandingCurrent ==
  state = "ACTIVE" => \A d \in outstanding :
    /\ d.session = session /\ d.epoch = epoch[session] /\ d.bundle = engagedBundle
    /\ \/ d.seq > lastSeq[session]
       \/ \E w \in Workers : /\ pc[w] = "decided" /\ job[w].session = session
                            /\ (job[w].request # "none" \/ job[w].result.seq >= d.seq)

\* FAULT is left only by a rearm after a healthy report, to UNINITIALIZED, with
\* the gate closed and neither a context nor an attempt to go on with; a restart
\* or clock reset keeps it, and so does the outcome of anything in flight.
FaultLeftCleared ==
  state = "FAULT" /\ state' # "FAULT" =>
    /\ faultCleared /\ state' = "UNINITIALIZED" /\ session' = session
    /\ ~enabled'[session] /\ active' = 0 /\ attempt' = 0

FaultLatched == [][FaultLeftCleared]_vars

\* Every exit from READY or ACTIVE but the engagement increments the epoch of the
\* session and leaves its gate closed, so that nothing issued before counts.
ExitWithdraws ==
  /\ state = "ACTIVE" => state' # "READY"
  /\ state \in {"READY", "ACTIVE"} /\ state' \notin {state, "ACTIVE"} =>
       epoch'[session] = epoch[session] + 1 /\ ~enabled'[session]

EveryExitWithdraws == [][ExitWithdraws]_vars

\* Validation ends in READY only for the attempt begun last, with its context in
\* the store: what an earlier attempt, of this session or a replaced one, resolves
\* concurrently is never published in its place (activation.py prepare, publish;
\* lifecycle.py _complete).
PublishesLatest ==
  state = "VALIDATING" /\ state' = "READY" => active' = begun /\ storeAttempt' = 0

LatestAttemptPublished == [][PublishesLatest]_vars

\* When the adapter refuses both requests of a round, so that its target stays,
\* FAULT is latched or on its way from the gate.  _begin is the exception: its
\* withdrawal's FAULT is overwritten with VALIDATING.
HaltFailureKnown ==
  [][haltFailed' /\ ~haltFailed =>
       \/ state' = "FAULT"
       \/ begun' # begun
       \/ \E w \in Workers : pc'[w] = "decided" /\ job'[w].request = "FAULT"]_vars

\* As docs/lifecycle.md and _withdraw's docstring have it: a failed request always
\* latches FAULT.
FailedHaltLatches ==
  [][haltFailed' /\ ~haltFailed =>
       \/ state' = "FAULT"
       \/ \E w \in Workers : pc'[w] = "decided" /\ job'[w].request = "FAULT"]_vars

\* As docs/lifecycle.md has it, every exit from ACTIVE comes with a cancel and a
\* hold or stop: the adapter is left without a target unless it refused.
ExitHalts ==
  [][state = "ACTIVE" /\ state' # "ACTIVE" => target' = NoTarget \/ haltFailed']_vars

-----------------------------------------------------------------------------
(* Liveness, under FairSpec.                                                 *)

\* A release ends ACTIVE, whatever the other threads do with the locks.
ReleaseStops == (state = "ACTIVE" /\ joy = "neutral") ~> (state # "ACTIVE")

\* Without progress past the liveness deadline ACTIVE ends; only an accepted
\* result prolongs it.
StallStops == (state = "ACTIVE" /\ idle) ~> (state # "ACTIVE" \/ ~idle)

\* A context that was invalidated or replaced behind the lifecycle ends ACTIVE.
ContextLossStops == (state = "ACTIVE" /\ active # engagedBundle) ~> (state # "ACTIVE")

\* A gate that has closed itself ends ACTIVE: the lifecycle catches up with it.
ClosedGateStops == (state = "ACTIVE" /\ ~enabled[session]) ~> (state # "ACTIVE")
=============================================================================
