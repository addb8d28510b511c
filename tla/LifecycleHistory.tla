-------------------------- MODULE LifecycleHistory --------------------------
(***************************************************************************)
(* Lifecycle with three history variables, which no step of the runtime    *)
(* reads, for the promises about what happened before:                     *)
(*   - neutralSeen: a fresh neutral sample was the newest one at some time *)
(*     since READY was entered or an engagement was last refused;          *)
(*   - unrecovered: the computation failed, by whatever path the runtime   *)
(*     learns of it, and the supervisor has not reported it ready since;   *)
(*   - applied: the last command that the adapter was given as its target. *)
(***************************************************************************)
EXTENDS Lifecycle

VARIABLES neutralSeen, unrecovered, applied

historyVars == <<neutralSeen, unrecovered, applied>>

HInit == Init /\ neutralSeen = FALSE /\ unrecovered = FALSE /\ applied = NoTarget

-----------------------------------------------------------------------------

\* An engagement attempt that this step refuses: a moving sample is processed in
\* READY without the conditions of a grant, or the context moved before the grant.
Refused ==
  /\ state = "READY" /\ state' = "READY"
  /\ \/ /\ joy = "moving" /\ EngagementRefused
        /\ \E src \in Sources : inputPc[src] = session /\ inputPc'[src] = 0
     \/ granting # NoGrant /\ granting' = NoGrant

NoteNeutral ==
  neutralSeen' = /\ state' = "READY"
                 /\ ~Refused
                 /\ neutralSeen \/ (joy' = "neutral" /\ joyFresh')

\* The failures of the computation that docs/lifecycle.md lists: a worker's hold
\* or invalid result, decided by the gate of the current session, or a withdrawal
\* of the lifecycle with that cause.
ComputationFails ==
  \/ \E w \in Workers :
       /\ pc[w] = "submitted" /\ pc'[w] = "decided" /\ job[w].session = session
       /\ job'[w].request = "PAUSED" /\ job'[w].cause = "computation"
  \/ state = "ACTIVE" /\ state' = "PAUSED" /\ "computation" \in pauseCauses'

NoteFailure ==
  unrecovered' = (session' = session /\ (unrecovered \/ ComputationFails))

NoteApplied == applied' = IF target' \in {target, NoTarget} THEN applied ELSE target'

HNext ==
  /\ \/ NextUnreported /\ NoteFailure
     \/ ComputationStatus(TRUE) /\ unrecovered' = FALSE
  /\ NoteNeutral
  /\ NoteApplied

HSpec == HInit /\ [][HNext]_<<vars, historyVars>>

-----------------------------------------------------------------------------

\* Nothing engages an input that is still held: an engagement follows a neutral
\* sample observed in the same READY, and after a refused attempt a new one
\* (lifecycle.py _enter_ready, _ready_input; docs/lifecycle.md, Fresh engagement).
EngagesAfterNeutral == state = "READY" /\ state' = "ACTIVE" => neutralSeen

HeldInputNeverEngages == [][EngagesAfterNeutral]_<<vars, historyVars>>

\* As _withdraw's comment and docs/lifecycle.md have it: after a worker hold, an
\* invalid result or another failure of the computation motion is engaged again
\* only after a readiness report issued after that failure.
ReadinessAfterFailure ==
  [][state = "READY" /\ state' = "ACTIVE" => ~unrecovered]_<<vars, historyVars>>

\* The order of commands: by session, then epoch, then sequence number.
Later(t, u) ==
  \/ t.session > u.session
  \/ t.session = u.session /\ t.epoch > u.epoch
  \/ t.session = u.session /\ t.epoch = u.epoch /\ t.seq > u.seq

TargetAdvances == target' \notin {target, NoTarget} => Later(target', applied)

\* The adapter's targets only ever advance by session, epoch and command sequence:
\* no repeated, reordered or delayed result is applied a second time or after a
\* newer one (gate.py submit), through withdrawals, recoveries and restarts.
CommandsAdvance == [][TargetAdvances]_<<vars, historyVars>>
=============================================================================
