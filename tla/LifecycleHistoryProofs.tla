------------------------- MODULE LifecycleHistoryProofs -------------------------
(***************************************************************************)
(* What the runtime owes to samples and commands of the past: no release   *)
(* is overlooked while ACTIVE (ReleasePending), nothing engages an input   *)
(* that is still held (HeldInputNeverEngages), and the adapter's targets   *)
(* only ever advance (CommandsAdvance).  The last two are properties of    *)
(* LifecycleHistory, whose steps are those of Lifecycle.                   *)
(***************************************************************************)
EXTENDS LifecycleHistory, LifecycleResultProofs

USE DEF lifeVars, engageVars, authVars, seqVars, dispatchVars, inputVars, storeVars,
        prepVars, adapterVars, workerVars

-----------------------------------------------------------------------------
(* Samples under way.                                                        *)

\* While an engagement is being granted the sample it comes from is under way, and
\* so is a release received since.
GrantPending ==
  granting # NoGrant =>
    /\ inputPc[granting.source] = session
    /\ joy = "neutral" => inputPc["joystick"] = session /\ granting.source # "joystick"

\* The entry into READY: armed by a fresh neutral sample and by nothing else.
EntersReady ==
  /\ state # "READY" /\ granting = NoGrant /\ UNCHANGED <<joy, joyFresh>>
  /\ armed' => joy = "neutral" /\ joyFresh

\* What a step that neither receives nor processes a sample does to the samples under
\* way and to what arms an engagement.
SamplesKept ==
  /\ UNCHANGED <<granting, inputPc>> /\ joy' \in {joy, "none"}
  /\ granting # NoGrant => session' = session
  /\ state' = "READY" =>
       \/ EntersReady
       \/ state = "READY" /\ UNCHANGED <<armed, seen>> /\ active' \in {active, 0}

\* A pause, by whichever handler.
LEMMA PauseSamples ==
  ASSUME NEW causes, NEW ready, Pause(causes, ready), UNCHANGED inputPc PROVE SamplesKept
  BY DEF Pause, Withdraw, Settle, KeepsAfterWithdrawal, SamplesKept

\* A recovery, by whichever handler.
LEMMA RecoverSamples ==
  ASSUME Entered, state = "PAUSED", Recover PROVE EntersReady
  BY DEF Entered, Recover, EnterReady, EntersReady

\* A step that leaves the lifecycle, the samples and the store alone, or only
\* withdraws the context.
LEMMA QuietSamples ==
  ASSUME UNCHANGED <<state, session, armed, seen, granting, joy, inputPc>>,
         active' \in {active, 0}
  PROVE  SamplesKept
  BY DEF SamplesKept

\* The watchdog and dispatch.
LEMMA WatchdogSamples == ASSUME Tick \/ DispatchCycle PROVE SamplesKept
<1>1. Entered /\ UNCHANGED inputPc
  BY DEF Tick, DispatchCycle
<1>2. CASE \E causes : Pause(causes, controllerReady)
  BY <1>1, <1>2, PauseSamples
<1>3. CASE state = "PAUSED" /\ Recover
  BY <1>1, <1>3, RecoverSamples DEF Recover, SamplesKept
<1>4. CASE UNCHANGED <<lifeVars, armed, seen, granting, inputVars, storeVars>>
  BY <1>1, <1>4, QuietSamples
<1> QED BY <1>2, <1>3, <1>4 DEF Tick, DispatchCycle

\* The delivery of results.
LEMMA ResultSamples == ASSUME Results PROVE SamplesKept
<1>1. ASSUME NEW w \in Workers, SubmitResult(w) \/ Decide(w) PROVE SamplesKept
  BY <1>1, QuietSamples DEF SubmitResult, Decide
<1>2. ASSUME NEW w \in Workers, AfterDecision(w) PROVE SamplesKept
  <2>1. UNCHANGED <<session, granting, inputVars, storeVars, inputPc>>
    BY <1>2 DEF AfterDecision
  <2>2. \/ state' \in {"PAUSED", "FAULT"}
        \/ UNCHANGED <<state, armed, seen>>
    BY <1>2 DEF AfterDecision, WithdrawAround, Settle
  <2> QED BY <2>1, <2>2 DEF SamplesKept
<1> QED BY <1>1, <1>2 DEF Results

\* Initialization and the host.
LEMMA InitializationSamples == ASSUME Initialization \/ Host PROVE SamplesKept
<1>1. CASE BeginInitialization
  BY <1>1 DEF BeginInitialization, SamplesKept
<1>2. ASSUME NEW a \in Attempts, PrepareStart(a) \/ PrepareFinish(a) \/ PrepareRaises(a)
      PROVE  SamplesKept
  BY <1>2, QuietSamples DEF PrepareStart, PrepareFinish, PrepareRaises, InvalidateStore
<1>3. ASSUME NEW a \in Attempts, HostFailure(a) PROVE SamplesKept
  BY <1>3 DEF HostFailure, Withdraw, Settle, SamplesKept
<1>4. ASSUME NEW a \in Attempts, CompleteInitialization(a) PROVE SamplesKept
  BY <1>4 DEF CompleteInitialization, Entered, EnterReady, AwaitContext, EntersReady, SamplesKept
<1>5. CASE InvalidateContext
  BY <1>5 DEF InvalidateContext, InvalidateStore, Withdraw, Settle, KeepsAfterWithdrawal,
              SamplesKept
<1>6. CASE HostInvalidatesStore \/ CancelInitialization
  BY <1>6 DEF HostInvalidatesStore, CancelInitialization, AwaitContext, InvalidateStore,
              KeepsAfterWithdrawal, SamplesKept
<1> QED BY <1>1, <1>2, <1>3, <1>4, <1>5, <1>6 DEF Initialization, Host

\* Controller, supervisor and operator.
LEMMA ControllerSamples ==
  ASSUME Controller \/ Supervisor \/ ComputationStatus(TRUE) PROVE SamplesKept
<1>1. ASSUME NEW ready \in BOOLEAN, ControllerStatus(ready) PROVE SamplesKept
  BY <1>1, PauseSamples, QuietSamples DEF ControllerStatus
<1>2. CASE ControllerFault
  BY <1>2 DEF ControllerFault, Withdraw, Settle, KeepsAfterWithdrawal, SamplesKept
<1>3. CASE Rearm
  BY <1>3 DEF Rearm, KeepsAfterWithdrawal, SamplesKept
<1>4. ASSUME NEW ready \in BOOLEAN, ComputationStatus(ready) PROVE SamplesKept
  <2>1. Entered /\ UNCHANGED inputPc
    BY <1>4 DEF ComputationStatus
  <2>2. CASE Pause({"computation"}, controllerReady)
    BY <2>1, <2>2, PauseSamples
  <2>3. CASE state = "PAUSED" /\ Recover
    BY <2>1, <2>3, RecoverSamples DEF Recover, SamplesKept
  <2>4. CASE UNCHANGED <<state, session, engageVars, granting, inputVars, storeVars>>
    BY <2>1, <2>4, QuietSamples
  <2> QED BY <1>4, <2>2, <2>3, <2>4 DEF ComputationStatus
<1> QED BY <1>1, <1>2, <1>3, <1>4 DEF Controller, Supervisor

\* A new session forgets the samples; what is under way is of the old one.
LEMMA NewSessionSamples == ASSUME NewSession PROVE SamplesKept
<1>1. granting = NoGrant /\ state' \in {"FAULT", "UNINITIALIZED"}
  BY DEF NewSession, RestartSession, ClockFailure, Entered, Settle
<1>2. UNCHANGED <<granting, inputPc>> /\ joy' \in {joy, "none"}
  BY DEF NewSession, RestartSession, ClockFailure, ReplaceSession
<1> QED BY <1>1, <1>2 DEF SamplesKept

\* The passage of time.
LEMMA TimeSamples == ASSUME Time PROVE SamplesKept
<1>1. UNCHANGED <<state, session, armed, seen, granting, joy, inputPc, active>>
  BY DEF Time, JoystickAges, RobotStateAges, LivenessDeadlinePasses, TargetExpires,
         ClockBreaks, SolveDeadlinePasses, DispatchExpires, Unmoved
<1> QED BY <1>1, QuietSamples

\* Every step but a sample and a grant leaves the samples under way alone.
LEMMA SampleSteps == ASSUME [Next]_vars PROVE SamplesKept \/ Inputs \/ Grant
<1>1. CASE UNCHANGED vars
  BY <1>1, QuietSamples DEF vars
<1> QED BY <1>1, WatchdogSamples, ResultSamples, InitializationSamples, ControllerSamples,
           NewSessionSamples, TimeSamples DEF Next, NextUnreported

\* What receiving a sample does to them.
LEMMA ReceiveSamples ==
  ASSUME AuthorityInv, NEW src \in Sources, Receive(src)
  PROVE  /\ UNCHANGED <<state, session, armed, granting, active>> /\ session # 0
         /\ inputPc[src] = 0 /\ inputPc'[src] = session
         /\ \A s \in Sources \ {src} : inputPc'[s] = inputPc[s]
         /\ IF src = "joystick" THEN joy' # "none" /\ seen' = FALSE ELSE UNCHANGED <<joy, seen>>
  BY DEF AuthorityInv, TypeOK, LifeTypeOK, InputTypeOK, Sessions, Receive

\* A sample is done with: it is no longer under way, the others still are.
LEMMA IdleSamples ==
  ASSUME AuthorityInv, NEW src \in Sources, inputPc' = [inputPc EXCEPT ![src] = 0]
  PROVE  inputPc'[src] = 0 /\ \A s \in Sources \ {src} : inputPc'[s] = inputPc[s]
  BY DEF AuthorityInv, TypeOK, InputTypeOK

\* GrantPending survives every step: while the lifecycle lock is held samples are
\* received, but none is processed.
LEMMA NextGrantPending ==
  ASSUME AuthorityInv, GrantPending, [Next]_vars PROVE GrantPending'
<1>1. CASE SamplesKept
  BY <1>1 DEF SamplesKept, GrantPending
<1>2. ASSUME NEW src \in Sources, Receive(src) PROVE GrantPending'
  <2>1. granting # NoGrant => granting.source \in Sources
    BY DEF AuthorityInv, TypeOK, EngageTypeOK
  <2> QED BY <1>2, <2>1, ReceiveSamples DEF GrantPending, Sources
<1>3. ASSUME NEW src \in Sources, ProcessInput(src) PROVE GrantPending'
  <2>1. granting = NoGrant
    BY <1>3 DEF ProcessInput, Entered
  <2>2. CASE granting' = granting
    BY <2>1, <2>2 DEF GrantPending
  <2>3. CASE /\ inputPc[src] = session /\ joy = "moving" /\ UNCHANGED <<session, joy, inputPc>>
             /\ granting' = [source |-> src, bundle |-> active]
    BY <2>3 DEF GrantPending
  <2> QED BY <1>3, <2>2, <2>3 DEF ProcessInput, Pause, KeepsAfterWithdrawal, Recover, ReadyInput
<1>4. CASE Grant
  BY <1>4 DEF Grant, GrantPending
<1> QED BY <1>1, <1>2, <1>3, <1>4, SampleSteps DEF Inputs

\* While ACTIVE, processing the sample of a release withdraws.
LEMMA ProcessRelease ==
  ASSUME AuthorityInv, ReleasePending, NEW src \in Sources, ProcessInput(src)
  PROVE  ReleasePending'
<1>1. CASE state' # "ACTIVE"
  BY <1>1 DEF ReleasePending
<1>2. CASE Pause(InputCause, controllerReady)
  BY <1>1, <1>2 DEF Pause, Withdraw, Settle
<1>3. CASE Recover \/ (state = "READY" /\ UNCHANGED lifeVars)
  BY <1>1, <1>3 DEF Recover, EnterReady
<1>4. CASE UNCHANGED <<lifeVars, inputVars>> /\ Idle(src)
  <2>1. CASE inputPc[src] # session \/ (state = "ACTIVE" => InputCause = {})
    <3>1. state = "ACTIVE" /\ joy = "neutral" /\ src = "joystick" => inputPc[src] # session
      BY <2>1 DEF InputCause
    <3> QED BY <1>4, <3>1, IdleSamples DEF ReleasePending, Idle, Sources
  <2>2. CASE state = "ACTIVE" /\ InputCause # {} /\ inputPc[src] = session
    BY <1>2, <2>2 DEF ProcessInput
  <2> QED BY <2>1, <2>2
<1>5. \/ Pause(InputCause, controllerReady) \/ Recover
      \/ state = "READY" /\ UNCHANGED lifeVars
      \/ UNCHANGED <<lifeVars, inputVars>> /\ Idle(src)
  BY DEF ProcessInput
<1> QED BY <1>2, <1>3, <1>4, <1>5

\* Only an engagement enters ACTIVE.
LEMMA ActiveStays ==
  ASSUME AuthorityInv, [Next]_vars, ~Grant, state' = "ACTIVE"
  PROVE  state = "ACTIVE" /\ session' = session
<1>1. CASE Ordinary
  BY <1>1 DEF Ordinary
<1>2. CASE Dispatches
  BY <1>2 DEF Dispatches, DispatchCycle
<1>3. CASE Results
  BY <1>3 DEF Results, SubmitResult, Decide, AfterDecision, WithdrawAround, Settle
<1> QED BY <1>1, <1>2, <1>3, OrdinarySteps

\* ReleasePending with GrantPending is inductive: without it a release received while
\* the engagement is granted could be overlooked.
LEMMA NextRelease ==
  ASSUME AuthorityInv, GrantPending, ReleasePending, [Next]_vars PROVE ReleasePending'
<1>1. CASE Grant
  <2>1. granting.source \in Sources /\ inputPc' = [inputPc EXCEPT ![granting.source] = 0]
        /\ UNCHANGED <<session, joy>> /\ granting # NoGrant
    BY <1>1 DEF Grant, Idle, AuthorityInv, TypeOK, EngageTypeOK
  <2> QED BY <2>1, IdleSamples DEF GrantPending, ReleasePending, Sources
<1>2. ASSUME NEW src \in Sources, ProcessInput(src) PROVE ReleasePending'
  BY <1>2, ProcessRelease
<1>3. ASSUME NEW src \in Sources, Receive(src) PROVE ReleasePending'
  BY <1>3, ReceiveSamples DEF ReleasePending, Sources
<1>4. CASE SamplesKept /\ ~Grant
  BY <1>4, ActiveStays DEF SamplesKept, ReleasePending
<1> QED BY <1>1, <1>2, <1>3, <1>4, SampleSteps DEF Inputs

\* A joystick released while ACTIVE is one whose sample is on its way through on_input:
\* a release received at whatever moment, also between the checks of an engagement and
\* its grant, is processed and not overlooked.
THEOREM ReleasesArePending == Spec => []ReleasePending
<1>1. Init => GrantPending /\ ReleasePending
  BY DEF Init, GrantPending, ReleasePending
<1>2. AuthorityInv /\ GrantPending /\ ReleasePending /\ [Next]_vars
        => GrantPending' /\ ReleasePending'
  BY NextGrantPending, NextRelease
<1> QED BY <1>1, <1>2, AuthorityInductive, PTL DEF Spec

-----------------------------------------------------------------------------
(* The steps of LifecycleHistory.                                            *)

\* The history variables only watch: their behaviours are those of the runtime.
LEMMA HistoryWatches == HSpec => Spec
<1>1. HInit => Init
  BY DEF HInit
<1>2. [HNext]_<<vars, historyVars>> => [Next]_vars
  BY DEF HNext, Next
<1> QED BY <1>1, <1>2, PTL DEF HSpec, Spec

\* In READY a moving sample is examined once, and then only an engagement under way
\* leaves it armed.
MovingDisarms == state = "READY" /\ joy = "moving" /\ seen /\ armed => granting # NoGrant

\* In READY whatever may yet engage, armed with a context or being granted, has had its
\* neutral sample.
ArmedByNeutral ==
  state = "READY" /\ (granting # NoGrant \/ (armed /\ active # 0)) => neutralSeen

EngagementInv == AuthorityInv /\ MovingDisarms /\ ArmedByNeutral

\* What a step of the history does to neutralSeen.
LEMMA NeutralStep ==
  ASSUME HNext \/ UNCHANGED <<vars, historyVars>>
  PROVE  NoteNeutral \/ UNCHANGED <<vars, neutralSeen>>
  BY DEF HNext, historyVars

\* A step that leaves samples and grants alone refuses no engagement.
LEMMA KeptRefusesNothing ==
  ASSUME AuthorityInv, UNCHANGED granting,
         \A src \in Sources : inputPc[src] = session => inputPc'[src] # 0
  PROVE  ~Refused
  BY DEF AuthorityInv, TypeOK, LifeTypeOK, Sessions, Refused

\* A step that neither receives nor processes a sample arms nothing new.
LEMMA SamplesKeptEngagement ==
  ASSUME EngagementInv, SamplesKept, NoteNeutral PROVE MovingDisarms' /\ ArmedByNeutral'
<1>1. session # 0
  BY DEF EngagementInv, AuthorityInv, TypeOK, LifeTypeOK, Sessions
<1>2. ~Refused
  BY <1>1, KeptRefusesNothing DEF SamplesKept, EngagementInv
<1>3. CASE EntersReady
  <2>1. (armed' => joy' = "neutral" /\ joyFresh' /\ neutralSeen') \/ state' # "READY"
    BY <1>2, <1>3 DEF EntersReady, NoteNeutral
  <2> QED BY <1>3, <2>1 DEF EntersReady, SamplesKept, MovingDisarms, ArmedByNeutral
<1>4. CASE state = "READY" /\ UNCHANGED <<armed, seen>> /\ active' \in {active, 0}
  BY <1>2, <1>4 DEF SamplesKept, EngagementInv, MovingDisarms, ArmedByNeutral, NoteNeutral
<1>5. CASE state' # "READY"
  BY <1>5 DEF MovingDisarms, ArmedByNeutral
<1> QED BY <1>3, <1>4, <1>5 DEF SamplesKept

\* Receiving a sample engages nothing, and a new joystick sample is yet to be seen.
LEMMA ReceiveEngagement ==
  ASSUME EngagementInv, NEW src \in Sources, Receive(src), NoteNeutral
  PROVE  MovingDisarms' /\ ArmedByNeutral'
<1>1. /\ UNCHANGED <<state, session, armed, granting, active>> /\ session # 0
      /\ inputPc[src] = 0 /\ inputPc'[src] = session
      /\ \A s \in Sources \ {src} : inputPc'[s] = inputPc[s]
      /\ IF src = "joystick" THEN joy' # "none" /\ seen' = FALSE ELSE UNCHANGED <<joy, seen>>
  BY ReceiveSamples DEF EngagementInv
<1>2. ~Refused
  BY <1>1, KeptRefusesNothing DEF EngagementInv
<1>3. MovingDisarms'
  BY <1>1 DEF EngagementInv, MovingDisarms
<1>4. ArmedByNeutral'
  BY <1>1, <1>2 DEF EngagementInv, ArmedByNeutral, NoteNeutral
<1> QED BY <1>3, <1>4

\* Processing a sample in READY: a neutral one arms, a moving one engages what a neutral
\* one has armed or, refused, disarms it.
LEMMA ReadyInputEngagement ==
  ASSUME EngagementInv, NEW src \in Sources, Entered, state = "READY",
         inputPc[src] = session, ReadyInput(src), UNCHANGED <<state, active, joy, joyFresh>>,
         NoteNeutral
  PROVE  MovingDisarms' /\ ArmedByNeutral'
<1>1. granting = NoGrant /\ session # 0 /\ NoGrant.source \notin Sources
  BY DEF Entered, NoGrant, Sources, EngagementInv, AuthorityInv, TypeOK, LifeTypeOK, Sessions
<1>2. CASE active = 0 \/ joy = "none" \/ seen
  <2>1. UNCHANGED <<seen, armed, granting>>
    BY <1>2 DEF ReadyInput
  <2>2. Refused => joy = "moving"
    BY <1>1, <2>1 DEF Refused
  <2>3. armed /\ active # 0 => ~(joy = "moving") /\ neutralSeen
    BY <1>1, <1>2 DEF EngagementInv, MovingDisarms, ArmedByNeutral
  <2>4. ArmedByNeutral'
    BY <1>1, <2>1, <2>2, <2>3 DEF ArmedByNeutral, NoteNeutral
  <2>5. MovingDisarms'
    BY <2>1 DEF EngagementInv, MovingDisarms
  <2> QED BY <2>4, <2>5
<1>3. CASE active # 0 /\ joy # "none" /\ ~seen
  <2>1. /\ armed' = IF joy = "neutral" THEN joyFresh ELSE armed /\ ~EngagementRefused
        /\ IF joy = "moving" /\ armed /\ ~EngagementRefused
           THEN granting' = [source |-> src, bundle |-> active]
           ELSE granting' = granting
    BY <1>3 DEF ReadyInput
  <2>2. Refused => joy = "moving" /\ EngagementRefused
    BY <1>1 DEF Refused
  <2>3. joy \in {"neutral", "moving"}
    BY <1>3 DEF EngagementInv, AuthorityInv, TypeOK, InputTypeOK
  <2>4. CASE joy = "neutral"
    BY <1>1, <2>1, <2>2, <2>4 DEF MovingDisarms, ArmedByNeutral, NoteNeutral
  <2>5. CASE joy = "moving" /\ armed /\ ~EngagementRefused
    <3>1. granting' # NoGrant
      BY <1>1, <2>1, <2>5
    <3>2. neutralSeen'
      BY <1>3, <2>2, <2>5 DEF EngagementInv, ArmedByNeutral, NoteNeutral
    <3> QED BY <3>1, <3>2 DEF MovingDisarms, ArmedByNeutral
  <2>6. CASE joy = "moving" /\ ~(armed /\ ~EngagementRefused)
    BY <1>1, <2>1, <2>6 DEF MovingDisarms, ArmedByNeutral
  <2> QED BY <2>3, <2>4, <2>5, <2>6
<1> QED BY <1>2, <1>3

\* Processing a sample, in whatever state.
LEMMA ProcessEngagement ==
  ASSUME EngagementInv, NEW src \in Sources, ProcessInput(src), NoteNeutral
  PROVE  MovingDisarms' /\ ArmedByNeutral'
<1>1. Entered
  BY DEF ProcessInput
<1>2. CASE state' # "READY"
  BY <1>2 DEF MovingDisarms, ArmedByNeutral
<1>3. CASE \E causes, ready : Pause(causes, ready)
  BY <1>2, <1>3 DEF Pause, Withdraw, Settle
<1>4. CASE state = "PAUSED" /\ Recover
  <2>1. EntersReady /\ UNCHANGED <<granting, joy, active>> /\ state' = "READY"
    BY <1>1, <1>4, RecoverSamples DEF Recover, EnterReady
  <2>2. armed' => joy' = "neutral" /\ neutralSeen'
    BY <2>1 DEF EntersReady, Refused, NoteNeutral
  <2> QED BY <2>1, <2>2 DEF EntersReady, MovingDisarms, ArmedByNeutral
<1>5. CASE /\ inputPc[src] # session
           /\ Idle(src) /\ UNCHANGED <<state, armed, seen, granting, joy, active>>
  <2>1. \A s \in Sources : inputPc[s] = session => inputPc'[s] = inputPc[s]
    BY <1>5, IdleSamples DEF Idle, EngagementInv
  <2>2. session # 0
    BY DEF EngagementInv, AuthorityInv, TypeOK, LifeTypeOK, Sessions
  <2>3. ~Refused
    BY <1>5, <2>1, <2>2, KeptRefusesNothing DEF EngagementInv
  <2> QED BY <1>5, <2>3 DEF EngagementInv, MovingDisarms, ArmedByNeutral, NoteNeutral
<1>6. CASE /\ inputPc[src] = session /\ state = "READY" /\ ReadyInput(src)
           /\ UNCHANGED <<state, active, joy, joyFresh>>
  BY <1>1, <1>6, ReadyInputEngagement
<1>7. CASE state # "READY" /\ UNCHANGED state
  BY <1>2, <1>7
<1> QED BY <1>3, <1>4, <1>5, <1>6, <1>7 DEF ProcessInput

\* EngagementInv is inductive: neither time, withdrawals and recoveries nor the loss of
\* the context arm an engagement that no neutral sample has armed.
LEMMA NextEngagement ==
  ASSUME EngagementInv, [HNext]_<<vars, historyVars>> PROVE EngagementInv'
<1>1. [Next]_vars
  BY DEF HNext, Next
<1>2. AuthorityInv'
  BY <1>1, NextAuthority DEF EngagementInv
<1> SUFFICES MovingDisarms' /\ ArmedByNeutral'
  BY <1>2 DEF EngagementInv
<1>3. CASE UNCHANGED <<vars, neutralSeen>>
  BY <1>3 DEF vars, EngagementInv, MovingDisarms, ArmedByNeutral
<1>4. CASE NoteNeutral
  <2>1. CASE Grant
    <3>1. granting' = NoGrant /\ (state' = "READY" => armed' = FALSE)
      BY <2>1 DEF Grant
    <3> QED BY <3>1 DEF MovingDisarms, ArmedByNeutral
  <2> QED BY <1>1, <1>4, <2>1, SampleSteps, SamplesKeptEngagement, ReceiveEngagement,
             ProcessEngagement DEF Inputs
<1> QED BY <1>3, <1>4, NeutralStep

\* EngagementInv holds in every reachable state.
LEMMA EngagementInductive == HSpec => []EngagementInv
<1>1. HInit => EngagementInv
  BY InitAuthority DEF HInit, Init, EngagementInv, MovingDisarms, ArmedByNeutral
<1>2. EngagementInv /\ [HNext]_<<vars, historyVars>> => EngagementInv'
  BY NextEngagement
<1> QED BY <1>1, <1>2, PTL DEF HSpec

\* Nothing engages an input that is still held: every engagement follows a neutral
\* sample observed in the same READY, and after a refused attempt a new one.
THEOREM HeldInputs == HSpec => HeldInputNeverEngages
<1>1. EngagementInv /\ [HNext]_<<vars, historyVars>>
        => [EngagesAfterNeutral]_<<vars, historyVars>>
  <2> SUFFICES ASSUME EngagementInv, [HNext]_<<vars, historyVars>>,
                      state = "READY", state' = "ACTIVE"
               PROVE  neutralSeen
    BY DEF EngagesAfterNeutral
  <2>1. [Next]_vars
    BY DEF HNext, Next
  <2>2. Grant
    BY <2>1, StepKinds DEF EngagementInv, StepKind, Withdrawn, Progressed, Recovered, Completed,
                           Engaged, Rearm
  <2> QED BY <2>2 DEF Grant, EngagementInv, ArmedByNeutral
<1> QED BY <1>1, EngagementInductive, PTL DEF HSpec, HeldInputNeverEngages

-----------------------------------------------------------------------------
(* The order of the adapter's targets.                                       *)

\* The last target was of a session, epoch and sequence that the runtime is not behind.
AppliedBehind ==
  /\ applied \in Target \union {NoTarget}
  /\ applied.session <= session
  /\ applied.session = session =>
       applied.epoch <= epoch[session] /\ applied.seq <= lastSeq[session]

CommandInv == DeliveryInv /\ AppliedBehind

\* A new target is a causal result's: of the current session and epoch, and of a
\* sequence that was accepted only now.
LEMMA NewTarget ==
  ASSUME DeliveryInv, [Next]_vars, target' \notin {target, NoTarget}
  PROVE  /\ target' \in Target
         /\ target'.session = session /\ target'.epoch = epoch[session]
         /\ target'.seq > lastSeq[session] /\ UNCHANGED <<session, epoch>>
         /\ lastSeq'[session] = target'.seq
<1>1. PICK w \in Workers : Decide(w)
  <2>1. ~Ordinary /\ ~Grant /\ ~Dispatches
    BY DEF Ordinary, Grant, Dispatches
  <2> QED BY <2>1, OrdinarySteps DEF DeliveryInv, Results, SubmitResult, AfterDecision
<1>2. Causal(job[w]) /\ AcceptMove(w)
  <2>1. \A h : LocalHold(job[w].session, h) => target' \in {target, NoTarget}
    BY HaltEffect DEF LocalHold
  <2>2. \A h : AdapterHalts(h) => target' \in {target, NoTarget}
    BY HaltEffect
  <2> QED BY <1>1, <2>1, <2>2 DEF Decide, RejectCurrent, AcceptHold
<1>3. pc[w] = "submitted" /\ UNCHANGED <<session, epoch>>
  BY <1>1 DEF Decide
<1>4. /\ job[w].session = session /\ job[w].result.epoch = epoch[session]
      /\ job[w].result.seq > lastSeq[session] /\ job[w].result \in Dispatch
      /\ session \in Sessions /\ lastSeq \in [Sessions -> Nat]
  BY <1>2, <1>3, CausalCurrent, DeliveryTypes
<1>5. /\ target' = [session |-> session, epoch |-> epoch[session], seq |-> job[w].result.seq]
      /\ lastSeq' = [lastSeq EXCEPT ![session] = job[w].result.seq]
  BY <1>2, <1>4 DEF AcceptMove
<1> QED BY <1>3, <1>4, <1>5 DEF Dispatch, Target

\* What a step of the history does to applied.
LEMMA AppliedStep ==
  ASSUME HNext \/ UNCHANGED <<vars, historyVars>>
  PROVE  applied' = IF target' \in {target, NoTarget} THEN applied ELSE target'
  BY DEF HNext, NoteApplied, vars, historyVars

\* CommandInv is inductive: session, epochs and sequences only move forward.
LEMMA NextCommand ==
  ASSUME CommandInv, [HNext]_<<vars, historyVars>> PROVE CommandInv'
<1>1. [Next]_vars
  BY DEF HNext, Next
<1>2. DeliveryInv' /\ Forward
  BY <1>1, NextDelivery DEF CommandInv
<1>3. session \in Sessions /\ session \in Nat /\ epoch[session] \in Nat /\ lastSeq[session] \in Nat
  BY DeliveryTypes DEF CommandInv
<1>4. CASE target' \notin {target, NoTarget}
  <2>1. applied' = target'
    BY <1>4, AppliedStep
  <2> QED BY <1>1, <1>2, <1>3, <1>4, <2>1, NewTarget DEF CommandInv, AppliedBehind, Target
<1>5. CASE target' \in {target, NoTarget}
  <2>1. applied' = applied
    BY <1>5, AppliedStep
  <2>2. applied.session \in Nat /\ applied.epoch \in Nat /\ applied.seq \in Nat
    BY DEF CommandInv, AppliedBehind, Target, NoTarget, Sessions
  <2> QED BY <1>2, <1>3, <2>1, <2>2 DEF CommandInv, AppliedBehind, Forward
<1> QED BY <1>4, <1>5

\* The adapter's targets only ever advance by session, epoch and command sequence: no
\* repeated, reordered or delayed result is applied a second time or after a newer one,
\* whatever withdrawals, recoveries, restarts and adapter failures come between.
THEOREM TargetsAdvance == HSpec => CommandsAdvance
<1>1. HInit => CommandInv
  BY InitDelivery DEF HInit, Init, CommandInv, AppliedBehind, NoTarget
<1>2. CommandInv /\ [HNext]_<<vars, historyVars>> => CommandInv'
  BY NextCommand
<1>3. CommandInv /\ [HNext]_<<vars, historyVars>> => [TargetAdvances]_<<vars, historyVars>>
  <2> SUFFICES ASSUME CommandInv, [HNext]_<<vars, historyVars>>,
                      target' \notin {target, NoTarget}
               PROVE  Later(target', applied)
    BY DEF TargetAdvances
  <2>1. [Next]_vars
    BY DEF HNext, Next
  <2>2. /\ target'.session = session /\ target'.epoch = epoch[session]
        /\ target'.seq > lastSeq[session] /\ target'.seq \in Nat
    BY <2>1, NewTarget DEF CommandInv, Target
  <2>3. session \in Nat /\ epoch[session] \in Nat /\ lastSeq[session] \in Nat
    BY DeliveryTypes DEF CommandInv
  <2>4. applied.session \in Nat /\ applied.epoch \in Nat /\ applied.seq \in Nat
    BY DEF CommandInv, AppliedBehind, Target, NoTarget, Sessions
  <2> QED BY <2>2, <2>3, <2>4 DEF CommandInv, AppliedBehind, Later
<1> QED BY <1>1, <1>2, <1>3, PTL DEF HSpec, CommandsAdvance

=============================================================================
