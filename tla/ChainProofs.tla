---------------------------- MODULE ChainProofs ----------------------------
(***************************************************************************)
(* Proofs about the chain, for any limits, positions of the TCP, step and   *)
(* number of goals on their way: its type, that no goal leaves the joint    *)
(* limits and that a commanded pose stands.                                 *)
(***************************************************************************)
EXTENDS CommandChain, SequenceTheorems, TLAPS

USE TeleopAssumption, StreamAssumption

-----------------------------------------------------------------------------
(* The inductive invariant: the joints are within the limits wherever they   *)
(* are, in the node, on the topic, in the stream and at the server.  That    *)
(* the goals are does not follow from the goals alone, because a goal is     *)
(* made of a joint that is received and of one that was accepted.            *)

JointsInv ==
  /\ joints \in Joints
  /\ output \in AtMostOne(Joints)
  /\ latest \in AtMostOne(Joints) /\ lastCmd \in AtMostOne(Joints) /\ executed \in AtMostOne(Joints)
  /\ sent \in Seq(Joints)
  /\ answers \in Seq([goal : Joints, accepted : BOOLEAN])

PoseInv ==
  /\ pose \in Poses /\ vel \in Velocities /\ standing \in AtMostOne(Poses)
  /\ PoseStands

FlagInv == run \in BOOLEAN /\ initialized \in BOOLEAN

ChainInv == JointsInv /\ PoseInv /\ FlagInv

-----------------------------------------------------------------------------
(* Lemmas about the helpers.                                                 *)

\* A sequence of one element, and what it holds.
LEMMA One ==
  ASSUME NEW S, NEW x \in S
  PROVE  <<x>> \in AtMostOne(S) /\ <<x>> # <<>> /\ <<x>>[1] = x
  BY DEF AtMostOne

LEMMA Held ==
  ASSUME NEW S, NEW s \in AtMostOne(S), s # <<>>
  PROVE  s[1] \in S
  BY DEF AtMostOne

LEMMA Empty ==
  ASSUME NEW S
  PROVE  <<>> \in AtMostOne(S)
  BY DEF AtMostOne

\* What the removal of an element leaves is a sequence over the same set.
LEMMA Removed ==
  ASSUME NEW S, NEW s \in Seq(S), NEW i \in DOMAIN s
  PROVE  RemoveAt(s, i) \in Seq(S)
  <1>1. i \in 1..Len(s)
    OBVIOUS
  <1>2. SubSeq(s, 1, i - 1) \in Seq(S)
    BY <1>1
  <1>3. SubSeq(s, i + 1, Len(s)) \in Seq(S)
    BY <1>1
  <1> QED
    BY <1>2, <1>3 DEF RemoveAt

\* The rate limit stays between the two joints it is given (_rate_limit).
LEMMA RateLimited ==
  ASSUME NEW c \in AtMostOne(Joints), NEW t \in Joints
  PROVE  RateLimit(c, t) \in Joints
  <1>1. CASE c = <<>>
    BY <1>1 DEF RateLimit
  <1>2. CASE c # <<>>
    <2>1. c[1] \in Joints
      BY <1>2, Held
    <2>2. c[1] \in Int /\ t \in Int /\ MaxStep \in Nat
      BY <2>1, TeleopAssumption, StreamAssumption DEF Joints
    <2>3. CASE MaxStep = 0
      BY <2>3 DEF RateLimit
    <2>4. CASE MaxStep # 0 /\ t - c[1] > MaxStep
      <3>1. RateLimit(c, t) = c[1] + MaxStep
        BY <1>2, <2>4 DEF RateLimit
      <3> QED
        BY <2>1, <2>2, <2>4, <3>1, TeleopAssumption DEF Joints
    <2>5. CASE MaxStep # 0 /\ c[1] - t > MaxStep
      <3>1. ~(t - c[1] > MaxStep)
        BY <2>2, <2>5
      <3>2. RateLimit(c, t) = c[1] - MaxStep
        BY <1>2, <2>5, <3>1 DEF RateLimit
      <3> QED
        BY <2>1, <2>2, <2>5, <3>2, TeleopAssumption DEF Joints
    <2>6. CASE MaxStep # 0 /\ ~(t - c[1] > MaxStep) /\ ~(c[1] - t > MaxStep)
      BY <1>2, <2>6 DEF RateLimit
    <2> QED
      BY <2>3, <2>4, <2>5, <2>6
  <1> QED
    BY <1>1, <1>2

\* A round ends with the joint it began with or with the solution.
LEMMA AcceptedWithin ==
  ASSUME NEW solution \in Solutions, NEW next, joints \in Joints
  PROVE  Accepted(solution, next) \in Joints
  BY DEF Accepted, Solutions

LEMMA MovedWithin ==
  ASSUME NEW d, pose \in Poses
  PROVE  Moved(d) \in Poses
  BY DEF Moved

LEMMA MovedByNothing ==
  ASSUME pose \in Poses
  PROVE  Moved(0) = pose
  BY DEF Moved

-----------------------------------------------------------------------------
(* Initially.                                                                *)

LEMMA ChainInitially == ChainInit => ChainInv
  <1> SUFFICES ASSUME ChainInit PROVE ChainInv
    OBVIOUS
  <1> USE DEF ChainInit, TeleopInit, StreamInit
  <1>1. JointsInv
    BY Empty DEF JointsInv
  <1>2. PoseInv
    BY Empty DEF PoseInv, PoseStands
  <1> QED
    BY <1>1, <1>2 DEF ChainInv, FlagInv

-----------------------------------------------------------------------------
(* The steps of the node.                                                    *)

\* A callback gives another pose or velocity, and no commanded pose stands but its own.
LEMMA CallbackStep ==
  ASSUME ChainInv, Callbacks, UNCHANGED streamVars
  PROVE  ChainInv'
  <1> USE DEF ChainInv, streamVars
  <1>1. ASSUME NEW v \in Velocities, Twist(v) PROVE ChainInv'
    BY <1>1, Empty DEF Twist, jointVars, JointsInv, PoseInv, PoseStands, FlagInv
  <1>2. ASSUME NEW on \in BOOLEAN, Command(on) PROVE ChainInv'
    BY <1>2 DEF Command, poseVars, jointVars, JointsInv, PoseInv, PoseStands, FlagInv
  <1>3. ASSUME NEW d \in {-Step, Step}, Direction(d) PROVE ChainInv'
    BY <1>3, Empty, MovedWithin DEF Direction, jointVars, JointsInv, PoseInv, PoseStands, FlagInv
  <1>4. ASSUME NEW p \in Poses, Trajectory(p) PROVE ChainInv'
    BY <1>4, Empty DEF Trajectory, jointVars, JointsInv, PoseInv, PoseStands, FlagInv
  <1>5. ASSUME NEW frame \in Frames, NEW found \in BOOLEAN, NEW p \in Poses, CommandedPose(frame, found, p)
        PROVE  ChainInv'
    BY <1>5, One DEF CommandedPose, Settle, jointVars, JointsInv, PoseInv, PoseStands, FlagInv
  <1> QED
    BY <1>1, <1>2, <1>3, <1>4, <1>5 DEF Callbacks, OnTwist

LEMMA RoundStep ==
  ASSUME ChainInv, NEW solution \in Solutions, NEW lost \in BOOLEAN, Round(solution, lost),
         UNCHANGED streamVars
  PROVE  ChainInv'
  <1> USE DEF ChainInv, streamVars, Round
  <1>1. joints' \in Joints
    BY AcceptedWithin DEF JointsInv
  <1>2. JointsInv'
    BY <1>1, One DEF JointsInv
  <1>3. PoseStands'
    BY MovedByNothing DEF PoseInv, PoseStands
  <1>4. PoseInv'
    BY <1>3, MovedWithin DEF PoseInv
  <1> QED
    BY <1>2, <1>4 DEF FlagInv

-----------------------------------------------------------------------------
(* The steps of the topic, the stream and the server.                        *)

LEMMA DeliverStep ==
  ASSUME ChainInv, Deliver
  PROVE  ChainInv'
  <1> USE DEF ChainInv, Deliver, IkCallback, poseVars
  <1>1. output[1] \in Joints
    BY Held DEF JointsInv
  <1>2. JointsInv'
    BY <1>1, One, Empty DEF JointsInv
  <1> QED
    BY <1>2 DEF PoseInv, PoseStands, FlagInv

\* Whatever keeps the joints of the stream within the limits keeps the invariant.
LEMMA StreamKeeps ==
  ASSUME ChainInv, UNCHANGED teleopVars, latest' = latest, lastCmd' \in AtMostOne(Joints),
         executed' \in AtMostOne(Joints), sent' \in Seq(Joints),
         answers' \in Seq([goal : Joints, accepted : BOOLEAN])
  PROVE  ChainInv'
  BY DEF ChainInv, teleopVars, poseVars, jointVars, JointsInv, PoseInv, PoseStands, FlagInv

LEMMA TickStep ==
  ASSUME ChainInv, Tick, UNCHANGED teleopVars
  PROVE  ChainInv'
  <1> USE DEF ChainInv, JointsInv
  <1>1. latest[1] \in Joints
    BY Held DEF Tick
  <1>2. RateLimit(lastCmd, latest[1]) \in Joints
    BY <1>1, RateLimited
  <1>3. sent' \in Seq(Joints)
    BY <1>2 DEF Tick
  <1> QED
    BY <1>3, StreamKeeps DEF Tick, Advance

LEMMA DecideStep ==
  ASSUME ChainInv, NEW i \in DOMAIN sent, NEW accepted \in BOOLEAN, Decide(i, accepted),
         UNCHANGED teleopVars
  PROVE  ChainInv'
  <1> USE DEF ChainInv, JointsInv, Decide
  <1>1. sent[i] \in Joints
    OBVIOUS
  <1>2. Answer(sent[i], accepted) \in [goal : Joints, accepted : BOOLEAN]
    BY <1>1 DEF Answer
  <1>3. answers' \in Seq([goal : Joints, accepted : BOOLEAN])
    BY <1>2
  <1>4. executed' \in AtMostOne(Joints)
    BY <1>1, One
  <1>5. sent' \in Seq(Joints)
    BY Removed
  <1> QED
    BY <1>3, <1>4, <1>5, StreamKeeps

LEMMA VanishStep ==
  ASSUME ChainInv, NEW i \in DOMAIN sent, Vanish(i), UNCHANGED teleopVars
  PROVE  ChainInv'
  <1>1. sent' \in Seq(Joints)
    BY Removed DEF ChainInv, JointsInv, Vanish
  <1> QED
    BY <1>1, StreamKeeps DEF ChainInv, JointsInv, Vanish

LEMMA OnSentStep ==
  ASSUME ChainInv, OnSent, UNCHANGED teleopVars
  PROVE  ChainInv'
  <1> USE DEF ChainInv, JointsInv, OnSent
  <1>1. Head(answers) \in [goal : Joints, accepted : BOOLEAN]
    BY HeadTailProperties
  <1>2. lastCmd' \in AtMostOne(Joints)
    BY <1>1, One
  <1>3. answers' \in Seq([goal : Joints, accepted : BOOLEAN])
    OBVIOUS
  <1> QED
    BY <1>2, <1>3, StreamKeeps

-----------------------------------------------------------------------------

LEMMA ChainStep ==
  ASSUME ChainInv, [ChainNext]_chainVars
  PROVE  ChainInv'
  <1>1. CASE TeleopStep
    BY <1>1, CallbackStep, RoundStep DEF TeleopStep, Rounds
  <1>2. CASE Deliver
    BY <1>2, DeliverStep
  <1>3. CASE StreamStep
    BY <1>3, TickStep, DecideStep, VanishStep, OnSentStep DEF StreamStep, Server
  <1>4. CASE UNCHANGED chainVars
    BY <1>4, StreamKeeps DEF chainVars, streamVars, ChainInv, JointsInv
  <1> QED
    BY <1>1, <1>2, <1>3, <1>4 DEF ChainNext

\* The inductive invariant holds in every state of the chain.
THEOREM ChainInductive == ChainSpec => []ChainInv
  BY ChainInitially, ChainStep, PTL DEF ChainSpec

LEMMA IntLimits ==
  ASSUME NEW s \in AtMostOne(Joints)
  PROVE  s \in AtMostOne(Int)
  BY DEF AtMostOne, Joints

LEMMA InvIsTyped == ChainInv => ChainTypeOK
  <1> SUFFICES ASSUME ChainInv PROVE ChainTypeOK
    OBVIOUS
  <1> USE DEF ChainInv, JointsInv
  <1>1. sent \in Seq(Int) /\ answers \in Seq([goal : Int, accepted : BOOLEAN])
    <2>1. Joints \subseteq Int
      BY DEF Joints
    <2>2. [goal : Joints, accepted : BOOLEAN] \subseteq [goal : Int, accepted : BOOLEAN]
      BY <2>1
    <2> QED
      BY <2>1, <2>2, SeqMonotonic
  <1>2. TeleopTypeOK
    BY IntLimits DEF TeleopTypeOK, PoseInv, FlagInv, Joints
  <1> QED
    BY <1>1, <1>2, IntLimits DEF ChainTypeOK

\* Every variable of the chain keeps its type.
THEOREM ChainTypeCorrectness == ChainSpec => []ChainTypeOK
  BY ChainInductive, InvIsTyped, PTL

\* No goal that is sent or accepted leaves the joint limits, whatever the solver, the
\* topic and the server do.
THEOREM LimitsSafety == ChainSpec => []GoalsWithinLimits
  <1>1. ChainInv => GoalsWithinLimits
    BY DEF ChainInv, JointsInv, GoalsWithinLimits
  <1> QED
    BY <1>1, ChainInductive, PTL

\* A commanded pose is pursued as it was given until another input comes.
THEOREM CommandedPoseStands == ChainSpec => []PoseStands
  <1>1. ChainInv => PoseStands
    BY DEF ChainInv, PoseInv
  <1> QED
    BY <1>1, ChainInductive, PTL

\* But for the first round, a jump of the joints ends close to the pose.
THEOREM JumpsReachPose == ChainSpec => JumpsReach
  <1>1. ASSUME ChainInv, [ChainNext]_chainVars
        PROVE  [initialized /\ Distance(joints, joints') > MaxJump =>
                  Distance(Fk[joints'], pose') < Near]_teleopVars
    <2>1. ASSUME NEW solution \in Solutions, NEW lost \in BOOLEAN, Round(solution, lost),
                 initialized, Distance(joints, joints') > MaxJump
          PROVE  Distance(Fk[joints'], pose') < Near
      <3>1. joints \in Joints /\ solution.joint \in Joints
        BY <1>1 DEF ChainInv, JointsInv, Solutions
      <3>2. Distance(joints, joints) = 0
        BY <3>1 DEF Distance, Joints
      <3>3. joints' # joints
        BY <2>1, <3>2
      <3>4. joints' = solution.joint /\ ~solution.failed
        BY <2>1, <3>3 DEF Round, Accepted
      <3>5. Distance(solution.joint, joints) > MaxJump
        BY <2>1, <3>1, <3>4 DEF Distance, Joints
      <3>6. Close(Fk[solution.joint], pose')
        BY <2>1, <3>3, <3>5 DEF Round, Accepted
      <3>7. pose' \in Int /\ Fk[solution.joint] \in Int
        BY <1>1, <2>1, <3>1, MovedWithin DEF Round, ChainInv, PoseInv
      <3> QED
        BY <3>4, <3>6, <3>7 DEF Close, Distance
    <2>2. ASSUME joints' = joints
          PROVE  ~(Distance(joints, joints') > MaxJump)
      BY <1>1, <2>2 DEF ChainInv, JointsInv, Distance, Joints
    <2>3. CASE TeleopStep
      <3>1. CASE Callbacks
        <4>1. joints' = joints
          BY <3>1 DEF Callbacks, OnTwist, Twist, Command, Direction, Trajectory, CommandedPose, jointVars
        <4> QED
          BY <4>1, <2>2
      <3> QED
        BY <2>3, <2>1, <3>1 DEF TeleopStep, Rounds
    <2>4. CASE Deliver \/ StreamStep \/ UNCHANGED chainVars
      <3>1. joints' = joints
        BY <2>4 DEF Deliver, StreamStep, chainVars, teleopVars, jointVars
      <3> QED
        BY <3>1, <2>2
    <2> QED
      BY <1>1, <2>3, <2>4 DEF ChainNext
  <1> QED
    BY <1>1, ChainInductive, PTL DEF ChainSpec, JumpsReach
=============================================================================
