---------------------------- MODULE PandaTeleop ----------------------------
(***************************************************************************)
(* panda_ik_teleop: the loop of main_teleop.cpp around solve of lib.rs,     *)
(* which follows commanded poses and commanded velocities with the joints.  *)
(*                                                                         *)
(* One joint stands for the six and one coordinate for position and         *)
(* orientation; Fk is where the joint puts the TCP.  The solver is any that *)
(* stays within its bounds: it may reach the pose, stop anywhere when its   *)
(* time is over, or fail.  The node has one thread: a callback runs between *)
(* two rounds of the loop, never within one.                                *)
(***************************************************************************)
EXTENDS Integers, Sequences

CONSTANTS
  Lo, Hi,       \* the limits of the joint, shrunk as optimize_robot does
  Initial,      \* the joint the node starts from
  Fk,           \* the position of the TCP for each joint
  Poses,        \* bound on the poses
  Velocities,   \* what one round moves the pose by
  Step,         \* how far one word of the directions moves the pose
  MaxJump,      \* the change of a joint that is taken as it is
  Near          \* a larger one is taken this close to the pose

Joints == Lo..Hi
Frames == {"LIO_robot_base_link", "another"}
Distance(x, y) == IF x <= y THEN y - x ELSE x - y

ASSUME TeleopAssumption ==
  /\ Lo \in Int /\ Hi \in Int /\ Initial \in Joints
  /\ Fk \in [Joints -> Int]
  /\ Poses \subseteq Int /\ Velocities \subseteq Int /\ 0 \in Velocities
  /\ Step \in Nat /\ MaxJump \in Nat /\ Near \in Nat

VARIABLES
  pose, vel,     \* commandedPose, commandedVel
  run,           \* start_ik or stop_ik
  joints,        \* joint_angles
  initialized,   \* a round was completed
  output,        \* the newest joints that the network did not lose, at most one
  standing       \* history: the pose commanded last, unless another input came since

poseVars == <<pose, vel, standing>>
jointVars == <<joints, initialized, output>>
teleopVars == <<poseVars, run, jointVars>>

TeleopInit ==
  /\ pose \in Poses /\ vel = 0
  /\ run = TRUE
  /\ joints = Initial /\ initialized = FALSE /\ output = <<>>
  /\ standing = <<>>

\* The pose moved by d, which stays at the last of the modelled poses.
Moved(d) == IF pose + d \in Poses THEN pose + d ELSE pose

-----------------------------------------------------------------------------
(* The callbacks.                                                            *)

\* Mutant: a twist is added to the velocity.
TwistAdded(v) ==
  /\ vel' = vel + v /\ standing' = <<>>
  /\ UNCHANGED <<pose, run, jointVars>>

\* The twist input.
Twist(v) ==
  /\ vel' = v /\ standing' = <<>>
  /\ UNCHANGED <<pose, run, jointVars>>

\* on_twist of velocity_controller.py, where the twists come from: the operator's velocity
\* is turned into the frame of the base, or dropped without a transform; v is what it is there.
OnTwist(found, v) == found /\ Twist(v)

\* The commands: a stopped loop keeps pose and velocity.
Command(on) ==
  /\ run' = on
  /\ UNCHANGED <<poseVars, jointVars>>

\* The directions move the pose and leave its velocity.
Direction(d) ==
  /\ pose' = Moved(d) /\ standing' = <<>>
  /\ UNCHANGED <<vel, run, jointVars>>

\* A pose of /simulator/end_effector_pose leaves the velocity as well.
Trajectory(p) ==
  /\ pose' = p /\ standing' = <<>>
  /\ UNCHANGED <<vel, run, jointVars>>

\* Mutant: the velocity of an earlier twist stays.
SettleNot == vel' = vel

\* commandedVel = Twist()
Settle == vel' = 0

\* A commanded pose in another frame than the base needs a transform, without which it
\* is ignored; p is the pose in the base frame.
CommandedPose(frame, found, p) ==
  /\ found \/ frame = "LIO_robot_base_link"
  /\ pose' = p /\ standing' = <<p>>
  /\ Settle
  /\ UNCHANGED <<run, jointVars>>

-----------------------------------------------------------------------------
(* The loop.                                                                 *)

\* solve within the bounds: some joint, and whether the solver failed.  The seed is
\* projected onto the bounds, and so is each of the solver's steps.
Solutions == [joint : Joints, failed : BOOLEAN]

\* Mutant: the pose before the velocity was added is compared with the one after.
CloseToItself(reached, next) == Distance(next, pose) < Near

\* solve has replaced the position it was given with the one that it reached, so that
\* the pose of the next round is compared with this one.
Close(reached, next) == Distance(next, reached) < Near

\* The joint that a round ends with: the solution, or the joint before if the solver
\* failed or the solution jumps and does not come close to the pose.
Accepted(solution, next) ==
  LET joint == IF solution.failed THEN joints ELSE solution.joint IN
  IF initialized /\ Distance(joint, joints) > MaxJump /\ ~Close(Fk[solution.joint], next)
  THEN joints ELSE joint

\* One round: the pose moves on whatever becomes of the solution.  What is published
\* overwrites what was not received yet, or is lost.
Round(solution, lost) ==
  /\ run
  /\ pose' = Moved(vel)
  /\ joints' = Accepted(solution, pose')
  /\ initialized' = TRUE
  /\ output' = IF lost THEN output ELSE <<joints'>>
  /\ UNCHANGED <<vel, standing, run>>

-----------------------------------------------------------------------------

Callbacks ==
  \/ \E found \in BOOLEAN, v \in Velocities : OnTwist(found, v)
  \/ \E on \in BOOLEAN : Command(on)
  \/ \E d \in {-Step, Step} : Direction(d)
  \/ \E p \in Poses : Trajectory(p)
  \/ \E frame \in Frames, found \in BOOLEAN, p \in Poses : CommandedPose(frame, found, p)

Rounds(lost) == \E solution \in Solutions : Round(solution, lost)

-----------------------------------------------------------------------------
(* Properties.                                                               *)

AtMostOne(S) == {s \in Seq(S) : Len(s) <= 1}

TeleopTypeOK ==
  /\ pose \in Poses /\ vel \in Velocities
  /\ run \in BOOLEAN /\ joints \in Int /\ initialized \in BOOLEAN /\ output \in AtMostOne(Int)
  /\ standing \in AtMostOne(Poses)

\* A commanded pose is pursued as it was given until another input of the operator comes,
\* whatever velocity was commanded before it and however often the loop is stopped and
\* resumed (main_teleop.cpp, "zero velocity").
PoseStands == standing # <<>> => pose = standing[1] /\ vel = 0

\* But for the first round, a jump of the joints ends close to the pose that is pursued by
\* then, also while the pose runs ahead of joints that the solver fails to move
\* (main_teleop.cpp, valid_output).
JumpsReach ==
  [][initialized /\ Distance(joints, joints') > MaxJump => Distance(Fk[joints'], pose') < Near]_teleopVars
=============================================================================
