---------------------------- MODULE CommandChain ----------------------------
(***************************************************************************)
(* The way of a command to the arm: panda_ik_teleop publishes joints on a   *)
(* topic that may lose them, the stream turns those it receives into goals. *)
(***************************************************************************)
EXTENDS PandaTeleop, IkStream

chainVars == <<teleopVars, streamVars>>

ChainInit == TeleopInit /\ StreamInit

TeleopStep == (Callbacks \/ \E lost \in BOOLEAN : Rounds(lost)) /\ UNCHANGED streamVars

\* The topic delivers what it holds; the message may be an old one by then.
Deliver ==
  /\ output # <<>>
  /\ IkCallback(output[1])
  /\ output' = <<>>
  /\ UNCHANGED <<poseVars, run, joints, initialized>>

StreamStep == (Tick \/ Server \/ OnSent) /\ UNCHANGED teleopVars

ChainNext == TeleopStep \/ Deliver \/ StreamStep

ChainSpec == ChainInit /\ [][ChainNext]_chainVars

\* The loop and the timer of the stream go on, the topic does not lose everything, and the
\* server decides what it has and does not go on refusing.
ChainFairness ==
  /\ SF_chainVars(Rounds(FALSE) /\ UNCHANGED streamVars) /\ WF_chainVars(Deliver)
  /\ WF_chainVars(Tick /\ UNCHANGED teleopVars) /\ WF_chainVars(OnSent /\ UNCHANGED teleopVars)
  /\ WF_chainVars(Server /\ UNCHANGED teleopVars)
  /\ SF_chainVars(Acceptances /\ UNCHANGED teleopVars)

FairChainSpec == ChainSpec /\ ChainFairness

-----------------------------------------------------------------------------
(* Properties.                                                               *)

ChainTypeOK ==
  /\ TeleopTypeOK
  /\ latest \in AtMostOne(Int) /\ lastCmd \in AtMostOne(Int) /\ executed \in AtMostOne(Int)
  /\ sent \in Seq(Int) /\ answers \in Seq([goal : Int, accepted : BOOLEAN])

\* Whatever the solver does, and whichever goals are lost, refused or overtaken, no goal
\* leaves the shrunk joint limits: from the solver over the topic and the rate limit to
\* the server (lib.rs bounds; ik_stream_to_action.py _rate_limit).
GoalsWithinLimits ==
  /\ \A i \in DOMAIN sent : sent[i] \in Joints
  /\ executed \in AtMostOne(Joints)

\* When the joints come to rest at a value the arm is sent there and stays there, although
\* the topic loses messages and goals are refused, lost and accepted out of order ("the
\* stream can never end short of the final IK target", ik_stream_to_action.py).
ConvergesToTarget ==
  \A q \in Joints :
    <>[](run /\ joints = q) => <>[](executed # <<>> /\ Distance(executed[1], q) <= Eps)
=============================================================================
