------------------------------ MODULE IkStream ------------------------------
(***************************************************************************)
(* ik_stream_to_action.py: the joints that were received last are turned    *)
(* into goals of the action server, at most MaxStep from the last goal that *)
(* is known to be accepted.  A tick does not wait for the goal it sent, so  *)
(* that several are on their way; the server decides them in any order, or  *)
(* never sees them, and answers in the order it decides.                    *)
(***************************************************************************)
EXTENDS Integers, Sequences, SequencesExt

CONSTANTS
  Eps,          \* eps: the change that is worth a goal
  MaxStep,      \* max_step_deg, 0 for no limit
  MaxInFlight   \* bound on goals without an answer

ASSUME StreamAssumption ==
  /\ Eps \in Nat /\ MaxStep \in Nat /\ MaxInFlight \in Nat \ {0}

VARIABLES
  latest,    \* _latest_ik_deg, at most one
  lastCmd,   \* _last_cmd_deg, at most one
  sent,      \* the goals that the server has not decided
  answers,   \* its decisions that the node has not processed
  executed   \* the goal that the server accepted last, at most one

streamVars == <<latest, lastCmd, sent, answers, executed>>

\* A goal that the server has decided.
Answer(goal, accepted) == [goal |-> goal, accepted |-> accepted]

StreamInit ==
  /\ latest = <<>> /\ lastCmd = <<>>
  /\ sent = <<>> /\ answers = <<>> /\ executed = <<>>

-----------------------------------------------------------------------------

\* _ik_cb
IkCallback(q) ==
  /\ latest' = <<q>>
  /\ UNCHANGED <<lastCmd, sent, answers, executed>>

\* _changed
Changed(a, b) == b # <<>> => a - b[1] > Eps \/ b[1] - a > Eps

\* Mutant: a step has always the full length.
RateLimitAlways(current, target) ==
  IF MaxStep = 0 \/ current = <<>> THEN target
  ELSE IF target > current[1] THEN current[1] + MaxStep ELSE current[1] - MaxStep

\* _rate_limit
RateLimit(current, target) ==
  IF MaxStep = 0 \/ current = <<>> THEN target
  ELSE IF target - current[1] > MaxStep THEN current[1] + MaxStep
  ELSE IF current[1] - target > MaxStep THEN current[1] - MaxStep
  ELSE target

\* Mutant: the goal counts as commanded when it is sent.
AdvanceWhenSent(goal) == lastCmd' = <<goal>>

\* _send_move_joints: the goal counts as commanded only when it is accepted.
Advance(goal) == UNCHANGED lastCmd

\* _control_tick
Tick ==
  /\ latest # <<>>
  /\ Len(sent) + Len(answers) < MaxInFlight
  /\ LET desired == RateLimit(lastCmd, latest[1]) IN
       /\ Changed(desired, lastCmd)
       /\ sent' = Append(sent, desired)
       /\ Advance(desired)
  /\ UNCHANGED <<latest, answers, executed>>

\* The server decides one of the goals.
Decide(i, accepted) ==
  /\ answers' = Append(answers, Answer(sent[i], accepted))
  /\ executed' = IF accepted THEN <<sent[i]>> ELSE executed
  /\ sent' = RemoveAt(sent, i)
  /\ UNCHANGED <<latest, lastCmd>>

\* A goal never arrives: its future is never done.
Vanish(i) ==
  /\ sent' = RemoveAt(sent, i)
  /\ UNCHANGED <<latest, lastCmd, answers, executed>>

\* _on_sent
OnSent ==
  /\ answers # <<>>
  /\ lastCmd' = IF Head(answers).accepted THEN <<Head(answers).goal>> ELSE lastCmd
  /\ answers' = Tail(answers)
  /\ UNCHANGED <<latest, sent, executed>>

Acceptances == \E i \in DOMAIN sent : Decide(i, TRUE)
Server == \E i \in DOMAIN sent : Decide(i, TRUE) \/ Decide(i, FALSE) \/ Vanish(i)
=============================================================================
