----------------------------- MODULE GraspClient -----------------------------
(***************************************************************************)
(* grasp_pose_client: the node between the grasp server and /commanded_pose *)
(* (grasp_pose_client_node.py, http_client.py).  Its callbacks run in their *)
(* own groups of a MultiThreadedExecutor: a request of the ROS service and  *)
(* a poll of the web UI's results may be anywhere in the middle of their    *)
(* work, while the stop poll blocks in a transform lookup.  They share the  *)
(* snapshot, the deadline and run of the arm-stop log, and the marker.      *)
(*                                                                         *)
(* A grasp is abstracted to whether the arm can reach it, a transform to    *)
(* whether it is there, a snapshot to whether it is young enough.  The      *)
(* server and the operator at its web UI are external.                      *)
(***************************************************************************)
EXTENDS Integers, Sequences

CONSTANTS
  Traces,     \* the tasks of the web UI, which are their runs as well
  Requests,   \* the runs of the ROS service; each is requested once
  Bypass      \* ik_bypass, or no model for the feasibility check

ASSUME ClientAssumption ==
  /\ Traces \intersect Requests = {}
  /\ Bypass \in BOOLEAN

Runs == Traces \union Requests
Modes == {"ik_check", "execute"}
Candidates == {"reachable", "unreachable"}
Handlers == {"service", "poll"}

VARIABLES
  \* The node.
  running,      \* the executor spins
  fresh,        \* the latest snapshot exists and is within max_snapshot_age_s
  seen,         \* the phases marked in _seen_phases
  pc, job,      \* where the two handlers are, and on which result
  due, stopRun, \* _arm_stop_due_time, _arm_stop_run_id
  stopPc,       \* where the stop poll is
  marker,       \* the run whose grasp is broadcast as grasp_best
  \* Its environment.
  tf,           \* the transforms of camera and TCP can be looked up
  captured, offer, checked, requested,
  \* History: what was commanded, for which run; the traces whose check was
  \* skipped; the phases that were settled; the arm-stop entries still owed.
  commands, skipped, settled, owed

nodeVars == <<running, seen, pc, job>>
stopVars == <<due, stopRun, stopPc, owed>>
worldVars == <<fresh, tf>>
serverVars == <<captured, offer, checked, requested>>
historyVars == <<commands, skipped, settled>>
clientVars == <<nodeVars, stopVars, marker, worldVars, serverVars, historyVars>>

\* A result of the server: its trace, its phase and its grasps, the best first
\* where they are executed.
Result == [run : Runs, mode : Modes, grasps : SUBSET Candidates]
Malformed == [run |-> "malformed", mode |-> "malformed", grasps |-> {}]
Nothing == [run |-> "none", mode |-> "none", grasps |-> {}]
Phase(r) == <<r.run, r.mode>>

ClientInit ==
  /\ running = TRUE /\ fresh = FALSE /\ tf = TRUE
  /\ seen = {}
  /\ pc = [h \in Handlers |-> "idle"] /\ job = [h \in Handlers |-> Nothing]
  /\ due = "idle" /\ stopRun = "none" /\ stopPc = "idle"
  /\ marker = "none"
  /\ captured = FALSE /\ offer = Nothing
  /\ checked = [t \in Traces |-> {}] /\ requested = {}
  /\ commands = [r \in Runs |-> <<>>] /\ skipped = {} /\ settled = {} /\ owed = 0

-----------------------------------------------------------------------------
(* The environment.                                                          *)

\* A synchronized triple of frames arrives, or the latest one becomes too old.
SyncedFrames ==
  /\ running /\ fresh' = ~fresh
  /\ UNCHANGED <<nodeVars, stopVars, marker, tf, serverVars, historyVars>>

\* The transforms come and go.
TransformsChange ==
  /\ tf' = ~tf
  /\ UNCHANGED <<nodeVars, stopVars, marker, fresh, serverVars, historyVars>>

Checks ==
  {[run |-> t, mode |-> "ik_check", grasps |-> gs] :
     t \in IF captured THEN Traces ELSE {}, gs \in SUBSET Candidates \ {{}}}

Execution(t) == {[run |-> t, mode |-> "execute", grasps |-> gs] : gs \in {{}} \union {{g} : g \in checked[t]}}
Executions == UNION {Execution(t) : t \in {u \in Traces : checked[u] # {}}}

\* The server offers grasps of a capture for the check, grasps that passed it for
\* execution, nothing, or something that is no result; it may offer it again.
ServerOffers ==
  /\ offer' \in Checks \union Executions \union {Nothing, Malformed}
  /\ UNCHANGED <<nodeVars, stopVars, marker, worldVars, captured, checked, requested, historyVars>>

-----------------------------------------------------------------------------
(* What the two handlers do with a result.                                   *)

Goto(h, l) == pc' = [pc EXCEPT ![h] = l]

\* The handler returns.
Done(h) == Goto(h, "idle") /\ job' = [job EXCEPT ![h] = Nothing]

\* The best grasp is published and logged, if it could be transformed into the base frame:
\* _publish_visualisation keeps a pose in the camera frame from /commanded_pose.
Publish(h, r, base) ==
  /\ \E best \in r.grasps :
       commands' = IF base THEN [commands EXCEPT ![r.run] = Append(@, best)] ELSE commands
  /\ job' = [job EXCEPT ![h] = r]
  /\ Goto(h, IF base THEN "schedule" ELSE "mark")

\* The arm-stop entry of the run becomes due after arm_stop_log_delay_s.
Schedule(h) ==
  /\ pc[h] = "schedule"
  /\ due' = "waiting" /\ owed' = owed + 1
  /\ Goto(h, "label")
  /\ UNCHANGED <<running, seen, job, stopRun, stopPc, marker, worldVars, serverVars, historyVars>>

\* Mutant: the entry is labelled with the phase.
LabelWithPhase(h) ==
  /\ pc[h] = "label"
  /\ stopRun' = job[h].mode
  /\ Goto(h, "mark")
  /\ UNCHANGED <<running, seen, job, due, stopPc, owed, marker, worldVars, serverVars, historyVars>>

Label(h) ==
  /\ pc[h] = "label"
  /\ stopRun' = job[h].run
  /\ Goto(h, "mark")
  /\ UNCHANGED <<running, seen, job, due, stopPc, owed, marker, worldVars, serverVars, historyVars>>

\* _set_grasp_tfs: what _broadcast_grasp_tfs repeats from now on.
Mark(h) ==
  /\ pc[h] = "mark"
  /\ marker' = job[h].run
  /\ Done(h)
  /\ UNCHANGED <<running, seen, stopVars, worldVars, serverVars, historyVars>>

-----------------------------------------------------------------------------
(* The service.                                                              *)

\* _handle_request_grasp up to the request to the server.  Without a young
\* snapshot, or with images or a task it cannot use, it returns at once.  The
\* transform at the time of the image, or its absence, is remembered.
RequestGrasp(run) ==
  /\ running /\ pc["service"] = "idle" /\ run \notin requested
  /\ requested' = requested \union {run}
  /\ \/ fresh /\ Goto("service", IF tf THEN "asking" ELSE "asking_camera_frame")
     \/ UNCHANGED pc
  /\ job' = IF pc' = pc THEN job
            ELSE [job EXCEPT !["service"] = [run |-> run, mode |-> "execute", grasps |-> {}]]
  /\ UNCHANGED <<running, seen, stopVars, marker, worldVars, captured, offer, checked, historyVars>>

\* post_grasp returns: an error or no usable grasp ends the call; otherwise the
\* grasps are published, in the camera frame if the transform was not there.
ServerAnswers ==
  /\ pc["service"] \in {"asking", "asking_camera_frame"}
  /\ \/ Done("service") /\ UNCHANGED commands
     \/ \E g \in Candidates :
          Publish("service", [job["service"] EXCEPT !.grasps = {g}], pc["service"] = "asking")
  /\ UNCHANGED <<running, seen, stopVars, marker, worldVars, serverVars, skipped, settled>>

\* _do_upload_capture on a young snapshot; otherwise, or when the conversion or
\* the request fails, nothing happens.
UploadCapture ==
  /\ running /\ fresh
  /\ captured' = TRUE
  /\ UNCHANGED <<nodeVars, stopVars, marker, worldVars, offer, checked, requested, historyVars>>

-----------------------------------------------------------------------------
(* The poll.                                                                 *)

\* _poll_publish asks first whether a capture is wanted, and uploads it if so.
PollCapture ==
  /\ running /\ pc["poll"] = "idle"
  /\ captured' \in {captured, captured \/ fresh}
  /\ Goto("poll", "fetch")
  /\ UNCHANGED <<running, seen, job, stopVars, marker, worldVars, offer, checked, requested, historyVars>>

\* Nothing is offered, the request fails, or the phase was met before.
PollFindsNothing ==
  /\ pc["poll"] = "fetch"
  /\ Done("poll")
  /\ UNCHANGED <<running, seen, stopVars, marker, worldVars, serverVars, historyVars>>

\* Mutant: the check alone is marked.
MarkSeenChecks(r) == seen' = IF r.mode = "ik_check" THEN seen \union {Phase(r)} ELSE seen

MarkSeen(r) == seen' = seen \union {Phase(r)}

\* A phase that is met for the first time is marked before anything is done about it.
PollFindsPhase ==
  /\ pc["poll"] = "fetch"
  /\ offer \in Result /\ Phase(offer) \notin seen
  /\ MarkSeen(offer)
  /\ job' = [job EXCEPT !["poll"] = offer]
  /\ Goto("poll", IF offer.mode = "ik_check" THEN "check" ELSE "lookup")
  /\ UNCHANGED <<running, stopVars, marker, worldVars, serverVars, historyVars>>

\* The transform the check needs is missing, or there is nothing to check with.
CheckSkipped == Bypass \/ ~tf

\* Mutant: nothing is left out.
PassedAll(gs) == {gs}

\* What may pass _check_ik_feasibility: grasps that the solver reaches, from the joints or
\* from the neutral position.  It may miss one, also because the stop poll computes with the
\* same model data meanwhile.  Without a check all of them pass.
Passed(gs) == IF CheckSkipped THEN {gs} ELSE SUBSET (gs \intersect {"reachable"})

CheckFeasibility ==
  /\ pc["poll"] = "check"
  /\ \E passed \in Passed(job["poll"].grasps) : job' = [job EXCEPT !["poll"].grasps = passed]
  /\ skipped' = IF CheckSkipped THEN skipped \union {job["poll"].run} ELSE skipped
  /\ Goto("poll", "submit")
  /\ UNCHANGED <<running, seen, stopVars, marker, worldVars, serverVars, commands, settled>>

\* submit_ik_result.  When it fails the phase stays marked: the check is not
\* repeated, however often it is offered.
SubmitIkResult ==
  /\ pc["poll"] = "submit"
  /\ checked' \in {checked, [checked EXCEPT ![job["poll"].run] = job["poll"].grasps]}
  /\ settled' = settled \union {Phase(job["poll"])}
  /\ Done("poll")
  /\ UNCHANGED <<running, seen, stopVars, marker, worldVars, captured, offer, requested, commands, skipped>>

\* Mutant: the phase stays marked.
RetryLaterSeen(r) == seen' = seen

RetryLater(r) == seen' = seen \ {Phase(r)}

\* Without the transform the mark is dropped, so that a later poll tries again.
PollRetries ==
  /\ pc["poll"] = "lookup" /\ ~tf
  /\ RetryLater(job["poll"])
  /\ Done("poll")
  /\ UNCHANGED <<running, stopVars, marker, worldVars, serverVars, historyVars>>

\* The result is executed; one without a usable grasp is only noted.
PollExecutes ==
  /\ pc["poll"] = "lookup" /\ tf
  /\ settled' = settled \union {Phase(job["poll"])}
  /\ IF job["poll"].grasps = {} THEN Done("poll") /\ UNCHANGED commands
     ELSE Publish("poll", job["poll"], TRUE)
  /\ UNCHANGED <<running, seen, stopVars, marker, worldVars, serverVars, skipped>>

\* What the server gives is no result: from_json raises out of the callback, which ends
\* the executor and the node.  The service takes most of what is malformed for an error,
\* but not an elapsed time that is no number.
Raises ==
  /\ \/ pc["poll"] = "fetch" /\ offer = Malformed
     \/ pc["service"] \in {"asking", "asking_camera_frame"}
  /\ running' = FALSE
  /\ pc' = [h \in Handlers |-> "stopped"] /\ stopPc' = "stopped"
  /\ UNCHANGED <<seen, job, due, stopRun, owed, marker, worldVars, serverVars, historyVars>>

-----------------------------------------------------------------------------
(* The stop poll.                                                            *)

DelayElapses ==
  /\ due = "waiting" /\ due' = "due"
  /\ UNCHANGED <<nodeVars, stopRun, stopPc, owed, marker, worldVars, serverVars, historyVars>>

\* _arm_stop_poll finds the entry due, and blocks in the lookup of the TCP.
StopPollLooks ==
  /\ running /\ stopPc = "idle" /\ due = "due"
  /\ stopPc' = "looking"
  /\ UNCHANGED <<nodeVars, due, stopRun, owed, marker, worldVars, serverVars, historyVars>>

StopPollRetries ==
  /\ stopPc = "looking" /\ ~tf
  /\ stopPc' = "idle"
  /\ UNCHANGED <<nodeVars, due, stopRun, owed, marker, worldVars, serverVars, historyVars>>

\* Mutant: the deadline stays.
ClearStopNot == due' = due

\* Whatever was scheduled since is cleared as well.
ClearStop == due' = "idle"

StopPollClears ==
  /\ stopPc = "looking" /\ tf
  /\ ClearStop
  /\ stopPc' = "logging"
  /\ UNCHANGED <<nodeVars, stopRun, owed, marker, worldVars, serverVars, historyVars>>

\* _log_arm_stop: the entry names the run that is the latest by now.
StopPollLogs ==
  /\ stopPc = "logging"
  /\ stopPc' = "idle" /\ owed' = owed - 1
  /\ UNCHANGED <<nodeVars, due, stopRun, marker, worldVars, serverVars, historyVars>>

-----------------------------------------------------------------------------

Poll ==
  \/ PollCapture \/ PollFindsNothing \/ PollFindsPhase
  \/ CheckFeasibility \/ SubmitIkResult \/ PollRetries \/ PollExecutes

Service ==
  \/ \E r \in Requests : RequestGrasp(r)
  \/ ServerAnswers
  \/ UploadCapture

Aftermath(h) == Schedule(h) \/ Label(h) \/ Mark(h)

StopPoll == StopPollLooks \/ StopPollRetries \/ StopPollClears \/ StopPollLogs

Environment == SyncedFrames \/ TransformsChange \/ ServerOffers \/ DelayElapses

ClientNext ==
  \/ Poll \/ Service \/ StopPoll \/ Environment \/ Raises
  \/ \E h \in Handlers : Aftermath(h)

ClientSpec == ClientInit /\ [][ClientNext]_clientVars

\* The timers fire, each HTTP request ends, by its timeout at the latest, time
\* passes, and the server does not go on failing to answer the polls.
ClientFairness ==
  /\ WF_clientVars(Poll) /\ SF_clientVars(PollFindsPhase)
  /\ WF_clientVars(ServerAnswers)
  /\ \A h \in Handlers : WF_clientVars(Aftermath(h))
  /\ WF_clientVars(StopPoll) /\ WF_clientVars(DelayElapses)

FairClientSpec == ClientSpec /\ ClientFairness

-----------------------------------------------------------------------------
(* Properties.                                                               *)

ClientTypeOK ==
  /\ running \in BOOLEAN /\ fresh \in BOOLEAN /\ tf \in BOOLEAN
  /\ seen \subseteq Traces \X Modes
  /\ pc \in [Handlers -> {"idle", "asking", "asking_camera_frame", "fetch", "check", "submit",
                          "lookup", "schedule", "label", "mark", "stopped"}]
  /\ job \in [Handlers -> Result \union {Nothing}]
  /\ due \in {"idle", "waiting", "due"} /\ stopRun \in Runs \union {"none"}
  /\ stopPc \in {"idle", "looking", "logging", "stopped"} /\ marker \in Runs \union {"none"}
  /\ captured \in BOOLEAN /\ offer \in Result \union {Nothing, Malformed}
  /\ checked \in [Traces -> SUBSET Candidates] /\ requested \subseteq Requests
  /\ commands \in [Runs -> Seq(Candidates)]
  /\ skipped \subseteq Traces /\ settled \subseteq Traces \X Modes /\ owed \in Int

\* However often the server offers a result, and whatever its transforms and its
\* other handler do meanwhile, the node commands a run at most once
\* (grasp_pose_client_node.py _poll_publish, _seen_phases).
CommandedOnce == \A r \in Runs : Len(commands[r]) <= 1

\* A marked phase was dealt with or is being dealt with: only one that will be met
\* again, when its transform was missing, loses its mark (_poll_publish).
SeenIsSettled ==
  \A p \in seen : p \in settled \/ (pc["poll"] \in {"check", "submit", "lookup"} /\ Phase(job["poll"]) = p)
                 \/ ~running

\* A grasp that the arm cannot reach is commanded on the polling path only if the
\* check of its trace was skipped (_check_ik_feasibility, submit_ik_result).
PolledIsReachable ==
  \A t \in Traces \ skipped : \A i \in 1..Len(commands[t]) : commands[t][i] = "reachable"

\* Each scheduled entry is logged at most once, whatever is scheduled while the poll
\* is blocked ("one-shot", _arm_stop_poll).
StopLogOneShot == owed >= 0

\* A result offered for execution is dealt with once the transforms stay
\* ("will retry", _poll_publish).
ExecutionRetried ==
  \A t \in Traces :
    <>[](running /\ tf /\ Phase(offer) = <<t, "execute">>) => <>(<<t, "execute">> \in settled)
=============================================================================
