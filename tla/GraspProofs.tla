---------------------------- MODULE GraspProofs ----------------------------
(***************************************************************************)
(* Proofs about the grasp client, for any tasks, requests and offers of the *)
(* server: its type, that a run is commanded at most once, that a mark is   *)
(* kept only by what was dealt with, that what is polled and commanded was  *)
(* found reachable, and that an arm-stop entry is logged at most once.      *)
(***************************************************************************)
EXTENDS GraspClient, SequenceTheorems, TLAPS

USE ClientAssumption

-----------------------------------------------------------------------------
(* The inductive invariant.  That a run is commanded once rests on the mark  *)
(* of its phase on one path and on its single request on the other, and on   *)
(* where each handler may be; a handler that is about to command has not     *)
(* commanded its run yet.                                                    *)

Asking == {"asking", "asking_camera_frame"}
Publishing == {"schedule", "label", "mark"}

\* Where a handler is, it has a result to go on with.
PlaceInv ==
  /\ pc["service"] \in {"idle", "stopped"} \union Asking \union Publishing
  /\ pc["poll"] \in {"idle", "stopped", "fetch", "check", "submit", "lookup"} \union Publishing
  /\ \A h \in Handlers : pc[h] \in Publishing => job[h] \in Result
  /\ pc["service"] \in Asking => job["service"] \in Result
  /\ pc["poll"] \in {"check", "submit", "lookup"} => job["poll"] \in Result /\ job["poll"].run \in Traces

OfferInv == offer \in Result => offer.run \in Traces

\* The runs of the web UI are commanded under their mark.
TraceInv ==
  /\ \A t \in Traces : Len(commands[t]) <= 1 /\ (commands[t] # <<>> => <<t, "execute">> \in seen)
  /\ pc["poll"] = "lookup" => commands[job["poll"].run] = <<>> /\ job["poll"].mode = "execute"
                              /\ Phase(job["poll"]) \in seen

\* The runs of the service are commanded by their request.
RequestInv ==
  /\ \A r \in Requests : Len(commands[r]) <= 1 /\ (commands[r] # <<>> => r \in requested)
  /\ pc["service"] \in Asking =>
       job["service"].run \in requested /\ job["service"].run \in Requests
       /\ commands[job["service"].run] = <<>>

\* What is owed covers what the stop poll has still to log.
StopInv ==
  /\ owed \in Int
  /\ owed >= (IF due # "idle" THEN 1 ELSE 0) + (IF stopPc = "logging" THEN 1 ELSE 0)
  /\ stopPc = "looking" => due # "idle"

ClientInv == ClientTypeOK /\ PlaceInv /\ OfferInv /\ TraceInv /\ RequestInv

-----------------------------------------------------------------------------
(* The initial state and the lemmas about the helpers.                       *)

LEMMA ClientInitially == ClientInit => ClientInv /\ StopInv
  <1> SUFFICES ASSUME ClientInit PROVE ClientInv /\ StopInv
    OBVIOUS
  <1> USE DEF ClientInit, Nothing
  <1>1. ClientTypeOK
    <2>1. commands \in [Runs -> Seq(Candidates)] /\ checked \in [Traces -> SUBSET Candidates]
      OBVIOUS
    <2>2. seen \subseteq Traces \X Modes /\ settled \subseteq Traces \X Modes /\ skipped \subseteq Traces
      OBVIOUS
    <2>3. pc \in [Handlers -> {"idle"}] /\ job \in [Handlers -> {Nothing}]
      OBVIOUS
    <2>4. offer \in Result \union {Nothing, Malformed} /\ job \in [Handlers -> Result \union {Nothing}]
      BY <2>3
    <2>5. pc \in [Handlers -> {"idle", "asking", "asking_camera_frame", "fetch", "check", "submit",
                              "lookup", "schedule", "label", "mark", "stopped"}]
      BY <2>3
    <2>6. running \in BOOLEAN /\ fresh \in BOOLEAN /\ tf \in BOOLEAN /\ captured \in BOOLEAN
      OBVIOUS
    <2>7. /\ due \in {"idle", "waiting", "due"} /\ stopRun \in Runs \union {"none"}
          /\ stopPc \in {"idle", "looking", "logging", "stopped"} /\ marker \in Runs \union {"none"}
          /\ requested \subseteq Requests /\ owed \in Int
      OBVIOUS
    <2> QED
      BY <2>1, <2>2, <2>4, <2>5, <2>6, <2>7 DEF ClientTypeOK
  <1>2. PlaceInv /\ OfferInv
    BY DEF PlaceInv, OfferInv, Handlers, Asking, Publishing, Result, Modes
  <1>3. TraceInv /\ RequestInv
    BY DEF TraceInv, RequestInv, Runs, Handlers, Asking
  <1>4. StopInv
    BY DEF StopInv
  <1> QED
    BY <1>1, <1>2, <1>3, <1>4 DEF ClientInv

\* A command of a run that has none is its only one, and no other run is touched.
LEMMA FirstCommand ==
  ASSUME ClientTypeOK, NEW r \in Runs, commands[r] = <<>>, NEW g \in Candidates,
         commands' = [commands EXCEPT ![r] = Append(@, g)]
  PROVE  /\ commands' \in [Runs -> Seq(Candidates)]
         /\ Len(commands'[r]) <= 1
         /\ \A q \in Runs : q # r => commands'[q] = commands[q]
  <1>1. Append(commands[r], g) = <<g>>
    OBVIOUS
  <1> QED
    BY <1>1 DEF ClientTypeOK

\* An entry of the server is never mistaken for what is no result.
LEMMA NoResult == Nothing \notin Result /\ Malformed \notin Result
  BY DEF Nothing, Malformed, Result, Modes

-----------------------------------------------------------------------------
(* Steps that leave the handlers and the commands alone.                     *)

LEMMA OutsideStep ==
  ASSUME ClientInv,
         SyncedFrames \/ TransformsChange \/ ServerOffers \/ DelayElapses \/ StopPoll \/ UploadCapture
  PROVE  ClientInv'
  <1> USE DEF ClientInv, nodeVars, stopVars, worldVars, serverVars, historyVars
  <1> DEFINE Rest == UNCHANGED <<pc, job, seen, commands, requested>>
  <1>1. Rest /\ (UNCHANGED offer => OfferInv') => PlaceInv' /\ TraceInv' /\ RequestInv'
    BY DEF PlaceInv, TraceInv, RequestInv, Phase
  <1>2. CASE SyncedFrames
    BY <1>1, <1>2 DEF SyncedFrames, ClientTypeOK, OfferInv
  <1>3. CASE TransformsChange
    BY <1>1, <1>3 DEF TransformsChange, ClientTypeOK, OfferInv
  <1>4. CASE DelayElapses
    BY <1>1, <1>4 DEF DelayElapses, ClientTypeOK, OfferInv
  <1>5. CASE StopPoll
    BY <1>1, <1>5 DEF StopPoll, StopPollLooks, StopPollRetries, StopPollClears, StopPollLogs, ClearStop,
       ClientTypeOK, OfferInv
  <1>6. CASE UploadCapture
    BY <1>1, <1>6 DEF UploadCapture, ClientTypeOK, OfferInv
  <1>7. CASE ServerOffers
    <2>1. offer' \in Result \union {Nothing, Malformed} /\ (offer' \in Result => offer'.run \in Traces)
      <3>1. ASSUME NEW t \in Traces, NEW gs \in SUBSET Candidates,
                   offer' = [run |-> t, mode |-> "ik_check", grasps |-> gs]
            PROVE  offer' \in Result /\ offer'.run \in Traces
        BY <3>1 DEF Result, Runs, Modes
      <3>2. ASSUME NEW t \in Traces, NEW gs \in SUBSET Candidates,
                   offer' = [run |-> t, mode |-> "execute", grasps |-> gs]
            PROVE  offer' \in Result /\ offer'.run \in Traces
        BY <3>2 DEF Result, Runs, Modes
      <3>3. \A t \in Traces : checked[t] \subseteq Candidates
        BY DEF ClientTypeOK
      <3>4. \/ offer' \in {Nothing, Malformed}
            \/ \E t \in Traces, gs \in SUBSET Candidates : offer' = [run |-> t, mode |-> "ik_check", grasps |-> gs]
            \/ \E t \in Traces, gs \in SUBSET Candidates : offer' = [run |-> t, mode |-> "execute", grasps |-> gs]
        <4>1. ASSUME offer' \in Checks
              PROVE  \E t \in Traces, gs \in SUBSET Candidates :
                       offer' = [run |-> t, mode |-> "ik_check", grasps |-> gs]
          BY <4>1 DEF Checks
        <4>2. ASSUME offer' \in Executions
              PROVE  \E t \in Traces, gs \in SUBSET Candidates :
                       offer' = [run |-> t, mode |-> "execute", grasps |-> gs]
          <5>1. PICK t \in Traces : offer' \in Execution(t)
            BY <4>2 DEF Executions
          <5>2. PICK gs \in {{}} \union {{g} : g \in checked[t]} : offer' = [run |-> t, mode |-> "execute", grasps |-> gs]
            BY <5>1 DEF Execution
          <5> QED
            BY <3>3, <5>2
        <4> QED
          BY <1>7, <4>1, <4>2 DEF ServerOffers
      <3>5. CASE offer' \in {Nothing, Malformed}
        BY <3>5, NoResult
      <3> QED
        BY <3>1, <3>2, <3>4, <3>5
    <2> QED
      BY <1>1, <1>7, <2>1 DEF ServerOffers, ClientTypeOK, OfferInv
  <1> QED
    BY <1>2, <1>3, <1>4, <1>5, <1>6, <1>7

\* What follows a command: the entry, its label and the marker.
LEMMA AftermathStep ==
  ASSUME ClientInv, NEW h \in Handlers, Aftermath(h)
  PROVE  ClientInv'
  <1> USE DEF ClientInv, nodeVars, stopVars, worldVars, serverVars, historyVars
  <1>1. CASE Schedule(h)
    <2>1. pc[h] = "schedule" /\ pc' = [pc EXCEPT ![h] = "label"]
      BY <1>1 DEF Schedule, Goto
    <2>2. ClientTypeOK'
      BY <1>1, <2>1 DEF Schedule, ClientTypeOK
    <2>3. PlaceInv' /\ OfferInv' /\ TraceInv' /\ RequestInv'
      BY <1>1, <2>1 DEF Schedule, ClientTypeOK, PlaceInv, OfferInv, TraceInv, RequestInv, Phase,
         Handlers, Asking, Publishing
    <2> QED
      BY <2>2, <2>3
  <1>2. CASE Label(h)
    <2>1. pc[h] = "label" /\ pc' = [pc EXCEPT ![h] = "mark"]
      BY <1>2 DEF Label, Goto
    <2>2. job[h].run \in Runs
      BY <2>1 DEF PlaceInv, Publishing, Result
    <2>3. ClientTypeOK'
      BY <1>2, <2>1, <2>2 DEF Label, ClientTypeOK
    <2>4. PlaceInv' /\ OfferInv' /\ TraceInv' /\ RequestInv'
      BY <1>2, <2>1 DEF Label, ClientTypeOK, PlaceInv, OfferInv, TraceInv, RequestInv, Phase,
         Handlers, Asking, Publishing
    <2> QED
      BY <2>3, <2>4
  <1>3. CASE Mark(h)
    <2>1. pc[h] = "mark" /\ pc' = [pc EXCEPT ![h] = "idle"] /\ job' = [job EXCEPT ![h] = Nothing]
      BY <1>3 DEF Mark, Done, Goto
    <2>2. job[h].run \in Runs
      BY <2>1 DEF PlaceInv, Publishing, Result
    <2>3. ClientTypeOK'
      BY <1>3, <2>1, <2>2 DEF Mark, ClientTypeOK
    <2>4. PlaceInv' /\ OfferInv' /\ TraceInv' /\ RequestInv'
      BY <1>3, <2>1 DEF Mark, ClientTypeOK, PlaceInv, OfferInv, TraceInv, RequestInv, Phase,
         Handlers, Asking, Publishing
    <2> QED
      BY <2>3, <2>4
  <1> QED
    BY <1>1, <1>2, <1>3 DEF Aftermath

-----------------------------------------------------------------------------
(* The service.                                                              *)

LEMMA RequestStep ==
  ASSUME ClientInv, NEW r \in Requests, RequestGrasp(r)
  PROVE  ClientInv'
  <1> USE DEF ClientInv, nodeVars, stopVars, worldVars, serverVars, historyVars
  <1> DEFINE J == [run |-> r, mode |-> "execute", grasps |-> {}]
  <1>1. J \in Result /\ J.run = r
    BY DEF Result, Runs, Modes
  <1>2. commands[r] = <<>> /\ pc["service"] = "idle" /\ requested' = requested \union {r}
    BY DEF RequestGrasp, RequestInv
  <1>3. CASE pc' = pc
    <2>1. UNCHANGED <<pc, job, seen, commands, offer>>
      BY <1>3 DEF RequestGrasp
    <2> QED
      BY <1>2, <2>1 DEF RequestGrasp, ClientTypeOK, PlaceInv, OfferInv, TraceInv, RequestInv, Phase
  <1>4. CASE pc' # pc
    <2>1. \E l \in Asking : pc' = [pc EXCEPT !["service"] = l]
      BY <1>4 DEF RequestGrasp, Goto, Asking
    <2>2. job' = [job EXCEPT !["service"] = J]
      BY <1>4 DEF RequestGrasp
    <2>3. UNCHANGED <<running, seen, due, stopRun, stopPc, owed, marker, fresh, tf, captured, offer, checked,
                      commands, skipped, settled>>
      BY DEF RequestGrasp
    <2>4. /\ pc'["service"] \in Asking /\ pc'["poll"] = pc["poll"]
          /\ job'["service"] = J /\ job'["poll"] = job["poll"]
      BY <2>1, <2>2 DEF ClientTypeOK, Handlers
    <2>5. ClientTypeOK'
      <3>1. pc' \in [Handlers -> {"idle", "asking", "asking_camera_frame", "fetch", "check", "submit",
                                  "lookup", "schedule", "label", "mark", "stopped"}]
        BY <2>1 DEF ClientTypeOK, Asking
      <3>2. job' \in [Handlers -> Result \union {Nothing}]
        BY <1>1, <2>2 DEF ClientTypeOK
      <3> QED
        BY <1>2, <2>3, <3>1, <3>2 DEF ClientTypeOK
    <2>6. PlaceInv' /\ OfferInv'
      BY <1>1, <2>3, <2>4 DEF PlaceInv, OfferInv, Handlers, Asking, Publishing
    <2>7. TraceInv' /\ RequestInv'
      BY <1>1, <1>2, <2>3, <2>4 DEF TraceInv, RequestInv, Phase
    <2> QED
      BY <2>5, <2>6, <2>7
  <1> QED
    BY <1>3, <1>4

LEMMA AnswerStep ==
  ASSUME ClientInv, ServerAnswers
  PROVE  ClientInv'
  <1> USE DEF ClientInv, nodeVars, stopVars, worldVars, serverVars, historyVars
  <1> DEFINE r == job["service"].run
  <1>1. /\ pc["service"] \in Asking /\ job["service"] \in Result
        /\ r \in requested /\ r \in Requests /\ r \in Runs /\ r \notin Traces /\ commands[r] = <<>>
    BY DEF ServerAnswers, PlaceInv, RequestInv, Asking, Result, Runs
  <1>2. UNCHANGED <<running, seen, due, stopRun, stopPc, owed, marker, fresh, tf, captured, offer, checked,
                    requested, skipped, settled>>
    BY DEF ServerAnswers
  <1>3. CASE Done("service") /\ UNCHANGED commands
    <2>1. pc' = [pc EXCEPT !["service"] = "idle"] /\ job' = [job EXCEPT !["service"] = Nothing]
      BY <1>3 DEF Done, Goto
    <2>2. pc'["service"] = "idle" /\ pc'["poll"] = pc["poll"] /\ job'["poll"] = job["poll"]
      BY <2>1 DEF ClientTypeOK, Handlers
    <2>3. ClientTypeOK'
      BY <1>2, <1>3, <2>1 DEF ClientTypeOK
    <2>4. PlaceInv' /\ OfferInv' /\ TraceInv' /\ RequestInv'
      BY <1>2, <1>3, <2>2 DEF PlaceInv, OfferInv, TraceInv, RequestInv, Phase, Handlers, Asking, Publishing
    <2> QED
      BY <2>3, <2>4
  <1>4. ASSUME NEW g \in Candidates,
               Publish("service", [job["service"] EXCEPT !.grasps = {g}], pc["service"] = "asking")
        PROVE  ClientInv'
    <2> DEFINE J == [job["service"] EXCEPT !.grasps = {g}]
    <2>1. J \in Result /\ J.run = r /\ J.grasps = {g}
      BY <1>1 DEF Result
    <2>2. \/ commands' = [commands EXCEPT ![r] = Append(@, g)]
          \/ UNCHANGED commands
      BY <1>4, <2>1 DEF Publish
    <2>3. /\ \A q \in Runs : q # r => commands'[q] = commands[q]
          /\ Len(commands'[r]) <= 1 /\ commands' \in [Runs -> Seq(Candidates)]
      <3>1. CASE UNCHANGED commands
        BY <1>1, <3>1 DEF ClientTypeOK
      <3>2. CASE commands' = [commands EXCEPT ![r] = Append(@, g)]
        BY <1>1, <3>2, FirstCommand
      <3> QED
        BY <2>2, <3>1, <3>2
    <2>4. /\ \E l \in Publishing : pc' = [pc EXCEPT !["service"] = l]
          /\ job' = [job EXCEPT !["service"] = J]
      BY <1>4 DEF Publish, Goto, Publishing
    <2>5. /\ pc'["service"] \in Publishing /\ pc'["poll"] = pc["poll"]
          /\ job'["service"] = J /\ job'["poll"] = job["poll"]
      BY <2>4 DEF ClientTypeOK, Handlers
    <2>6. ClientTypeOK'
      <3>1. pc' \in [Handlers -> {"idle", "asking", "asking_camera_frame", "fetch", "check", "submit",
                                  "lookup", "schedule", "label", "mark", "stopped"}]
        BY <2>4 DEF ClientTypeOK, Publishing
      <3>2. job' \in [Handlers -> Result \union {Nothing}]
        BY <2>1, <2>4 DEF ClientTypeOK
      <3> QED
        BY <1>2, <2>3, <3>1, <3>2 DEF ClientTypeOK
    <2>7. PlaceInv' /\ OfferInv'
      BY <1>2, <2>1, <2>5 DEF PlaceInv, OfferInv, Handlers, Asking, Publishing
    <2>8. TraceInv'
      <3>1. \A t \in Traces : commands'[t] = commands[t]
        BY <1>1, <2>3 DEF Runs
      <3>2. pc["poll"] = "lookup" => job["poll"].run \in Traces
        BY DEF PlaceInv
      <3> QED
        BY <1>2, <2>5, <3>1, <3>2 DEF TraceInv, Phase
    <2>9. RequestInv'
      BY <1>1, <1>2, <2>3, <2>5 DEF RequestInv, Asking, Publishing, Runs
    <2> QED
      BY <2>6, <2>7, <2>8, <2>9
  <1> QED
    BY <1>3, <1>4 DEF ServerAnswers

-----------------------------------------------------------------------------
(* The poll.                                                                 *)

Places == {"idle", "asking", "asking_camera_frame", "fetch", "check", "submit", "lookup",
           "schedule", "label", "mark", "stopped"}

\* What a step of the poll does to the places, when it goes to l with result j.
LEMMA PollMoves ==
  ASSUME ClientTypeOK, NEW l \in Places, NEW j \in Result \union {Nothing},
         pc' = [pc EXCEPT !["poll"] = l], job' = [job EXCEPT !["poll"] = j]
  PROVE  /\ pc' \in [Handlers -> Places] /\ job' \in [Handlers -> Result \union {Nothing}]
         /\ pc'["poll"] = l /\ pc'["service"] = pc["service"]
         /\ job'["poll"] = j /\ job'["service"] = job["service"]
  BY DEF ClientTypeOK, Handlers, Places

\* A step of the poll that commands nothing and marks nothing: it goes on with the check
\* of its result, or returns.
LEMMA QuietPollStep ==
  ASSUME ClientInv, NEW l \in {"idle", "fetch", "submit"}, NEW j \in Result \union {Nothing},
         pc' = [pc EXCEPT !["poll"] = l], job' = [job EXCEPT !["poll"] = j],
         l = "submit" => j \in Result /\ j.run \in Traces,
         UNCHANGED <<running, seen, stopVars, marker, worldVars, offer, requested, commands>>,
         captured' \in BOOLEAN, checked' \in [Traces -> SUBSET Candidates],
         skipped' \subseteq Traces, settled' \subseteq Traces \X Modes
  PROVE  ClientInv'
  <1> USE DEF ClientInv, stopVars, worldVars
  <1>1. /\ pc' \in [Handlers -> Places] /\ job' \in [Handlers -> Result \union {Nothing}]
        /\ pc'["poll"] = l /\ pc'["service"] = pc["service"]
        /\ job'["poll"] = j /\ job'["service"] = job["service"]
    BY PollMoves DEF Places
  <1>2. ClientTypeOK'
    BY <1>1 DEF ClientTypeOK, Places
  <1>3. PlaceInv' /\ OfferInv'
    BY <1>1 DEF PlaceInv, OfferInv, Handlers, Publishing, Asking
  <1>4. TraceInv' /\ RequestInv'
    BY <1>1 DEF TraceInv, RequestInv
  <1> QED
    BY <1>2, <1>3, <1>4

LEMMA Unchecked ==
  ASSUME NEW gs \in SUBSET Candidates
  PROVE  \A passed \in Passed(gs) : passed \in SUBSET Candidates
  BY DEF Passed

LEMMA FindsPhaseStep ==
  ASSUME ClientInv, PollFindsPhase
  PROVE  ClientInv'
  <1> USE DEF ClientInv, stopVars, worldVars, serverVars, historyVars
  <1>1. /\ offer \in Result /\ offer.run \in Traces /\ offer.mode \in Modes /\ Phase(offer) \notin seen
        /\ seen' = seen \union {Phase(offer)} /\ job' = [job EXCEPT !["poll"] = offer]
    BY DEF PollFindsPhase, OfferInv, MarkSeen, Result
  <1>2. PICK l \in {"check", "lookup"} :
          pc' = [pc EXCEPT !["poll"] = l] /\ (l = "lookup" => offer.mode = "execute")
    BY <1>1 DEF PollFindsPhase, Goto, Modes
  <1>3. /\ pc' \in [Handlers -> Places] /\ job' \in [Handlers -> Result \union {Nothing}]
        /\ pc'["poll"] = l /\ pc'["service"] = pc["service"]
        /\ job'["poll"] = offer /\ job'["service"] = job["service"]
    <2>1. l \in Places /\ offer \in Result \union {Nothing} /\ ClientTypeOK
      BY <1>1 DEF Places
    <2> HIDE DEF ClientInv
    <2> QED
      BY <1>1, <1>2, <2>1, PollMoves
  <1>4. UNCHANGED <<running, due, stopRun, stopPc, owed, marker, fresh, tf, captured, offer, checked, requested,
                    commands, skipped, settled>>
    BY DEF PollFindsPhase
  <1>5. ClientTypeOK'
    <2>1. seen' \subseteq Traces \X Modes
      BY <1>1 DEF ClientTypeOK, Phase
    <2> QED
      BY <1>3, <1>4, <2>1 DEF ClientTypeOK, Places
  <1>6. PlaceInv' /\ OfferInv'
    BY <1>1, <1>3, <1>4 DEF PlaceInv, OfferInv, Handlers, Publishing, Asking
  <1>7. TraceInv'
    <2>1. ASSUME l = "lookup" PROVE Phase(offer) = <<offer.run, "execute">> /\ commands[offer.run] = <<>>
      <3>1. Phase(offer) = <<offer.run, "execute">>
        BY <1>2, <2>1 DEF Phase
      <3>2. <<offer.run, "execute">> \notin seen
        BY <1>1, <3>1
      <3> QED
        BY <1>1, <3>1, <3>2 DEF TraceInv
    <2>2. pc'["poll"] = "lookup" => commands'[job'["poll"].run] = <<>> /\ job'["poll"].mode = "execute"
                                    /\ Phase(job'["poll"]) \in seen'
      BY <1>1, <1>2, <1>3, <1>4, <2>1 DEF Phase
    <2>3. \A t \in Traces : Len(commands'[t]) <= 1 /\ (commands'[t] # <<>> => <<t, "execute">> \in seen')
      BY <1>1, <1>4 DEF TraceInv
    <2> QED
      BY <2>2, <2>3 DEF TraceInv, Phase
  <1>8. RequestInv'
    BY <1>3, <1>4 DEF RequestInv
  <1> QED
    BY <1>5, <1>6, <1>7, <1>8

\* Only a phase that was not executed loses its mark.
LEMMA RetriesStep ==
  ASSUME ClientInv, PollRetries
  PROVE  ClientInv'
  <1> USE DEF ClientInv, stopVars, worldVars, serverVars, historyVars
  <1> DEFINE r == job["poll"].run
  <1>1. /\ pc["poll"] = "lookup" /\ job["poll"] \in Result /\ r \in Traces
        /\ Phase(job["poll"]) = <<r, "execute">> /\ commands[r] = <<>>
    BY DEF PollRetries, PlaceInv, TraceInv, Phase
  <1>2. seen' = seen \ {<<r, "execute">>}
    BY <1>1 DEF PollRetries, RetryLater
  <1>3. /\ pc' \in [Handlers -> Places] /\ job' \in [Handlers -> Result \union {Nothing}]
        /\ pc'["poll"] = "idle" /\ pc'["service"] = pc["service"]
        /\ job'["poll"] = Nothing /\ job'["service"] = job["service"]
    BY PollMoves DEF PollRetries, Done, Goto, Places
  <1>4. UNCHANGED <<running, due, stopRun, stopPc, owed, marker, fresh, tf, captured, offer, checked, requested,
                    commands, skipped, settled>>
    BY DEF PollRetries
  <1>5. ClientTypeOK'
    BY <1>2, <1>3, <1>4 DEF ClientTypeOK, Places
  <1>6. PlaceInv' /\ OfferInv'
    BY <1>3, <1>4 DEF PlaceInv, OfferInv, Handlers, Publishing, Asking
  <1>7. TraceInv' /\ RequestInv'
    BY <1>1, <1>2, <1>3, <1>4 DEF TraceInv, RequestInv
  <1> QED
    BY <1>5, <1>6, <1>7

LEMMA ExecutesStep ==
  ASSUME ClientInv, PollExecutes
  PROVE  ClientInv'
  <1> USE DEF ClientInv, stopVars, worldVars, serverVars
  <1> DEFINE r == job["poll"].run
  <1>1. /\ pc["poll"] = "lookup" /\ job["poll"] \in Result /\ r \in Traces /\ r \in Runs /\ r \notin Requests
        /\ Phase(job["poll"]) = <<r, "execute">> /\ commands[r] = <<>> /\ <<r, "execute">> \in seen
    BY DEF PollExecutes, PlaceInv, TraceInv, Phase, Runs
  <1>2. UNCHANGED <<running, seen, due, stopRun, stopPc, owed, marker, fresh, tf, captured, offer, checked,
                    requested, skipped>>
    BY DEF PollExecutes
  <1>3. settled' \subseteq Traces \X Modes
    BY <1>1 DEF PollExecutes, ClientTypeOK, Modes
  <1>4. CASE Done("poll") /\ UNCHANGED commands
    BY <1>2, <1>3, <1>4, QuietPollStep DEF Done, Goto, ClientTypeOK
  <1>5. CASE Publish("poll", job["poll"], TRUE)
    <2>1. PICK g \in job["poll"].grasps : commands' = [commands EXCEPT ![r] = Append(@, g)]
      BY <1>5 DEF Publish
    <2>2. g \in Candidates
      BY <1>1, <2>1 DEF Result
    <2>3. /\ \A q \in Runs : q # r => commands'[q] = commands[q]
          /\ Len(commands'[r]) <= 1 /\ commands' \in [Runs -> Seq(Candidates)]
      BY <1>1, <2>1, <2>2, FirstCommand
    <2>4. /\ pc' \in [Handlers -> Places] /\ job' \in [Handlers -> Result \union {Nothing}]
          /\ pc'["poll"] = "schedule" /\ pc'["service"] = pc["service"]
          /\ job'["poll"] = job["poll"] /\ job'["service"] = job["service"]
      BY <1>1, <1>5, PollMoves DEF Publish, Goto, Places
    <2>5. ClientTypeOK'
      BY <1>2, <1>3, <2>3, <2>4 DEF ClientTypeOK, Places
    <2>6. PlaceInv' /\ OfferInv'
      BY <1>1, <1>2, <2>4 DEF PlaceInv, OfferInv, Handlers, Publishing, Asking
    <2>7. TraceInv'
      BY <1>1, <1>2, <2>3, <2>4 DEF TraceInv, Runs
    <2>8. RequestInv'
      BY <1>1, <1>2, <2>3, <2>4 DEF RequestInv, Runs
    <2> QED
      BY <2>5, <2>6, <2>7, <2>8
  <1> QED
    BY <1>4, <1>5 DEF PollExecutes

LEMMA PollStep ==
  ASSUME ClientInv, Poll
  PROVE  ClientInv'
  <1> USE DEF ClientInv, stopVars, worldVars, serverVars, historyVars
  <1>1. CASE PollCapture
    <2>1. pc' = [pc EXCEPT !["poll"] = "fetch"] /\ captured' \in BOOLEAN
      BY <1>1 DEF PollCapture, Goto, ClientTypeOK
    <2>2. job' = [job EXCEPT !["poll"] = job["poll"]] /\ job["poll"] \in Result \union {Nothing}
      BY <1>1 DEF PollCapture, ClientTypeOK, Handlers
    <2> QED
      BY <1>1, <2>1, <2>2, QuietPollStep DEF PollCapture, ClientTypeOK
  <1>2. CASE PollFindsNothing
    BY <1>2, QuietPollStep DEF PollFindsNothing, Done, Goto, ClientTypeOK
  <1>3. CASE CheckFeasibility
    <2>1. job["poll"] \in Result /\ job["poll"].run \in Traces
      BY <1>3 DEF CheckFeasibility, PlaceInv
    <2>2. PICK passed \in SUBSET Candidates : job' = [job EXCEPT !["poll"].grasps = passed]
      BY <1>3, <2>1, Unchecked DEF CheckFeasibility, Result
    <2> DEFINE j == [job["poll"] EXCEPT !.grasps = passed]
    <2>3. j \in Result /\ j.run \in Traces
      BY <2>1 DEF Result
    <2>4. job' = [job EXCEPT !["poll"] = j] /\ pc' = [pc EXCEPT !["poll"] = "submit"]
      BY <1>3, <2>2 DEF CheckFeasibility, Goto, ClientTypeOK, Handlers
    <2>5. skipped' \subseteq Traces
      BY <1>3, <2>1 DEF CheckFeasibility, ClientTypeOK
    <2> HIDE DEF j
    <2> QED
      BY <1>3, <2>3, <2>4, <2>5, QuietPollStep DEF CheckFeasibility, ClientTypeOK
  <1>4. CASE SubmitIkResult
    <2>1. job["poll"] \in Result /\ job["poll"].run \in Traces
      BY <1>4 DEF SubmitIkResult, PlaceInv
    <2>2. checked' \in [Traces -> SUBSET Candidates] /\ settled' \subseteq Traces \X Modes
      <3>1. job["poll"].grasps \in SUBSET Candidates /\ job["poll"].mode \in Modes
        BY <2>1 DEF Result
      <3>2. checked' \in [Traces -> SUBSET Candidates]
        BY <1>4, <2>1, <3>1 DEF SubmitIkResult, ClientTypeOK
      <3>3. Phase(job["poll"]) \in Traces \X Modes
        BY <2>1, <3>1 DEF Phase
      <3>4. settled' \subseteq Traces \X Modes
        BY <1>4, <3>3 DEF SubmitIkResult, ClientTypeOK
      <3> QED
        BY <3>2, <3>4
    <2> QED
      BY <1>4, <2>2, QuietPollStep DEF SubmitIkResult, Done, Goto, ClientTypeOK
  <1> QED
    BY <1>1, <1>2, <1>3, <1>4, FindsPhaseStep, RetriesStep, ExecutesStep DEF Poll

LEMMA RaisesStep ==
  ASSUME ClientInv, Raises
  PROVE  ClientInv'
  <1> USE DEF ClientInv, worldVars, serverVars, historyVars
  <1>1. /\ pc' = [h \in Handlers |-> "stopped"] /\ stopPc' = "stopped" /\ running' = FALSE
        /\ UNCHANGED <<seen, job, due, stopRun, owed, marker, fresh, tf, captured, offer, checked, requested,
                       commands, skipped, settled>>
    BY DEF Raises
  <1>2. pc'["poll"] = "stopped" /\ pc'["service"] = "stopped"
    BY <1>1 DEF Handlers
  <1>3. ClientTypeOK'
    BY <1>1 DEF ClientTypeOK
  <1>4. PlaceInv' /\ OfferInv' /\ TraceInv' /\ RequestInv'
    BY <1>1, <1>2 DEF PlaceInv, OfferInv, TraceInv, RequestInv, Handlers, Publishing, Asking
  <1> QED
    BY <1>3, <1>4

-----------------------------------------------------------------------------
(* What the poll has marked and commanded.                                   *)

Working == {"check", "submit", "lookup"}

\* What passed the check is reachable on its way to the server and back, unless the
\* check of its trace was skipped at some time.
ReachInv ==
  /\ \A t \in Traces \ skipped : checked[t] \subseteq {"reachable"}
  /\ offer \in Result /\ offer.mode = "execute" /\ offer.run \notin skipped => offer.grasps \subseteq {"reachable"}
  /\ pc["poll"] \in {"submit", "lookup"} /\ job["poll"].run \notin skipped
       => job["poll"].grasps \subseteq {"reachable"}

\* The poll's state is its own.
LEMMA ElsewhereStep ==
  ASSUME ClientInv, Service \/ Environment \/ StopPoll \/ Aftermath("service") \/ UNCHANGED clientVars
  PROVE  /\ pc'["poll"] = pc["poll"] /\ job'["poll"] = job["poll"]
         /\ UNCHANGED <<running, seen, settled, skipped, checked>>
         /\ \A t \in Traces : commands'[t] = commands[t]
  <1> USE DEF nodeVars, stopVars, worldVars, serverVars, historyVars
  <1> DEFINE Own == /\ pc'["poll"] = pc["poll"] /\ job'["poll"] = job["poll"]
                    /\ UNCHANGED <<running, seen, settled, skipped, checked>>
                    /\ \A t \in Traces : commands'[t] = commands[t]
  <1>1. CASE Environment
    BY <1>1 DEF Environment, SyncedFrames, TransformsChange, ServerOffers, DelayElapses
  <1>2. CASE StopPoll
    BY <1>2 DEF StopPoll, StopPollLooks, StopPollRetries, StopPollClears, StopPollLogs
  <1>3. CASE UNCHANGED clientVars
    BY <1>3 DEF clientVars
  <1>4. CASE UploadCapture
    BY <1>4 DEF UploadCapture
  <1>5. CASE Aftermath("service")
    BY <1>5 DEF Aftermath, Schedule, Label, Mark, Done, Goto, ClientInv, ClientTypeOK, Handlers
  <1>6. ASSUME NEW r \in Requests, RequestGrasp(r) PROVE Own
    BY <1>6 DEF RequestGrasp, Goto, ClientInv, ClientTypeOK, Handlers
  <1>7. CASE ServerAnswers
    <2>1. job["service"].run \in Requests /\ job["service"] \in Result
      BY <1>7 DEF ServerAnswers, ClientInv, RequestInv, PlaceInv, Asking
    <2>2. pc'["poll"] = pc["poll"] /\ job'["poll"] = job["poll"]
      BY <1>7 DEF ServerAnswers, Done, Publish, Goto, ClientInv, ClientTypeOK, Handlers
    <2>3. \/ UNCHANGED commands
          \/ \E g \in Candidates : commands' = [commands EXCEPT ![job["service"].run] = Append(@, g)]
      <3>1. \A g \in Candidates : [job["service"] EXCEPT !.grasps = {g}].run = job["service"].run
        BY <2>1 DEF Result
      <3>2. \A g \in Candidates : [job["service"] EXCEPT !.grasps = {g}].grasps = {g}
        BY <2>1 DEF Result
      <3> QED
        BY <1>7, <3>1, <3>2 DEF ServerAnswers, Publish
    <2>4. \A t \in Traces : commands'[t] = commands[t]
      BY <2>1, <2>3 DEF ClientInv, ClientTypeOK, Runs
    <2> QED
      BY <1>7, <2>2, <2>4 DEF ServerAnswers
  <1> QED
    BY <1>1, <1>2, <1>3, <1>4, <1>5, <1>6, <1>7 DEF Service

\* Neither does the poll return to its work once it publishes.
LEMMA PublishedStep ==
  ASSUME ClientInv, Aftermath("poll")
  PROVE  /\ pc'["poll"] \notin Working
         /\ UNCHANGED <<running, seen, settled, skipped, checked, commands, offer>>
  BY DEF Aftermath, Schedule, Label, Mark, Done, Goto, ClientInv, ClientTypeOK, Handlers, Working,
     worldVars, serverVars, historyVars

LEMMA SeenStep ==
  ASSUME ClientInv, SeenIsSettled, [ClientNext]_clientVars
  PROVE  SeenIsSettled'
  <1> USE DEF SeenIsSettled, Working, ClientInv, worldVars, stopVars, serverVars, historyVars
  <1>1. CASE Service \/ Environment \/ StopPoll \/ Aftermath("service") \/ UNCHANGED clientVars
    <2>1. /\ pc'["poll"] = pc["poll"] /\ job'["poll"] = job["poll"]
          /\ UNCHANGED <<running, seen, settled>>
      BY <1>1, ElsewhereStep
    <2> QED
      BY <2>1 DEF Phase
  <1>2. CASE Aftermath("poll")
    <2>1. pc["poll"] \notin Working
      BY <1>2 DEF Aftermath, Schedule, Label, Mark
    <2> QED
      BY <1>2, <2>1, PublishedStep
  <1>3. CASE PollCapture \/ PollFindsNothing
    <2>1. pc["poll"] \notin Working /\ UNCHANGED <<running, seen, settled>>
      BY <1>3 DEF PollCapture, PollFindsNothing
    <2> QED
      BY <2>1
  <1>4. CASE Raises
    BY <1>4 DEF Raises
  <1>5. CASE PollFindsPhase
    <2>1. /\ pc["poll"] \notin Working /\ seen' = seen \union {Phase(offer)}
          /\ UNCHANGED <<running, settled>>
      BY <1>5 DEF PollFindsPhase, MarkSeen
    <2>2. job'["poll"] = offer /\ pc'["poll"] \in Working
      BY <1>5 DEF PollFindsPhase, Goto, ClientTypeOK, Handlers
    <2> QED
      BY <2>1, <2>2 DEF Phase
  <1>6. CASE CheckFeasibility
    <2>1. pc["poll"] = "check" /\ job["poll"] \in Result /\ UNCHANGED <<running, seen, settled>>
      BY <1>6 DEF CheckFeasibility, PlaceInv
    <2>2. /\ pc'["poll"] = "submit"
          /\ \E passed \in Passed(job["poll"].grasps) : job'["poll"] = [job["poll"] EXCEPT !.grasps = passed]
      BY <1>6 DEF CheckFeasibility, Goto, ClientTypeOK, Handlers
    <2>3. Phase(job'["poll"]) = Phase(job["poll"])
      BY <2>1, <2>2 DEF Phase, Result
    <2>4. \A p \in seen : p \in settled \/ p = Phase(job["poll"]) \/ ~running
      BY <2>1
    <2>5. \A p \in seen : p = Phase(job["poll"]) => Phase(job["poll"])' = p
      BY <2>3 DEF Phase
    <2> QED
      BY <2>1, <2>2, <2>4, <2>5
  <1>7. CASE SubmitIkResult \/ PollExecutes
    <2>1. settled' = settled \union {Phase(job["poll"])} /\ UNCHANGED <<running, seen>>
      BY <1>7 DEF SubmitIkResult, PollExecutes
    <2> QED
      BY <2>1
  <1>8. CASE PollRetries
    <2>1. seen' = seen \ {Phase(job["poll"])} /\ UNCHANGED <<running, settled>>
      BY <1>8 DEF PollRetries, RetryLater
    <2> QED
      BY <2>1
  <1>9. Poll \/ Aftermath("poll") \/ Service \/ Environment \/ StopPoll \/ Aftermath("service")
        \/ Raises \/ UNCHANGED clientVars
    BY DEF ClientNext, Handlers
  <1> QED
    BY <1>1, <1>2, <1>3, <1>4, <1>5, <1>6, <1>7, <1>8, <1>9 DEF Poll

\* What the server offers for execution is of what it was sent.
LEMMA OfferedStep ==
  ASSUME ClientInv, ReachInv, ServerOffers
  PROVE  offer' \in Result /\ offer'.mode = "execute" /\ offer'.run \notin skipped => offer'.grasps \subseteq {"reachable"}
  <1>1. CASE offer' \in Checks
    <2>1. PICK t \in Traces, gs \in SUBSET Candidates : offer' = [run |-> t, mode |-> "ik_check", grasps |-> gs]
      BY <1>1 DEF Checks
    <2> QED
      BY <2>1
  <1>2. CASE offer' \in Executions
    <2>1. PICK t \in Traces : offer' \in Execution(t)
      BY <1>2 DEF Executions
    <2>2. PICK gs \in {{}} \union {{g} : g \in checked[t]} : offer' = [run |-> t, mode |-> "execute", grasps |-> gs]
      BY <2>1 DEF Execution
    <2> QED
      BY <2>2 DEF ReachInv
  <1>3. CASE offer' \in {Nothing, Malformed}
    BY <1>3, NoResult
  <1> QED
    BY <1>1, <1>2, <1>3 DEF ServerOffers

LEMMA ReachStep ==
  ASSUME ClientInv, ReachInv, PolledIsReachable, [ClientNext]_clientVars
  PROVE  ReachInv' /\ PolledIsReachable'
  <1> USE DEF ClientInv, worldVars, stopVars, serverVars, historyVars
  <1>1. CASE ServerOffers
    <2>1. UNCHANGED <<pc, job, checked, skipped, commands>>
      BY <1>1 DEF ServerOffers, nodeVars
    <2>2. offer' \in Result /\ offer'.mode = "execute" /\ offer'.run \notin skipped => offer'.grasps \subseteq {"reachable"}
      BY <1>1, OfferedStep
    <2>3. ReachInv'
      BY <2>1, <2>2 DEF ReachInv
    <2> QED
      BY <2>1, <2>3 DEF PolledIsReachable
  <1>2. CASE /\ ~ServerOffers
             /\ Service \/ Environment \/ StopPoll \/ Aftermath("service") \/ UNCHANGED clientVars
    <2>1. /\ pc'["poll"] = pc["poll"] /\ job'["poll"] = job["poll"]
          /\ UNCHANGED <<skipped, checked>> /\ \A t \in Traces : commands'[t] = commands[t]
      BY <1>2, ElsewhereStep
    <2>2. UNCHANGED offer
      BY <1>2 DEF Service, RequestGrasp, ServerAnswers, UploadCapture, Environment, SyncedFrames,
         TransformsChange, DelayElapses, StopPoll, StopPollLooks, StopPollRetries, StopPollClears,
         StopPollLogs, Aftermath, Schedule, Label, Mark, clientVars
    <2>3. ReachInv'
      BY <2>1, <2>2 DEF ReachInv
    <2> QED
      BY <2>1, <2>3 DEF PolledIsReachable
  <1>3. CASE Aftermath("poll")
    <2>1. pc'["poll"] \notin Working /\ UNCHANGED <<skipped, checked, commands, offer>>
      BY <1>3, PublishedStep
    <2> QED
      BY <2>1 DEF ReachInv, PolledIsReachable, Working
  <1>4. CASE PollCapture \/ Raises \/ PollFindsNothing \/ PollRetries
    <2>1. pc'["poll"] \notin Working /\ UNCHANGED <<skipped, checked, commands, offer>>
      BY <1>4 DEF PollCapture, Raises, PollFindsNothing, PollRetries, Done, Goto, ClientTypeOK, Handlers,
         Working
    <2> QED
      BY <2>1 DEF ReachInv, PolledIsReachable, Working
  <1>5. CASE PollFindsPhase
    <2>1. /\ offer \in Result /\ UNCHANGED <<skipped, checked, commands, offer>>
          /\ job' = [job EXCEPT !["poll"] = offer]
          /\ pc' = [pc EXCEPT !["poll"] = IF offer.mode = "ik_check" THEN "check" ELSE "lookup"]
      BY <1>5 DEF PollFindsPhase, Goto
    <2>2. job'["poll"] = offer /\ (pc'["poll"] \in {"submit", "lookup"} => offer.mode = "execute")
      BY <2>1 DEF ClientTypeOK, Handlers, Result, Modes
    <2> QED
      BY <2>1, <2>2 DEF ReachInv, PolledIsReachable
  <1>6. CASE CheckFeasibility
    <2>1. /\ job["poll"] \in Result /\ UNCHANGED <<checked, commands, offer>> /\ skipped \subseteq skipped'
          /\ CheckSkipped => job["poll"].run \in skipped'
      BY <1>6 DEF CheckFeasibility, PlaceInv
    <2>2. PICK passed \in Passed(job["poll"].grasps) : job'["poll"] = [job["poll"] EXCEPT !.grasps = passed]
      BY <1>6 DEF CheckFeasibility, ClientTypeOK, Handlers
    <2>3. job'["poll"].run = job["poll"].run /\ job'["poll"].grasps = passed
      BY <2>1, <2>2 DEF Result
    <2>4. CheckSkipped \/ job'["poll"].grasps \subseteq {"reachable"}
      BY <2>3 DEF Passed
    <2> QED
      BY <2>1, <2>3, <2>4 DEF ReachInv, PolledIsReachable
  <1>7. CASE SubmitIkResult
    <2>1. /\ pc["poll"] = "submit" /\ UNCHANGED <<skipped, commands, offer>>
          /\ checked' \in {checked, [checked EXCEPT ![job["poll"].run] = job["poll"].grasps]}
          /\ pc'["poll"] = "idle"
      BY <1>7 DEF SubmitIkResult, Done, Goto, ClientTypeOK, Handlers
    <2>2. \A t \in Traces \ skipped : checked'[t] \subseteq {"reachable"}
      BY <2>1 DEF ReachInv, ClientTypeOK
    <2> QED
      BY <2>1, <2>2 DEF ReachInv, PolledIsReachable
  <1>8. CASE PollExecutes
    <2>1. /\ pc["poll"] = "lookup" /\ job["poll"].run \in Traces /\ UNCHANGED <<skipped, checked, offer>>
          /\ pc'["poll"] \notin Working
      BY <1>8 DEF PollExecutes, Publish, Done, Goto, ClientTypeOK, PlaceInv, Handlers, Working
    <2>2. ReachInv'
      BY <2>1 DEF ReachInv, Working
    <2>3. commands[job["poll"].run] = <<>>
      BY <2>1 DEF TraceInv
    <2>4. CASE UNCHANGED commands
      BY <2>1, <2>2, <2>4 DEF PolledIsReachable
    <2>5. ASSUME NEW g \in job["poll"].grasps, commands' = [commands EXCEPT ![job["poll"].run] = Append(@, g)]
          PROVE  PolledIsReachable'
      <3>1. commands' = [commands EXCEPT ![job["poll"].run] = <<g>>]
        BY <2>3, <2>5
      <3>2. job["poll"].run \notin skipped => g = "reachable"
        BY <2>1 DEF ReachInv
      <3>3. ASSUME NEW t \in Traces \ skipped, NEW i \in 1..Len(commands'[t])
            PROVE  commands'[t][i] = "reachable"
        <4>1. CASE t = job["poll"].run
          BY <3>1, <3>2, <3>3, <4>1 DEF ClientTypeOK, Runs
        <4>2. CASE t # job["poll"].run
          BY <3>1, <3>3, <4>2 DEF ClientTypeOK, Runs, PolledIsReachable
        <4> QED
          BY <4>1, <4>2
      <3> QED
        BY <2>1, <3>3 DEF PolledIsReachable
    <2> QED
      BY <1>8, <2>2, <2>4, <2>5 DEF PollExecutes, Publish
  <1>9. Poll \/ Aftermath("poll") \/ Service \/ Environment \/ StopPoll \/ Aftermath("service")
        \/ Raises \/ UNCHANGED clientVars
    BY DEF ClientNext, Handlers
  <1> QED
    BY <1>1, <1>2, <1>3, <1>4, <1>5, <1>6, <1>7, <1>8, <1>9 DEF Poll

-----------------------------------------------------------------------------
(* The theorems.                                                             *)

LEMMA ClientNextStep ==
  ASSUME ClientInv, [ClientNext]_clientVars
  PROVE  ClientInv'
  <1>1. CASE ClientNext
    BY <1>1, PollStep, RequestStep, AnswerStep, OutsideStep, AftermathStep, RaisesStep
       DEF ClientNext, Service, Environment
  <1>2. CASE UNCHANGED clientVars
    BY <1>2 DEF clientVars, nodeVars, stopVars, worldVars, serverVars, historyVars, ClientInv, ClientTypeOK,
       PlaceInv, OfferInv, TraceInv, RequestInv, Phase
  <1> QED
    BY <1>1, <1>2

LEMMA StopStep ==
  ASSUME StopInv, [ClientNext]_clientVars
  PROVE  StopInv'
  <1> USE DEF StopInv, stopVars
  <1>1. CASE Poll
    BY <1>1 DEF Poll, PollCapture, PollFindsNothing, PollFindsPhase, CheckFeasibility,
       SubmitIkResult, PollRetries, PollExecutes
  <1>2. CASE Service
    BY <1>2 DEF Service, RequestGrasp, ServerAnswers, UploadCapture
  <1>3. CASE Environment
    BY <1>3 DEF Environment, SyncedFrames, TransformsChange, ServerOffers, DelayElapses
  <1>4. CASE StopPoll
    BY <1>4 DEF StopPoll, StopPollLooks, StopPollRetries, StopPollClears, StopPollLogs, ClearStop
  <1>5. ASSUME NEW h \in Handlers, Aftermath(h) PROVE StopInv'
    BY <1>5 DEF Aftermath, Schedule, Label, Mark
  <1>6. CASE Raises
    BY <1>6 DEF Raises
  <1>7. CASE UNCHANGED clientVars
    BY <1>7 DEF clientVars
  <1> QED
    BY <1>1, <1>2, <1>3, <1>4, <1>5, <1>6, <1>7 DEF ClientNext

\* The inductive invariant holds whatever the server offers and the transforms do.
THEOREM ClientInductive == ClientSpec => [](ClientInv /\ StopInv)
  <1>1. ClientInit => ClientInv /\ StopInv
    BY ClientInitially
  <1>2. ClientInv /\ StopInv /\ [ClientNext]_clientVars => (ClientInv /\ StopInv)'
    BY ClientNextStep, StopStep
  <1> QED
    BY <1>1, <1>2, PTL DEF ClientSpec

\* Every variable of the node and of what surrounds it keeps its type.
THEOREM ClientTypeCorrectness == ClientSpec => []ClientTypeOK
  <1>1. ClientInv => ClientTypeOK
    BY DEF ClientInv
  <1> QED
    BY <1>1, ClientInductive, PTL

\* A run is commanded at most once, on either path (_poll_publish, _handle_request_grasp).
THEOREM CommandSafety == ClientSpec => []CommandedOnce
  <1>1. ClientInv => CommandedOnce
    BY DEF ClientInv, TraceInv, RequestInv, CommandedOnce, Runs
  <1> QED
    BY <1>1, ClientInductive, PTL

\* A scheduled arm-stop entry is logged at most once (_arm_stop_poll).
THEOREM StopLogSafety == ClientSpec => []StopLogOneShot
  <1>1. StopInv => StopLogOneShot
    BY DEF StopInv, StopLogOneShot
  <1> QED
    BY <1>1, ClientInductive, PTL

\* A phase keeps its mark only if it was dealt with or is in hand (_poll_publish).
THEOREM SeenSafety == ClientSpec => []SeenIsSettled
  <1>1. ClientInit => SeenIsSettled
    BY DEF ClientInit, SeenIsSettled
  <1>2. ClientInv /\ SeenIsSettled /\ [ClientNext]_clientVars => SeenIsSettled'
    BY SeenStep
  <1> QED
    BY <1>1, <1>2, ClientInductive, PTL DEF ClientSpec

\* What the polling path commands was found reachable, whatever the server offers and in
\* whatever order, unless the check of its trace was skipped (_check_ik_feasibility).
THEOREM ReachSafety == ClientSpec => []PolledIsReachable
  <1>1. ClientInit => ReachInv /\ PolledIsReachable
    <2> SUFFICES ASSUME ClientInit PROVE ReachInv /\ PolledIsReachable
      OBVIOUS
    <2>1. \A t \in Traces : commands[t] = <<>> /\ checked[t] = {}
      BY DEF ClientInit, Runs
    <2>2. pc["poll"] = "idle" /\ offer \notin Result
      BY NoResult DEF ClientInit, Handlers
    <2> QED
      BY <2>1, <2>2 DEF ReachInv, PolledIsReachable
  <1>2. ClientInv /\ ReachInv /\ PolledIsReachable /\ [ClientNext]_clientVars => (ReachInv /\ PolledIsReachable)'
    BY ReachStep
  <1> QED
    BY <1>1, <1>2, ClientInductive, PTL DEF ClientSpec
=============================================================================
