------------------------- MODULE LifecycleResultProofs -------------------------
(***************************************************************************)
(* What becomes of results in flight.  DeliveryInv relates what threads    *)
(* carry to what the runtime has moved on to: a gate that closed itself is *)
(* reported, and the watchdog waits only for dispatches not answered yet.  *)
(* TargetInv adds, for an adapter that refuses no request, that it follows *)
(* a target only under an open gate of the target's own session and epoch. *)
(***************************************************************************)
EXTENDS LifecycleAuthorityProofs

USE DEF lifeVars, engageVars, authVars, seqVars, dispatchVars, inputVars, storeVars,
        prepVars, adapterVars, workerVars

-----------------------------------------------------------------------------
(* The delivery of results.                                                  *)

\* No command is accepted, and none dispatched, ahead of the sequence or the epoch.
SequencesOrdered ==
  /\ \A s \in Sessions : lastSeq[s] <= cmdSeq[s]
  /\ \A d \in dispatched : d.seq <= cmdSeq[d.session] /\ d.epoch <= epoch[d.session]

\* A thread carries a dispatch, whose epoch the one it read is not behind.
JobsDispatched ==
  \A w \in Workers : pc[w] # "idle" =>
    /\ job[w].result \in dispatched
    /\ pc[w] = "submitted" /\ job[w].result.session = job[w].session =>
         job[w].result.epoch <= job[w].epoch

\* While ACTIVE the context may be lost but not replaced.
EngagedContext == state = "ACTIVE" => active \in {0, engagedBundle}

\* A thread on its way to the lifecycle with a withdrawal of this authority, or with
\* the acceptance of a command that answers or overtakes a dispatch.
Reports(w) ==
  /\ pc[w] = "decided" /\ job[w].session = session
  /\ job[w].epoch = epoch[session] /\ job[w].request # "none"

Answers(w, d) ==
  /\ pc[w] = "decided" /\ job[w].session = session
  /\ job[w].disposition = "accepted_move" /\ job[w].result.seq >= d.seq

\* OutstandingCurrent with the thread that has not come back: one that withdraws, or
\* one that drops the dispatch.  OutstandingCurrent itself also lets a thread count
\* that carries a refusal of an earlier epoch, and would not survive its return.
OutstandingAnswered ==
  state = "ACTIVE" => \A d \in outstanding :
    /\ d.session = session /\ d.epoch = epoch[session] /\ d.bundle = engagedBundle
    /\ d.seq > lastSeq[session] \/ \E w \in Workers : Reports(w) \/ Answers(w, d)

DeliveryPart ==
  /\ SequencesOrdered /\ JobsBehind /\ JobsDispatched /\ EngagedContext
  /\ ClosedGateReported /\ OutstandingAnswered

DeliveryInv == AuthorityInv /\ DeliveryPart

\* The types that the comparisons below need.
LEMMA DeliveryTypes ==
  ASSUME DeliveryInv
  PROVE  /\ session \in Sessions /\ Sessions \subseteq Nat /\ state \in States
         /\ epoch \in [Sessions -> Nat] /\ enabled \in [Sessions -> BOOLEAN]
         /\ cmdSeq \in [Sessions -> Nat] /\ lastSeq \in [Sessions -> Nat]
         /\ dispatched \subseteq Dispatch /\ outstanding \subseteq dispatched
         /\ pc \in [Workers -> {"idle", "submitted", "decided"}] /\ DOMAIN job = Workers
         /\ \A w \in Workers : pc[w] # "idle" =>
              job[w].session \in Sessions /\ job[w].epoch \in Nat /\ job[w].result \in Dispatch
<1>1. ASSUME NEW w \in Workers, pc[w] # "idle"
      PROVE  job[w].session \in Sessions /\ job[w].epoch \in Nat /\ job[w].result \in Dispatch
  BY <1>1 DEF DeliveryInv, AuthorityInv, TypeOK, WorkerTypeOK, Submission, Decision
<1> QED BY <1>1 DEF DeliveryInv, AuthorityInv, TypeOK, LifeTypeOK, AuthTypeOK, SeqTypeOK,
                    DispatchTypeOK, WorkerTypeOK, Sessions

\* Session, epochs and sequences only move forward.
Forward ==
  /\ session' \in {session, session + 1}
  /\ \A s \in Sessions : /\ epoch'[s] \in Nat /\ epoch'[s] >= epoch[s]
                         /\ cmdSeq'[s] \in Nat /\ cmdSeq'[s] >= cmdSeq[s]
                         /\ lastSeq'[s] \in Nat /\ lastSeq'[s] >= lastSeq[s]
                         /\ lastSeq'[s] <= cmdSeq'[s]

\* An ordinary step moves them forward.
LEMMA OrdinaryForward == ASSUME DeliveryInv, Ordinary PROVE Forward
<1>1. /\ session \in Sessions /\ epoch \in [Sessions -> Nat] /\ cmdSeq \in [Sessions -> Nat]
      /\ lastSeq \in [Sessions -> Nat] /\ \A s \in Sessions : lastSeq[s] <= cmdSeq[s]
  BY DeliveryTypes DEF DeliveryInv, DeliveryPart, SequencesOrdered
<1>2. \A s \in Sessions : epoch'[s] \in Nat /\ epoch'[s] >= epoch[s]
  BY <1>1 DEF Ordinary
<1>3. CASE UNCHANGED seqVars
  BY <1>1, <1>2, <1>3 DEF Ordinary, Forward
<1>4. CASE /\ cmdSeq' = [cmdSeq EXCEPT ![session] = @ + 1]
           /\ lastSeq' \in {lastSeq, [lastSeq EXCEPT ![session] = cmdSeq[session] + 1]}
  <2>1. \A s \in Sessions : cmdSeq'[s] = IF s = session THEN cmdSeq[s] + 1 ELSE cmdSeq[s]
    BY <1>1, <1>4
  <2>2. \A s \in Sessions : lastSeq'[s] \in {lastSeq[s], IF s = session THEN cmdSeq[s] + 1 ELSE lastSeq[s]}
    BY <1>1, <1>4
  <2>3. ASSUME NEW s \in Sessions
        PROVE  /\ cmdSeq'[s] \in Nat /\ cmdSeq'[s] >= cmdSeq[s]
               /\ lastSeq'[s] \in Nat /\ lastSeq'[s] >= lastSeq[s] /\ lastSeq'[s] <= cmdSeq'[s]
    BY <1>1, <2>1, <2>2
  <2> QED BY <1>2, <2>3 DEF Ordinary, Forward
<1> QED BY <1>3, <1>4 DEF Ordinary

\* What a step that moves forward and leaves threads and dispatches alone keeps.
LEMMA ForwardKeeps ==
  ASSUME DeliveryInv, Forward, UNCHANGED <<dispatched, workerVars>>
  PROVE  SequencesOrdered' /\ JobsBehind' /\ JobsDispatched'
<1>1. ASSUME NEW d \in dispatched
      PROVE  d.seq <= cmdSeq'[d.session] /\ d.epoch <= epoch'[d.session]
  <2>1. d.session \in Sessions /\ d.seq \in Nat /\ d.epoch \in Nat
    BY DeliveryTypes DEF Dispatch
  <2>2. cmdSeq[d.session] \in Nat /\ epoch[d.session] \in Nat
    BY <2>1, DeliveryTypes
  <2> QED BY <2>1, <2>2 DEF DeliveryInv, DeliveryPart, SequencesOrdered, Forward
<1>2. SequencesOrdered'
  BY <1>1 DEF SequencesOrdered, Forward
<1>3. ASSUME NEW w \in Workers, pc[w] # "idle"
      PROVE  /\ job[w].session <= session'
             /\ job[w].session = session' => job[w].epoch <= epoch'[session']
  <2>1. /\ job[w].session \in Sessions /\ job[w].epoch \in Nat /\ session \in Nat
        /\ epoch[session] \in Nat /\ job[w].session \in Nat /\ session \in Sessions
    BY <1>3, DeliveryTypes
  <2>2. job[w].session <= session /\ (job[w].session = session => job[w].epoch <= epoch[session])
    BY <1>3 DEF DeliveryInv, DeliveryPart, JobsBehind
  <2> QED BY <2>1, <2>2 DEF Forward
<1>4. JobsBehind'
  BY <1>3 DEF JobsBehind
<1>5. JobsDispatched'
  BY DEF DeliveryInv, DeliveryPart, JobsDispatched
<1> QED BY <1>2, <1>4, <1>5

\* Every step but a grant, a dispatch and the delivery of a result keeps DeliveryInv:
\* if it stays in ACTIVE, it leaves alone what the threads are compared with.
LEMMA OrdinaryDelivery == ASSUME DeliveryInv, Ordinary PROVE DeliveryPart'
<1>1. SequencesOrdered' /\ JobsBehind' /\ JobsDispatched'
  BY OrdinaryForward, ForwardKeeps DEF Ordinary
<1>2. CASE state' = "ACTIVE"
  <2>1. /\ UNCHANGED <<state, session, epoch, enabled, lastSeq, engagedBundle, outstanding>>
        /\ UNCHANGED workerVars /\ active' \in {active, 0} /\ state = "ACTIVE"
    BY <1>2 DEF Ordinary
  <2>2. EngagedContext'
    BY <2>1 DEF DeliveryInv, DeliveryPart, EngagedContext
  <2>3. ClosedGateReported'
    BY <2>1 DEF DeliveryInv, DeliveryPart, ClosedGateReported
  <2>4. OutstandingAnswered'
    BY <2>1 DEF DeliveryInv, DeliveryPart, OutstandingAnswered, Reports, Answers
  <2> QED BY <1>1, <2>2, <2>3, <2>4 DEF DeliveryPart
<1>3. CASE state' # "ACTIVE"
  <2>1. EngagedContext' /\ ClosedGateReported' /\ OutstandingAnswered'
    BY <1>3 DEF EngagedContext, ClosedGateReported, OutstandingAnswered
  <2> QED BY <1>1, <2>1 DEF DeliveryPart
<1> QED BY <1>2, <1>3

\* An engagement starts with the gate open and nothing outstanding.
LEMMA GrantDelivery == ASSUME DeliveryInv, Grant PROVE DeliveryPart'
<1>1. Forward
  BY DeliveryTypes DEF Grant, Forward, DeliveryInv, DeliveryPart, SequencesOrdered
<1>2. SequencesOrdered' /\ JobsBehind' /\ JobsDispatched'
  BY <1>1, ForwardKeeps DEF Grant
<1>3. session \in Sessions /\ DOMAIN enabled = Sessions /\ state = "READY"
  BY DeliveryTypes DEF Grant, DeliveryInv, AuthorityInv, GrantHeld
<1>4. CASE active = granting.bundle
  <2>1. enabled'[session'] /\ outstanding' = {} /\ active' = engagedBundle'
    BY <1>3, <1>4 DEF Grant
  <2> QED BY <1>2, <2>1 DEF DeliveryPart, EngagedContext, ClosedGateReported, OutstandingAnswered
<1>5. CASE active # granting.bundle
  <2>1. state' # "ACTIVE"
    BY <1>3, <1>5 DEF Grant
  <2> QED BY <1>2, <2>1 DEF DeliveryPart, EngagedContext, ClosedGateReported, OutstandingAnswered
<1> QED BY <1>4, <1>5

\* A dispatch is of the engaged context and of a sequence of its own.
LEMMA DispatchDelivery == ASSUME DeliveryInv, Dispatches PROVE DeliveryPart'
<1> DEFINE d == [session |-> session, epoch |-> epoch[session], seq |-> cmdSeq[session] + 1,
                 bundle |-> active]
<1>1. /\ dispatched' = dispatched \union {d} /\ outstanding' = outstanding \union {d}
      /\ cmdSeq' = [cmdSeq EXCEPT ![session] = @ + 1]
      /\ UNCHANGED <<state, session, epoch, enabled, lastSeq, engagedBundle, active, workerVars>>
      /\ state = "ACTIVE" /\ active # 0
  BY DEF Dispatches, DispatchCycle, DispatchCause
<1>2. /\ session \in Sessions /\ epoch \in [Sessions -> Nat] /\ cmdSeq \in [Sessions -> Nat]
      /\ lastSeq \in [Sessions -> Nat] /\ \A s \in Sessions : lastSeq[s] <= cmdSeq[s]
  BY DeliveryTypes DEF DeliveryInv, DeliveryPart, SequencesOrdered
<1>3. cmdSeq'[session] = cmdSeq[session] + 1 /\ \A s \in Sessions : cmdSeq'[s] >= cmdSeq[s] /\ cmdSeq'[s] \in Nat
  BY <1>1, <1>2
<1>4. SequencesOrdered'
  <2>1. ASSUME NEW r \in dispatched
        PROVE  r.seq <= cmdSeq'[r.session] /\ r.epoch <= epoch'[r.session]
    <3>1. r.session \in Sessions /\ r.seq \in Nat /\ r.seq <= cmdSeq[r.session]
          /\ r.epoch <= epoch[r.session]
      BY DeliveryTypes DEF Dispatch, DeliveryInv, DeliveryPart, SequencesOrdered
    <3> QED BY <1>1, <1>2, <1>3, <3>1
  <2>2. d.seq <= cmdSeq'[d.session] /\ d.epoch <= epoch'[d.session]
    BY <1>1, <1>2, <1>3
  <2>3. \A s \in Sessions : lastSeq'[s] <= cmdSeq'[s]
    BY <1>1, <1>2, <1>3
  <2> HIDE DEF d
  <2> QED BY <1>1, <2>1, <2>2, <2>3 DEF SequencesOrdered
<1>5. JobsBehind' /\ JobsDispatched'
  BY <1>1 DEF DeliveryInv, DeliveryPart, JobsBehind, JobsDispatched
<1>6. EngagedContext' /\ ClosedGateReported'
  BY <1>1 DEF DeliveryInv, DeliveryPart, EngagedContext, ClosedGateReported
<1>7. OutstandingAnswered'
  <2>1. /\ d.session = session /\ d.epoch = epoch[session] /\ d.bundle = engagedBundle
        /\ d.seq > lastSeq[session]
    BY <1>1, <1>2 DEF DeliveryInv, DeliveryPart, EngagedContext
  <2> HIDE DEF d
  <2> QED BY <1>1, <2>1 DEF DeliveryInv, DeliveryPart, OutstandingAnswered, Reports, Answers
<1> QED BY <1>4, <1>5, <1>6, <1>7 DEF DeliveryPart

\* A thread takes up a dispatch with the session and the epoch as they are.
LEMMA SubmitDelivery ==
  ASSUME DeliveryInv, NEW w \in Workers, SubmitResult(w) PROVE DeliveryPart'
<1>1. PICK d \in dispatched, c \in Contents :
        job' = [job EXCEPT ![w] = [result |-> d, content |-> c, late |-> d \in late,
                                   session |-> session, epoch |-> epoch[session]]]
  BY DEF SubmitResult
<1>2. pc' = [pc EXCEPT ![w] = "submitted"] /\ pc[w] = "idle"
  BY DEF SubmitResult
<1>3. \A v \in Workers \ {w} : job'[v] = job[v] /\ pc'[v] = pc[v]
  BY <1>1, <1>2, DeliveryTypes
<1>4. /\ job'[w].session = session /\ job'[w].epoch = epoch[session] /\ pc'[w] = "submitted"
      /\ job'[w].result = d
  BY <1>1, <1>2, DeliveryTypes
<1>5. /\ UNCHANGED <<state, session, epoch, enabled, seqVars, dispatched, outstanding>>
      /\ UNCHANGED <<engagedBundle, active>>
  BY DEF SubmitResult
<1>6. session \in Nat /\ epoch[session] \in Nat
  BY DeliveryTypes
<1>7. JobsBehind'
  BY <1>3, <1>4, <1>5, <1>6 DEF DeliveryInv, DeliveryPart, JobsBehind
<1>8. d.session = session => d.epoch <= epoch[session]
  BY DEF DeliveryInv, DeliveryPart, SequencesOrdered
<1>9. JobsDispatched'
  BY <1>3, <1>4, <1>5, <1>8 DEF DeliveryInv, DeliveryPart, JobsDispatched
<1>10. SequencesOrdered' /\ EngagedContext'
  BY <1>5 DEF DeliveryInv, DeliveryPart, SequencesOrdered, EngagedContext
<1>11. \A v \in Workers : pc[v] = "decided" => v \in Workers \ {w}
  BY <1>2
<1>12. ClosedGateReported'
  BY <1>3, <1>5, <1>11 DEF DeliveryInv, DeliveryPart, ClosedGateReported
<1>13. OutstandingAnswered'
  BY <1>3, <1>5, <1>11 DEF DeliveryInv, DeliveryPart, OutstandingAnswered, Reports, Answers
<1> QED BY <1>7, <1>9, <1>10, <1>12, <1>13 DEF DeliveryPart

\* A causal result is one of the current authority, which its thread read as it is.
LEMMA CausalCurrent ==
  ASSUME DeliveryInv, NEW w \in Workers, pc[w] = "submitted", Causal(job[w])
  PROVE  /\ job[w].session = session /\ job[w].epoch = epoch[session] /\ state = "ACTIVE"
         /\ enabled[session] /\ job[w].result \in dispatched
         /\ job[w].result.session = session /\ job[w].result.epoch = epoch[session]
         /\ job[w].result.seq > lastSeq[session] /\ job[w].result.seq <= cmdSeq[session]
<1>1. job[w].session \in Sessions /\ job[w].epoch \in Nat /\ pc[w] # "idle"
  BY DeliveryTypes
<1>2. job[w].session = session /\ state = "ACTIVE" /\ enabled[session]
  BY <1>1 DEF Causal, DeliveryInv, AuthorityInv, OnlyActiveGateOpen
<1>3. /\ job[w].result.session = session /\ job[w].result.epoch = epoch[session]
      /\ job[w].result.seq > lastSeq[session]
  BY <1>2 DEF Causal
<1>4. /\ job[w].result \in dispatched /\ job[w].result.epoch <= job[w].epoch
      /\ job[w].epoch <= epoch[session]
  BY <1>1, <1>2, <1>3 DEF DeliveryInv, DeliveryPart, JobsDispatched, JobsBehind
<1>5. job[w].epoch = epoch[session]
  BY <1>1, <1>3, <1>4, DeliveryTypes
<1>6. job[w].result.seq <= cmdSeq[session]
  BY <1>3, <1>4 DEF DeliveryInv, DeliveryPart, SequencesOrdered
<1> QED BY <1>2, <1>3, <1>4, <1>5, <1>6

\* What a decision leaves alone, and what its thread carries from then on.
LEMMA DecidedCarries ==
  ASSUME DeliveryInv, NEW w \in Workers, pc[w] = "submitted",
         NEW disposition, NEW request, NEW cause, Decided(w, disposition, request, cause)
  PROVE  /\ \A v \in Workers \ {w} : job'[v] = job[v] /\ pc'[v] = pc[v]
         /\ pc'[w] = "decided" /\ job'[w].session = job[w].session
         /\ job'[w].epoch = job[w].epoch /\ job'[w].result = job[w].result
         /\ job'[w].disposition = disposition /\ job'[w].request = request
<1>1. pc' = [pc EXCEPT ![w] = "decided"] /\ w \in DOMAIN pc /\ w \in DOMAIN job
  BY DeliveryTypes DEF Decided
<1>2. job' = [job EXCEPT ![w] =
                [result |-> job[w].result, session |-> job[w].session, epoch |-> job[w].epoch,
                 disposition |-> disposition, request |-> request, cause |-> cause]]
  BY DEF Decided
<1> QED BY <1>1, <1>2

\* A decision keeps DeliveryInv if it changes neither gate nor sequence, or is a report
\* of this authority, or is an acceptance that moves the sequence to its own.
LEMMA DecidedDelivery ==
  ASSUME DeliveryInv, NEW w \in Workers, pc[w] = "submitted",
         NEW disposition, NEW request, NEW cause, Decided(w, disposition, request, cause),
         UNCHANGED <<state, session, epoch, dispatched, outstanding, engagedBundle, active>>,
         Forward,
         \/ UNCHANGED <<enabled, lastSeq>>
         \/ /\ request # "none" /\ job[w].session = session /\ job[w].epoch = epoch[session]
         \/ /\ disposition = "accepted_move" /\ job[w].session = session
            /\ enabled' = enabled /\ lastSeq'[session] = job[w].result.seq
  PROVE  DeliveryPart'
<1>1. /\ \A v \in Workers \ {w} : job'[v] = job[v] /\ pc'[v] = pc[v]
      /\ pc'[w] = "decided" /\ job'[w].session = job[w].session
      /\ job'[w].epoch = job[w].epoch /\ job'[w].result = job[w].result
      /\ job'[w].disposition = disposition /\ job'[w].request = request
  BY DecidedCarries
<1>2. \A v \in Workers : pc[v] = "decided" => v \in Workers \ {w}
  OBVIOUS
<1>3. \A v \in Workers : pc'[v] # "idle" => pc[v] # "idle"
  BY <1>1
<1>4. JobsBehind' /\ JobsDispatched'
  BY <1>1, <1>3 DEF DeliveryInv, DeliveryPart, JobsBehind, JobsDispatched
<1>5. SequencesOrdered'
  <2>1. ASSUME NEW d \in dispatched PROVE d.seq <= cmdSeq'[d.session]
    <3>1. d.session \in Sessions /\ d.seq \in Nat /\ cmdSeq[d.session] \in Nat
      BY DeliveryTypes DEF Dispatch
    <3> QED BY <3>1 DEF DeliveryInv, DeliveryPart, SequencesOrdered, Forward
  <2> QED BY <2>1 DEF DeliveryInv, DeliveryPart, SequencesOrdered, Forward
<1>6. EngagedContext'
  BY DEF DeliveryInv, DeliveryPart, EngagedContext
<1>7. \A v \in Workers : Reports(v) => Reports(v)'
  BY <1>1, <1>2 DEF Reports
<1>8. \A v \in Workers, d \in outstanding : Answers(v, d) => Answers(v, d)'
  BY <1>1, <1>2 DEF Answers
<1>9. ClosedGateReported /\ OutstandingAnswered
  BY DEF DeliveryInv, DeliveryPart
<1>10. CASE UNCHANGED <<enabled, lastSeq>>
  <2>1. ClosedGateReported'
    BY <1>7, <1>9, <1>10 DEF ClosedGateReported, Reports
  <2>2. OutstandingAnswered'
    BY <1>7, <1>8, <1>9, <1>10 DEF OutstandingAnswered
  <2> QED BY <1>4, <1>5, <1>6, <2>1, <2>2 DEF DeliveryPart
<1>11. CASE request # "none" /\ job[w].session = session /\ job[w].epoch = epoch[session]
  <2>1. Reports(w)'
    BY <1>1, <1>11 DEF Reports
  <2>2. ClosedGateReported'
    BY <2>1 DEF ClosedGateReported, Reports
  <2>3. OutstandingAnswered'
    BY <1>9, <2>1 DEF OutstandingAnswered
  <2> QED BY <1>4, <1>5, <1>6, <2>2, <2>3 DEF DeliveryPart
<1>12. CASE /\ disposition = "accepted_move" /\ job[w].session = session
            /\ enabled' = enabled /\ lastSeq'[session] = job[w].result.seq
  <2>1. ClosedGateReported'
    BY <1>7, <1>9, <1>12 DEF ClosedGateReported, Reports
  <2>2. ASSUME NEW d \in outstanding
        PROVE  d.seq > lastSeq'[session'] \/ Answers(w, d)'
    <3>1. d.seq \in Nat /\ job[w].result.seq \in Nat
      BY DeliveryTypes DEF Dispatch
    <3>2. CASE d.seq > job[w].result.seq
      BY <1>12, <3>2
    <3>3. CASE job[w].result.seq >= d.seq
      BY <1>1, <1>12, <3>3 DEF Answers
    <3> QED BY <3>1, <3>2, <3>3
  <2>3. OutstandingAnswered'
    BY <1>9, <2>2 DEF OutstandingAnswered
  <2> QED BY <1>4, <1>5, <1>6, <2>1, <2>3 DEF DeliveryPart
<1> QED BY <1>10, <1>11, <1>12

\* The sequences after a decision of the gate of the current session.
LEMMA DecidedForward ==
  ASSUME DeliveryInv, UNCHANGED <<session, epoch>>,
         \/ UNCHANGED seqVars
         \/ /\ cmdSeq' = [cmdSeq EXCEPT ![session] = @ + 1]
            /\ lastSeq' \in {lastSeq, [lastSeq EXCEPT ![session] = cmdSeq[session] + 1]}
         \/ /\ cmdSeq' = cmdSeq
            /\ \E n \in Nat : /\ lastSeq' = [lastSeq EXCEPT ![session] = n]
                              /\ n > lastSeq[session] /\ n <= cmdSeq[session]
  PROVE  Forward
<1>1. /\ session \in Sessions /\ epoch \in [Sessions -> Nat] /\ cmdSeq \in [Sessions -> Nat]
      /\ lastSeq \in [Sessions -> Nat] /\ \A s \in Sessions : lastSeq[s] <= cmdSeq[s]
  BY DeliveryTypes DEF DeliveryInv, DeliveryPart, SequencesOrdered
<1>2. CASE UNCHANGED seqVars
  BY <1>1, <1>2 DEF Forward
<1>3. CASE /\ cmdSeq' = [cmdSeq EXCEPT ![session] = @ + 1]
           /\ lastSeq' \in {lastSeq, [lastSeq EXCEPT ![session] = cmdSeq[session] + 1]}
  <2>1. \A s \in Sessions : cmdSeq'[s] = IF s = session THEN cmdSeq[s] + 1 ELSE cmdSeq[s]
    BY <1>1, <1>3
  <2>2. \A s \in Sessions : lastSeq'[s] \in {lastSeq[s], IF s = session THEN cmdSeq[s] + 1 ELSE lastSeq[s]}
    BY <1>1, <1>3
  <2>3. ASSUME NEW s \in Sessions
        PROVE  /\ cmdSeq'[s] \in Nat /\ cmdSeq'[s] >= cmdSeq[s]
               /\ lastSeq'[s] \in Nat /\ lastSeq'[s] >= lastSeq[s] /\ lastSeq'[s] <= cmdSeq'[s]
    BY <1>1, <2>1, <2>2
  <2> QED BY <1>1, <2>3 DEF Forward
<1>4. CASE /\ cmdSeq' = cmdSeq
           /\ \E n \in Nat : /\ lastSeq' = [lastSeq EXCEPT ![session] = n]
                             /\ n > lastSeq[session] /\ n <= cmdSeq[session]
  <2>1. PICK n \in Nat : /\ lastSeq' = [lastSeq EXCEPT ![session] = n]
                         /\ n > lastSeq[session] /\ n <= cmdSeq[session]
    BY <1>4
  <2>2. \A s \in Sessions : lastSeq'[s] = IF s = session THEN n ELSE lastSeq[s]
    BY <1>1, <2>1
  <2> QED BY <1>1, <1>4, <2>1, <2>2 DEF Forward
<1> QED BY <1>2, <1>3, <1>4

\* The gate's decision: superseded and without effect, or of this authority and either
\* reported or an answer.
LEMMA DecideDelivery ==
  ASSUME DeliveryInv, NEW w \in Workers, Decide(w) PROVE DeliveryPart' /\ Forward
<1>1. /\ pc[w] = "submitted"
      /\ UNCHANGED <<state, session, epoch, dispatched, outstanding, engagedBundle, active>>
  BY DEF Decide
<1>2. CASE /\ Decided(w, "discarded", "none", "computation") /\ UNCHANGED <<enabled, seqVars>>
  <2>1. Forward
    BY <1>1, <1>2, DecidedForward
  <2> QED BY <1>1, <1>2, <2>1, DecidedDelivery
<1>3. CASE Causal(job[w]) /\ \E cause, fault : RejectCurrent(w, cause, fault)
  <2>1. PICK cause, fault : RejectCurrent(w, cause, fault)
    BY <1>3
  <2>2. PICK h \in Halts :
          /\ LocalHold(job[w].session, h)
          /\ Decided(w, "rejected", IF fault \/ Failed(h) THEN "FAULT" ELSE "PAUSED", cause)
    BY <2>1 DEF RejectCurrent
  <2>3. job[w].session = session /\ job[w].epoch = epoch[session]
    BY <1>1, <1>3, CausalCurrent
  <2>4. Forward
    BY <1>1, <2>2, <2>3, LocalHoldEffect, DecidedForward DEF DeliveryInv
  <2> QED BY <1>1, <2>2, <2>3, <2>4, DecidedDelivery
<1>4. CASE Causal(job[w]) /\ AcceptHold(w)
  <2>1. /\ job[w].session = session /\ job[w].epoch = epoch[session]
        /\ job[w].result.seq > lastSeq[session] /\ job[w].result.seq <= cmdSeq[session]
        /\ job[w].result.seq \in Nat
    BY <1>1, <1>4, CausalCurrent, DeliveryTypes DEF Dispatch
  <2>2. PICK h \in Halts :
          /\ cmdSeq' = cmdSeq
          /\ IF Failed(h)
             THEN Decided(w, "adapter_failure", "FAULT", "computation") /\ UNCHANGED lastSeq
             ELSE /\ Decided(w, "accepted_hold", "PAUSED", "computation")
                  /\ lastSeq' = [lastSeq EXCEPT ![job[w].session] = job[w].result.seq]
    BY <1>4 DEF AcceptHold
  <2>3. Forward
    BY <1>1, <2>1, <2>2, DecidedForward
  <2> QED BY <1>1, <2>1, <2>2, <2>3, DecidedDelivery
<1>5. CASE Causal(job[w]) /\ AcceptMove(w)
  <2>1. /\ job[w].session = session /\ session \in DOMAIN lastSeq
        /\ job[w].result.seq > lastSeq[session] /\ job[w].result.seq <= cmdSeq[session]
        /\ job[w].result.seq \in Nat
    BY <1>1, <1>5, CausalCurrent, DeliveryTypes DEF Dispatch
  <2>2. /\ UNCHANGED <<enabled, cmdSeq>>
        /\ lastSeq' = [lastSeq EXCEPT ![session] = job[w].result.seq]
        /\ Decided(w, "accepted_move", "none", "computation")
    BY <1>5, <2>1 DEF AcceptMove
  <2>3. Forward
    BY <1>1, <2>1, <2>2, DecidedForward
  <2> QED BY <1>1, <2>1, <2>2, <2>3, DecidedDelivery
<1> QED BY <1>2, <1>3, <1>4, <1>5 DEF Decide

\* A thread comes back: a report of this authority withdraws it, and what an
\* acceptance answers or overtakes is dropped.
LEMMA AfterDecisionDelivery ==
  ASSUME DeliveryInv, NEW w \in Workers, AfterDecision(w) PROVE DeliveryPart' /\ Forward
<1>1. /\ pc' = [pc EXCEPT ![w] = "idle"] /\ job' = [job EXCEPT ![w] = NoJob] /\ pc[w] = "decided"
      /\ UNCHANGED <<session, seqVars, dispatched, active>>
  BY DEF AfterDecision
<1>2. pc'[w] = "idle" /\ \A v \in Workers \ {w} : job'[v] = job[v] /\ pc'[v] = pc[v]
  BY <1>1, DeliveryTypes
<1>3. epoch' = epoch \/ epoch' = [epoch EXCEPT ![session] = @ + 1]
  BY DEF AfterDecision, WithdrawAround, Revoke
<1>4. Forward
  BY <1>1, <1>3, DeliveryTypes DEF Forward, DeliveryInv, DeliveryPart, SequencesOrdered
<1>5. \A v \in Workers : pc'[v] # "idle" => v \in Workers \ {w}
  BY <1>2
<1>6. SequencesOrdered' /\ JobsBehind' /\ JobsDispatched'
  <2>1. SequencesOrdered'
    <3>1. ASSUME NEW d \in dispatched PROVE d.epoch <= epoch'[d.session]
      <4>1. d.session \in Sessions /\ d.epoch \in Nat /\ epoch[d.session] \in Nat
        BY DeliveryTypes DEF Dispatch
      <4> QED BY <1>4, <4>1 DEF DeliveryInv, DeliveryPart, SequencesOrdered, Forward
    <3> QED BY <1>1, <3>1 DEF DeliveryInv, DeliveryPart, SequencesOrdered
  <2>2. ASSUME NEW v \in Workers, pc'[v] # "idle"
        PROVE  /\ job'[v].session <= session'
               /\ job'[v].session = session' => job'[v].epoch <= epoch'[session']
    <3>1. job'[v] = job[v] /\ pc[v] # "idle"
      BY <1>2, <1>5, <2>2
    <3>2. /\ job[v].epoch \in Nat /\ session \in Sessions /\ epoch[session] \in Nat
          /\ job[v].session <= session
          /\ job[v].session = session => job[v].epoch <= epoch[session]
      BY <3>1, DeliveryTypes DEF DeliveryInv, DeliveryPart, JobsBehind
    <3> QED BY <1>1, <1>4, <3>1, <3>2 DEF Forward
  <2>3. JobsDispatched'
    BY <1>1, <1>2, <1>5 DEF DeliveryInv, DeliveryPart, JobsDispatched
  <2> QED BY <2>1, <2>2, <2>3 DEF JobsBehind
<1>7. CASE state' # "ACTIVE"
  <2>1. EngagedContext' /\ ClosedGateReported' /\ OutstandingAnswered'
    BY <1>7 DEF EngagedContext, ClosedGateReported, OutstandingAnswered
  <2> QED BY <1>4, <1>6, <2>1 DEF DeliveryPart
<1>8. CASE state' = "ACTIVE"
  <2>1. /\ UNCHANGED <<lifeVars, engagedBundle, authVars>>
        /\ outstanding' = IF job[w].session = session THEN Remaining(job[w]) ELSE outstanding
        /\ ~Reports(w)
    BY <1>8 DEF AfterDecision, WithdrawAround, Settle, Reports
  <2>2. \A v \in Workers : Reports(v) => Reports(v)'
    BY <1>1, <1>2, <2>1 DEF Reports
  <2>3. EngagedContext' /\ ClosedGateReported'
    BY <1>1, <2>1, <2>2 DEF DeliveryInv, DeliveryPart, EngagedContext, ClosedGateReported, Reports
  <2>4. ASSUME NEW d \in outstanding'
        PROVE  /\ d.session = session' /\ d.epoch = epoch'[session'] /\ d.bundle = engagedBundle'
               /\ \/ d.seq > lastSeq'[session']
                  \/ \E v \in Workers : Reports(v)' \/ Answers(v, d)'
    <3>1. d \in outstanding
      BY <2>1 DEF Remaining
    <3>2. /\ d.session = session /\ d.epoch = epoch[session] /\ d.bundle = engagedBundle
          /\ d.seq > lastSeq[session] \/ \E v \in Workers : Reports(v) \/ Answers(v, d)
      BY <1>1, <1>8, <2>1, <3>1 DEF DeliveryInv, DeliveryPart, OutstandingAnswered
    <3>3. d.seq \in Nat /\ job[w].result.seq \in Nat
      BY <1>1, <3>1, DeliveryTypes DEF Dispatch
    <3>4. ~Answers(w, d)
      BY <2>1, <3>3 DEF Answers, Remaining
    <3>5. \A v \in Workers \ {w} : Answers(v, d) => Answers(v, d)'
      BY <1>1, <1>2 DEF Answers
    <3> QED BY <1>1, <2>1, <2>2, <3>2, <3>4, <3>5
  <2>5. OutstandingAnswered'
    BY <2>4 DEF OutstandingAnswered
  <2> QED BY <1>4, <1>6, <2>3, <2>5 DEF DeliveryPart
<1> QED BY <1>7, <1>8

\* DeliveryInv is inductive, and no step moves session, epochs or sequences back.
LEMMA NextDelivery ==
  ASSUME DeliveryInv, [Next]_vars PROVE DeliveryInv' /\ Forward
<1>1. AuthorityInv'
  BY NextAuthority DEF DeliveryInv
<1>2. DeliveryPart' /\ Forward
  <2>1. CASE Ordinary
    BY <2>1, OrdinaryForward, OrdinaryDelivery
  <2>2. CASE Grant
    <3>1. Forward
      BY <2>2, DeliveryTypes DEF Grant, Forward, DeliveryInv, DeliveryPart, SequencesOrdered
    <3> QED BY <2>2, <3>1, GrantDelivery
  <2>3. CASE Dispatches
    <3>1. /\ cmdSeq' = [cmdSeq EXCEPT ![session] = @ + 1]
          /\ UNCHANGED <<session, epoch, lastSeq>>
      BY <2>3 DEF Dispatches
    <3>2. Forward
      BY <3>1, DecidedForward
    <3> QED BY <2>3, <3>2, DispatchDelivery
  <2>4. ASSUME NEW w \in Workers, SubmitResult(w) PROVE DeliveryPart' /\ Forward
    <3>1. Forward
      BY <2>4, DecidedForward DEF SubmitResult
    <3> QED BY <2>4, <3>1, SubmitDelivery
  <2>5. CASE Results
    BY <2>4, <2>5, DecideDelivery, AfterDecisionDelivery DEF Results
  <2> QED BY <2>1, <2>2, <2>3, <2>5, OrdinarySteps DEF DeliveryInv
<1> QED BY <1>1, <1>2 DEF DeliveryInv

\* At the start nothing is dispatched, outstanding or under way.
LEMMA InitDelivery == Init => DeliveryInv
<1> SUFFICES ASSUME Init PROVE DeliveryPart
  BY InitAuthority DEF DeliveryInv
<1> QED BY DEF Init, DeliveryPart, SequencesOrdered, JobsBehind, JobsDispatched, EngagedContext,
               ClosedGateReported, OutstandingAnswered, Sessions

\* The inductive invariant of the delivery of results, whatever the adapter refuses and
\* however often a thread delivers, holds in every reachable state.
THEOREM DeliveryInductive == Spec => []DeliveryInv
<1>1. Init => DeliveryInv
  BY InitDelivery
<1>2. DeliveryInv /\ [Next]_vars => DeliveryInv'
  BY NextDelivery
<1> QED BY <1>1, <1>2, PTL DEF Spec

\* A gate that has closed itself while ACTIVE has a thread on its way that will withdraw
\* this very authority: the lifecycle and the gate disagree only in that window.
THEOREM ClosedGatesAreReported == Spec => []ClosedGateReported
<1>1. DeliveryInv => ClosedGateReported
  BY DEF DeliveryInv, DeliveryPart
<1> QED BY <1>1, DeliveryInductive, PTL

\* The watchdog of an ACTIVE runtime waits only for dispatches of its own authority
\* that no accepted command answers or overtakes, but for threads under way.
THEOREM OutstandingIsCurrent == Spec => []OutstandingCurrent
<1>1. DeliveryInv => OutstandingCurrent
  BY DEF DeliveryInv, DeliveryPart, OutstandingAnswered, OutstandingCurrent, Reports, Answers
<1> QED BY <1>1, DeliveryInductive, PTL

-----------------------------------------------------------------------------
(* The adapter's target.                                                     *)

\* The adapter has dropped its target.
Halted == target' = NoTarget /\ haltFailed' = FALSE

\* A round of cancel and hold, asked for where it was not refused.
LEMMA HoldHalts ==
  ASSUME AdapterFailures = {}, NEW h \in Halts
  PROVE  /\ ~Failed(h)
         /\ AdapterHalts(h) => Halted
  BY DEF Halts, Failed, AdapterHalts, Halted

\* The part of TargetInv that AuthorityInv does not cover.
TargetPart == TargetUnderAuthority /\ ~haltFailed /\ JobsBehind /\ RequestsClosed

\* Nothing of what the invariant speaks about changes, but for a target dropped.
LEMMA QuietTarget ==
  ASSUME TargetInv, UNCHANGED <<state, session, epoch, enabled, workerVars>>,
         UNCHANGED adapterVars \/ Halted
  PROVE  TargetPart'
<1>1. TargetUnderAuthority' /\ ~haltFailed'
  BY DEF TargetInv, TargetUnderAuthority, Halted
<1>2. JobsBehind' /\ RequestsClosed'
  BY DEF TargetInv, JobsBehind, RequestsClosed
<1> QED BY <1>1, <1>2 DEF TargetPart

\* A withdrawal in place: the epoch moves past what any thread carries.
LEMMA RevokedTarget ==
  ASSUME TargetInv, NEW ready, Revoke(ready), Halted, session' = session,
         UNCHANGED workerVars
  PROVE  TargetPart'
<1>1. TargetUnderAuthority' /\ ~haltFailed'
  BY DEF TargetUnderAuthority, Halted
<1>2. session \in Sessions /\ epoch[session] \in Nat /\ epoch'[session] = epoch[session] + 1
  BY DEF TargetInv, AuthorityInv, TypeOK, LifeTypeOK, AuthTypeOK, Revoke
<1>3. ASSUME NEW w \in Workers, pc[w] # "idle" PROVE job[w].session <= session
  BY <1>3 DEF TargetInv, JobsBehind
<1>4. ASSUME NEW w \in Workers, pc[w] # "idle", job[w].session = session
      PROVE  job[w].epoch <= epoch[session] /\ job[w].epoch \in Nat
  BY <1>4 DEF TargetInv, JobsBehind, AuthorityInv, TypeOK, WorkerTypeOK, Submission, Decision
<1>5. ASSUME NEW w \in Workers, pc[w] # "idle", job[w].session = session
      PROVE  job[w].epoch <= epoch'[session] /\ job[w].epoch # epoch'[session]
  BY <1>2, <1>4, <1>5
<1>6. JobsBehind'
  BY <1>3, <1>5 DEF JobsBehind
<1>7. RequestsClosed'
  BY <1>5 DEF TargetInv, JobsBehind, RequestsClosed
<1> QED BY <1>1, <1>6, <1>7 DEF TargetPart

\* Without authority the adapter has no target, and no answer of this epoch waits.
LEMMA InactiveTarget ==
  ASSUME TargetInv, state # "ACTIVE", UNCHANGED <<session, epoch, adapterVars, workerVars>>
  PROVE  TargetPart'
<1>1. session \in Sessions
  BY DEF TargetInv, AuthorityInv, TypeOK, LifeTypeOK
<1>2. target = NoTarget /\ ~haltFailed
  BY <1>1, ClosedOutsideActive DEF TargetInv, TargetUnderAuthority, AllClosed
<1>3. TargetUnderAuthority' /\ ~haltFailed'
  BY <1>2 DEF TargetUnderAuthority
<1>4. JobsBehind' /\ RequestsClosed'
  BY DEF TargetInv, JobsBehind, RequestsClosed
<1> QED BY <1>3, <1>4 DEF TargetPart

\* A new session is ahead of every thread.
LEMMA ReplacedTarget ==
  ASSUME TargetInv, Halted, session' = session + 1, UNCHANGED workerVars
  PROVE  TargetPart'
<1>1. TargetUnderAuthority' /\ ~haltFailed'
  BY DEF TargetUnderAuthority, Halted
<1>2. session \in Nat
  BY DEF TargetInv, AuthorityInv, TypeOK, LifeTypeOK, Sessions
<1>3. ASSUME NEW w \in Workers, pc[w] # "idle"
      PROVE  job[w].session <= session /\ job[w].session \in Nat
  BY <1>3 DEF TargetInv, JobsBehind, AuthorityInv, TypeOK, WorkerTypeOK, Submission, Decision,
              Sessions
<1>4. ASSUME NEW w \in Workers, pc[w] # "idle"
      PROVE  job[w].session <= session' /\ job[w].session # session'
  BY <1>2, <1>3, <1>4
<1>5. JobsBehind'
  BY <1>4 DEF JobsBehind
<1>6. RequestsClosed'
  BY <1>4 DEF TargetInv, JobsBehind, RequestsClosed
<1> QED BY <1>1, <1>5, <1>6 DEF TargetPart

\* A withdrawal of the lifecycle's own.
LEMMA WithdrawTarget ==
  ASSUME AdapterFailures = {}, TargetInv, NEW to, NEW causes, NEW ready, NEW h \in Halts,
         Withdraw(to, causes, ready, h), session' = session, UNCHANGED workerVars
  PROVE  TargetPart'
  BY HoldHalts, RevokedTarget DEF Withdraw, LocalHold

\* The same for a pause.
LEMMA PauseTarget ==
  ASSUME AdapterFailures = {}, TargetInv, NEW causes, NEW ready, Pause(causes, ready)
  PROVE  TargetPart'
  BY WithdrawTarget DEF Pause, KeepsAfterWithdrawal

\* Inputs, the grant, the watchdog and dispatch.
LEMMA InputTarget ==
  ASSUME AdapterFailures = {}, TargetInv, Inputs \/ Grant \/ Tick \/ DispatchCycle
  PROVE  TargetPart'
<1>1. ASSUME NEW src \in Sources, Receive(src) PROVE TargetPart'
  BY <1>1, QuietTarget DEF Receive
<1>2. ASSUME NEW src \in Sources, ProcessInput(src) PROVE TargetPart'
  <2>1. CASE UNCHANGED <<state, session, authVars, adapterVars, workerVars>>
    BY <2>1, QuietTarget
  <2>2. CASE Pause(InputCause, controllerReady)
    BY <2>2, PauseTarget
  <2>3. CASE state = "PAUSED" /\ Recover
    BY <2>3, InactiveTarget DEF Recover
  <2> QED BY <1>2, <2>1, <2>2, <2>3 DEF ProcessInput
<1>3. CASE Grant
  <2>1. state = "READY"
    BY <1>3 DEF Grant, TargetInv, AuthorityInv, GrantHeld
  <2> QED BY <1>3, <2>1, InactiveTarget DEF Grant
<1>4. CASE Tick \/ DispatchCycle
  <2>1. CASE UNCHANGED <<state, session, authVars, adapterVars, workerVars>>
    BY <2>1, QuietTarget
  <2>2. CASE \E causes : Pause(causes, controllerReady)
    BY <2>2, PauseTarget
  <2>3. CASE state = "PAUSED" /\ Recover
    BY <2>3, InactiveTarget DEF Recover
  <2> QED BY <1>4, <2>1, <2>2, <2>3 DEF Tick, DispatchCycle
<1> QED BY <1>1, <1>2, <1>3, <1>4 DEF Inputs

\* A thread reads the session and the epoch as they are.
LEMMA SubmitTarget ==
  ASSUME TargetInv, NEW w \in Workers, SubmitResult(w) PROVE TargetPart'
<1>1. TargetUnderAuthority' /\ ~haltFailed'
  BY DEF SubmitResult, TargetInv, TargetUnderAuthority
<1>2. PICK d \in dispatched, c \in Contents :
        job' = [job EXCEPT ![w] = [result |-> d, content |-> c, late |-> d \in late,
                                   session |-> session, epoch |-> epoch[session]]]
  BY DEF SubmitResult
<1>3. /\ pc' = [pc EXCEPT ![w] = "submitted"] /\ pc \in [Workers -> {"idle", "submitted", "decided"}]
      /\ DOMAIN job = Workers
  BY DEF SubmitResult, TargetInv, AuthorityInv, TypeOK, WorkerTypeOK
<1>4. \A v \in Workers \ {w} : job'[v] = job[v] /\ pc'[v] = pc[v]
  BY <1>2, <1>3
<1>5. job'[w].session = session /\ job'[w].epoch = epoch[session] /\ pc'[w] = "submitted"
  BY <1>2, <1>3
<1>6. session \in Nat /\ epoch[session] \in Nat /\ UNCHANGED <<state, session, epoch, enabled>>
  BY DEF SubmitResult, TargetInv, AuthorityInv, TypeOK, LifeTypeOK, AuthTypeOK, Sessions
<1>7. JobsBehind'
  BY <1>4, <1>5, <1>6 DEF TargetInv, JobsBehind
<1>8. RequestsClosed'
  BY <1>4, <1>5, <1>6 DEF TargetInv, RequestsClosed
<1> QED BY <1>1, <1>7, <1>8 DEF TargetPart

\* What a causal result finds: the gate of the current session open, while ACTIVE.
LEMMA CausalOpen ==
  ASSUME TargetInv, NEW w \in Workers, pc[w] = "submitted", Causal(job[w])
  PROVE  /\ job[w].session = session /\ state = "ACTIVE" /\ gateReady[session]
         /\ enabled[session] /\ job[w].result.epoch = epoch[session]
<1>1. job[w].session \in Sessions
  BY DEF TargetInv, AuthorityInv, TypeOK, WorkerTypeOK, Submission
<1>2. enabled[job[w].session] /\ job[w].result.epoch = epoch[job[w].session]
  BY DEF Causal
<1> QED BY <1>1, <1>2 DEF TargetInv, AuthorityInv, OnlyActiveGateOpen

\* What the threads carry after a decision: w's is decided and keeps its session and
\* epoch, and a request of it is a pause with the gate closed.
LEMMA DecidedTarget ==
  ASSUME TargetInv, NEW w \in Workers, pc[w] = "submitted",
         UNCHANGED <<state, session, epoch>>,
         \A s \in Sessions : enabled'[s] => enabled[s],
         NEW disposition, NEW request, NEW cause, Decided(w, disposition, request, cause),
         request = "none" \/ (request = "PAUSED" /\ state = "ACTIVE" /\ ~enabled'[session])
  PROVE  JobsBehind' /\ RequestsClosed'
<1>1. /\ pc' = [pc EXCEPT ![w] = "decided"] /\ pc \in [Workers -> {"idle", "submitted", "decided"}]
      /\ DOMAIN job = Workers
  BY DEF Decided, TargetInv, AuthorityInv, TypeOK, WorkerTypeOK
<1>2. \A v \in Workers \ {w} : job'[v] = job[v] /\ pc'[v] = pc[v]
  BY <1>1 DEF Decided
<1>3. /\ job'[w].session = job[w].session /\ job'[w].epoch = job[w].epoch
      /\ job'[w].request = request
  BY <1>1 DEF Decided
<1>4. session \in Sessions
  BY DEF TargetInv, AuthorityInv, TypeOK, LifeTypeOK
<1>5. JobsBehind'
  BY <1>2, <1>3 DEF TargetInv, JobsBehind
<1>6. RequestsClosed'
  BY <1>2, <1>3, <1>4 DEF TargetInv, RequestsClosed
<1> QED BY <1>5, <1>6

\* The gate's decision: a target is taken under the open gate, or the gate closes
\* and the adapter drops its target.
LEMMA DecideTarget ==
  ASSUME AdapterFailures = {}, TargetInv, NEW w \in Workers, Decide(w) PROVE TargetPart'
<1>1. pc[w] = "submitted" /\ UNCHANGED <<state, session, epoch>> /\ session \in Sessions
  BY DEF Decide, TargetInv, AuthorityInv, TypeOK, LifeTypeOK
<1>2. enabled \in [Sessions -> BOOLEAN]
  BY DEF TargetInv, AuthorityInv, TypeOK, AuthTypeOK
<1>3. CASE /\ ~Causal(job[w]) /\ Decided(w, "discarded", "none", "computation")
           /\ UNCHANGED <<enabled, adapterVars>>
  <2>1. JobsBehind' /\ RequestsClosed'
    BY <1>1, <1>3, DecidedTarget
  <2>2. TargetUnderAuthority' /\ ~haltFailed'
    BY <1>1, <1>3 DEF TargetInv, TargetUnderAuthority
  <2> QED BY <2>1, <2>2 DEF TargetPart
<1>4. CASE Causal(job[w]) /\ \E cause : RejectCurrent(w, cause, FALSE)
  <2>1. PICK cause : RejectCurrent(w, cause, FALSE)
    BY <1>4
  <2>2. PICK h \in Halts :
          /\ enabled' = [enabled EXCEPT ![job[w].session] = FALSE]
          /\ LocalHold(job[w].session, h)
          /\ Decided(w, "rejected", IF FALSE \/ Failed(h) THEN "FAULT" ELSE "PAUSED", cause)
    BY <2>1 DEF RejectCurrent
  <2>3. Halted /\ ~Failed(h)
    BY <2>2, HoldHalts DEF LocalHold
  <2>4. job[w].session = session /\ state = "ACTIVE"
    BY <1>1, <1>4, CausalOpen
  <2>5. ~enabled'[session] /\ \A s \in Sessions : enabled'[s] => enabled[s]
    BY <1>1, <1>2, <2>2, <2>4
  <2>6. Decided(w, "rejected", "PAUSED", cause)
    BY <2>2, <2>3
  <2>7. JobsBehind' /\ RequestsClosed'
    BY <1>1, <2>4, <2>5, <2>6, DecidedTarget
  <2> QED BY <2>3, <2>7 DEF TargetPart, TargetUnderAuthority, Halted
<1>5. CASE Causal(job[w]) /\ AcceptHold(w)
  <2>1. PICK h \in Halts :
          /\ enabled' = [enabled EXCEPT ![job[w].session] = FALSE]
          /\ AdapterHalts(h)
          /\ IF Failed(h) THEN Decided(w, "adapter_failure", "FAULT", "computation")
             ELSE Decided(w, "accepted_hold", "PAUSED", "computation")
    BY <1>5 DEF AcceptHold
  <2>2. Halted /\ ~Failed(h)
    BY <2>1, HoldHalts
  <2>3. job[w].session = session /\ state = "ACTIVE"
    BY <1>1, <1>5, CausalOpen
  <2>4. ~enabled'[session] /\ \A s \in Sessions : enabled'[s] => enabled[s]
    BY <1>1, <1>2, <2>1, <2>3
  <2>5. Decided(w, "accepted_hold", "PAUSED", "computation")
    BY <2>1, <2>2
  <2>6. JobsBehind' /\ RequestsClosed'
    BY <1>1, <2>3, <2>4, <2>5, DecidedTarget
  <2> QED BY <2>2, <2>6 DEF TargetPart, TargetUnderAuthority, Halted
<1>6. CASE Causal(job[w]) /\ AcceptMove(w)
  <2>1. /\ target' = [session |-> session, epoch |-> epoch[session], seq |-> job[w].result.seq]
        /\ haltFailed' = FALSE /\ enabled' = enabled /\ enabled[session]
        /\ Decided(w, "accepted_move", "none", "computation")
    BY <1>1, <1>6, CausalOpen DEF AcceptMove
  <2>2. JobsBehind' /\ RequestsClosed'
    BY <1>1, <2>1, DecidedTarget
  <2>3. TargetUnderAuthority' /\ ~haltFailed'
    BY <1>1, <2>1 DEF TargetUnderAuthority
  <2> QED BY <2>2, <2>3 DEF TargetPart
<1>7. \/ ~Causal(job[w])
      \/ Causal(job[w]) /\ \E cause : RejectCurrent(w, cause, FALSE)
      \/ Causal(job[w]) /\ AcceptHold(w)
      \/ Causal(job[w]) /\ AcceptMove(w)
  <2>1. Causal(job[w]) => gateReady[job[w].session]
    BY <1>1, CausalOpen
  <2>2. Causal(job[w]) => Verdict(job[w]) # "controller_not_ready"
    BY <2>1 DEF Verdict
  <2> QED BY <2>2 DEF Decide
<1> QED BY <1>3, <1>4, <1>5, <1>6, <1>7 DEF Decide

\* A thread that comes back withdraws around its own decision only: the gate is
\* closed, so that the adapter has no target.
LEMMA AfterDecisionTarget ==
  ASSUME TargetInv, NEW w \in Workers, AfterDecision(w) PROVE TargetPart'
<1>1. /\ pc[w] = "decided" /\ pc' = [pc EXCEPT ![w] = "idle"] /\ job' = [job EXCEPT ![w] = NoJob]
      /\ pc \in [Workers -> {"idle", "submitted", "decided"}] /\ DOMAIN job = Workers
      /\ UNCHANGED <<session, adapterVars>> /\ session \in Sessions
  BY DEF AfterDecision, TargetInv, AuthorityInv, TypeOK, WorkerTypeOK, LifeTypeOK
<1>2. pc'[w] = "idle" /\ \A v \in Workers \ {w} : job'[v] = job[v] /\ pc'[v] = pc[v]
  BY <1>1
<1>3. CASE UNCHANGED <<state, epoch, enabled>>
  <2>1. JobsBehind' /\ RequestsClosed'
    BY <1>1, <1>2, <1>3 DEF TargetInv, JobsBehind, RequestsClosed
  <2>2. TargetUnderAuthority' /\ ~haltFailed'
    BY <1>1, <1>3 DEF TargetInv, TargetUnderAuthority
  <2> QED BY <2>1, <2>2 DEF TargetPart
<1>4. CASE /\ Revoke(controllerReady) /\ job[w].session = session
           /\ job[w].request = "PAUSED" /\ job[w].epoch = epoch[session]
  <2>1. ~enabled[session]
    BY <1>1, <1>4 DEF TargetInv, RequestsClosed
  <2>2. target' = NoTarget /\ ~haltFailed'
    BY <1>1, <2>1 DEF TargetInv, TargetUnderAuthority
  <2>3. epoch[session] \in Nat /\ epoch'[session] = epoch[session] + 1
    BY <1>1, <1>4 DEF TargetInv, AuthorityInv, TypeOK, AuthTypeOK, Revoke
  <2>4. ASSUME NEW v \in Workers, pc'[v] # "idle" PROVE pc[v] # "idle" /\ job'[v] = job[v]
    BY <1>2, <2>4
  <2>5. ASSUME NEW v \in Workers, pc'[v] # "idle", job[v].session = session
        PROVE  job[v].epoch <= epoch[session] /\ job[v].epoch \in Nat
    BY <2>4, <2>5 DEF TargetInv, JobsBehind, AuthorityInv, TypeOK, WorkerTypeOK, Submission,
                      Decision
  <2>6. ASSUME NEW v \in Workers, pc'[v] # "idle", job[v].session = session
        PROVE  job[v].epoch <= epoch'[session] /\ job[v].epoch # epoch'[session]
    BY <2>3, <2>5, <2>6
  <2>7. JobsBehind'
    BY <1>1, <2>4, <2>6 DEF TargetInv, JobsBehind
  <2>8. RequestsClosed'
    BY <1>1, <1>2, <2>4, <2>6 DEF TargetInv, RequestsClosed
  <2> QED BY <2>2, <2>7, <2>8 DEF TargetPart, TargetUnderAuthority
<1>5. job[w].request \in {"none", "PAUSED"}
  BY <1>1 DEF TargetInv, RequestsClosed
<1> QED BY <1>3, <1>4, <1>5 DEF AfterDecision, WithdrawAround

\* Initialization and the host.
LEMMA InitializationTarget ==
  ASSUME AdapterFailures = {}, TargetInv, Initialization \/ Host PROVE TargetPart'
<1>1. CASE BeginInitialization
  <2>1. session' = session /\ UNCHANGED workerVars
    BY <1>1 DEF BeginInitialization
  <2>2. CASE state \in {"ACTIVE", "READY"}
    BY <1>1, <2>1, <2>2, HoldHalts, RevokedTarget DEF BeginInitialization, LocalHold
  <2>3. CASE state \notin {"ACTIVE", "READY"}
    BY <1>1, <2>1, <2>3, InactiveTarget DEF BeginInitialization
  <2> QED BY <2>2, <2>3
<1>2. ASSUME NEW a \in Attempts, PrepareStart(a) \/ PrepareFinish(a) \/ PrepareRaises(a)
      PROVE  TargetPart'
  BY <1>2, QuietTarget DEF PrepareStart, PrepareFinish, PrepareRaises
<1>3. ASSUME NEW a \in Attempts, HostFailure(a) PROVE TargetPart'
  BY <1>3, QuietTarget, WithdrawTarget DEF HostFailure
<1>4. ASSUME NEW a \in Attempts, CompleteInitialization(a) PROVE TargetPart'
  <2>1. CASE state = "VALIDATING"
    BY <1>4, <2>1, InactiveTarget DEF CompleteInitialization
  <2>2. CASE state # "VALIDATING"
    BY <1>4, <2>2, QuietTarget DEF CompleteInitialization
  <2> QED BY <2>1, <2>2
<1>5. CASE InvalidateContext
  <2>1. session' = session /\ UNCHANGED workerVars
    BY <1>5 DEF InvalidateContext, KeepsAfterWithdrawal
  <2>2. CASE state \in {"ACTIVE", "READY"}
    BY <1>5, <2>1, <2>2, WithdrawTarget DEF InvalidateContext
  <2>3. CASE state \notin {"ACTIVE", "READY"}
    BY <1>5, <2>1, <2>3, InactiveTarget DEF InvalidateContext
  <2> QED BY <2>2, <2>3
<1>6. CASE HostInvalidatesStore
  BY <1>6, QuietTarget DEF HostInvalidatesStore
<1>7. CASE CancelInitialization
  BY <1>7, InactiveTarget DEF CancelInitialization, KeepsAfterWithdrawal
<1> QED BY <1>1, <1>2, <1>3, <1>4, <1>5, <1>6, <1>7 DEF Initialization, Host

\* Controller, supervisor and operator.
LEMMA ControllerTarget ==
  ASSUME AdapterFailures = {}, TargetInv, Controller \/ Supervisor \/ ComputationStatus(TRUE)
  PROVE  TargetPart'
<1>1. ASSUME NEW ready \in BOOLEAN, ControllerStatus(ready) PROVE TargetPart'
  BY <1>1, QuietTarget, PauseTarget DEF ControllerStatus
<1>2. CASE ControllerFault
  <2>1. session' = session /\ UNCHANGED workerVars
    BY <1>2 DEF ControllerFault, KeepsAfterWithdrawal
  <2>2. CASE state = "FAULT"
    BY <1>2, <2>1, <2>2, InactiveTarget DEF ControllerFault
  <2>3. CASE state # "FAULT"
    BY <1>2, <2>1, <2>3, WithdrawTarget DEF ControllerFault
  <2> QED BY <2>2, <2>3
<1>3. CASE Rearm
  BY <1>3, InactiveTarget DEF Rearm, KeepsAfterWithdrawal
<1>4. ASSUME NEW ready \in BOOLEAN, ComputationStatus(ready) PROVE TargetPart'
  <2>1. CASE Pause({"computation"}, controllerReady)
    BY <2>1, PauseTarget
  <2>2. CASE state = "PAUSED" /\ Recover
    BY <2>2, InactiveTarget DEF Recover
  <2>3. CASE UNCHANGED <<state, session, authVars, adapterVars, workerVars>>
    BY <2>3, QuietTarget
  <2> QED BY <1>4, <2>1, <2>2, <2>3 DEF ComputationStatus
<1> QED BY <1>1, <1>2, <1>3, <1>4 DEF Controller, Supervisor

\* A restart and a clock failure, whether or not a new session can be made.
LEMMA NewSessionTarget ==
  ASSUME AdapterFailures = {}, TargetInv, NewSession PROVE TargetPart'
<1>1. PICK h \in Halts, ready \in {controllerReady, FALSE}, created \in BOOLEAN :
        Revoke(ready) /\ AdapterHalts(h) /\ ReplaceSession(created)
  BY DEF NewSession, RestartSession, ClockFailure, LocalHold
<1>2. Halted
  BY <1>1, HoldHalts
<1>3. UNCHANGED workerVars
  BY <1>1 DEF ReplaceSession
<1>4. CASE created
  BY <1>1, <1>2, <1>3, <1>4, ReplacedTarget DEF ReplaceSession
<1>5. CASE ~created
  BY <1>1, <1>2, <1>3, <1>5, RevokedTarget DEF ReplaceSession
<1> QED BY <1>4, <1>5

\* The passage of time at most drops a target.
LEMMA TimeTarget == ASSUME TargetInv, Time PROVE TargetPart'
<1>1. UNCHANGED <<state, session, epoch, enabled, workerVars>>
  BY DEF Time, JoystickAges, RobotStateAges, LivenessDeadlinePasses, TargetExpires,
         ClockBreaks, SolveDeadlinePasses, DispatchExpires, Unmoved
<1>2. UNCHANGED adapterVars \/ Halted
  BY DEF Time, JoystickAges, RobotStateAges, LivenessDeadlinePasses, TargetExpires,
         ClockBreaks, SolveDeadlinePasses, DispatchExpires, Unmoved, Halted
<1> QED BY <1>1, <1>2, QuietTarget

\* Every step preserves the invariant.
LEMMA NextTarget ==
  ASSUME AdapterFailures = {}, TargetInv, [Next]_vars PROVE TargetInv'
<1>1. AuthorityInv'
  BY NextAuthority DEF TargetInv
<1>2. TargetPart'
  <2>1. CASE Results
    BY <2>1, SubmitTarget, DecideTarget, AfterDecisionTarget DEF Results
  <2>2. CASE UNCHANGED vars
    BY <2>2, QuietTarget DEF vars
  <2> QED BY <2>1, <2>2, InputTarget, InitializationTarget, ControllerTarget,
             NewSessionTarget, TimeTarget DEF Next, NextUnreported
<1> QED BY <1>1, <1>2 DEF TargetInv, TargetPart

\* At the start there is neither a target nor a thread under way.
LEMMA InitTarget == Init => TargetInv
<1> SUFFICES ASSUME Init PROVE TargetPart
  BY InitAuthority DEF TargetInv, TargetPart
<1> QED BY DEF Init, TargetPart, TargetUnderAuthority, JobsBehind, RequestsClosed

\* The inductive invariant holds as long as the adapter takes every request: an answer that
\* is late, repeated or crosses a withdrawal finds the gate closed and no target behind it.
THEOREM TargetInductive == AdapterFailures = {} => (Spec => []TargetInv)
<1> SUFFICES ASSUME AdapterFailures = {} PROVE Spec => []TargetInv
  OBVIOUS
<1>1. Init => TargetInv
  BY InitTarget
<1>2. TargetInv /\ [Next]_vars => TargetInv'
  BY NextTarget
<1> QED BY <1>1, <1>2, PTL DEF Spec

\* With an adapter that takes every request, a result that is late, repeated or of an
\* old epoch or session never moves the robot: the adapter's target is always one of
\* the current session and epoch, under an open gate.  (With one that may refuse, it
\* is not so: see the run late_fault.)
THEOREM TargetSafety == AdapterFailures = {} => (Spec => []TargetUnderAuthority)
<1> SUFFICES ASSUME AdapterFailures = {} PROVE Spec => []TargetUnderAuthority
  OBVIOUS
<1>1. TargetInv => TargetUnderAuthority
  BY DEF TargetInv
<1> QED BY <1>1, TargetInductive, PTL
=============================================================================
