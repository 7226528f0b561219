--------------------------- MODULE InboundDecision ---------------------------
(***************************************************************************)
(* A customer's message, from the worker's spool to its decision.          *)
(* processMessage claims and records it and either enqueues a durable job  *)
(* (PostgreSQL) or decides at once (files); the decision reads the         *)
(* ownership, asks the model, replies or acts, and is recorded, while      *)
(* operators take the conversation over and release it.  Each await is a   *)
(* step.  The job queue is the atomic one of JobQueue, which DurableJobs   *)
(* implements, and the ownership store that of OwnershipStore.             *)
(***************************************************************************)
EXTENDS Naturals

CONSTANTS Messages,     \* inbound messages of one conversation
          Handlers,     \* supervisor requests that may run at once
          Workers,      \* durable job workers, one per supervisor process
          NoMessage,
          MaxAttempts,  \* of a job
          MaxMoves,     \* bound: ownership changes
          MaxFaults     \* bound: calls that fail, deaths, leases that run out

Executors == Handlers \cup Workers

ASSUME InboundConstants ==
    /\ Handlers \cap Workers = {}
    /\ NoMessage \notin Messages
    /\ MaxAttempts \in Nat \ {0}
    /\ MaxMoves \in Nat /\ MaxFaults \in Nat

VARIABLES durable,    \* is there a job queue and an event store?
          spool,      \* message -> its file in the worker's spool
          claimed,    \* messages with a claim
          recorded,   \* messages in the conversation history
          job,        \* message -> the status of its process_inbound job
          attempts,   \* message -> attempt_count
          owner,      \* the conversation's ownership: state and version
          effects,    \* message -> replies sent and actions run for it
          attributed, \* messages whose reply has an outbound attribution
          audited,    \* messages in the audit log
          event,      \* message -> its decision.completed event
          shown,      \* message -> its latest decision in the history
          pc, msg, attempt,
          seen,       \* executor -> the ownership version it decides under
          did,        \* executor -> what it decided
          failed,     \* messages an error, a death or a lease's end got to (history)
          faults

requests == <<spool, claimed, recorded>>
records == <<attributed, audited, event, shown>>
locals == <<msg, attempt, seen, did>>
vars == <<durable, requests, job, attempts, owner, effects, records, pc, locals,
          failed, faults>>

(* "silent" is every decision that sends nothing: a handoff to a human, a   *)
(* draft, an empty reply, a failed action, shadow mode.                    *)
Outcomes == {"none", "reply", "act", "silent"}
Deciding == {"own", "model", "reply", "act", "attribute", "decide"}
Receiving == {"claim", "persist", "enqueue", "release"}
Points == Deciding \cup Receiving \cup {"idle", "complete", "fail"}

TypeOK ==
    /\ durable \in BOOLEAN
    /\ spool \in [Messages -> {"unsent", "kept", "removed"}]
    /\ claimed \subseteq Messages
    /\ recorded \subseteq Messages
    /\ job \in [Messages -> {"none", "queued", "running", "completed", "dead"}]
    /\ attempts \in [Messages -> Nat]
    /\ owner \in [state : {"AI_ACTIVE", "HUMAN_ACTIVE"}, version : 0..MaxMoves]
    /\ effects \in [Messages -> Nat]
    /\ attributed \subseteq Messages
    /\ audited \subseteq Messages
    /\ event \in [Messages -> Outcomes]
    /\ shown \in [Messages -> Outcomes]
    /\ pc \in [Executors -> Points]
    /\ msg \in [Executors -> Messages \cup {NoMessage}]
    /\ attempt \in [Executors -> Nat]
    /\ seen \in [Executors -> 0..MaxMoves]
    /\ did \in [Executors -> Outcomes]
    /\ failed \subseteq Messages
    /\ faults \in 0..MaxFaults

Init ==
    /\ durable \in BOOLEAN
    /\ spool = [m \in Messages |-> "unsent"]
    /\ claimed = {} /\ recorded = {} /\ attributed = {} /\ audited = {}
    /\ job = [m \in Messages |-> "none"]
    /\ attempts = [m \in Messages |-> 0]
    /\ owner = [state |-> "AI_ACTIVE", version |-> 0]
    /\ effects = [m \in Messages |-> 0]
    /\ event = [m \in Messages |-> "none"]
    /\ shown = [m \in Messages |-> "none"]
    /\ pc = [x \in Executors |-> "idle"]
    /\ msg = [x \in Executors |-> NoMessage]
    /\ attempt = [x \in Executors |-> 0]
    /\ seen = [x \in Executors |-> 0]
    /\ did = [x \in Executors |-> "none"]
    /\ failed = {}
    /\ faults = 0

Goto(x, point) == pc' = [pc EXCEPT ![x] = point]
At(x, points) == pc[x] \in points

(* A call that throws, a process that dies or is too slow, on message m.   *)
Fault(m) ==
    /\ faults < MaxFaults
    /\ faults' = faults + 1
    /\ failed' = failed \cup {m}
NoFault == UNCHANGED <<failed, faults>>

(* The request, or the worker's attempt, is over.                          *)
Over(x) ==
    /\ Goto(x, "idle")
    /\ msg' = [msg EXCEPT ![x] = NoMessage]
    /\ attempt' = [attempt EXCEPT ![x] = 0]
    /\ seen' = [seen EXCEPT ![x] = 0]
    /\ did' = [did EXCEPT ![x] = "none"]
------------------------------------------------------------------------------
(* The worker's spool.                                                     *)
Observe(m) ==
    /\ spool[m] = "unsent"
    /\ spool' = [spool EXCEPT ![m] = "kept"]
    /\ UNCHANGED <<durable, claimed, recorded, job, attempts, owner, effects,
                   records, pc, locals, failed, faults>>

(* A flush posts what it has listed, maybe once more than needed, also     *)
(* while an earlier post that timed out is still being worked on.          *)
Deliver(h, m) ==
    /\ pc[h] = "idle"
    /\ spool[m] # "unsent"
    /\ Goto(h, "claim")
    /\ msg' = [msg EXCEPT ![h] = m]
    /\ UNCHANGED <<durable, requests, job, attempts, owner, effects, records,
                   attempt, seen, did, failed, faults>>

(* 200 removes the file, unless nobody waits for the answer any more.      *)
Answer200(h) ==
    /\ Over(h)
    /\ spool' \in {spool, [spool EXCEPT ![msg[h]] = "removed"]}
------------------------------------------------------------------------------
(* processMessage.                                                         *)

(* Mutant: the claim is looked up but not taken.                           *)
ClaimNotTaken(h) ==
    /\ At(h, {"claim"})
    /\ IF msg[h] \in claimed
       THEN Answer200(h)
       ELSE Goto(h, "persist") /\ UNCHANGED <<spool, locals>>
    /\ UNCHANGED <<durable, claimed, recorded, job, attempts, owner, effects,
                   records, failed, faults>>

(* A message that has a claim is answered 200, as a duplicate.             *)
Claim(h) ==
    /\ At(h, {"claim"})
    /\ IF msg[h] \in claimed
       THEN Answer200(h) /\ UNCHANGED claimed
       ELSE /\ claimed' = claimed \cup {msg[h]}
            /\ Goto(h, "persist")
            /\ UNCHANGED <<spool, locals>>
    /\ UNCHANGED <<durable, recorded, job, attempts, owner, effects, records,
                   failed, faults>>

(* claims.claim throws, with or without its effect, outside of the try.    *)
ClaimFails(h) ==
    /\ At(h, {"claim"})
    /\ Fault(msg[h])
    /\ claimed' \in {claimed, claimed \cup {msg[h]}}
    /\ Over(h)
    /\ UNCHANGED <<durable, spool, recorded, job, attempts, owner, effects, records>>

(* The inbound event is appended and the message recorded.                 *)
Persist(h) ==
    /\ At(h, {"persist"})
    /\ recorded' = recorded \cup {msg[h]}
    /\ Goto(h, IF durable THEN "enqueue" ELSE "own")
    /\ UNCHANGED <<durable, spool, claimed, job, attempts, owner, effects, records,
                   locals, failed, faults>>

PersistFails(h) ==
    /\ At(h, {"persist"})
    /\ Fault(msg[h])
    /\ recorded' \in {recorded, recorded \cup {msg[h]}}
    /\ Goto(h, "release")
    /\ UNCHANGED <<durable, spool, claimed, job, attempts, owner, effects, records,
                   locals>>

Queued(m) == [job EXCEPT ![m] = IF @ = "none" THEN "queued" ELSE @]

(* Mutant: the request is answered without its job.                        *)
EnqueueDropped(h) ==
    /\ At(h, {"enqueue"})
    /\ Answer200(h)
    /\ UNCHANGED <<durable, claimed, recorded, job, attempts, owner, effects, records,
                   failed, faults>>

Enqueue(h) ==
    /\ At(h, {"enqueue"})
    /\ job' = Queued(msg[h])
    /\ Answer200(h)
    /\ UNCHANGED <<durable, claimed, recorded, attempts, owner, effects, records,
                   failed, faults>>

EnqueueFails(h) ==
    /\ At(h, {"enqueue"})
    /\ Fault(msg[h])
    /\ job' \in {job, Queued(msg[h])}
    /\ Goto(h, "release")
    /\ UNCHANGED <<durable, requests, attempts, owner, effects, records, locals>>

(* The catch block: the claim is released, and the failure is reported in  *)
(* the body of a 200.                                                      *)
Release(h) ==
    /\ At(h, {"release"})
    /\ claimed' = claimed \ {msg[h]}
    /\ Answer200(h)
    /\ UNCHANGED <<durable, recorded, job, attempts, owner, effects, records,
                   failed, faults>>

(* claims.release throws out of the catch block: 500.                      *)
ReleaseFails(h) ==
    /\ At(h, {"release"})
    /\ Fault(msg[h])
    /\ Over(h)
    /\ UNCHANGED <<durable, requests, job, attempts, owner, effects, records>>
------------------------------------------------------------------------------
(* handleInboundDecision and the orchestrator's handle, run by a request   *)
(* or by a worker.                                                         *)

(* ownershipStore.get: only an AI_ACTIVE conversation goes to the model.   *)
ReadOwnership(x) ==
    /\ At(x, {"own"})
    /\ seen' = [seen EXCEPT ![x] = owner.version]
    /\ IF owner.state = "AI_ACTIVE"
       THEN Goto(x, "model") /\ UNCHANGED did
       ELSE Goto(x, "decide") /\ did' = [did EXCEPT ![x] = "silent"]
    /\ UNCHANGED <<durable, requests, job, attempts, owner, effects, records, msg,
                   attempt, failed, faults>>

(* orchestrator.handle returns, its audit entry written.                   *)
Conclude(x, outcome) ==
    /\ did' = [did EXCEPT ![x] = outcome]
    /\ audited' = audited \cup {msg[x]}
    /\ Goto(x, "decide")

(* The model answers and the policy permits a reply, an action or neither. *)
Model(x) ==
    /\ At(x, {"model"})
    /\ \/ \E point \in {"reply", "act"} : Goto(x, point) /\ UNCHANGED <<did, audited>>
       \/ Conclude(x, "silent")
    /\ UNCHANGED <<durable, requests, job, attempts, owner, effects, attributed,
                   event, shown, msg, attempt, seen, failed, faults>>

OneMore(m) == [effects EXCEPT ![m] = @ + 1]

(* channelSender.sendText.                                                 *)
Reply(x) ==
    /\ At(x, {"reply"})
    /\ effects' = OneMore(msg[x])
    /\ Goto(x, "attribute")
    /\ UNCHANGED <<durable, requests, job, attempts, owner, records, locals,
                   failed, faults>>

(* Mutant: recordAgentAttribution is not awaited for.                      *)
AttributeLater(x) ==
    /\ At(x, {"attribute"})
    /\ Conclude(x, "reply")
    /\ UNCHANGED <<durable, requests, job, attempts, owner, effects, attributed,
                   event, shown, msg, attempt, seen, failed, faults>>

(* recordAgentAttribution; its errors are swallowed.                       *)
Attribute(x) ==
    /\ At(x, {"attribute"})
    /\ \/ attributed' = attributed \cup {msg[x]} /\ NoFault
       \/ UNCHANGED attributed /\ Fault(msg[x])
    /\ Conclude(x, "reply")
    /\ UNCHANGED <<durable, requests, job, attempts, owner, effects, event, shown,
                   msg, attempt, seen>>

(* actionGateway.execute; its errors are caught, whatever it has done.     *)
Act(x) ==
    /\ At(x, {"act"})
    /\ \/ effects' = OneMore(msg[x]) /\ Conclude(x, "act") /\ NoFault
       \/ /\ effects' \in {effects, OneMore(msg[x])}
          /\ Conclude(x, "silent")
          /\ Fault(msg[x])
    /\ UNCHANGED <<durable, requests, job, attempts, owner, attributed, event,
                   shown, msg, attempt, seen>>

(* The event store keeps the first decision.completed of a message.        *)
FirstEvent(x) ==
    [event EXCEPT ![msg[x]] = IF @ = "none" /\ durable THEN did[x] ELSE @]

Shown(x) == [shown EXCEPT ![msg[x]] = did[x]]

(* The decision is appended, recorded and returned.                        *)
Decide(x) ==
    /\ At(x, {"decide"})
    /\ event' = FirstEvent(x)
    /\ shown' = Shown(x)
    /\ audited' = audited \cup {msg[x]}
    /\ IF x \in Handlers
       THEN Answer200(x)
       ELSE Goto(x, "complete") /\ UNCHANGED <<spool, locals>>
    /\ UNCHANGED <<durable, claimed, recorded, job, attempts, owner, effects,
                   attributed, failed, faults>>

(* An exception leaves the handler: a query failed, the model gave none,   *)
(* sendText threw with or without having sent, the audit log could not be  *)
(* written after the reply or the action, the event's append was lost, the *)
(* history could not be written.                                           *)
DecisionFails(x) ==
    /\ At(x, Deciding)
    /\ Fault(msg[x])
    /\ \/ UNCHANGED <<effects, attributed, event, shown>>
       \/ /\ At(x, {"reply", "act"})
          /\ effects' = OneMore(msg[x])
          /\ UNCHANGED <<attributed, event, shown>>
       \/ /\ At(x, {"attribute"})
          /\ attributed' = attributed \cup {msg[x]}
          /\ UNCHANGED <<effects, event, shown>>
       \/ /\ At(x, {"decide"})
          /\ event' = FirstEvent(x)
          /\ shown' \in {shown, Shown(x)}
          /\ UNCHANGED <<effects, attributed>>
    /\ Goto(x, IF x \in Handlers THEN "release" ELSE "fail")
    /\ UNCHANGED <<durable, requests, job, attempts, owner, audited, locals>>
------------------------------------------------------------------------------
(* DurableJobWorker.runOnce.                                               *)
TakeJob(w, m) ==
    /\ pc[w] = "idle"
    /\ job[m] = "queued"
    /\ job' = [job EXCEPT ![m] = "running"]
    /\ attempts' = [attempts EXCEPT ![m] = @ + 1]
    /\ Goto(w, "own")
    /\ msg' = [msg EXCEPT ![w] = m]
    /\ attempt' = [attempt EXCEPT ![w] = attempts[m] + 1]
    /\ UNCHANGED <<durable, requests, owner, effects, records, seen, did, failed,
                   faults>>

Holders(m) == {w \in Workers : msg[w] = m}

(* Mutant: the job of a worker that died keeps its lease.                  *)
LeaseOutlivesWorker(m) ==
    /\ job[m] = "running"
    /\ Holders(m) # {}
    /\ Fault(m)
    /\ job' = [job EXCEPT ![m] = "queued"]
    /\ UNCHANGED <<durable, requests, attempts, owner, effects, records, pc, locals>>

(* The lease runs out; if a worker still has the job it was too slow.      *)
LeaseExpires(m) ==
    /\ job[m] = "running"
    /\ IF Holders(m) = {} THEN NoFault ELSE Fault(m)
    /\ job' = [job EXCEPT ![m] = "queued"]
    /\ UNCHANGED <<durable, requests, attempts, owner, effects, records, pc, locals>>

Complete(w) ==
    /\ At(w, {"complete"})
    /\ job' = [job EXCEPT ![msg[w]] = "completed"]
    /\ \/ Over(w) /\ NoFault
       \/ Goto(w, "fail") /\ UNCHANGED locals /\ Fault(msg[w])
    /\ UNCHANGED <<durable, requests, attempts, owner, effects, records>>

CompleteFails(w) ==
    /\ At(w, {"complete"})
    /\ Fault(msg[w])
    /\ Goto(w, "fail")
    /\ UNCHANGED <<durable, requests, job, attempts, owner, effects, records, locals>>

FailJob(w) ==
    /\ At(w, {"fail"})
    /\ job' = [job EXCEPT ![msg[w]] =
                  IF attempt[w] >= MaxAttempts THEN "dead" ELSE "queued"]
    /\ Over(w)
    /\ UNCHANGED <<durable, requests, attempts, owner, effects, records, failed,
                   faults>>

FailJobFails(w) ==
    /\ At(w, {"fail"})
    /\ Fault(msg[w])
    /\ Over(w)
    /\ UNCHANGED <<durable, requests, job, attempts, owner, effects, records>>

(* The process dies; a worker comes back with it.                          *)
Crash(x) ==
    /\ pc[x] # "idle"
    /\ Fault(msg[x])
    /\ Over(x)
    /\ UNCHANGED <<durable, requests, job, attempts, owner, effects, records>>
------------------------------------------------------------------------------
(* An operator takes over, or releases.                                    *)
ChangeOwner ==
    /\ owner.version < MaxMoves
    /\ owner' = [state |-> IF owner.state = "AI_ACTIVE" THEN "HUMAN_ACTIVE"
                                                        ELSE "AI_ACTIVE",
                 version |-> owner.version + 1]
    /\ UNCHANGED <<durable, requests, job, attempts, effects, records, pc, locals,
                   failed, faults>>
------------------------------------------------------------------------------
DecisionStep(x) ==
    ReadOwnership(x) \/ Model(x) \/ Reply(x) \/ Attribute(x) \/ Act(x) \/ Decide(x)

Serve(h) == Claim(h) \/ Persist(h) \/ Enqueue(h) \/ Release(h) \/ DecisionStep(h)

Work(w) ==
    (\E m \in Messages : TakeJob(w, m)) \/ DecisionStep(w) \/ Complete(w) \/ FailJob(w)

Next ==
    \/ ChangeOwner
    \/ \E m \in Messages : Observe(m) \/ LeaseExpires(m)
    \/ \E h \in Handlers :
           \/ \E m \in Messages : Deliver(h, m)
           \/ Serve(h)
           \/ ClaimFails(h) \/ PersistFails(h) \/ EnqueueFails(h) \/ ReleaseFails(h)
    \/ \E w \in Workers : Work(w) \/ CompleteFails(w) \/ FailJobFails(w)
    \/ \E x \in Executors : DecisionFails(x) \/ Crash(x)

(* Requests run to their end, workers poll, leases end, and the worker     *)
(* flushes its spool every few seconds while there is a file in it.        *)
Fairness ==
    /\ \A h \in Handlers : WF_vars(Serve(h))
    /\ \A w \in Workers : WF_vars(Work(w))
    /\ \A m \in Messages : /\ SF_vars(\E h \in Handlers : Deliver(h, m))
                           /\ WF_vars(LeaseExpires(m))

Spec == Init /\ [][Next]_vars /\ Fairness
------------------------------------------------------------------------------
(* One executor at a time decides a message, however often it is delivered *)
(* and however many workers poll, unless an error, a death or a lease's    *)
(* end got in its way.                                                     *)
OneDeciderPerMessage ==
    \A x, y \in Executors :
        At(x, Deciding) /\ At(y, Deciding) /\ msg[x] = msg[y] /\ msg[x] \notin failed
            => x = y

IInv == TypeOK /\ OneDeciderPerMessage

(* The jobs of the messages are those of the atomic queue, and the steps   *)
(* of requests and workers are its calls.                                  *)
HoldingOf == [w \in Workers |-> <<msg[w], attempt[w]>>]
Queue == INSTANCE JobQueue WITH Jobs <- Messages, NoJob <- NoMessage,
                                row <- job, holding <- HoldingOf
UsesQueue == Queue!Spec

(* What the code keeps of a takeover: a decision that may still speak while *)
(* a human has the conversation had read the ownership before; whatever is *)
(* redelivered, retried or begun afterwards falls silent.                  *)
OnlyBegunTurnsSpeak ==
    \A x \in Executors :
        At(x, {"model", "reply", "act"}) /\ owner.state = "HUMAN_ACTIVE"
            => seen[x] < owner.version

(* "Manual human activity invalidates older pending autonomous turns before *)
(* they can send": no reply is handed to the channel and no action started *)
(* while a human has the conversation.  The ownership is read before the   *)
(* model is asked and not again, so that a turn whose model answers after  *)
(* the takeover speaks nevertheless.                                       *)
TakeoversStopPendingTurns ==
    [][\A x \in Executors : At(x, {"model"}) /\ At(x, {"reply", "act"})'
            => owner.state # "HUMAN_ACTIVE"]_vars

(* What is on record is what happened: unless something failed, a message  *)
(* that has its decision got one reply or action if the decision says so   *)
(* and none otherwise, event and history agree, the reply has its          *)
(* attribution, and the audit log knows.                                   *)
RecordsTellWhatHappened ==
    \A m \in Messages \ failed :
        shown[m] # "none" =>
            /\ effects[m] = IF shown[m] \in {"reply", "act"} THEN 1 ELSE 0
            /\ durable => event[m] = shown[m]
            /\ shown[m] = "reply" => m \in attributed
            /\ m \in recorded \cap audited

(* A job outlives failures, deaths and slow workers: each one that was     *)
(* enqueued leads to a decision on record, or to the end of its attempts.  *)
JobsAreDecided ==
    \A m \in Messages : job[m] # "none" ~> shown[m] # "none" \/ job[m] = "dead"

(* A message in the spool is decided, with or without a queue, unless      *)
(* something failed.                                                       *)
MessagesAreDecided ==
    \A m \in Messages : spool[m] = "kept" ~> shown[m] # "none" \/ m \in failed

(* "Failed deliveries stay on disk and are retried": a message whose file  *)
(* is gone is being worked on, has a job or has been decided.              *)
FailedDeliveriesStay ==
    \A m \in Messages :
        spool[m] = "removed" =>
            \/ job[m] # "none"
            \/ shown[m] # "none"
            \/ \E x \in Executors : msg[x] = m
=============================================================================
