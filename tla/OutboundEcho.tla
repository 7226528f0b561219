----------------------------- MODULE OutboundEcho -----------------------------
(***************************************************************************)
(* What the account sends, seen twice: the supervisor's sends go through   *)
(* the worker's queue and come back as echoes of the client, among the     *)
(* messages a person types on the phone.  The worker marks the echoes it   *)
(* can tell from its own sends; the supervisor looks the rest up in the    *)
(* outbound attributions and takes everything else for a human takeover.   *)
(* A send's operation and the message it becomes share one identifier.     *)
(***************************************************************************)
EXTENDS Naturals, Sequences

CONSTANTS Sends,        \* sendText calls of the agent and the management API
          Humans,       \* messages typed on the phone
          None,
          QueueLimits,  \* settings of maxSendQueue
          MaxFaults     \* bound: errors, lost answers, expiries, replaced records

Messages == Sends \cup Humans

ASSUME EchoConstants ==
    /\ Sends \cap Humans = {} /\ None \notin Messages
    /\ QueueLimits \subseteq Nat \ {0} /\ MaxFaults \in Nat

VARIABLES maxSendQueue, \* as configured
          call,       \* send -> where the supervisor's sendText is
          queue,      \* the session's sends in order, the head under way
          stage,      \* of the head
          ready,      \* is the session's status ready?
          out,        \* messages WhatsApp has
          active,     \* record.activeApiSend
          completion, \* send -> what its completion promise resolved to
          recent,     \* record.recentApiMessageIds
          sight,      \* message -> where its observation is
          awaits,     \* message -> the active send its observation waits for
          hint,       \* message -> apiSendOperationId of the spooled observation
          attributed, \* sends with an outbound attribution
          echoed,     \* those whose attribution has echoObservedAt
          ignored, takenOver, \* messages the supervisor took for an echo, for a person
          late,       \* sends something kept the worker from recognizing (history)
          faults

worker == <<maxSendQueue, queue, stage, ready, active, completion, recent>>
observed == <<sight, awaits, hint>>
supervisor == <<attributed, echoed, ignored, takenOver>>
vars == <<call, worker, out, observed, supervisor, late, faults>>

TypeOK ==
    /\ maxSendQueue \in QueueLimits
    /\ call \in [Sends -> {"idle", "waiting", "answered", "done", "failed"}]
    /\ queue \in Seq(Sends)
    /\ stage \in {"waiting", "spacing", "sending"}
    /\ ready \in BOOLEAN
    /\ out \subseteq Messages
    /\ active \in Sends \cup {None}
    /\ completion \in [Sends -> {"open", "id", "null"}]
    /\ recent \subseteq Sends
    /\ sight \in [Messages -> {"none", "waiting", "spooled", "done"}]
    /\ awaits \in [Messages -> Sends \cup {None}]
    /\ hint \in [Messages -> Sends \cup {None}]
    /\ attributed \subseteq Sends /\ echoed \subseteq attributed
    /\ ignored \subseteq Messages /\ takenOver \subseteq Messages
    /\ late \subseteq Sends
    /\ faults \in 0..MaxFaults

Init ==
    /\ maxSendQueue \in QueueLimits
    /\ call = [s \in Sends |-> "idle"]
    /\ queue = <<>> /\ stage = "waiting" /\ ready = TRUE
    /\ out = {} /\ active = None /\ recent = {}
    /\ completion = [s \in Sends |-> "open"]
    /\ sight = [m \in Messages |-> "none"]
    /\ awaits = [m \in Messages |-> None]
    /\ hint = [m \in Messages |-> None]
    /\ attributed = {} /\ echoed = {} /\ ignored = {} /\ takenOver = {}
    /\ late = {} /\ faults = 0

Fault == faults < MaxFaults /\ faults' = faults + 1
Answer(s, result) ==
    call' = [call EXCEPT ![s] = IF @ = "waiting" THEN result ELSE @]

-----------------------------------------------------------------------------
(* A session that is not ready is refused, and a queue that is full.       *)
Accepts == ready /\ Len(queue) < maxSendQueue

SendUnbounded(s) ==        \* mutant: no limit on the queue
    /\ call[s] = "idle"
    /\ call' = [call EXCEPT ![s] = "waiting"]
    /\ queue' = Append(queue, s)
    /\ UNCHANGED <<maxSendQueue, stage, ready, active, completion, recent, out, observed, supervisor, late, faults>>

(* The supervisor's sendText and the worker's, up to the queue: a session  *)
(* that is not ready (409), a full queue (429) and a worker that cannot be *)
(* reached refuse the send.                                                *)
Send(s) ==
    /\ call[s] = "idle"
    /\ \/ /\ Accepts
          /\ call' = [call EXCEPT ![s] = "waiting"]
          /\ queue' = Append(queue, s)
          /\ UNCHANGED faults
       \/ /\ ~Accepts
          /\ call' = [call EXCEPT ![s] = "failed"]
          /\ UNCHANGED <<queue, faults>>
       \/ /\ Fault
          /\ call' = [call EXCEPT ![s] = "failed"]
          /\ UNCHANGED queue
    /\ UNCHANGED <<maxSendQueue, stage, ready, active, completion, recent, out, observed, supervisor, late>>

(* AbortSignal.timeout, or a lost answer: the worker sends all the same.   *)
TimeOut(s) ==
    /\ call[s] = "waiting" /\ Fault
    /\ Answer(s, "failed")
    /\ UNCHANGED <<worker, out, observed, supervisor, late>>

Dequeue == queue' = Tail(queue) /\ stage' = "waiting"

(* Its turn: the status is checked again, before the spacing sleep.        *)
Begin ==
    /\ queue # <<>> /\ stage = "waiting"
    /\ \/ ready /\ stage' = "spacing" /\ UNCHANGED <<call, queue>>
       \/ ~ready /\ Dequeue /\ Answer(Head(queue), "failed")
    /\ UNCHANGED <<maxSendQueue, ready, active, completion, recent, out, observed, supervisor, late, faults>>

ActivateLate ==            \* mutant: activeApiSend is set after sendMessage returns
    /\ queue # <<>> /\ stage = "spacing"
    /\ stage' = "sending"
    /\ UNCHANGED <<maxSendQueue, call, queue, ready, active, completion, recent, out, observed, supervisor, late, faults>>

Activate ==
    /\ queue # <<>> /\ stage = "spacing"
    /\ stage' = "sending"
    /\ active' = Head(queue)
    /\ UNCHANGED <<maxSendQueue, call, queue, ready, completion, recent, out, observed, supervisor, late, faults>>

(* sendMessage: the message is out before the call returns, or the call    *)
(* fails, with the message out or not, or returns no id.                   *)
GoesOut ==
    /\ queue # <<>> /\ stage = "sending"
    /\ out' = out \cup {Head(queue)}
    /\ UNCHANGED <<call, worker, observed, supervisor, late, faults>>

SendReturns ==
    /\ queue # <<>> /\ stage = "sending" /\ Head(queue) \in out
    /\ recent' = recent \cup {Head(queue)}
    /\ completion' = [completion EXCEPT ![Head(queue)] = "id"]
    /\ active' = None
    /\ Answer(Head(queue), "answered")
    /\ Dequeue
    /\ UNCHANGED <<maxSendQueue, ready, out, observed, supervisor, late, faults>>

SendFails ==
    /\ queue # <<>> /\ stage = "sending" /\ Fault
    /\ completion' = [completion EXCEPT ![Head(queue)] = "null"]
    /\ active' = None
    /\ Answer(Head(queue), "failed")
    /\ Dequeue
    /\ late' = late \cup {Head(queue)}
    /\ UNCHANGED <<maxSendQueue, ready, recent, out, observed, supervisor>>

(* pruneRecentApiMessages: older than the TTL, or one too many.            *)
Prune(s) ==
    /\ s \in recent /\ Fault
    /\ recent' = recent \ {s}
    /\ late' = late \cup {s}
    /\ UNCHANGED <<maxSendQueue, call, queue, stage, ready, active, completion, out, observed, supervisor>>

StatusChanges ==
    /\ Fault
    /\ ready' = ~ready
    /\ UNCHANGED <<maxSendQueue, call, queue, stage, active, completion, recent, out, observed, supervisor, late>>

(* The session gets a new record: what the old one knew of its sends is    *)
(* lost with it, and its client is gone.                                   *)
Replace ==
    /\ Fault
    /\ queue' = <<>> /\ stage' = "waiting" /\ active' = None /\ recent' = {}
    /\ completion' = [s \in Sends |->
           IF completion[s] = "open" /\ call[s] # "idle" THEN "null" ELSE completion[s]]
    /\ call' = [s \in Sends |-> IF call[s] = "waiting" THEN "failed" ELSE call[s]]
    /\ late' = {s \in Sends : call[s] # "idle"} \cup late
    /\ UNCHANGED <<maxSendQueue, ready, out, observed, supervisor>>

(* The sender has the message id, and its caller records the attribution;  *)
(* a failure to record it is not the send's.                               *)
Record(s) == attributed' = attributed \cup {s}
Attribute(s) ==
    /\ call[s] = "answered"
    /\ call' = [call EXCEPT ![s] = "done"]
    /\ (Record(s) /\ UNCHANGED faults) \/ (Fault /\ UNCHANGED attributed)
    /\ UNCHANGED <<worker, out, observed, echoed, ignored, takenOver, late>>

-----------------------------------------------------------------------------
Types(h) ==
    /\ out' = out \cup {h}
    /\ UNCHANGED <<call, worker, observed, supervisor, late, faults>>

Spool(m, operation) ==
    /\ sight' = [sight EXCEPT ![m] = "spooled"]
    /\ hint' = [hint EXCEPT ![m] = operation]
    /\ awaits' = [awaits EXCEPT ![m] = None]

(* The client shows message m.  The active send matches when peer and text *)
(* agree: they may agree with another message's, and WhatsApp may show the *)
(* send's own peer under another address.                                  *)
Observe(m) ==
    /\ m \in out /\ sight[m] = "none"
    /\ \/ m \in recent /\ Spool(m, m) /\ UNCHANGED late
       \/ /\ m \notin recent /\ active # None
          /\ sight' = [sight EXCEPT ![m] = "waiting"]
          /\ awaits' = [awaits EXCEPT ![m] = active]
          /\ UNCHANGED <<hint, late>>
       \/ /\ m \notin recent
          /\ Spool(m, None)
          /\ late' = IF m = active THEN late \cup {m} ELSE late
    /\ UNCHANGED <<call, worker, out, supervisor, faults>>

ResolveAnyMessage(m) ==    \* mutant: the completed message id is not compared
    /\ sight[m] = "waiting" /\ completion[awaits[m]] # "open"
    /\ Spool(m, IF completion[awaits[m]] = "id" THEN awaits[m] ELSE None)
    /\ UNCHANGED <<call, worker, out, supervisor, late, faults>>

(* The active send is over: its message is this one, or it is not.         *)
Resolve(m) ==
    /\ sight[m] = "waiting" /\ completion[awaits[m]] # "open"
    /\ Spool(m, IF completion[awaits[m]] = "id" /\ awaits[m] = m THEN m ELSE None)
    /\ UNCHANGED <<call, worker, out, supervisor, late, faults>>

StopWaitingAfterSend(m) == \* mutant: the race is decided only when the send is over
    /\ sight[m] = "waiting" /\ completion[awaits[m]] # "open"
    /\ Spool(m, None)
    /\ UNCHANGED <<call, worker, out, supervisor, late, faults>>

(* apiOriginResolutionMs passes first.                                     *)
StopWaiting(m) ==
    /\ sight[m] = "waiting" /\ completion[awaits[m]] = "open"
    /\ Spool(m, None)
    /\ late' = late \cup ({m} \cap Sends)
    /\ UNCHANGED <<call, worker, out, supervisor, faults>>

(* The supervisor looks the message up, goes by the hint, or concludes     *)
(* that a person wrote it.  A lookup that fails finds nothing; an answer   *)
(* that is lost makes the worker deliver again.                            *)
Find(m) == m \in attributed
ConsumeEcho(m) == echoed' = echoed \cup {m}

Classify(m) ==
    \/ /\ Find(m)
       /\ (ConsumeEcho(m) /\ UNCHANGED faults) \/ (Fault /\ UNCHANGED echoed)
       /\ ignored' = ignored \cup {m} /\ UNCHANGED <<takenOver, late>>
    \/ /\ ~Find(m) /\ hint[m] # None
       /\ ignored' = ignored \cup {m} /\ UNCHANGED <<echoed, takenOver, late, faults>>
    \/ /\ ~Find(m) /\ hint[m] = None
       /\ takenOver' = takenOver \cup {m} /\ UNCHANGED <<echoed, ignored, late, faults>>
    \/ /\ Fault /\ Find(m) /\ hint[m] = None
       /\ takenOver' = takenOver \cup {m}
       /\ late' = late \cup {m}
       /\ UNCHANGED <<echoed, ignored>>

Deliver(m) ==
    /\ sight[m] = "spooled"
    /\ Classify(m)
    /\ \/ UNCHANGED <<sight, hint>>
       \/ /\ sight' = [sight EXCEPT ![m] = "done"]
          /\ hint' = [hint EXCEPT ![m] = None]
    /\ UNCHANGED <<call, worker, out, awaits, attributed>>

-----------------------------------------------------------------------------
Next ==
    \/ \E s \in Sends : Send(s) \/ TimeOut(s) \/ Prune(s) \/ Attribute(s)
    \/ Begin \/ Activate \/ GoesOut \/ SendReturns \/ SendFails
    \/ StatusChanges \/ Replace
    \/ \E h \in Humans : Types(h)
    \/ \E m \in Messages :
           Observe(m) \/ Resolve(m) \/ StopWaiting(m) \/ Deliver(m)

(* Timers fire, promises run on, and the spool delivers until an answer    *)
(* comes back; that sendMessage ever returns is not assumed.               *)
Delivered(m) == Deliver(m) /\ sight'[m] = "done"
Fairness ==
    \A m \in Messages :
        WF_vars(Resolve(m)) /\ WF_vars(StopWaiting(m)) /\ SF_vars(Delivered(m))

Spec == Init /\ [][Next]_vars /\ Fairness

-----------------------------------------------------------------------------
(* The queue keeps its limit, and activeApiSend is the send under way or   *)
(* none: an operation that ends never clears its successor's.              *)
QueueInv ==
    /\ Len(queue) <= maxSendQueue
    /\ queue = <<>> => stage = "waiting"
    /\ active = IF queue # <<>> /\ stage = "sending" THEN Head(queue) ELSE None

EchoInv == TypeOK /\ QueueInv

(* What a person types is never taken for the agent's own words, even when *)
(* it repeats them while they are being sent: no takeover is missed.       *)
PeopleAreNeverIgnored == ignored \cap Humans = {}

(* "Worker API echo arriving before central attribution never triggers     *)
(* human takeover": only when the worker had no way to recognize it, the   *)
(* send failing or outlasting the wait, its record expired or replaced,    *)
(* its peer shown under another address.                                   *)
OwnEchoesStaySilent == takenOver \cap Sends \subseteq late

(* Every message shown by the client gets to the supervisor, even while a  *)
(* send hangs in the browser.                                              *)
ObservationsArrive == \A m \in Messages : sight[m] # "none" ~> sight[m] = "done"
=============================================================================
