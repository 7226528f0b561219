------------------------ MODULE InboundDecisionProofs ------------------------
(***************************************************************************)
(* For any number of messages, requests, workers, failures and takeovers:  *)
(* the types, who may still speak after a takeover, who decides a message, *)
(* what the records tell, and the calls that are made of the job queue.    *)
(***************************************************************************)
EXTENDS InboundDecision, TLAPS

LEMMA FaultType ==
    ASSUME TypeOK, NEW m \in Messages, Fault(m)
    PROVE  failed' \subseteq Messages /\ faults' \in 0..MaxFaults
BY InboundConstants DEF TypeOK, Fault

LEMMA GotoType ==
    ASSUME TypeOK, NEW x \in Executors, NEW point \in Points, Goto(x, point)
    PROVE  pc' \in [Executors -> Points]
BY DEF TypeOK, Goto

LEMMA OverType ==
    ASSUME TypeOK, NEW x \in Executors, Over(x)
    PROVE  /\ pc' \in [Executors -> Points]
           /\ msg' \in [Executors -> Messages \cup {NoMessage}]
           /\ attempt' \in [Executors -> Nat]
           /\ seen' \in [Executors -> 0..MaxMoves]
           /\ did' \in [Executors -> Outcomes]
BY InboundConstants DEF TypeOK, Over, Goto, Points, Outcomes

LEMMA Answer200Type ==
    ASSUME TypeOK, NEW h \in Handlers, Answer200(h)
    PROVE  /\ pc' \in [Executors -> Points]
           /\ msg' \in [Executors -> Messages \cup {NoMessage}]
           /\ attempt' \in [Executors -> Nat]
           /\ seen' \in [Executors -> 0..MaxMoves]
           /\ did' \in [Executors -> Outcomes]
           /\ spool' \in [Messages -> {"unsent", "kept", "removed"}]
BY OverType DEF Answer200, TypeOK, Executors

(* Who is at work has a message.                                           *)
BusyHasMessage == \A x \in Executors : pc[x] # "idle" => msg[x] \in Messages

TypeInv == TypeOK /\ BusyHasMessage

LEMMA InitTypeInv == Init => TypeInv
BY InboundConstants DEF Init, TypeInv, TypeOK, BusyHasMessage, Points, Outcomes

(* A step of x at work that keeps its message, or ends with it.            *)
LEMMA WorkingKeeps ==
    ASSUME TypeInv, NEW x \in Executors, pc[x] # "idle",
           \/ UNCHANGED msg /\ \E point \in Points : Goto(x, point)
           \/ Over(x)
    PROVE  BusyHasMessage'
BY DEF TypeInv, TypeOK, BusyHasMessage, Goto, Over

LEMMA RequestKeeps ==
    ASSUME TypeInv, NEW h \in Handlers,
           \/ Claim(h) \/ Persist(h) \/ Enqueue(h) \/ Release(h)
           \/ ClaimFails(h) \/ PersistFails(h) \/ EnqueueFails(h) \/ ReleaseFails(h)
    PROVE  TypeInv'
<1>1. h \in Executors /\ pc[h] # "idle" /\ msg[h] \in Messages
  BY DEF TypeInv, BusyHasMessage, Executors, At, Claim, Persist, Enqueue, Release,
         ClaimFails, PersistFails, EnqueueFails, ReleaseFails
<1>2. /\ "persist" \in Points /\ "enqueue" \in Points /\ "own" \in Points
      /\ "release" \in Points
  BY DEF Points, Receiving, Deciding
<1>3. BusyHasMessage'
  BY <1>1, <1>2, WorkingKeeps
     DEF Claim, Persist, Enqueue, Release, ClaimFails, PersistFails, EnqueueFails,
         ReleaseFails, Answer200, locals
<1> SUFFICES TypeOK'
  BY <1>3 DEF TypeInv
<1>4. CASE Claim(h)
  BY <1>1, <1>2, <1>4, GotoType, Answer200Type
     DEF TypeInv, TypeOK, Claim, records, locals
<1>5. CASE Persist(h)
  BY <1>1, <1>2, <1>5, GotoType DEF TypeInv, TypeOK, Persist, records, locals
<1>6. CASE Enqueue(h)
  BY <1>1, <1>6, Answer200Type DEF TypeInv, TypeOK, Enqueue, Queued, records
<1>7. CASE Release(h)
  BY <1>1, <1>7, Answer200Type DEF TypeInv, TypeOK, Release, records
<1>8. CASE ClaimFails(h)
  BY <1>1, <1>8, OverType, FaultType DEF TypeInv, TypeOK, ClaimFails, records
<1>9. CASE PersistFails(h)
  BY <1>1, <1>2, <1>9, GotoType, FaultType
     DEF TypeInv, TypeOK, PersistFails, records, locals
<1>10. CASE EnqueueFails(h)
  BY <1>1, <1>2, <1>10, GotoType, FaultType
     DEF TypeInv, TypeOK, EnqueueFails, Queued, requests, records, locals
<1>11. CASE ReleaseFails(h)
  BY <1>1, <1>11, OverType, FaultType
     DEF TypeInv, TypeOK, ReleaseFails, requests, records
<1> QED
  BY <1>4, <1>5, <1>6, <1>7, <1>8, <1>9, <1>10, <1>11

LEMMA DecisionKeeps ==
    ASSUME TypeInv, NEW x \in Executors, DecisionStep(x) \/ DecisionFails(x)
    PROVE  TypeInv'
<1>1. pc[x] # "idle" /\ msg[x] \in Messages
  BY DEF TypeInv, BusyHasMessage, At, DecisionStep, ReadOwnership, Model, Reply,
         Attribute, Act, Decide, DecisionFails, Deciding
<1>2. /\ {"model", "decide", "reply", "act", "attribute", "complete", "fail",
          "release"} \subseteq Points
      /\ {"reply", "act", "silent"} \subseteq Outcomes
  BY DEF Points, Receiving, Deciding, Outcomes
<1>3. /\ OneMore(msg[x]) \in [Messages -> Nat]
      /\ FirstEvent(x) \in [Messages -> Outcomes]
      /\ Shown(x) \in [Messages -> Outcomes]
  BY <1>1 DEF TypeInv, TypeOK, OneMore, FirstEvent, Shown
<1>4. CASE ReadOwnership(x)
  <2>1. seen' \in [Executors -> 0..MaxMoves] /\ did' \in [Executors -> Outcomes]
    BY <1>2, <1>4 DEF TypeInv, TypeOK, ReadOwnership
  <2>2. \E point \in Points : Goto(x, point)
    BY <1>2, <1>4 DEF ReadOwnership
  <2>3. TypeOK'
    BY <1>4, <2>1, <2>2, GotoType DEF TypeInv, TypeOK, ReadOwnership, requests, records
  <2> QED
    BY <1>1, <1>4, <2>2, <2>3, WorkingKeeps DEF TypeInv, ReadOwnership
<1>5. CASE Model(x)
  <2>1. did' \in [Executors -> Outcomes] /\ audited' \subseteq Messages
    BY <1>1, <1>2, <1>5 DEF TypeInv, TypeOK, Model, Conclude
  <2>2. \E point \in Points : Goto(x, point)
    BY <1>2, <1>5 DEF Model, Conclude
  <2>3. TypeOK'
    BY <1>5, <2>1, <2>2, GotoType DEF TypeInv, TypeOK, Model, requests
  <2> QED
    BY <1>1, <1>5, <2>2, <2>3, WorkingKeeps DEF TypeInv, Model
<1>6. CASE Reply(x)
  BY <1>1, <1>2, <1>3, <1>6, GotoType, WorkingKeeps
     DEF TypeInv, TypeOK, Reply, requests, records, locals
<1>7. CASE Attribute(x)
  <2>1. /\ did' \in [Executors -> Outcomes] /\ audited' \subseteq Messages
        /\ attributed' \subseteq Messages
        /\ failed' \subseteq Messages /\ faults' \in 0..MaxFaults
    BY <1>1, <1>2, <1>7, FaultType DEF TypeInv, TypeOK, Attribute, Conclude, NoFault
  <2>2. Goto(x, "decide")
    BY <1>7 DEF Attribute, Conclude
  <2>3. TypeOK'
    BY <1>2, <1>7, <2>1, <2>2, GotoType DEF TypeInv, TypeOK, Attribute, requests
  <2> QED
    BY <1>1, <1>2, <1>7, <2>2, <2>3, WorkingKeeps DEF TypeInv, Attribute
<1>8. CASE Act(x)
  <2>1. /\ did' \in [Executors -> Outcomes] /\ audited' \subseteq Messages
        /\ effects' \in [Messages -> Nat]
        /\ failed' \subseteq Messages /\ faults' \in 0..MaxFaults
    BY <1>1, <1>2, <1>3, <1>8, FaultType DEF TypeInv, TypeOK, Act, Conclude, NoFault
  <2>2. Goto(x, "decide")
    BY <1>8 DEF Act, Conclude
  <2>3. TypeOK'
    BY <1>2, <1>8, <2>1, <2>2, GotoType DEF TypeInv, TypeOK, Act, requests
  <2> QED
    BY <1>1, <1>2, <1>8, <2>2, <2>3, WorkingKeeps DEF TypeInv, Act
<1>9. CASE Decide(x)
  <2>1. audited' \subseteq Messages
    BY <1>1, <1>9 DEF TypeInv, TypeOK, Decide
  <2>2. CASE x \in Handlers
    BY <1>1, <1>3, <1>9, <2>1, <2>2, Answer200Type, WorkingKeeps
       DEF TypeInv, TypeOK, Decide, Answer200
  <2>3. CASE x \notin Handlers
    BY <1>1, <1>2, <1>3, <1>9, <2>1, <2>3, GotoType, WorkingKeeps
       DEF TypeInv, TypeOK, Decide, locals
  <2> QED
    BY <2>2, <2>3
<1>10. CASE DecisionFails(x)
  <2>1. /\ effects' \in [Messages -> Nat] /\ attributed' \subseteq Messages
        /\ event' \in [Messages -> Outcomes] /\ shown' \in [Messages -> Outcomes]
    BY <1>1, <1>3, <1>10 DEF TypeInv, TypeOK, DecisionFails
  <2>2. \E point \in Points : Goto(x, point)
    BY <1>2, <1>10 DEF DecisionFails
  <2>3. TypeOK'
    BY <1>1, <1>10, <2>1, <2>2, GotoType, FaultType
       DEF TypeInv, TypeOK, DecisionFails, requests, locals
  <2> QED
    BY <1>1, <1>10, <2>2, <2>3, WorkingKeeps DEF TypeInv, DecisionFails, locals
<1> QED
  BY <1>4, <1>5, <1>6, <1>7, <1>8, <1>9, <1>10 DEF DecisionStep

LEMMA DeliverKeeps ==
    ASSUME TypeInv, NEW h \in Handlers, NEW m \in Messages, Deliver(h, m)
    PROVE  TypeInv'
<1>1. h \in Executors /\ "claim" \in Points
  BY DEF Executors, Points, Receiving
<1>2. TypeOK'
  BY <1>1, GotoType DEF TypeInv, TypeOK, Deliver, requests, records
<1>3. BusyHasMessage'
  BY <1>1 DEF TypeInv, TypeOK, BusyHasMessage, Deliver, Goto
<1> QED
  BY <1>2, <1>3 DEF TypeInv

LEMMA JobKeeps ==
    ASSUME TypeInv, NEW w \in Workers,
           \/ \E m \in Messages : TakeJob(w, m)
           \/ Complete(w) \/ CompleteFails(w) \/ FailJob(w) \/ FailJobFails(w)
    PROVE  TypeInv'
<1>1. w \in Executors /\ "own" \in Points /\ "fail" \in Points
  BY DEF Executors, Points, Deciding
<1>2. CASE \E m \in Messages : TakeJob(w, m)
  <2> PICK m \in Messages : TakeJob(w, m)
    BY <1>2
  <2>1. TypeOK'
    BY <1>1, GotoType DEF TypeInv, TypeOK, TakeJob, requests, records
  <2>2. BusyHasMessage'
    BY <1>1 DEF TypeInv, TypeOK, BusyHasMessage, TakeJob, Goto
  <2> QED
    BY <2>1, <2>2 DEF TypeInv
<1>3. CASE Complete(w) \/ CompleteFails(w) \/ FailJob(w) \/ FailJobFails(w)
  <2>1. pc[w] # "idle" /\ msg[w] \in Messages
    BY <1>1, <1>3 DEF TypeInv, BusyHasMessage, At, Complete, CompleteFails, FailJob,
                      FailJobFails
  <2>2. BusyHasMessage'
    BY <1>1, <1>3, <2>1, WorkingKeeps
       DEF Complete, CompleteFails, FailJob, FailJobFails, locals
  <2>3. job' \in [Messages -> {"none", "queued", "running", "completed", "dead"}]
    BY <1>3, <2>1 DEF TypeInv, TypeOK, Complete, CompleteFails, FailJob, FailJobFails
  <2>4. failed' \subseteq Messages /\ faults' \in 0..MaxFaults
    BY <1>3, <2>1, FaultType
       DEF TypeInv, TypeOK, Complete, CompleteFails, FailJob, FailJobFails, NoFault
  <2>5. \/ Over(w)
        \/ Goto(w, "fail") /\ UNCHANGED locals
    BY <1>3 DEF Complete, CompleteFails, FailJob, FailJobFails
  <2>6. UNCHANGED <<durable, requests, attempts, owner, effects, records>>
    BY <1>3 DEF Complete, CompleteFails, FailJob, FailJobFails
  <2>7. CASE Over(w)
    BY <1>1, <2>2, <2>3, <2>4, <2>6, <2>7, OverType
       DEF TypeInv, TypeOK, requests, records
  <2>8. CASE Goto(w, "fail") /\ UNCHANGED locals
    BY <1>1, <2>2, <2>3, <2>4, <2>6, <2>8, GotoType
       DEF TypeInv, TypeOK, requests, records, locals
  <2> QED
    BY <2>5, <2>7, <2>8
<1> QED
  BY <1>2, <1>3

LEMMA CrashKeeps ==
    ASSUME TypeInv, NEW x \in Executors, Crash(x)
    PROVE  TypeInv'
<1>1. pc[x] # "idle" /\ msg[x] \in Messages
  BY DEF TypeInv, BusyHasMessage, Crash
<1>2. TypeOK'
  BY <1>1, FaultType, OverType DEF TypeInv, TypeOK, Crash, requests, records
<1> QED
  BY <1>1, <1>2, WorkingKeeps DEF TypeInv, Crash

LEMMA OthersKeep ==
    ASSUME TypeInv,
           \/ ChangeOwner
           \/ \E m \in Messages : Observe(m) \/ LeaseExpires(m)
           \/ UNCHANGED vars
    PROVE  TypeInv'
<1>1. BusyHasMessage'
  BY DEF TypeInv, BusyHasMessage, ChangeOwner, Observe, LeaseExpires, locals, vars
<1>2. CASE ChangeOwner
  <2>1. owner' \in [state : {"AI_ACTIVE", "HUMAN_ACTIVE"}, version : 0..MaxMoves]
    BY <1>2, InboundConstants DEF TypeInv, TypeOK, ChangeOwner
  <2> QED
    BY <1>1, <1>2, <2>1
       DEF TypeInv, TypeOK, ChangeOwner, requests, records, locals
<1>3. CASE \E m \in Messages : Observe(m)
  BY <1>1, <1>3 DEF TypeInv, TypeOK, Observe, records, locals
<1>4. CASE \E m \in Messages : LeaseExpires(m)
  BY <1>1, <1>4, FaultType
     DEF TypeInv, TypeOK, LeaseExpires, NoFault, requests, records, locals
<1>5. CASE UNCHANGED vars
  BY <1>1, <1>5 DEF TypeInv, TypeOK, vars, requests, records, locals
<1> QED
  BY <1>2, <1>3, <1>4, <1>5

LEMMA TypesKept == TypeInv /\ [Next]_vars => TypeInv'
<1> SUFFICES ASSUME TypeInv, [Next]_vars PROVE TypeInv'
  OBVIOUS
<1> Handlers \subseteq Executors /\ Workers \subseteq Executors
  BY DEF Executors
<1> QED
  BY RequestKeeps, DecisionKeeps, DeliverKeeps, JobKeeps, CrashKeeps, OthersKeep
     DEF Next, Serve, Work

(* Every state is of its type, and whoever is at work has a message.       *)
THEOREM InboundTypes == Spec => []TypeInv
<1>1. TypeInv /\ [Next]_vars => TypeInv'
  BY TypesKept
<1> QED
  BY InitTypeInv, <1>1, PTL DEF Spec
------------------------------------------------------------------------------
(* Who is between reading the ownership and speaking read it in the past,  *)
(* and before the takeover if there has been one.                          *)
Speaking == {"model", "reply", "act"}

SeenIsPast ==
    \A x \in Executors :
        At(x, Speaking) =>
            /\ seen[x] <= owner.version
            /\ owner.state = "HUMAN_ACTIVE" => seen[x] < owner.version

(* Nobody but ReadOwnership lets an executor speak.                        *)
LEMMA OthersDoNotSpeak ==
    ASSUME TypeInv, [Next]_vars, NEW x \in Executors, ~ReadOwnership(x), At(x, Speaking)'
    PROVE  At(x, Speaking) /\ seen'[x] = seen[x]
<1> Handlers \subseteq Executors /\ Workers \subseteq Executors
  BY DEF Executors
<1> USE DEF TypeInv, TypeOK, At, Speaking, Goto
<1>1. CASE ChangeOwner \/ UNCHANGED vars
  BY <1>1 DEF ChangeOwner, vars, locals
<1>2. CASE \E m \in Messages : Observe(m) \/ LeaseExpires(m)
  BY <1>2 DEF Observe, LeaseExpires, locals
<1>3. CASE \E h \in Handlers, m \in Messages : Deliver(h, m)
  BY <1>3 DEF Deliver
<1>4. CASE \E h \in Handlers :
              \/ Claim(h) \/ Persist(h) \/ Enqueue(h) \/ Release(h)
              \/ ClaimFails(h) \/ PersistFails(h) \/ EnqueueFails(h) \/ ReleaseFails(h)
  BY <1>4 DEF Claim, Persist, Enqueue, Release, ClaimFails, PersistFails, EnqueueFails,
              ReleaseFails, Answer200, Over, locals
<1>5. CASE \E y \in Executors : DecisionStep(y)
  <2> PICK y \in Executors : DecisionStep(y)
    BY <1>5
  <2>1. CASE ReadOwnership(y)
    BY <2>1 DEF ReadOwnership
  <2>2. CASE Model(y)
    BY <2>2 DEF Model, Conclude
  <2>3. CASE Reply(y) \/ Attribute(y) \/ Act(y)
    BY <2>3 DEF Reply, Attribute, Act, Conclude, locals
  <2>4. CASE Decide(y)
    BY <2>4 DEF Decide, Answer200, Over, locals
  <2> QED
    BY <2>1, <2>2, <2>3, <2>4 DEF DecisionStep
<1>6. CASE \E w \in Workers :
              \/ \E m \in Messages : TakeJob(w, m)
              \/ Complete(w) \/ CompleteFails(w) \/ FailJob(w) \/ FailJobFails(w)
  BY <1>6 DEF TakeJob, Complete, CompleteFails, FailJob, FailJobFails, Over, locals
<1>7. CASE \E y \in Executors : DecisionFails(y) \/ Crash(y)
  BY <1>7 DEF DecisionFails, Crash, Over, locals
<1> QED
  BY <1>1, <1>2, <1>3, <1>4, <1>5, <1>6, <1>7 DEF Next, Serve, Work

(* Only ChangeOwner moves the ownership, and a takeover adds a version.    *)
LEMMA OwnerMoves ==
    ASSUME TypeInv, [Next]_vars
    PROVE  \/ UNCHANGED owner
           \/ ChangeOwner
BY DEF Next, vars, Observe, LeaseExpires, Deliver, Serve, Claim, ClaimFails, Persist,
       PersistFails, Enqueue, EnqueueFails, Release, ReleaseFails, Work, DecisionStep,
       ReadOwnership, Model, Reply, Attribute, Act, Decide, DecisionFails, TakeJob,
       Complete, CompleteFails, FailJob, FailJobFails, Crash

LEMMA SeenKept == TypeInv /\ SeenIsPast /\ [Next]_vars => SeenIsPast'
<1> SUFFICES ASSUME TypeInv, SeenIsPast, [Next]_vars,
                    NEW x \in Executors, At(x, Speaking)'
             PROVE  /\ seen'[x] <= owner'.version
                    /\ owner'.state = "HUMAN_ACTIVE" => seen'[x] < owner'.version
  BY DEF SeenIsPast, At
<1>1. CASE ReadOwnership(x)
  BY <1>1 DEF TypeInv, TypeOK, ReadOwnership, At, Goto, Speaking
<1>2. CASE ~ReadOwnership(x)
  <2>1. At(x, Speaking) /\ seen'[x] = seen[x]
    BY <1>2, OthersDoNotSpeak
  <2>2. /\ seen[x] <= owner.version
        /\ owner.state = "HUMAN_ACTIVE" => seen[x] < owner.version
    BY <2>1 DEF SeenIsPast
  <2>3. seen[x] \in Nat /\ owner.version \in Nat
    BY InboundConstants DEF TypeInv, TypeOK
  <2>4. CASE UNCHANGED owner
    BY <2>1, <2>2, <2>4
  <2>5. CASE ChangeOwner
    BY <2>1, <2>2, <2>3, <2>5 DEF ChangeOwner
  <2> QED
    BY <2>4, <2>5, OwnerMoves
<1> QED
  BY <1>1, <1>2

(* After a takeover no message gets a reply or an action from a decision   *)
(* that had not read the ownership before: ReadOwnership comes before the  *)
(* model on every path, redelivered, retried or first.                     *)
THEOREM TakeoverSilencesNewDecisions == Spec => []OnlyBegunTurnsSpeak
<1>1. Init => SeenIsPast
  BY DEF Init, SeenIsPast, At, Speaking
<1>2. SeenIsPast => OnlyBegunTurnsSpeak
  BY DEF SeenIsPast, OnlyBegunTurnsSpeak, At, Speaking
<1> QED
  BY InboundTypes, SeenKept, <1>1, <1>2, PTL DEF Spec
------------------------------------------------------------------------------
(* Why a message has one decider: a request goes on only with the message's *)
(* claim, a worker only with its job, and jobs exist only where requests do *)
(* not decide.  Claim and lease are given up early only for failed messages. *)
Holds(x) == pc[x] \notin {"idle", "claim"}

HeldOnce(S) ==
    \A x, y \in S :
        Holds(x) /\ Holds(y) /\ msg[x] = msg[y] /\ msg[x] \notin failed => x = y

RequestsHaveClaims ==
    \A h \in Handlers :
        /\ pc[h] \notin {"complete", "fail"}
        /\ Holds(h) => msg[h] \in claimed \cup failed
        /\ pc[h] = "release" => msg[h] \in failed
        /\ pc[h] \in Deciding => ~durable
        /\ pc[h] = "enqueue" => durable

WorkersHaveJobs ==
    \A w \in Workers :
        /\ pc[w] \in Deciding \cup {"idle", "complete", "fail"}
        /\ Holds(w) => job[msg[w]] = "running" \/ msg[w] \in failed
        /\ pc[w] = "fail" => msg[w] \in failed
        /\ Holds(w) => durable

JobsAreDurable == \A m \in Messages : job[m] # "none" => durable

HolderInv ==
    /\ HeldOnce(Handlers) /\ HeldOnce(Workers)
    /\ RequestsHaveClaims /\ WorkersHaveJobs
    /\ JobsAreDurable

LEMMA HolderInvInit == Init => HolderInv
BY DEF Init, HolderInv, HeldOnce, RequestsHaveClaims, WorkersHaveJobs, JobsAreDurable,
       Holds, Deciding, Executors

LEMMA HoldersDecideAlone == TypeInv /\ HolderInv => OneDeciderPerMessage
<1> SUFFICES ASSUME TypeInv, HolderInv, NEW x \in Executors, NEW y \in Executors,
                    At(x, Deciding), At(y, Deciding), msg[x] = msg[y],
                    msg[x] \notin failed
             PROVE  x = y
  BY DEF OneDeciderPerMessage
<1>1. Holds(x) /\ Holds(y)
  BY DEF Holds, At, Deciding
<1>2. CASE x \in Handlers /\ y \in Handlers
  BY <1>1, <1>2 DEF HolderInv, HeldOnce
<1>3. CASE x \in Workers /\ y \in Workers
  BY <1>1, <1>3 DEF HolderInv, HeldOnce
<1>4. ASSUME NEW h \in Handlers, NEW w \in Workers, pc[h] \in Deciding, Holds(w)
      PROVE  FALSE
  BY <1>4 DEF HolderInv, RequestsHaveClaims, WorkersHaveJobs
<1> QED
  BY <1>1, <1>2, <1>3, <1>4 DEF At, Executors

(* Every step but Claim and TakeJob: no one comes to hold a message, and no *)
(* claim or job is lost but by a failure or by its holder's leaving.        *)
Quiet ==
    /\ durable' = durable
    /\ failed \subseteq failed'
    /\ \A z \in Executors : Holds(z)' => Holds(z) /\ msg'[z] = msg[z]
    /\ \A h \in Handlers :
           /\ pc'[h] \notin {"complete", "fail"}
           /\ Holds(h)' => msg[h] \in claimed' \cup failed'
           /\ pc'[h] = "release" => msg[h] \in failed'
           /\ pc'[h] \in Deciding => ~durable
           /\ pc'[h] = "enqueue" => durable
    /\ \A w \in Workers :
           /\ pc'[w] \in Deciding \cup {"idle", "complete", "fail"}
           /\ Holds(w)' => job'[msg[w]] = "running" \/ msg[w] \in failed'
           /\ pc'[w] = "fail" => msg[w] \in failed'
    /\ \A m \in Messages : job'[m] # "none" => durable

LEMMA QuietKeeps == HolderInv /\ Quiet => HolderInv'
<1> SUFFICES ASSUME HolderInv, Quiet PROVE HolderInv'
  OBVIOUS
<1> Handlers \subseteq Executors /\ Workers \subseteq Executors
  BY DEF Executors
<1>1. HeldOnce(Handlers)' /\ HeldOnce(Workers)'
  BY DEF HolderInv, Quiet, HeldOnce, Holds
<1>2. RequestsHaveClaims'
  <2> SUFFICES ASSUME NEW h \in Handlers
               PROVE  /\ pc'[h] \notin {"complete", "fail"}
                      /\ Holds(h)' => msg'[h] \in claimed' \cup failed'
                      /\ pc'[h] = "release" => msg'[h] \in failed'
                      /\ pc'[h] \in Deciding => ~durable'
                      /\ pc'[h] = "enqueue" => durable'
    BY DEF RequestsHaveClaims, Holds
  <2> QED
    BY DEF Quiet, Holds
<1>3. WorkersHaveJobs'
  <2> SUFFICES ASSUME NEW w \in Workers
               PROVE  /\ pc'[w] \in Deciding \cup {"idle", "complete", "fail"}
                      /\ Holds(w)' => job'[msg'[w]] = "running" \/ msg'[w] \in failed'
                      /\ pc'[w] = "fail" => msg'[w] \in failed'
                      /\ Holds(w)' => durable'
    BY DEF WorkersHaveJobs, Holds
  <2>1. Holds(w)' => durable'
    BY DEF Quiet, HolderInv, WorkersHaveJobs
  <2> QED
    BY <2>1 DEF Quiet, Holds
<1>4. JobsAreDurable'
  BY DEF Quiet, JobsAreDurable
<1> QED
  BY <1>1, <1>2, <1>3, <1>4 DEF HolderInv

(* Claim and TakeJob apart, every step is quiet.                           *)
LEMMA RequestIsQuiet ==
    ASSUME TypeInv, HolderInv, NEW h \in Handlers,
           \/ \E m \in Messages : Deliver(h, m)
           \/ Claim(h) /\ msg[h] \in claimed
           \/ Persist(h) \/ Enqueue(h) \/ Release(h)
           \/ ClaimFails(h) \/ PersistFails(h) \/ EnqueueFails(h) \/ ReleaseFails(h)
    PROVE  Quiet
<1> h \in Executors /\ h \notin Workers
  BY InboundConstants DEF Executors
<1> Handlers \subseteq Executors /\ Workers \subseteq Executors
  BY DEF Executors
<1> USE DEF TypeInv, TypeOK, HolderInv, RequestsHaveClaims, WorkersHaveJobs,
            JobsAreDurable, Quiet, Holds, Goto, At, Deciding
<1>1. CASE \E m \in Messages : Deliver(h, m)
  BY <1>1 DEF Deliver, requests
<1>2. CASE Claim(h) /\ msg[h] \in claimed
  BY <1>2 DEF Claim, Answer200, Over
<1>3. CASE Persist(h)
  BY <1>3 DEF Persist, locals
<1>4. CASE Enqueue(h)
  BY <1>4 DEF Enqueue, Queued, Answer200, Over
<1>5. CASE Release(h)
  BY <1>5 DEF Release, Answer200, Over, HeldOnce
<1>6. CASE ClaimFails(h)
  BY <1>6 DEF ClaimFails, Fault, Over
<1>7. CASE PersistFails(h)
  BY <1>7 DEF PersistFails, Fault, locals
<1>8. CASE EnqueueFails(h)
  <2>1. durable /\ \A m \in Messages : job[m] = "running" => job'[m] = "running"
    BY <1>8 DEF EnqueueFails, Queued
  <2>2. /\ pc' = [pc EXCEPT ![h] = "release"]
        /\ UNCHANGED <<durable, claimed, msg>>
        /\ failed' = failed \cup {msg[h]}
    BY <1>8 DEF EnqueueFails, Fault, requests, locals
  <2>3. \A w \in Workers : Holds(w) => msg[w] \in Messages
    BY DEF BusyHasMessage
  <2>4. \A w \in Workers :
           Holds(w)' => Holds(w) /\ (job'[msg[w]] = "running" \/ msg[w] \in failed')
    BY <2>1, <2>2, <2>3
  <2>5. \A z \in Executors : Holds(z)' => Holds(z) /\ msg'[z] = msg[z]
    BY <1>8, <2>2 DEF EnqueueFails
  <2> QED
    BY <2>1, <2>2, <2>4, <2>5
<1>9. CASE ReleaseFails(h)
  BY <1>9 DEF ReleaseFails, Fault, Over, requests
<1> QED
  BY <1>1, <1>2, <1>3, <1>4, <1>5, <1>6, <1>7, <1>8, <1>9

LEMMA DecisionIsQuiet ==
    ASSUME TypeInv, HolderInv, NEW x \in Executors,
           DecisionStep(x) \/ DecisionFails(x) \/ Crash(x)
    PROVE  Quiet
<1> Handlers \subseteq Executors /\ Workers \subseteq Executors
  BY DEF Executors
<1> Handlers \cap Workers = {} /\ (x \in Handlers \/ x \in Workers)
  BY InboundConstants DEF Executors
<1> USE DEF TypeInv, TypeOK, HolderInv, RequestsHaveClaims, WorkersHaveJobs,
            JobsAreDurable, Quiet, Holds, Goto, At, Deciding
<1>1. CASE ReadOwnership(x)
  BY <1>1 DEF ReadOwnership, requests
<1>2. CASE Model(x)
  BY <1>2 DEF Model, Conclude, requests
<1>3. CASE Reply(x)
  BY <1>3 DEF Reply, requests, locals
<1>4. CASE Attribute(x)
  BY <1>4 DEF Attribute, Conclude, NoFault, Fault, requests
<1>5. CASE Act(x)
  BY <1>5 DEF Act, Conclude, NoFault, Fault, requests
<1>6. CASE Decide(x)
  BY <1>6 DEF Decide, Answer200, Over, locals
<1>7. CASE DecisionFails(x)
  BY <1>7 DEF DecisionFails, Fault, requests, locals
<1>8. CASE Crash(x)
  BY <1>8 DEF Crash, Fault, Over, requests
<1> QED
  BY <1>1, <1>2, <1>3, <1>4, <1>5, <1>6, <1>7, <1>8 DEF DecisionStep

LEMMA JobEndIsQuiet ==
    ASSUME TypeInv, HolderInv, NEW w \in Workers,
           Complete(w) \/ CompleteFails(w) \/ FailJob(w) \/ FailJobFails(w)
    PROVE  Quiet
<1> Handlers \subseteq Executors /\ Workers \subseteq Executors
  BY DEF Executors
<1> w \notin Handlers
  BY InboundConstants
<1>1. pc[w] \in {"complete", "fail"} /\ Holds(w) /\ durable /\ msg[w] \in Messages
  BY DEF TypeInv, BusyHasMessage, HolderInv, WorkersHaveJobs, Holds, Complete,
         CompleteFails, FailJob, FailJobFails, At
<1>2. \A v \in Workers \ {w} : Holds(v) /\ msg[v] = msg[w] => msg[v] \in failed
  BY <1>1 DEF HolderInv, HeldOnce
<1> USE DEF TypeInv, TypeOK, HolderInv, RequestsHaveClaims, WorkersHaveJobs,
            JobsAreDurable, Quiet, Holds, Goto, At, Deciding
<1>3. CASE Complete(w)
  <2>1. CASE Over(w) /\ NoFault
    BY <1>1, <1>2, <1>3, <2>1 DEF Complete, Over, NoFault, requests
  <2>2. CASE Goto(w, "fail") /\ UNCHANGED locals /\ Fault(msg[w])
    BY <1>1, <1>2, <1>3, <2>2 DEF Complete, Fault, requests, locals
  <2> QED
    BY <1>3, <2>1, <2>2 DEF Complete
<1>4. CASE CompleteFails(w)
  BY <1>4 DEF CompleteFails, Fault, requests, locals
<1>5. CASE FailJob(w)
  BY <1>1, <1>2, <1>5 DEF FailJob, Over, requests
<1>6. CASE FailJobFails(w)
  BY <1>6 DEF FailJobFails, Fault, Over, requests
<1> QED
  BY <1>3, <1>4, <1>5, <1>6

LEMMA OthersAreQuiet ==
    ASSUME TypeInv, HolderInv,
           \/ ChangeOwner
           \/ \E m \in Messages : Observe(m) \/ LeaseExpires(m)
           \/ UNCHANGED vars
    PROVE  Quiet
<1> Handlers \subseteq Executors /\ Workers \subseteq Executors
  BY DEF Executors
<1> USE DEF TypeInv, TypeOK, HolderInv, RequestsHaveClaims, WorkersHaveJobs,
            JobsAreDurable, Quiet, Holds
<1>1. CASE ChangeOwner \/ UNCHANGED vars
  BY <1>1 DEF ChangeOwner, vars, requests, locals
<1>2. CASE \E m \in Messages : Observe(m)
  BY <1>2 DEF Observe, locals
<1>3. CASE \E m \in Messages : LeaseExpires(m)
  BY <1>3 DEF LeaseExpires, Holders, NoFault, Fault, requests, locals
<1> QED
  BY <1>1, <1>2, <1>3

(* The claim is new, so that no request holds the message already.         *)
LEMMA ClaimKeepsHolders ==
    ASSUME TypeInv, HolderInv, NEW h \in Handlers, Claim(h), msg[h] \notin claimed
    PROVE  HolderInv'
<1> Handlers \subseteq Executors /\ Workers \subseteq Executors /\ h \notin Workers
  BY InboundConstants DEF Executors
<1>1. /\ pc' = [pc EXCEPT ![h] = "persist"]
      /\ claimed' = claimed \cup {msg[h]}
      /\ UNCHANGED <<durable, job, msg, failed>>
  BY DEF Claim, Goto, locals
<1>2. HeldOnce(Handlers)' /\ HeldOnce(Workers)'
  BY <1>1 DEF TypeInv, TypeOK, HolderInv, HeldOnce, RequestsHaveClaims, Holds
<1>3. RequestsHaveClaims' /\ WorkersHaveJobs' /\ JobsAreDurable'
  BY <1>1 DEF TypeInv, TypeOK, HolderInv, RequestsHaveClaims, WorkersHaveJobs,
              JobsAreDurable, Holds, Deciding
<1> QED
  BY <1>2, <1>3 DEF HolderInv

(* The job is queued, so that no worker holds it already.                  *)
LEMMA TakeJobKeepsHolders ==
    ASSUME TypeInv, HolderInv, NEW w \in Workers, NEW m \in Messages, TakeJob(w, m)
    PROVE  HolderInv'
<1> Handlers \subseteq Executors /\ Workers \subseteq Executors /\ w \notin Handlers
  BY InboundConstants DEF Executors
<1>1. /\ pc' = [pc EXCEPT ![w] = "own"]
      /\ msg' = [msg EXCEPT ![w] = m]
      /\ job' = [job EXCEPT ![m] = "running"]
      /\ job[m] = "queued"
      /\ UNCHANGED <<durable, claimed, failed>>
  BY DEF TakeJob, Goto, requests
<1>2. HeldOnce(Handlers)' /\ HeldOnce(Workers)'
  BY <1>1 DEF TypeInv, TypeOK, HolderInv, HeldOnce, WorkersHaveJobs, Holds
<1>3. RequestsHaveClaims' /\ JobsAreDurable'
  BY <1>1 DEF TypeInv, TypeOK, HolderInv, RequestsHaveClaims, JobsAreDurable, Holds,
              Deciding
<1>4. WorkersHaveJobs'
  BY <1>1 DEF TypeInv, TypeOK, BusyHasMessage, HolderInv, WorkersHaveJobs,
              JobsAreDurable, Holds, Deciding
<1> QED
  BY <1>2, <1>3, <1>4 DEF HolderInv

LEMMA HoldersKept == TypeInv /\ HolderInv /\ [Next]_vars => HolderInv'
<1> SUFFICES ASSUME TypeInv, HolderInv, [Next]_vars PROVE HolderInv'
  OBVIOUS
<1> Handlers \subseteq Executors /\ Workers \subseteq Executors
  BY DEF Executors
<1>1. \/ Quiet
      \/ \E h \in Handlers : Claim(h) /\ msg[h] \notin claimed
      \/ \E w \in Workers, m \in Messages : TakeJob(w, m)
  BY RequestIsQuiet, DecisionIsQuiet, JobEndIsQuiet, OthersAreQuiet DEF Next, Serve, Work
<1> QED
  BY <1>1, QuietKeeps, ClaimKeepsHolders, TakeJobKeepsHolders

(* However often a message is delivered, and however many workers poll, it *)
(* is decided by one executor at a time, as long as no call made for it    *)
(* failed, no process died over it and no lease ran out under it.          *)
THEOREM OneDecider == Spec => []IInv
<1>1. TypeInv => TypeOK
  BY DEF TypeInv
<1> QED
  BY InboundTypes, HolderInvInit, HoldersKept, HoldersDecideAlone, <1>1, PTL
     DEF Spec, IInv------------------------------------------------------------------------------
(* Why the records tell what happened: a message that nothing went wrong   *)
(* for is decided in one pass, which finds nothing done for it and leaves  *)
(* each record behind it.                                                  *)
Fresh(m) == effects[m] = 0 /\ event[m] = "none" /\ shown[m] = "none"
Unsettled(m) == event[m] = "none" /\ shown[m] = "none"

Told(m) ==
    /\ effects[m] = IF shown[m] \in {"reply", "act"} THEN 1 ELSE 0
    /\ durable => event[m] = shown[m]
    /\ shown[m] = "reply" => m \in attributed
    /\ m \in recorded \cap audited

(* What the executor x of the message m has done by the point it is at.    *)
Before(x) == pc[x] \in {"own", "model", "reply", "act"} \/ (pc[x] = "persist" /\ ~durable)

Passes(x, m) ==
    /\ pc[x] \in Deciding \cup {"enqueue"} => m \in recorded
    /\ Before(x) => Fresh(m)
    /\ pc[x] = "attribute" => effects[m] = 1 /\ Unsettled(m)
    /\ pc[x] = "decide" =>
           /\ Unsettled(m) /\ did[x] # "none"
           /\ effects[m] = IF did[x] \in {"reply", "act"} THEN 1 ELSE 0
           /\ did[x] = "reply" => m \in attributed

Working(w, m) == pc[w] # "idle" /\ msg[w] = m

Tells(m) ==
    /\ ~durable /\ m \notin claimed => Fresh(m)
    /\ durable /\ job[m] \in {"none", "queued"} => Fresh(m)
    /\ job[m] # "none" => m \in recorded
    /\ job[m] = "running" => \E w \in Workers : Working(w, m)
    /\ \A x \in Executors : msg[x] = m => Passes(x, m)
    /\ shown[m] # "none" => Told(m)

TellInv == \A m \in Messages \ failed : Tells(m)
LEMMA InitTells == Init => TellInv
<1> SUFFICES ASSUME Init, NEW m \in Messages PROVE Tells(m)
  BY DEF TellInv
<1>1. Fresh(m) /\ job[m] = "none" /\ shown[m] = "none"
  BY DEF Init, Fresh
<1>2. \A x \in Executors : pc[x] = "idle"
  BY DEF Init
<1>3. \A x \in Executors : Passes(x, m)
  BY <1>2 DEF Passes, Before, Deciding
<1> QED
  BY <1>1, <1>3 DEF Tells

LEMMA TellingIsTrue == TypeInv /\ TellInv => RecordsTellWhatHappened
BY DEF TypeInv, TypeOK, TellInv, Tells, Told, RecordsTellWhatHappened

(* A step that does not get nearer to deciding m, nor undoes anything.     *)
Apart(m) ==
    /\ UNCHANGED durable
    /\ effects'[m] = effects[m] /\ event'[m] = event[m] /\ shown'[m] = shown[m]
    /\ m \in attributed => m \in attributed'
    /\ m \in recorded => m \in recorded'
    /\ m \in audited => m \in audited'
    /\ m \in claimed => m \in claimed'
    /\ job'[m] \in {"none", "queued"} => job[m] \in {"none", "queued"}
    /\ job'[m] # "none" => job[m] # "none"
    /\ job'[m] = "running" =>
           job[m] = "running" /\ \A w \in Workers : Working(w, m) => Working(w, m)'
    /\ \A x \in Executors :
           msg'[x] = m /\ pc'[x] \in Deciding \cup {"enqueue", "persist"} =>
               msg[x] = m /\ pc'[x] = pc[x] /\ did'[x] = did[x]

LEMMA ApartKeeps == ASSUME NEW m \in Messages, Tells(m), Apart(m) PROVE Tells(m)'
<1>1. Fresh(m)' = Fresh(m) /\ Unsettled(m)' = Unsettled(m)
  BY DEF Apart, Fresh, Unsettled
<1>2. Told(m) => Told(m)'
  BY DEF Apart, Told
<1>3. ASSUME NEW x \in Executors, msg'[x] = m
      PROVE  Passes(x, m)'
  <2>1. CASE pc'[x] \in Deciding \cup {"enqueue", "persist"}
    <3>1. msg[x] = m /\ pc'[x] = pc[x] /\ did'[x] = did[x]
      BY <1>3, <2>1 DEF Apart
    <3>2. Passes(x, m)
      BY <3>1 DEF Tells
    <3> QED
      BY <1>1, <3>1, <3>2 DEF Passes, Before, Apart
  <2>2. CASE pc'[x] \notin Deciding \cup {"enqueue", "persist"}
    BY <2>2 DEF Passes, Before, Deciding
  <2> QED
    BY <2>1, <2>2
<1>4. job'[m] = "running" => \E w \in Workers : Working(w, m)'
  BY DEF Apart, Tells
<1> QED
  BY <1>1, <1>2, <1>3, <1>4 DEF Apart, Tells

(* Steps by those that have another message, and steps for a message that  *)
(* something went wrong for.                                               *)
LEMMA RequestsOfOthers ==
    ASSUME TypeInv, NEW h \in Handlers, NEW m \in Messages, m # msg[h],
           \/ Claim(h) \/ Persist(h) \/ Enqueue(h) \/ Release(h)
           \/ ClaimFails(h) \/ PersistFails(h) \/ EnqueueFails(h) \/ ReleaseFails(h)
    PROVE  Apart(m)
<1> h \in Executors /\ h \notin Workers /\ msg[h] # m /\ NoMessage # m
  BY InboundConstants DEF Executors
<1> Handlers \subseteq Executors /\ Workers \subseteq Executors
  BY DEF Executors
<1> USE DEF TypeInv, TypeOK, Apart, Working, Goto, At
<1>1. CASE Claim(h)
  BY <1>1 DEF Claim, Answer200, Over, locals, records
<1>2. CASE Persist(h)
  BY <1>2 DEF Persist, locals, records
<1>3. CASE Enqueue(h)
  BY <1>3 DEF Enqueue, Queued, Answer200, Over, records
<1>4. CASE Release(h)
  BY <1>4 DEF Release, Answer200, Over, records
<1>5. CASE ClaimFails(h)
  BY <1>5 DEF ClaimFails, Over, records
<1>6. CASE PersistFails(h)
  BY <1>6 DEF PersistFails, locals, records
<1>7. CASE EnqueueFails(h)
  BY <1>7 DEF EnqueueFails, Queued, locals, records, requests
<1>8. CASE ReleaseFails(h)
  BY <1>8 DEF ReleaseFails, Over, records, requests
<1> QED
  BY <1>1, <1>2, <1>3, <1>4, <1>5, <1>6, <1>7, <1>8

LEMMA DecisionsOfOthers ==
    ASSUME TypeInv, NEW x \in Executors, NEW m \in Messages, m # msg[x],
           DecisionStep(x) \/ DecisionFails(x) \/ Crash(x)
    PROVE  Apart(m)
<1> NoMessage # m
  BY InboundConstants
<1> Handlers \subseteq Executors /\ Workers \subseteq Executors
  BY DEF Executors
<1> USE DEF TypeInv, TypeOK, Apart, Working, Goto, At
<1>1. CASE ReadOwnership(x)
  BY <1>1 DEF ReadOwnership, requests, records
<1>2. CASE Model(x)
  BY <1>2 DEF Model, Conclude, requests
<1>3. CASE Reply(x)
  BY <1>3 DEF Reply, OneMore, requests, records, locals
<1>4. CASE Attribute(x)
  BY <1>4 DEF Attribute, Conclude, requests
<1>5. CASE Act(x)
  BY <1>5 DEF Act, OneMore, Conclude, requests
<1>6. CASE Decide(x)
  BY <1>6 DEF Decide, FirstEvent, Shown, Answer200, Over, locals
<1>7. CASE DecisionFails(x)
  BY <1>7 DEF DecisionFails, OneMore, FirstEvent, Shown, requests, locals, Deciding
<1>8. CASE Crash(x)
  BY <1>8 DEF Crash, Over, requests, records
<1> QED
  BY <1>1, <1>2, <1>3, <1>4, <1>5, <1>6, <1>7, <1>8 DEF DecisionStep

LEMMA JobsOfOthers ==
    ASSUME TypeInv, NEW w \in Workers, NEW m \in Messages,
           \/ \E n \in Messages \ {m} : TakeJob(w, n)
           \/ /\ m # msg[w]
              /\ Complete(w) \/ CompleteFails(w) \/ FailJob(w) \/ FailJobFails(w)
    PROVE  Apart(m)
<1> w \in Executors /\ NoMessage # m
  BY InboundConstants DEF Executors
<1> Handlers \subseteq Executors /\ Workers \subseteq Executors
  BY DEF Executors
<1> USE DEF TypeInv, TypeOK, Apart, Working, Goto, At
<1>1. CASE \E n \in Messages \ {m} : TakeJob(w, n)
  <2> PICK n \in Messages \ {m} : TakeJob(w, n)
    BY <1>1
  <2> QED
    BY DEF TakeJob, requests, records
<1>2. CASE m # msg[w] /\ Complete(w)
  BY <1>2 DEF Complete, Over, requests, records, locals
<1>3. CASE m # msg[w] /\ CompleteFails(w)
  BY <1>3 DEF CompleteFails, requests, records, locals
<1>4. CASE m # msg[w] /\ FailJob(w)
  BY <1>4 DEF FailJob, Over, requests, records
<1>5. CASE m # msg[w] /\ FailJobFails(w)
  BY <1>5 DEF FailJobFails, Over, requests, records
<1> QED
  BY <1>1, <1>2, <1>3, <1>4, <1>5
(* Who decides a message is alone with it, and holds its claim or its job. *)
LEMMA DeciderIsAlone ==
    ASSUME TypeInv, HolderInv, NEW x \in Executors, pc[x] \in Deciding,
           msg[x] \notin failed
    PROVE  /\ \A y \in Executors \ {x} :
                  msg[y] = msg[x] => pc[y] \notin Deciding /\ ~Before(y)
           /\ x \in Handlers => ~durable /\ msg[x] \in claimed
           /\ x \in Workers => durable /\ job[msg[x]] = "running"
<1> Handlers \subseteq Executors /\ Workers \subseteq Executors
  BY DEF Executors
<1>1. Holds(x)
  BY DEF Holds, Deciding
<1>2. /\ x \in Handlers => ~durable /\ msg[x] \in claimed
      /\ x \in Workers => durable /\ job[msg[x]] = "running"
  BY <1>1 DEF HolderInv, RequestsHaveClaims, WorkersHaveJobs
<1>3. ASSUME NEW y \in Executors \ {x}, msg[y] = msg[x], pc[y] \in Deciding
      PROVE  FALSE
  BY <1>3, HoldersDecideAlone DEF OneDeciderPerMessage, At
<1>4. ASSUME NEW y \in Executors \ {x}, msg[y] = msg[x], pc[y] = "persist", ~durable
      PROVE  FALSE
  <2>1. y \in Handlers /\ Holds(y)
    BY <1>4 DEF HolderInv, WorkersHaveJobs, Executors, Holds, Deciding
  <2>2. x \in Handlers
    BY <1>2, <1>4 DEF Executors
  <2> QED
    BY <1>1, <1>4, <2>1, <2>2 DEF HolderInv, HeldOnce
<1> QED
  BY <1>2, <1>3, <1>4 DEF Before, Deciding

LEMMA DeciderTells ==
    ASSUME TypeInv, HolderInv, NEW x \in Executors, pc[x] \in Deciding,
           NEW m \in Messages \ failed, m = msg[x], Tells(m),
           UNCHANGED <<durable, claimed, job, recorded>>,
           \A y \in Executors \ {x} :
               pc'[y] = pc[y] /\ msg'[y] = msg[y] /\ did'[y] = did[y],
           x \in Workers => Working(x, m)',
           msg'[x] = m => Passes(x, m)',
           shown'[m] # "none" => Told(m)'
    PROVE  Tells(m)'
<1>1. /\ \A y \in Executors \ {x} :
             msg[y] = m => pc[y] \notin Deciding /\ ~Before(y)
      /\ x \in Handlers => ~durable /\ m \in claimed
      /\ x \in Workers => durable /\ job[m] = "running"
  BY DeciderIsAlone
<1>2. ASSUME NEW y \in Executors, msg'[y] = m
      PROVE  Passes(y, m)'
  <2>1. CASE y = x
    BY <1>2, <2>1
  <2>2. CASE y # x
    <3>1. /\ pc'[y] = pc[y] /\ pc[y] \notin Deciding /\ ~Before(y) /\ ~Before(y)'
          /\ pc[y] = "enqueue" => m \in recorded
      BY <1>1, <1>2, <2>2 DEF Before, Tells, Passes
    <3> QED
      BY <3>1 DEF Passes, Deciding
  <2> QED
    BY <2>1, <2>2
<1>3. job[m] = "running" => \E w \in Workers : Working(w, m)'
  BY DEF Tells, Working, Executors
<1>4. x \in Handlers \/ x \in Workers
  BY DEF Executors
<1> QED
  BY <1>1, <1>2, <1>3, <1>4 DEF Tells

LEMMA DecisionTells ==
    ASSUME TypeInv, HolderInv, NEW x \in Executors, DecisionStep(x),
           NEW m \in Messages \ failed', m = msg[x], m \notin failed, Tells(m)
    PROVE  Tells(m)'
<1> USE DEF TypeInv, TypeOK, At, Goto
<1>1. pc[x] \in Deciding /\ Passes(x, m)
  BY DEF DecisionStep, ReadOwnership, Model, Reply, Attribute, Act, Decide, Deciding,
         Tells
<1>2. m \in recorded /\ m \in Messages \ failed
  BY <1>1 DEF Passes
<1>4. CASE ReadOwnership(x)
  <2>1. Fresh(m)
    BY <1>1, <1>4 DEF Passes, Before, ReadOwnership
  <2>2. msg'[x] = m /\ Passes(x, m)' /\ Working(x, m)'
    BY <1>2, <1>4, <2>1
       DEF Passes, Before, Fresh, Unsettled, Working, ReadOwnership, requests, records
  <2>3. shown'[m] = "none"
    BY <1>4, <2>1 DEF Fresh, ReadOwnership, records
  <2> QED
    BY <1>1, <1>2, <1>4, <2>2, <2>3, DeciderTells DEF ReadOwnership, requests
<1>5. CASE Model(x)
  <2>1. Fresh(m)
    BY <1>1, <1>5 DEF Passes, Before, Model
  <2>2. msg'[x] = m /\ Passes(x, m)' /\ Working(x, m)'
    BY <1>2, <1>5, <2>1
       DEF Passes, Before, Fresh, Unsettled, Working, Model, Conclude, requests
  <2>3. shown'[m] = "none"
    BY <1>5, <2>1 DEF Fresh, Model
  <2> QED
    BY <1>1, <1>2, <1>5, <2>2, <2>3, DeciderTells DEF Model, Conclude, requests
<1>6. CASE Reply(x)
  <2>1. Fresh(m)
    BY <1>1, <1>6 DEF Passes, Before, Reply
  <2>2. msg'[x] = m /\ Passes(x, m)' /\ Working(x, m)'
    BY <1>2, <1>6, <2>1
       DEF Passes, Before, Fresh, Unsettled, Working, Reply, OneMore, requests, records,
           locals
  <2>3. shown'[m] = "none"
    BY <1>6, <2>1 DEF Fresh, Reply, records
  <2> QED
    BY <1>1, <1>2, <1>6, <2>2, <2>3, DeciderTells DEF Reply, requests, locals
<1>7. CASE Attribute(x)
  <2>1. effects[m] = 1 /\ Unsettled(m)
    BY <1>1, <1>7 DEF Passes, Attribute
  <2>2. m \in attributed'
    BY <1>7 DEF Attribute, Fault
  <2>3. msg'[x] = m /\ Passes(x, m)' /\ Working(x, m)'
    BY <1>2, <1>7, <2>1, <2>2
       DEF Passes, Before, Unsettled, Working, Attribute, Conclude, requests
  <2>4. shown'[m] = "none"
    BY <1>7, <2>1 DEF Unsettled, Attribute
  <2> QED
    BY <1>1, <1>2, <1>7, <2>3, <2>4, DeciderTells DEF Attribute, Conclude, requests
<1>8. CASE Act(x)
  <2>1. Fresh(m)
    BY <1>1, <1>8 DEF Passes, Before, Act
  <2>2. effects' = OneMore(m) /\ Conclude(x, "act")
    BY <1>8 DEF Act, Fault
  <2>3. msg'[x] = m /\ Passes(x, m)' /\ Working(x, m)'
    BY <1>2, <1>8, <2>1, <2>2
       DEF Passes, Before, Fresh, Unsettled, Working, Act, OneMore, Conclude, requests
  <2>4. shown'[m] = "none"
    BY <1>8, <2>1 DEF Fresh, Act
  <2> QED
    BY <1>1, <1>2, <1>8, <2>3, <2>4, DeciderTells DEF Act, Conclude, requests
<1>9. CASE Decide(x)
  <2>1. /\ Unsettled(m) /\ did[x] \in Outcomes \ {"none"}
        /\ effects[m] = IF did[x] \in {"reply", "act"} THEN 1 ELSE 0
        /\ did[x] = "reply" => m \in attributed
    BY <1>1, <1>9 DEF Passes, Decide
  <2>2. /\ shown'[m] = did[x] /\ m \in audited'
        /\ durable => event'[m] = did[x]
        /\ UNCHANGED <<durable, claimed, job, recorded, effects, attributed>>
    BY <1>2, <1>9, <2>1 DEF Decide, Shown, FirstEvent, Unsettled
  <2>3. Told(m)'
    BY <1>2, <2>1, <2>2 DEF Told
  <2>4. CASE x \in Handlers
    <3>1. /\ msg'[x] # m /\ x \notin Workers
          /\ \A y \in Executors \ {x} :
                pc'[y] = pc[y] /\ msg'[y] = msg[y] /\ did'[y] = did[y]
      BY <1>9, <2>4, InboundConstants DEF Decide, Answer200, Over
    <3> QED
      BY <1>1, <1>2, <2>2, <2>3, <3>1, DeciderTells
  <2>5. CASE x \notin Handlers
    <3>1. /\ pc' = [pc EXCEPT ![x] = "complete"] /\ UNCHANGED locals
      BY <1>9, <2>5 DEF Decide
    <3>2. Passes(x, m)' /\ Working(x, m)'
      BY <3>1 DEF Passes, Before, Working, Deciding, locals
    <3> QED
      BY <1>1, <1>2, <2>2, <2>3, <3>1, <3>2, DeciderTells DEF locals
  <2> QED
    BY <2>4, <2>5
<1> QED
  BY <1>4, <1>5, <1>6, <1>7, <1>8, <1>9 DEF DecisionStep
(* A request's own steps before the decision.                              *)
LEMMA RequestTells ==
    ASSUME TypeInv, HolderInv, NEW h \in Handlers, NEW m \in Messages \ failed,
           m = msg[h], Tells(m), Claim(h) \/ Persist(h) \/ Enqueue(h)
    PROVE  Tells(m)'
<1> h \in Executors /\ h \notin Workers /\ NoMessage # m
  BY InboundConstants DEF Executors
<1> Handlers \subseteq Executors /\ Workers \subseteq Executors
  BY DEF Executors
<1> USE DEF TypeInv, TypeOK, At, Goto
<1>1. CASE Claim(h) /\ m \in claimed
  BY <1>1, ApartKeeps DEF Claim, Answer200, Over, Apart, Working, records
<1>2. CASE Claim(h) /\ m \notin claimed
  <2>1. /\ pc' = [pc EXCEPT ![h] = "persist"] /\ m \in claimed'
        /\ UNCHANGED <<durable, job, msg, did, recorded, effects, attributed, audited,
                       event, shown>>
    BY <1>2 DEF Claim, locals, records
  <2>2. ~durable => Fresh(m)
    BY <1>2 DEF Tells
  <2>3. ASSUME NEW x \in Executors, msg'[x] = m
        PROVE  Passes(x, m)'
    <3>1. CASE x = h
      BY <2>1, <2>2, <3>1 DEF Passes, Before, Fresh, Deciding
    <3>2. CASE x # h
      <4>1. Passes(x, m) /\ pc'[x] = pc[x]
        BY <2>1, <2>3, <3>2 DEF Tells
      <4> QED
        BY <2>1, <4>1 DEF Passes, Before, Fresh, Unsettled
    <3> QED
      BY <3>1, <3>2
  <2>4. /\ job[m] = "running" => \E w \in Workers : Working(w, m)'
        /\ durable /\ job[m] \in {"none", "queued"} => Fresh(m)'
        /\ shown[m] # "none" => Told(m)'
    BY <2>1 DEF Tells, Working, Fresh, Told
  <2> QED
    BY <2>1, <2>3, <2>4 DEF Tells
<1>3. CASE Persist(h)
  <2>1. /\ \/ durable /\ pc' = [pc EXCEPT ![h] = "enqueue"]
           \/ ~durable /\ pc' = [pc EXCEPT ![h] = "own"]
        /\ m \in recorded'
        /\ UNCHANGED <<durable, claimed, job, msg, did, effects, attributed, audited,
                       event, shown>>
    BY <1>3 DEF Persist, locals, records
  <2>2. ~durable => Fresh(m)
    BY <1>3 DEF Persist, Tells, Passes, Before
  <2>3. ASSUME NEW x \in Executors, msg'[x] = m
        PROVE  Passes(x, m)'
    <3>1. CASE x = h
      BY <2>1, <2>2, <3>1 DEF Passes, Before, Fresh, Deciding
    <3>2. CASE x # h
      <4>1. Passes(x, m) /\ pc'[x] = pc[x]
        BY <2>1, <2>3, <3>2 DEF Tells
      <4> QED
        BY <2>1, <4>1 DEF Passes, Before, Fresh, Unsettled
    <3> QED
      BY <3>1, <3>2
  <2>4. /\ job[m] = "running" => \E w \in Workers : Working(w, m)'
        /\ durable /\ job[m] \in {"none", "queued"} => Fresh(m)'
        /\ ~durable /\ m \notin claimed => Fresh(m)'
        /\ shown[m] # "none" => Told(m)'
    BY <2>1 DEF Tells, Working, Fresh, Told
  <2> QED
    BY <2>1, <2>3, <2>4 DEF Tells
<1>4. CASE Enqueue(h)
  <2>1. m \in recorded /\ durable
    BY <1>4 DEF Enqueue, Tells, Passes, HolderInv, RequestsHaveClaims
  <2>2. /\ job'[m] # job[m] => job[m] = "none" /\ job'[m] = "queued"
        /\ UNCHANGED <<durable, claimed, recorded, effects, attributed, audited,
                       event, shown>>
        /\ \A x \in Executors \ {h} :
              pc'[x] = pc[x] /\ msg'[x] = msg[x] /\ did'[x] = did[x]
        /\ msg'[h] # m
    BY <1>4 DEF Enqueue, Queued, Answer200, Over, records
  <2>3. ASSUME NEW x \in Executors, msg'[x] = m
        PROVE  Passes(x, m)'
    <3>1. x # h /\ pc'[x] = pc[x] /\ did'[x] = did[x] /\ Passes(x, m)
      BY <2>2, <2>3 DEF Tells
    <3> QED
      BY <2>2, <3>1 DEF Passes, Before, Fresh, Unsettled
  <2>4. job'[m] = "running" => \E w \in Workers : Working(w, m)'
    BY <2>2 DEF Tells, Working
  <2>5. /\ job'[m] \in {"none", "queued"} => Fresh(m)'
        /\ shown[m] # "none" => Told(m)'
    BY <2>1, <2>2 DEF Tells, Fresh, Told
  <2> QED
    BY <2>1, <2>2, <2>3, <2>4, <2>5 DEF Tells
<1> QED
  BY <1>1, <1>2, <1>3, <1>4

(* A worker takes a job that nothing has been done for, or ends with it.   *)
LEMMA JobTells ==
    ASSUME TypeInv, HolderInv, NEW w \in Workers, NEW m \in Messages \ failed',
           m \notin failed, Tells(m), TakeJob(w, m) \/ (m = msg[w] /\ Complete(w))
    PROVE  Tells(m)'
<1> w \in Executors /\ NoMessage # m
  BY InboundConstants DEF Executors
<1> Handlers \subseteq Executors /\ Workers \subseteq Executors
  BY DEF Executors
<1> USE DEF TypeInv, TypeOK, At, Goto
<1>1. CASE TakeJob(w, m)
  <2>1. /\ job[m] = "queued" /\ job'[m] = "running"
        /\ pc'[w] = "own" /\ msg'[w] = m
        /\ \A x \in Executors \ {w} :
              pc'[x] = pc[x] /\ msg'[x] = msg[x] /\ did'[x] = did[x]
        /\ UNCHANGED <<durable, claimed, recorded, effects, attributed, audited,
                       event, shown>>
    BY <1>1 DEF TakeJob, requests, records
  <2>2. durable /\ Fresh(m) /\ m \in recorded
    BY <2>1 DEF Tells, HolderInv, JobsAreDurable
  <2>3. ASSUME NEW x \in Executors, msg'[x] = m
        PROVE  Passes(x, m)'
    <3>1. CASE x = w
      BY <2>1, <2>2, <3>1 DEF Passes, Before, Fresh
    <3>2. CASE x # w
      <4>1. Passes(x, m) /\ pc'[x] = pc[x] /\ did'[x] = did[x]
        BY <2>1, <2>3, <3>2 DEF Tells
      <4> QED
        BY <2>1, <4>1 DEF Passes, Before, Fresh, Unsettled
    <3> QED
      BY <3>1, <3>2
  <2>4. Working(w, m)' /\ shown'[m] = "none"
    BY <2>1, <2>2 DEF Working, Fresh
  <2> QED
    BY <2>1, <2>2, <2>3, <2>4 DEF Tells
<1>2. CASE m = msg[w] /\ Complete(w)
  <2>1. Over(w) /\ failed' = failed /\ durable
    BY <1>2 DEF Complete, Fault, NoFault, HolderInv, WorkersHaveJobs, Holds
  <2>2. job[m] = "running"
    BY <1>2, <2>1 DEF Complete, HolderInv, WorkersHaveJobs, Holds
  <2>3. /\ job'[m] = "completed" /\ msg'[w] # m
        /\ \A x \in Executors \ {w} :
              pc'[x] = pc[x] /\ msg'[x] = msg[x] /\ did'[x] = did[x]
        /\ UNCHANGED <<durable, claimed, recorded, effects, attributed, audited,
                       event, shown>>
    BY <1>2, <2>1 DEF Complete, Over, requests, records
  <2>4. ASSUME NEW x \in Executors, msg'[x] = m
        PROVE  Passes(x, m)'
    <3>1. x # w /\ Passes(x, m) /\ pc'[x] = pc[x] /\ did'[x] = did[x]
      BY <2>3, <2>4 DEF Tells
    <3> QED
      BY <2>3, <3>1 DEF Passes, Before, Fresh, Unsettled
  <2>5. shown[m] # "none" => Told(m)'
    BY <2>3 DEF Tells, Told
  <2> QED
    BY <2>1, <2>2, <2>3, <2>4, <2>5 DEF Tells
<1> QED
  BY <1>1, <1>2

LEMMA OthersTell ==
    ASSUME TypeInv, NEW m \in Messages \ failed', m \notin failed, Tells(m),
           \/ ChangeOwner
           \/ \E n \in Messages : Observe(n) \/ LeaseExpires(n)
           \/ \E h \in Handlers, n \in Messages : Deliver(h, n)
           \/ UNCHANGED vars
    PROVE  Tells(m)'
<1> Handlers \subseteq Executors /\ Workers \subseteq Executors
  BY DEF Executors
<1> USE DEF TypeInv, TypeOK, Apart, Working
<1>1. CASE ChangeOwner \/ UNCHANGED vars
  BY <1>1, ApartKeeps DEF ChangeOwner, vars, requests, records, locals
<1>2. CASE \E n \in Messages : Observe(n)
  BY <1>2, ApartKeeps DEF Observe, records, locals
<1>3. CASE \E n \in Messages : LeaseExpires(n)
  <2> PICK n \in Messages : LeaseExpires(n)
    BY <1>3
  <2>1. CASE n = m
    BY <2>1 DEF LeaseExpires, Fault, Holders, Tells
  <2>2. CASE n # m
    BY <2>2, ApartKeeps DEF LeaseExpires, requests, records, locals
  <2> QED
    BY <2>1, <2>2
<1>4. CASE \E h \in Handlers, n \in Messages : Deliver(h, n)
  <2> PICK h \in Handlers, n \in Messages : Deliver(h, n)
    BY <1>4
  <2>1. h \notin Workers /\ pc'[h] = "claim"
    BY InboundConstants DEF Deliver, Goto
  <2> QED
    BY <2>1, ApartKeeps DEF Deliver, Goto, requests, records, Deciding
<1> QED
  BY <1>1, <1>2, <1>3, <1>4

LEMMA TellingKept == TypeInv /\ HolderInv /\ TellInv /\ [Next]_vars => TellInv'
<1> SUFFICES ASSUME TypeInv, HolderInv, TellInv, [Next]_vars, NEW m \in Messages \ failed'
             PROVE  Tells(m)'
  BY DEF TellInv
<1> Handlers \subseteq Executors /\ Workers \subseteq Executors
  BY DEF Executors
<1>1. m \notin failed /\ Tells(m)
  <2>1. failed \subseteq failed'
    BY RequestIsQuiet, DecisionIsQuiet, JobEndIsQuiet, OthersAreQuiet
       DEF Quiet, Next, Serve, Work, Claim, TakeJob
  <2> QED
    BY <2>1 DEF TellInv
<1>2. CASE \E h \in Handlers : Claim(h) \/ Persist(h) \/ Enqueue(h)
  BY <1>1, <1>2, RequestTells, RequestsOfOthers, ApartKeeps
<1>3. CASE \E h \in Handlers : \/ Release(h)
                              \/ ClaimFails(h) \/ PersistFails(h) \/ EnqueueFails(h)
                              \/ ReleaseFails(h)
  <2> PICK h \in Handlers : \/ Release(h)
                            \/ ClaimFails(h) \/ PersistFails(h) \/ EnqueueFails(h)
                            \/ ReleaseFails(h)
    BY <1>3
  <2>1. msg[h] \in failed \cup failed'
    BY DEF Release, ClaimFails, PersistFails, EnqueueFails, ReleaseFails, Fault, At,
           HolderInv, RequestsHaveClaims
  <2> QED
    BY <1>1, <2>1, RequestsOfOthers, ApartKeeps
<1>4. CASE \E x \in Executors : DecisionStep(x)
  <2> PICK x \in Executors : DecisionStep(x)
    BY <1>4
  <2>1. CASE m = msg[x]
    BY <1>1, <2>1, DecisionTells
  <2>2. CASE m # msg[x]
    BY <1>1, <2>2, DecisionsOfOthers, ApartKeeps
  <2> QED
    BY <2>1, <2>2
<1>5. CASE \E x \in Executors : DecisionFails(x) \/ Crash(x)
  <2> PICK x \in Executors : DecisionFails(x) \/ Crash(x)
    BY <1>5
  <2>1. m # msg[x]
    BY DEF DecisionFails, Crash, Fault
  <2> QED
    BY <1>1, <2>1, DecisionsOfOthers, ApartKeeps
<1>6. CASE \E w \in Workers : \/ \E n \in Messages : TakeJob(w, n)
                             \/ Complete(w)
  <2> PICK w \in Workers : (\E n \in Messages : TakeJob(w, n)) \/ Complete(w)
    BY <1>6
  <2>1. CASE \E n \in Messages : TakeJob(w, n)
    <3> PICK n \in Messages : TakeJob(w, n)
      BY <2>1
    <3>1. CASE n = m
      BY <1>1, <3>1, JobTells
    <3>2. CASE n # m
      BY <1>1, <3>2, JobsOfOthers, ApartKeeps
    <3> QED
      BY <3>1, <3>2
  <2>2. CASE Complete(w)
    BY <1>1, <2>2, JobTells, JobsOfOthers, ApartKeeps
  <2> QED
    BY <2>1, <2>2
<1>7. CASE \E w \in Workers : CompleteFails(w) \/ FailJob(w) \/ FailJobFails(w)
  <2> PICK w \in Workers : CompleteFails(w) \/ FailJob(w) \/ FailJobFails(w)
    BY <1>7
  <2>1. m # msg[w]
    BY <1>1 DEF CompleteFails, FailJob, FailJobFails, Fault, At, HolderInv,
                WorkersHaveJobs
  <2> QED
    BY <1>1, <2>1, JobsOfOthers, ApartKeeps
<1>8. CASE \/ ChangeOwner
           \/ \E n \in Messages : Observe(n) \/ LeaseExpires(n)
           \/ \E h \in Handlers, n \in Messages : Deliver(h, n)
           \/ UNCHANGED vars
  BY <1>1, <1>8, OthersTell
<1> QED
  BY <1>2, <1>3, <1>4, <1>5, <1>6, <1>7, <1>8 DEF Next, Serve, Work

(* A message that no call failed for, no process died over and no lease    *)
(* ran out under is answered or acted on exactly as often as its records   *)
(* say, however often it was delivered: the history, the event, the audit  *)
(* entry and the attribution never tell of a reply that was not sent.      *)
THEOREM RecordsAreTrue == Spec => []RecordsTellWhatHappened
<1>1. Spec => []HolderInv
  BY InboundTypes, HolderInvInit, HoldersKept, PTL DEF Spec
<1>2. Spec => []TellInv
  BY <1>1, InboundTypes, InitTells, TellingKept, PTL DEF Spec
<1> QED
  BY <1>2, InboundTypes, TellingIsTrue, PTL
------------------------------------------------------------------------------
(* InboundDecision uses the queue of JobQueue.                             *)

(* A worker at work has an attempt the row has counted, an idle one none.  *)
HeldInv ==
    \A w \in Workers :
        IF pc[w] = "idle" THEN msg[w] = NoMessage /\ attempt[w] = 0
                          ELSE attempt[w] \in 1..attempts[msg[w]]

(* Steps that leave the queue's view of the workers alone.                 *)
NoCall ==
    /\ UNCHANGED attempts
    /\ \A w \in Workers : /\ msg'[w] = msg[w] /\ attempt'[w] = attempt[w]
                          /\ pc'[w] = "idle" <=> pc[w] = "idle"

(* Requests have no part in that view.                                     *)
LEMMA RequestMakesNoCall ==
    ASSUME TypeInv, NEW h \in Handlers, UNCHANGED attempts,
           \/ \E point \in Points : Goto(h, point) /\ UNCHANGED <<msg, attempt>>
           \/ \E point \in Points, m \in Messages :
                  /\ Goto(h, point)
                  /\ msg' = [msg EXCEPT ![h] = m]
                  /\ UNCHANGED attempt
           \/ Over(h)
    PROVE  NoCall
<1> Handlers \subseteq Executors /\ Workers \subseteq Executors /\ h \notin Workers
  BY InboundConstants DEF Executors
<1> QED  BY DEF TypeInv, TypeOK, NoCall, Goto, Over

LEMMA ServingMakesNoCall ==
    ASSUME TypeInv, HolderInv, NEW h \in Handlers,
           \/ \E m \in Messages : Deliver(h, m)
           \/ Claim(h) \/ Persist(h) \/ Release(h)
           \/ ClaimFails(h) \/ PersistFails(h) \/ ReleaseFails(h)
           \/ DecisionStep(h) \/ DecisionFails(h) \/ Crash(h)
    PROVE  NoCall /\ UNCHANGED job
<1> {"claim", "persist", "enqueue", "own", "release", "model", "reply", "act",
     "attribute", "decide", "complete", "fail"} \subseteq Points
  BY DEF Points, Deciding, Receiving
<1>1. CASE \/ \E m \in Messages : Deliver(h, m)
           \/ Claim(h) \/ Persist(h) \/ Release(h)
           \/ ClaimFails(h) \/ PersistFails(h) \/ ReleaseFails(h) \/ Crash(h)
  <2>1. UNCHANGED <<attempts, job>>
    BY <1>1 DEF Deliver, Claim, Persist, Release, ClaimFails, PersistFails, ReleaseFails,
                Crash
  <2>2. CASE \E m \in Messages : Deliver(h, m)
    BY <2>1, <2>2, RequestMakesNoCall DEF Deliver
  <2>3. CASE Claim(h) \/ Release(h) \/ ClaimFails(h) \/ ReleaseFails(h) \/ Crash(h)
    <3>1. Over(h) \/ (Goto(h, "persist") /\ UNCHANGED locals)
      BY <2>3 DEF Claim, Release, ClaimFails, ReleaseFails, Crash, Answer200
    <3> QED  BY <2>1, <3>1, RequestMakesNoCall DEF locals
  <2>4. CASE Persist(h) \/ PersistFails(h)
    <3>1. /\ UNCHANGED locals
          /\ \E point \in Points : Goto(h, point)
      BY <2>4 DEF Persist, PersistFails
    <3> QED  BY <2>1, <3>1, RequestMakesNoCall DEF locals
  <2> QED  BY <1>1, <2>1, <2>2, <2>3, <2>4
<1>2. CASE DecisionStep(h) \/ DecisionFails(h)
  <2>1. UNCHANGED <<attempts, job>>
    BY <1>2 DEF DecisionStep, DecisionFails, ReadOwnership, Model, Reply, Attribute, Act,
                Decide
  <2>2. \/ Over(h)
        \/ UNCHANGED <<msg, attempt>> /\ \E point \in Points : Goto(h, point)
    BY <1>2 DEF DecisionStep, DecisionFails, ReadOwnership, Model, Reply, Attribute, Act,
                Decide, Conclude, Answer200, locals
  <2> QED  BY <2>1, <2>2, RequestMakesNoCall
<1> QED  BY <1>1, <1>2

(* Nor do the steps of a worker's decision, which keep it at work.         *)
LEMMA DecidingMakesNoCall ==
    ASSUME TypeInv, HolderInv, NEW w \in Workers,
           DecisionStep(w) \/ DecisionFails(w) \/ CompleteFails(w)
    PROVE  NoCall /\ UNCHANGED job
<1> Workers \subseteq Executors /\ w \notin Handlers
  BY InboundConstants DEF Executors
<1>1. UNCHANGED <<attempts, job, msg, attempt>>
  BY DEF DecisionStep, DecisionFails, ReadOwnership, Model, Reply, Attribute, Act,
         Decide, CompleteFails, locals
<1>2. pc[w] # "idle" /\ \E point \in Points \ {"idle"} : Goto(w, point)
  BY DEF DecisionStep, DecisionFails, ReadOwnership, Model, Reply, Attribute, Act,
         Decide, Conclude, CompleteFails, At, Points, Deciding, Receiving
<1> QED  BY <1>1, <1>2 DEF TypeInv, TypeOK, NoCall, Goto

(* Every step is one call of the queue, or none.                           *)
Calls ==
    \/ NoCall /\ UNCHANGED job
    \/ \E m \in Messages :
           /\ NoCall
           /\ \/ job[m] = "none" \/ job[m] = "running"
           /\ job' = [job EXCEPT ![m] = "queued"]
    \/ \E w \in Workers : \/ Over(w) /\ UNCHANGED <<job, attempts>>
                          \/ \E m \in Messages : TakeJob(w, m)
                          \/ Complete(w) \/ FailJob(w)

LEMMA EnqueueCalls ==
    ASSUME TypeInv, HolderInv, NEW h \in Handlers, Enqueue(h) \/ EnqueueFails(h)
    PROVE  Calls
<1>1. msg[h] \in Messages /\ "release" \in Points
  BY DEF TypeInv, BusyHasMessage, Executors, At, Enqueue, EnqueueFails, Points, Receiving
<1>2. UNCHANGED attempts /\ job' \in {job, Queued(msg[h])}
  BY DEF Enqueue, EnqueueFails
<1>3. Over(h) \/ (Goto(h, "release") /\ UNCHANGED locals)
  BY DEF Enqueue, EnqueueFails, Answer200
<1>4. NoCall
  BY <1>1, <1>2, <1>3, RequestMakesNoCall DEF locals
<1>5. CASE job' = job
  BY <1>4, <1>5 DEF Calls
<1>6. CASE job' = Queued(msg[h]) /\ job[msg[h]] = "none"
  BY <1>1, <1>4, <1>6 DEF Calls, Queued
<1>7. CASE job' = Queued(msg[h]) /\ job[msg[h]] # "none"
  <2>1. job' = job
    BY <1>1, <1>7 DEF Queued, TypeInv, TypeOK
  <2> QED  BY <1>4, <2>1 DEF Calls
<1> QED  BY <1>2, <1>5, <1>6, <1>7

LEMMA StepCalls == TypeInv /\ HolderInv /\ [Next]_vars => Calls
<1> SUFFICES ASSUME TypeInv, HolderInv, [Next]_vars PROVE Calls
  OBVIOUS
<1>1. CASE ChangeOwner \/ (\E m \in Messages : Observe(m)) \/ UNCHANGED vars
  BY <1>1 DEF Calls, NoCall, ChangeOwner, Observe, vars, locals
<1>2. CASE \E m \in Messages : LeaseExpires(m)
  BY <1>2 DEF Calls, NoCall, LeaseExpires, locals
<1>3. ASSUME NEW h \in Handlers,
             \/ \E m \in Messages : Deliver(h, m)
             \/ Serve(h) \/ ClaimFails(h) \/ PersistFails(h) \/ EnqueueFails(h)
             \/ ReleaseFails(h) \/ DecisionFails(h) \/ Crash(h)
      PROVE  Calls
  BY <1>3, ServingMakesNoCall, EnqueueCalls DEF Serve, Calls
<1>4. ASSUME NEW w \in Workers,
             Work(w) \/ CompleteFails(w) \/ FailJobFails(w) \/ DecisionFails(w) \/ Crash(w)
      PROVE  Calls
  <2>1. CASE FailJobFails(w) \/ Crash(w)
    BY <2>1 DEF Calls, FailJobFails, Crash
  <2>2. CASE Work(w) \/ CompleteFails(w) \/ DecisionFails(w)
    BY <2>2, DecidingMakesNoCall DEF Calls, Work
  <2> QED  BY <1>4, <2>1, <2>2
<1> QED  BY <1>1, <1>2, <1>3, <1>4 DEF Next, Executors

(* What a worker that takes a job, leaves it or goes on to fail it holds.  *)
LEMMA WorkerCalls ==
    ASSUME TypeInv, HolderInv, HeldInv, NEW w \in Workers,
           \/ Over(w) /\ UNCHANGED <<job, attempts>>
           \/ \E m \in Messages : TakeJob(w, m)
           \/ Complete(w) \/ FailJob(w)
    PROVE  HeldInv' /\ Queue!Next
<1> Workers \subseteq Executors
  BY DEF Executors
<1> USE DEF Queue!Idle, Queue!Becomes, Queue!LetGo
<1>1. CASE \E m \in Messages : TakeJob(w, m)
  <2> PICK m \in Messages : TakeJob(w, m)
    BY <1>1
  <2>1. /\ pc[w] = "idle" /\ pc' = [pc EXCEPT ![w] = "own"]
        /\ job[m] = "queued" /\ job' = [job EXCEPT ![m] = "running"]
        /\ msg' = [msg EXCEPT ![w] = m]
        /\ attempt' = [attempt EXCEPT ![w] = attempts[m] + 1]
        /\ attempts' = [attempts EXCEPT ![m] = @ + 1]
    BY DEF TakeJob, Goto
  <2>2. /\ HoldingOf[w] = <<NoMessage, 0>>
        /\ HoldingOf' = [HoldingOf EXCEPT ![w] = <<m, attempts[m] + 1>>]
    BY <2>1 DEF TypeInv, TypeOK, HeldInv, HoldingOf
  <2>3. HeldInv'
    <3> SUFFICES ASSUME NEW v \in Workers
                 PROVE  IF pc'[v] = "idle" THEN msg'[v] = NoMessage /\ attempt'[v] = 0
                                           ELSE attempt'[v] \in 1..attempts'[msg'[v]]
      BY DEF HeldInv
    <3>1. CASE v = w
      BY <2>1, <3>1 DEF TypeInv, TypeOK
    <3>2. CASE v # w /\ pc[v] = "idle"
      BY <2>1, <3>2 DEF TypeInv, TypeOK, HeldInv
    <3>3. CASE v # w /\ pc[v] # "idle"
      <4>1. /\ attempt[v] \in 1..attempts[msg[v]] /\ msg[v] \in Messages
            /\ attempts[msg[v]] \in Nat
        BY <3>3 DEF HeldInv, TypeInv, TypeOK, BusyHasMessage
      <4>2. attempts'[msg[v]] \in {attempts[msg[v]], attempts[msg[v]] + 1}
        BY <2>1, <4>1 DEF TypeInv, TypeOK
      <4> QED  BY <2>1, <3>3, <4>1, <4>2 DEF TypeInv, TypeOK
    <3> QED  BY <3>1, <3>2, <3>3
  <2>4. Queue!Take(w, m)
    BY <2>1, <2>2 DEF Queue!Take
  <2> QED  BY <2>3, <2>4 DEF Queue!Next
<1>2. CASE Over(w) /\ UNCHANGED <<job, attempts>>
  <2>1. HoldingOf' = [HoldingOf EXCEPT ![w] = <<NoMessage, 0>>] /\ HeldInv'
    BY <1>2 DEF TypeInv, TypeOK, HeldInv, HoldingOf, Over, Goto
  <2> QED  BY <1>2, <2>1 DEF Queue!Next, Queue!Drop
<1>3. CASE Complete(w) \/ FailJob(w)
  <2>1. /\ pc[w] # "idle" /\ msg[w] \in Messages /\ UNCHANGED attempts
        /\ attempt[w] \in 1..attempts[msg[w]] /\ HoldingOf[w] = <<msg[w], attempt[w]>>
    BY <1>3 DEF TypeInv, BusyHasMessage, HeldInv, HoldingOf, Complete, FailJob, At
  <2>2. CASE Complete(w) /\ ~Over(w)
    <3>1. /\ job' = [job EXCEPT ![msg[w]] = "completed"] /\ UNCHANGED <<msg, attempt>>
          /\ pc' = [pc EXCEPT ![w] = "fail"]
      BY <2>2 DEF Complete, Goto, locals
    <3>2. HeldInv' /\ HoldingOf' = HoldingOf
      BY <2>1, <3>1 DEF TypeInv, TypeOK, HeldInv, HoldingOf
    <3>3. Queue!Complete(w, msg[w], attempt[w])
      BY <2>1, <3>1, <3>2 DEF Queue!Complete
    <3> QED  BY <2>1, <3>2, <3>3 DEF Queue!Next
  <2>3. CASE Over(w)
    <3>1. HoldingOf' = [HoldingOf EXCEPT ![w] = <<NoMessage, 0>>] /\ HeldInv'
      BY <2>1, <2>3 DEF TypeInv, TypeOK, HeldInv, HoldingOf, Over, Goto
    <3>2. CASE Complete(w)
      <4>1. Queue!Complete(w, msg[w], attempt[w])
        BY <2>1, <3>1, <3>2 DEF Queue!Complete, Complete
      <4> QED  BY <2>1, <3>1, <4>1 DEF Queue!Next
    <3>3. CASE FailJob(w)
      <4>1. Queue!Fail(w, msg[w], attempt[w])
        BY <2>1, <3>1, <3>3 DEF Queue!Fail, FailJob
      <4> QED  BY <2>1, <3>1, <4>1 DEF Queue!Next
    <3> QED  BY <1>3, <3>1, <3>2, <3>3
  <2> QED  BY <1>3, <2>2, <2>3 DEF FailJob
<1> QED  BY <1>1, <1>2, <1>3

LEMMA CallsKeep ==
    TypeInv /\ HolderInv /\ HeldInv /\ [Next]_vars => HeldInv' /\ [Queue!Next]_(Queue!vars)
<1> SUFFICES ASSUME TypeInv, HolderInv, HeldInv, [Next]_vars
             PROVE  HeldInv' /\ (Queue!Next \/ UNCHANGED Queue!vars)
  OBVIOUS
<1>1. Calls
  BY StepCalls
<1>2. NoCall => HeldInv' /\ HoldingOf' = HoldingOf /\ UNCHANGED attempts
  BY DEF NoCall, HeldInv, HoldingOf
<1>3. CASE NoCall /\ UNCHANGED job
  BY <1>2, <1>3 DEF Queue!vars
<1>4. CASE \E m \in Messages :
               /\ NoCall
               /\ \/ job[m] = "none" \/ job[m] = "running"
               /\ job' = [job EXCEPT ![m] = "queued"]
  BY <1>2, <1>4 DEF Queue!Next, Queue!Enqueue, Queue!Lapse, Queue!Becomes
<1> QED  BY <1>1, <1>3, <1>4, WorkerCalls DEF Calls

(* Whatever is delivered twice, fails, dies or outlives its lease, what    *)
(* requests and workers do to the jobs of messages are calls of an atomic  *)
(* queue, of the kind the row locks of DurableJobs implement.              *)
THEOREM InboundUsesQueue == Spec => UsesQueue
<1>1. Init => HeldInv /\ Queue!Init
  BY DEF Init, HeldInv, HoldingOf, Executors, Queue!Init, Queue!Idle
<1>2. Spec => []HolderInv
  BY InboundTypes, HolderInvInit, HoldersKept, PTL DEF Spec
<1> QED
  BY <1>1, <1>2, InboundTypes, CallsKeep, PTL DEF Spec, UsesQueue, Queue!Spec
=============================================================================
