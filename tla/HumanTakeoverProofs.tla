-------------------------- MODULE HumanTakeoverProofs --------------------------
(***************************************************************************)
(* For any number of operator messages, deliveries and management calls:   *)
(* one request at a time works on a message; a message changes the         *)
(* ownership at most once, and only a release ends what it took; a change  *)
(* that nothing went wrong with is announced; and the ownership moves by   *)
(* the transitions of OwnershipLedger alone, so that its history has       *)
(* neither a gap nor a fork.                                               *)
(***************************************************************************)
EXTENDS HumanTakeover, TLAPS

(* The store answers a record, also to a call of an unknown version.       *)
LEMMA AnswerType ==
    ASSUME TypeOK, NEW x \in Processes, Tid(x) \in TransitionIds,
           Answer(Call(x)) # Conflict
    PROVE  Answer(Call(x)) \in Record
<1>1. Call(x).tid = Tid(x) /\ Call(x).command \in Commands
  BY DEF Call, Forced, Managed, Tid, TypeOK, Processes, Commands, Moves
<1>2. log[Call(x).tid] \in Record \cup {NotLogged}
  BY <1>1 DEF TypeOK
<1>3. Outcome(Call(x), owner) \in Record
  <2>1. owner \in Record /\ owner.state \in States /\ owner.version \in Nat
    BY DEF TypeOK, Record
  <2>2. NextStateFor(owner.state, Call(x).command) \in States
    BY <1>1, <2>1 DEF NextStateFor, Moves, Commands, States
  <2> QED
    BY <1>1, <2>1, <2>2 DEF Outcome, TransitionOwnership, Record
<1> QED
  BY <1>2, <1>3 DEF Answer, Seen

LEMMA WriteType ==
    ASSUME TypeOK, NEW x \in Processes, Tid(x) \in TransitionIds,
           Answer(Call(x)) # Conflict, Write(Call(x))
    PROVE  /\ owner' \in Record
           /\ log' \in [TransitionIds -> Record \cup {NotLogged}]
BY AnswerType DEF Write, TypeOK

LEMMA FaultCount == ASSUME TypeOK, Fault PROVE faults' \in 0..MaxFaults
BY TakeoverConstants DEF TypeOK, Fault

LEMMA InitIInv == Init => IInv
<1> SUFFICES ASSUME Init PROVE IInv
  OBVIOUS
<1>1. InitialOwnership \in Record
  BY DEF InitialOwnership, Record, States
<1>2. TypeOK
  BY <1>1, TakeoverConstants DEF Init, TypeOK, Commands, Moves, NotHeld
<1>3. RequestsHaveObservations
  BY DEF Init, RequestsHaveObservations, Processes
<1>4. OneHandlerPerObservation
  BY DEF Init, OneHandlerPerObservation, At, Claiming, HandlerPoints, Processes
<1> QED
  BY <1>2, <1>3, <1>4 DEF IInv

(* Who is at work has a transitionId.                                      *)
LEMMA TidType ==
    ASSUME IInv, NEW x \in Processes, pc[x] # "idle"
    PROVE  Tid(x) \in TransitionIds /\ (x \in Handlers => obs[x] \in Observations)
BY TakeoverConstants
   DEF IInv, TypeOK, RequestsHaveObservations, Tid, Processes
-----------------------------------------------------------------------------
(* Exclusion.  A step of x keeps it if the others keep their claims and x  *)
(* is past its claim only for an observation it alone has claimed.         *)
LEMMA ExclusionStep ==
    ASSUME OneHandlerPerObservation, NEW x \in Handlers,
           \A g \in Handlers \ {x} : pc'[g] = pc[g] /\ obs'[g] = obs[g],
           \A g \in Handlers \ {x} : At(g, Claiming) => obs[g] \in claimed',
           pc'[x] \in Claiming =>
               /\ obs'[x] \in claimed'
               /\ \A g \in Handlers \ {x} : At(g, Claiming) => obs[g] # obs'[x]
    PROVE  OneHandlerPerObservation'
BY DEF OneHandlerPerObservation, At

(* The types of what only requests and calls pass through.                 *)
LEMMA GotoType ==
    ASSUME TypeOK, NEW x \in Processes,
           NEW point \in HandlerPoints \cup {"idle", "done"}, Goto(x, point)
    PROVE  /\ pc' \in [Processes -> HandlerPoints \cup {"idle", "done"}]
           /\ pc'[x] = point
           /\ \A y \in Processes : y # x => pc'[y] = pc[y]
BY DEF TypeOK, Goto

LEMMA OverType ==
    ASSUME TypeOK, NEW h \in Handlers, Over(h)
    PROVE  /\ pc' \in [Processes -> HandlerPoints \cup {"idle", "done"}]
           /\ obs' \in [Handlers -> Observations \cup {NoObservation}]
           /\ previous' \in [Processes -> Record]
           /\ result' \in [Processes -> Record]
           /\ UNCHANGED <<command, body>>
           /\ pc'[h] = "idle" /\ obs'[h] = NoObservation
           /\ \A y \in Processes : y # h => pc'[y] = pc[y]
           /\ \A g \in Handlers : g # h => obs'[g] = obs[g]
<1>1. InitialOwnership \in Record
  BY DEF InitialOwnership, Record, States
<1> QED
  BY <1>1 DEF TypeOK, Over, Goto, Processes

LEMMA FinishType ==
    ASSUME TypeOK, NEW p \in Operations, Finish(p)
    PROVE  /\ Goto(p, "done")
           /\ command' \in [Operations -> Commands]
           /\ body' \in [Operations -> Nat \cup {FromPrevious}]
           /\ previous' \in [Processes -> Record]
           /\ result' \in [Processes -> Record]
           /\ UNCHANGED obs
<1>1. InitialOwnership \in Record /\ "manual_takeover" \in Commands
  BY DEF InitialOwnership, Record, States, Commands, Moves
<1> QED
  BY <1>1 DEF TypeOK, Finish

(* The steps of a request or call x that stay past the claim, or before    *)
(* the end, and leave the claims alone.                                    *)
Moving(x) ==
    /\ x \in Processes
    /\ pc[x] \notin {"idle", "done"}
    /\ \E point \in HandlerPoints \cup {"done"} : Goto(x, point)
    /\ UNCHANGED <<claimed, obs>>
    /\ x \in Handlers => pc[x] \in Claiming /\ pc'[x] \in Claiming
    /\ x \in Operations =>
          pc'[x] \notin {"claim", "persist", "reread", "reapply", "release"}

(* The steps that end a request.                                           *)
Ending(h) ==
    /\ h \in Handlers
    /\ pc[h] # "idle"
    /\ Over(h)
    /\ \/ claimed' = claimed
       \/ pc[h] \in Claiming /\ claimed' = claimed \ {obs[h]}

LEMMA MovingKeeps ==
    ASSUME IInv, NEW x, Moving(x)
    PROVE  /\ RequestsHaveObservations' /\ OneHandlerPerObservation'
           /\ pc' \in [Processes -> HandlerPoints \cup {"idle", "done"}]
           /\ claimed' \subseteq Observations
<1>1. PICK point \in HandlerPoints \cup {"done"} : Goto(x, point)
  BY DEF Moving
<1>2. /\ pc' \in [Processes -> HandlerPoints \cup {"idle", "done"}]
      /\ pc'[x] = point
      /\ \A y \in Processes : y # x => pc'[y] = pc[y]
  BY <1>1, GotoType DEF IInv, Moving
<1>3. RequestsHaveObservations'
  BY <1>2, TakeoverConstants
     DEF IInv, RequestsHaveObservations, Moving, Processes, Claiming, HandlerPoints
<1>4. OneHandlerPerObservation'
  <2>1. CASE x \in Handlers
    <3>1. \A g \in Handlers \ {x} : pc'[g] = pc[g] /\ obs'[g] = obs[g]
      BY <1>2 DEF Moving, Processes
    <3>2. \A g \in Handlers \ {x} : At(g, Claiming) =>
              obs[g] \in claimed' /\ obs[g] # obs'[x]
      BY <2>1 DEF IInv, OneHandlerPerObservation, Moving, At
    <3>3. obs'[x] \in claimed'
      BY <2>1 DEF IInv, OneHandlerPerObservation, Moving, At
    <3> QED
      BY <2>1, <3>1, <3>2, <3>3, ExclusionStep DEF IInv
  <2>2. CASE x \in Operations
    <3>1. \A g \in Handlers : pc'[g] = pc[g]
      BY <1>2, <2>2, TakeoverConstants DEF Processes
    <3> QED
      BY <3>1 DEF IInv, OneHandlerPerObservation, At, Moving
  <2> QED
    BY <2>1, <2>2 DEF Moving, Processes
<1> QED
  BY <1>2, <1>3, <1>4 DEF IInv, TypeOK, Moving

LEMMA EndingKeeps ==
    ASSUME IInv, NEW h, Ending(h)
    PROVE  /\ RequestsHaveObservations' /\ OneHandlerPerObservation'
           /\ claimed' \subseteq Observations
<1>1. h \in Handlers /\ h \in Processes
  BY DEF Ending, Processes
<1>2. /\ pc'[h] = "idle" /\ obs'[h] = NoObservation
      /\ \A y \in Processes : y # h => pc'[y] = pc[y]
      /\ \A g \in Handlers : g # h => obs'[g] = obs[g]
  BY <1>1, OverType DEF IInv, Ending
<1>3. RequestsHaveObservations'
  BY <1>1, <1>2, TakeoverConstants DEF IInv, RequestsHaveObservations, Processes
<1>4. \A g \in Handlers \ {h} : At(g, Claiming) => obs[g] \in claimed'
  BY <1>1 DEF IInv, OneHandlerPerObservation, Ending, At
<1>5. OneHandlerPerObservation'
  <2>1. \A g \in Handlers \ {h} : pc'[g] = pc[g] /\ obs'[g] = obs[g]
    BY <1>2 DEF Processes
  <2>2. pc'[h] \notin Claiming
    BY <1>2 DEF Claiming, HandlerPoints
  <2> QED
    BY <1>1, <1>4, <2>1, <2>2, ExclusionStep DEF IInv
<1> QED
  BY <1>3, <1>5 DEF IInv, TypeOK, Ending
-----------------------------------------------------------------------------
(* One lemma per action: it keeps the invariant.                           *)
LEMMA ObserveKeeps ==
    ASSUME IInv, NEW o \in Observations, Observe(o) PROVE IInv'
<1>1. TypeOK'
  BY DEF IInv, TypeOK, Observe, stores, locals
<1>2. RequestsHaveObservations' /\ OneHandlerPerObservation'
  BY DEF IInv, RequestsHaveObservations, OneHandlerPerObservation, At, Observe,
         stores, locals
<1> QED
  BY <1>1, <1>2 DEF IInv

LEMMA DeliverKeeps ==
    ASSUME IInv, NEW h \in Handlers, NEW o \in Observations, Deliver(h, o)
    PROVE  IInv'
<1>1. h \in Processes
  BY DEF Processes
<1>2. /\ pc' \in [Processes -> HandlerPoints \cup {"idle", "done"}]
      /\ pc'[h] = "claim"
      /\ \A y \in Processes : y # h => pc'[y] = pc[y]
  BY <1>1, GotoType DEF IInv, Deliver, HandlerPoints
<1>3. /\ obs' \in [Handlers -> Observations \cup {NoObservation}]
      /\ obs'[h] = o
      /\ \A g \in Handlers : g # h => obs'[g] = obs[g]
  BY DEF IInv, TypeOK, Deliver
<1>4. TypeOK'
  BY <1>2, <1>3 DEF IInv, TypeOK, Deliver, stores
<1>5. RequestsHaveObservations'
  BY <1>1, <1>2, <1>3, TakeoverConstants
     DEF IInv, RequestsHaveObservations, Processes
<1>6. OneHandlerPerObservation'
  <2>1. \A g \in Handlers \ {h} : pc'[g] = pc[g] /\ obs'[g] = obs[g]
    BY <1>2, <1>3 DEF Processes
  <2>2. \A g \in Handlers \ {h} : At(g, Claiming) => obs[g] \in claimed'
    BY DEF IInv, OneHandlerPerObservation, Deliver, stores, At
  <2>3. pc'[h] \notin Claiming
    BY <1>2 DEF Claiming
  <2> QED
    BY <2>1, <2>2, <2>3, ExclusionStep DEF IInv
<1> QED
  BY <1>4, <1>5, <1>6 DEF IInv

(* An answer that ends a request leaves the types alone.                   *)
LEMMA SucceedType ==
    ASSUME TypeOK, NEW h \in Handlers, Succeed(h)
    PROVE  /\ pc' \in [Processes -> HandlerPoints \cup {"idle", "done"}]
           /\ obs' \in [Handlers -> Observations \cup {NoObservation}]
           /\ previous' \in [Processes -> Record]
           /\ result' \in [Processes -> Record]
           /\ spool' \in [Observations -> {"unsent", "kept", "removed"}]
           /\ UNCHANGED <<command, body>>
BY OverType DEF Succeed, TypeOK

LEMMA ClaimKeeps == ASSUME IInv, NEW h \in Handlers, Claim(h) PROVE IInv'
<1>1. h \in Processes /\ pc[h] = "claim" /\ obs[h] \in Observations
  BY TidType DEF Claim, At, Processes
<1>2. CASE obs[h] \in claimed
  <2>1. Succeed(h) /\ UNCHANGED claimed
    BY <1>2 DEF Claim
  <2>2. TypeOK'
    BY <2>1, SucceedType DEF IInv, TypeOK, Claim
  <2>3. Ending(h)
    BY <1>1, <2>1 DEF Ending, Succeed
  <2> QED
    BY <2>2, <2>3, EndingKeeps DEF IInv
<1>3. CASE obs[h] \notin claimed
  <2>1. Goto(h, "persist") /\ claimed' = claimed \cup {obs[h]}
        /\ UNCHANGED <<spool, locals>>
    BY <1>3 DEF Claim
  <2>2. /\ pc' \in [Processes -> HandlerPoints \cup {"idle", "done"}]
        /\ pc'[h] = "persist"
        /\ \A y \in Processes : y # h => pc'[y] = pc[y]
    BY <1>1, <2>1, GotoType DEF IInv, HandlerPoints
  <2>3. TypeOK'
    BY <1>1, <2>1, <2>2 DEF IInv, TypeOK, Claim, locals
  <2>4. RequestsHaveObservations'
    BY <1>1, <2>1, <2>2, TakeoverConstants
       DEF IInv, RequestsHaveObservations, Processes, locals
  <2>5. OneHandlerPerObservation'
    <3>1. \A g \in Handlers \ {h} : pc'[g] = pc[g] /\ obs'[g] = obs[g]
      BY <2>1, <2>2 DEF Processes, locals
    <3>2. \A g \in Handlers \ {h} : At(g, Claiming) => obs[g] \in claimed
      BY DEF IInv, OneHandlerPerObservation
    <3>3. obs'[h] = obs[h]
      BY <2>1 DEF locals
    <3> QED
      BY <1>3, <2>1, <3>1, <3>2, <3>3, ExclusionStep DEF IInv
  <2> QED
    BY <2>3, <2>4, <2>5 DEF IInv
<1> QED
  BY <1>2, <1>3

LEMMA ClaimFailsKeeps == ASSUME IInv, NEW h \in Handlers, ClaimFails(h) PROVE IInv'
<1>1. h \in Processes /\ pc[h] = "claim" /\ obs[h] \in Observations
  BY TidType DEF ClaimFails, At, Processes
<1>2. /\ pc'[h] = "idle" /\ obs'[h] = NoObservation
      /\ \A y \in Processes : y # h => pc'[y] = pc[y]
      /\ \A g \in Handlers : g # h => obs'[g] = obs[g]
  BY OverType DEF IInv, ClaimFails
<1>3. TypeOK'
  BY <1>1, OverType, FaultCount, TakeoverConstants DEF IInv, TypeOK, ClaimFails
<1>4. RequestsHaveObservations'
  BY <1>1, <1>2, TakeoverConstants DEF IInv, RequestsHaveObservations, Processes
<1>5. OneHandlerPerObservation'
  <2>1. \A g \in Handlers \ {h} : pc'[g] = pc[g] /\ obs'[g] = obs[g]
    BY <1>2 DEF Processes
  <2>2. \A g \in Handlers \ {h} : At(g, Claiming) => obs[g] \in claimed'
    BY DEF IInv, OneHandlerPerObservation, ClaimFails
  <2>3. pc'[h] \notin Claiming
    BY <1>2 DEF Claiming, HandlerPoints
  <2> QED
    BY <2>1, <2>2, <2>3, ExclusionStep DEF IInv
<1> QED
  BY <1>3, <1>4, <1>5 DEF IInv

(* A request or call at one of these points has a transitionId and moves   *)
(* on, behind its claim.                                                   *)
LEMMA MovesOn ==
    ASSUME IInv, NEW x \in Processes, pc[x] \in Claiming,
           NEW point \in HandlerPoints \cup {"done"}, Goto(x, point),
           UNCHANGED <<claimed, obs>>,
           x \in Handlers => point \in Claiming,
           x \in Operations =>
               point \notin {"claim", "persist", "reread", "reapply", "release"}
    PROVE  Moving(x)
<1>1. pc'[x] = point
  BY GotoType DEF IInv
<1> QED
  BY <1>1 DEF Moving, Claiming, HandlerPoints

LEMMA PersistEventKeeps ==
    ASSUME IInv, NEW h \in Handlers, PersistEvent(h) PROVE IInv'
<1>1. h \in Processes /\ pc[h] = "persist" /\ obs[h] \in Observations
  BY TidType DEF PersistEvent, At, Processes
<1>2. Moving(h)
  BY <1>1, MovesOn, TakeoverConstants DEF PersistEvent, Claiming, HandlerPoints, locals
<1>3. TypeOK'
  BY <1>1, <1>2, MovingKeeps DEF IInv, TypeOK, PersistEvent, locals
<1> QED
  BY <1>2, <1>3, MovingKeeps DEF IInv

LEMMA ReadKeeps == ASSUME IInv, NEW x \in Processes, Read(x) PROVE IInv'
<1>1. pc[x] = "read"
  BY DEF Read, At
<1>2. Moving(x)
  BY <1>1, MovesOn, TakeoverConstants DEF Read, Claiming, HandlerPoints, stores
<1>3. TypeOK'
  BY <1>2, MovingKeeps DEF IInv, TypeOK, Read, stores
<1> QED
  BY <1>2, <1>3, MovingKeeps DEF IInv

LEMMA HeldType ==
    ASSUME TypeOK, NEW x \in Processes, NEW rec \in Record, HeldBy(x, rec)
    PROVE  held' \in [Observations -> Nat]
BY DEF HeldBy, TypeOK, Record

LEMMA ApplyKeeps == ASSUME IInv, NEW x \in Processes, Apply(x) PROVE IInv'
<1>1. pc[x] \in {"apply", "reapply"} /\ Tid(x) \in TransitionIds
  BY TidType DEF Apply, At
<1>2. Moving(x)
  BY <1>1, MovesOn, TakeoverConstants DEF Apply, Claiming, HandlerPoints
<1>3. Answer(Call(x)) \in Record
  BY <1>1, AnswerType DEF IInv, Apply
<1>4. owner' \in Record /\ log' \in [TransitionIds -> Record \cup {NotLogged}]
  BY <1>1, WriteType DEF IInv, Apply
<1>5. held' \in [Observations -> Nat]
  BY <1>3, HeldType DEF IInv, Apply
<1>6. TypeOK'
  BY <1>2, <1>3, <1>4, <1>5, MovingKeeps DEF IInv, TypeOK, Apply
<1> QED
  BY <1>2, <1>6, MovingKeeps DEF IInv

LEMMA RefusedKeeps == ASSUME IInv, NEW x \in Processes, Refused(x) PROVE IInv'
<1>1. pc[x] \in {"apply", "reapply"} /\ Tid(x) \in TransitionIds
  BY TidType DEF Refused, At
<1>2. x \in Handlers => obs[x] \in TransitionIds
  BY <1>1 DEF Tid
<1>3. Moving(x)
  BY <1>1, MovesOn, FinishType, TakeoverConstants
     DEF IInv, Refused, Claiming, HandlerPoints, Processes, stores, locals
<1>4. failed' \subseteq TransitionIds
  BY <1>2 DEF IInv, TypeOK, Refused, Processes
<1>5. TypeOK'
  BY <1>3, <1>4, MovingKeeps, FinishType, TakeoverConstants
     DEF IInv, TypeOK, Refused, Processes, stores, locals
<1> QED
  BY <1>3, <1>5, MovingKeeps DEF IInv

LEMMA RereadKeeps == ASSUME IInv, NEW h \in Handlers, Reread(h) PROVE IInv'
<1>1. h \in Processes /\ pc[h] = "reread"
  BY DEF Reread, At, Processes
<1>2. Moving(h)
  BY <1>1, MovesOn, TakeoverConstants DEF Reread, Claiming, HandlerPoints, stores
<1>3. held' \in [Observations -> Nat]
  BY <1>1, HeldType DEF IInv, TypeOK, Reread
<1>4. result' \in [Processes -> Record] /\ previous' \in [Processes -> Record]
  BY <1>1 DEF IInv, TypeOK, Reread
<1>5. TypeOK'
  BY <1>2, <1>3, <1>4, MovingKeeps DEF IInv, TypeOK, Reread, stores
<1> QED
  BY <1>2, <1>5, MovingKeeps DEF IInv

LEMMA ProjectTakeoverKeeps ==
    ASSUME IInv, NEW h \in Handlers, ProjectTakeover(h) PROVE IInv'
<1>1. h \in Processes /\ pc[h] = "project" /\ obs[h] \in Observations
  BY TidType DEF ProjectTakeover, At, Processes
<1>2. recorded' \subseteq Observations
  BY <1>1 DEF IInv, TypeOK, ProjectTakeover
<1>3. CASE Changed(h)
  <2>1. Goto(h, "announce") /\ UNCHANGED <<spool, locals>>
    BY <1>3 DEF ProjectTakeover
  <2>2. Moving(h)
    BY <1>1, <2>1, MovesOn, TakeoverConstants
       DEF ProjectTakeover, Claiming, HandlerPoints, locals
  <2>3. TypeOK'
    BY <1>2, <2>1, <2>2, MovingKeeps DEF IInv, TypeOK, ProjectTakeover, locals
  <2> QED
    BY <2>2, <2>3, MovingKeeps DEF IInv
<1>4. CASE ~Changed(h)
  <2>1. Succeed(h)
    BY <1>4 DEF ProjectTakeover
  <2>2. TypeOK'
    BY <1>2, <2>1, SucceedType DEF IInv, TypeOK, ProjectTakeover
  <2>3. Ending(h)
    BY <1>1, <2>1 DEF Ending, Succeed, ProjectTakeover
  <2> QED
    BY <2>2, <2>3, EndingKeeps DEF IInv
<1> QED
  BY <1>3, <1>4

LEMMA ProjectControlKeeps ==
    ASSUME IInv, NEW p \in Operations, ProjectControl(p) PROVE IInv'
<1>1. p \in Processes /\ pc[p] = "project"
  BY DEF ProjectControl, At, Processes
<1>2. Moving(p)
  BY <1>1, MovesOn, FinishType, TakeoverConstants
     DEF IInv, ProjectControl, Claiming, HandlerPoints, locals
<1>3. TypeOK'
  BY <1>2, MovingKeeps, FinishType DEF IInv, TypeOK, ProjectControl, locals
<1> QED
  BY <1>2, <1>3, MovingKeeps DEF IInv

LEMMA AnnounceKeeps == ASSUME IInv, NEW x \in Processes, Announce(x) PROVE IInv'
<1>1. pc[x] = "announce" /\ Tid(x) \in TransitionIds
  BY TidType DEF Announce, At
<1>2. announced' \in [TransitionIds -> Record \cup {NotLogged}]
  BY <1>1 DEF IInv, TypeOK, Announce
<1>3. CASE x \in Handlers
  <2>1. Succeed(x)
    BY <1>3 DEF Announce
  <2>2. TypeOK'
    BY <1>2, <1>3, <2>1, SucceedType DEF IInv, TypeOK, Announce
  <2>3. Ending(x)
    BY <1>1, <1>3, <2>1 DEF Ending, Succeed, Announce
  <2> QED
    BY <2>2, <2>3, EndingKeeps DEF IInv
<1>4. CASE x \notin Handlers
  <2>1. Finish(x) /\ UNCHANGED spool /\ x \in Operations
    BY <1>4 DEF Announce, Processes
  <2>2. Moving(x)
    BY <1>1, <1>4, <2>1, MovesOn, FinishType
       DEF IInv, Announce, Claiming, HandlerPoints
  <2>3. TypeOK'
    BY <1>2, <2>1, <2>2, MovingKeeps, FinishType DEF IInv, TypeOK, Announce
  <2> QED
    BY <2>2, <2>3, MovingKeeps DEF IInv
<1> QED
  BY <1>3, <1>4

LEMMA ManageKeeps ==
    ASSUME IInv, NEW p \in Operations, NEW c \in Commands, Manage(p, c)
    PROVE  IInv'
<1>1. p \in Processes /\ p \notin Handlers
  BY TakeoverConstants DEF Processes
<1>2. /\ pc' \in [Processes -> HandlerPoints \cup {"idle", "done"}]
      /\ pc'[p] = "read"
      /\ \A y \in Processes : y # p => pc'[y] = pc[y]
  BY <1>1, GotoType DEF IInv, Manage, HandlerPoints
<1>3. body' \in [Operations -> Nat \cup {FromPrevious}]
  BY DEF IInv, TypeOK, Record, Manage
<1>4. command' \in [Operations -> Commands]
  BY DEF IInv, TypeOK, Manage
<1>5. TypeOK'
  BY <1>2, <1>3, <1>4 DEF IInv, TypeOK, Manage, stores
<1>6. \A h \in Handlers : pc'[h] = pc[h]
  BY <1>1, <1>2 DEF Processes
<1>7. RequestsHaveObservations'
  BY <1>2, <1>6 DEF IInv, RequestsHaveObservations, Manage, Processes
<1>8. OneHandlerPerObservation'
  BY <1>6 DEF IInv, OneHandlerPerObservation, At, Manage, stores
<1> QED
  BY <1>5, <1>7, <1>8 DEF IInv

LEMMA FailType ==
    ASSUME TypeOK, NEW x \in Processes, Tid(x) \in TransitionIds, Fail(x)
    PROVE  /\ command' \in [Operations -> Commands]
           /\ body' \in [Operations -> Nat \cup {FromPrevious}]
           /\ previous' \in [Processes -> Record]
           /\ result' \in [Processes -> Record]
           /\ failed' \subseteq TransitionIds
           /\ UNCHANGED obs
<1>1. failed' \subseteq TransitionIds
  BY DEF Fail, TypeOK
<1>2. CASE x \in Handlers
  BY <1>1, <1>2 DEF Fail, TypeOK, locals
<1>3. CASE x \notin Handlers
  BY <1>1, <1>3, FinishType DEF Fail, Processes
<1> QED
  BY <1>2, <1>3

LEMMA FailMoves ==
    ASSUME IInv, NEW x \in Processes, pc[x] \in Claiming, Fail(x),
           UNCHANGED claimed
    PROVE  Moving(x)
<1>1. CASE x \in Handlers
  BY <1>1, MovesOn, TakeoverConstants DEF Fail, Claiming, HandlerPoints, locals
<1>2. CASE x \notin Handlers
  BY <1>2, MovesOn, FinishType DEF IInv, Fail, Processes
<1> QED
  BY <1>1, <1>2

LEMMA QueryFailsKeeps == ASSUME IInv, NEW x \in Processes, QueryFails(x) PROVE IInv'
<1>1. pc[x] \in Claiming /\ Tid(x) \in TransitionIds
  BY TidType DEF QueryFails, At, Claiming, HandlerPoints
<1>2. Moving(x)
  BY <1>1, FailMoves DEF QueryFails, stores
<1>3. faults' \in 0..MaxFaults
  BY FaultCount DEF IInv, QueryFails
<1>4. TypeOK'
  BY <1>1, <1>2, <1>3, MovingKeeps, FailType DEF IInv, TypeOK, QueryFails, stores
<1> QED
  BY <1>2, <1>4, MovingKeeps DEF IInv

LEMMA ApplyUnacknowledgedKeeps ==
    ASSUME IInv, NEW x \in Processes, ApplyUnacknowledged(x) PROVE IInv'
<1>1. pc[x] \in {"apply", "reapply"} /\ Tid(x) \in TransitionIds
  BY TidType DEF ApplyUnacknowledged, At
<1>2. Moving(x)
  BY <1>1, FailMoves DEF ApplyUnacknowledged, Claiming, HandlerPoints
<1>3. Answer(Call(x)) \in Record
  BY <1>1, AnswerType DEF IInv, ApplyUnacknowledged
<1>4. owner' \in Record /\ log' \in [TransitionIds -> Record \cup {NotLogged}]
  BY <1>1, WriteType DEF IInv, ApplyUnacknowledged
<1>5. held' \in [Observations -> Nat] /\ faults' \in 0..MaxFaults
  BY <1>3, HeldType, FaultCount DEF IInv, ApplyUnacknowledged
<1>6. TypeOK'
  BY <1>1, <1>2, <1>4, <1>5, MovingKeeps, FailType
     DEF IInv, TypeOK, ApplyUnacknowledged
<1> QED
  BY <1>2, <1>6, MovingKeeps DEF IInv

LEMMA ReleaseKeeps == ASSUME IInv, NEW h \in Handlers, Release(h) PROVE IInv'
<1>1. TypeOK'
  BY OverType DEF IInv, TypeOK, Release
<1>2. Ending(h)
  BY DEF Release, Ending, At, Claiming, HandlerPoints
<1> QED
  BY <1>1, <1>2, EndingKeeps DEF IInv

LEMMA ReleaseFailsKeeps ==
    ASSUME IInv, NEW h \in Handlers, ReleaseFails(h) PROVE IInv'
<1>1. TypeOK'
  BY OverType DEF IInv, TypeOK, ReleaseFails, stores
<1>2. Ending(h)
  BY DEF ReleaseFails, Ending, At, stores
<1> QED
  BY <1>1, <1>2, EndingKeeps DEF IInv

LEMMA CrashKeeps == ASSUME IInv, NEW x \in Processes, Crash(x) PROVE IInv'
<1>1. pc[x] \notin {"idle", "done"} /\ Tid(x) \in TransitionIds
  BY TidType DEF Crash, At
<1>2. failed' \subseteq TransitionIds /\ faults' \in 0..MaxFaults
  BY <1>1, FaultCount DEF IInv, TypeOK, Crash
<1>3. CASE x \in Handlers
  <2>1. Over(x)
    BY <1>3 DEF Crash
  <2>2. TypeOK'
    BY <1>2, <1>3, <2>1, OverType DEF IInv, TypeOK, Crash, stores
  <2>3. Ending(x)
    BY <1>1, <1>3, <2>1 DEF Ending, Crash, stores
  <2> QED
    BY <2>2, <2>3, EndingKeeps DEF IInv
<1>4. CASE x \notin Handlers
  <2>1. Finish(x) /\ x \in Operations /\ UNCHANGED stores
    BY <1>4 DEF Crash, Processes
  <2>2. Moving(x)
    BY <1>1, <1>4, <2>1, FinishType, GotoType DEF IInv, Moving, stores
  <2>3. TypeOK'
    BY <1>2, <2>1, <2>2, MovingKeeps, FinishType DEF IInv, TypeOK, Crash, stores
  <2> QED
    BY <2>2, <2>3, MovingKeeps DEF IInv
<1> QED
  BY <1>3, <1>4

LEMMA StutterKeeps == ASSUME IInv, UNCHANGED vars PROVE IInv'
<1>1. TypeOK'
  BY DEF IInv, TypeOK, vars, stores, locals
<1>2. RequestsHaveObservations' /\ OneHandlerPerObservation'
  BY DEF IInv, RequestsHaveObservations, OneHandlerPerObservation, At, vars,
         stores, locals
<1> QED
  BY <1>1, <1>2 DEF IInv
-----------------------------------------------------------------------------
LEMMA NextIInv == IInv /\ [Next]_vars => IInv'
<1> SUFFICES ASSUME IInv, [Next]_vars PROVE IInv'
  OBVIOUS
<1>1. CASE \E o \in Observations : Observe(o)
  BY <1>1, ObserveKeeps
<1>2. CASE \E h \in Handlers : \E o \in Observations : Deliver(h, o)
  BY <1>2, DeliverKeeps
<1>3. CASE \E h \in Handlers : Handle(h)
  <2>1. PICK h \in Handlers : Handle(h)
    BY <1>3
  <2>2. h \in Processes
    BY DEF Processes
  <2> QED
    BY <2>1, <2>2, ClaimKeeps, PersistEventKeeps, ReadKeeps, ApplyKeeps,
       RefusedKeeps, RereadKeeps, ProjectTakeoverKeeps, AnnounceKeeps,
       ReleaseKeeps DEF Handle
<1>4. CASE \E h \in Handlers : ClaimFails(h) \/ ReleaseFails(h)
  BY <1>4, ClaimFailsKeeps, ReleaseFailsKeeps
<1>5. CASE \E p \in Operations :
              \E c \in {"manual_takeover", "release_to_agent"} : Manage(p, c)
  <2>1. {"manual_takeover", "release_to_agent"} \subseteq Commands
    BY DEF Commands, Moves
  <2> QED
    BY <1>5, <2>1, ManageKeeps
<1>6. CASE \E p \in Operations : Serve(p)
  <2>1. PICK p \in Operations : Serve(p)
    BY <1>6
  <2>2. p \in Processes
    BY DEF Processes
  <2> QED
    BY <2>1, <2>2, ReadKeeps, ApplyKeeps, RefusedKeeps, ProjectControlKeeps,
       AnnounceKeeps DEF Serve
<1>7. CASE \E x \in Processes : QueryFails(x) \/ ApplyUnacknowledged(x) \/ Crash(x)
  BY <1>7, QueryFailsKeeps, ApplyUnacknowledgedKeeps, CrashKeeps
<1>8. CASE UNCHANGED vars
  BY <1>8, StutterKeeps
<1> QED
  BY <1>1, <1>2, <1>3, <1>4, <1>5, <1>6, <1>7, <1>8 DEF Next

(* The types hold, and however often and however overlapping the worker's  *)
(* flushes deliver an observation, one processLinkedDeviceOutbound at a    *)
(* time is past its claim for it.                                          *)
THEOREM TakeoverInvariant == Spec => []IInv
BY InitIInv, NextIInv, PTL DEF Spec

(* Only the transition writes ownership, and only for an unseen id.        *)
LEMMA WriteOnce ==
    ASSUME IInv, NEW x \in Processes, Tid(x) \in TransitionIds,
           Answer(Call(x)) # Conflict, Write(Call(x)), owner' # owner
    PROVE  log[owner'.transitionId] = NotLogged
<1>1. Call(x).tid = Tid(x) /\ Call(x).command \in Commands
  BY DEF Call, Forced, Managed, Tid, IInv, TypeOK, Processes, Commands, Moves
<1>2. ~Seen(Call(x)) /\ owner' = Answer(Call(x))
  BY DEF Write
<1>3. owner' = Outcome(Call(x), owner)
  BY <1>2 DEF Answer
<1>4. owner'.transitionId = Call(x).tid
  BY <1>3 DEF Outcome, TransitionOwnership
<1> QED
  BY <1>2, <1>4 DEF Seen

(* A redelivered observation, whatever happened since it was first         *)
(* handled, does not change the ownership again: the transition log        *)
(* answers it (forceHumanOwnership over ownershipStore.transition).        *)
THEOREM TakeoverChangesOnce == Spec => TakeoverAppliesOnce
<1>1. IInv /\ [Next]_vars
          => [owner' # owner => log[owner'.transitionId] = NotLogged]_vars
  <2> SUFFICES ASSUME IInv, Next, owner' # owner
               PROVE  log[owner'.transitionId] = NotLogged
    OBVIOUS
  <2>1. PICK x \in Processes : Apply(x) \/ ApplyUnacknowledged(x)
    BY DEF Next, Handle, Serve, Processes, Observe, Deliver, Claim, ClaimFails,
           PersistEvent, Read, Refused, Reread, ProjectTakeover, ProjectControl,
           Announce, Manage, QueryFails, Release, ReleaseFails, Crash, stores
  <2>2. Tid(x) \in TransitionIds
    BY <2>1, TidType DEF Apply, ApplyUnacknowledged, At
  <2> QED
    BY <2>1, <2>2, WriteOnce DEF Apply, ApplyUnacknowledged
<1> QED
  BY <1>1, TakeoverInvariant, PTL DEF Spec, TakeoverAppliesOnce
-----------------------------------------------------------------------------
(* What the next two theorems rest on.                                     *)

(* A version the conversation was made human at: it still is, or a later   *)
(* version was released.                                                   *)
Anchored(v) ==
    /\ v \in Nat /\ v > 0 /\ v <= owner.version
    /\ \/ owner.state = "HUMAN_ACTIVE"
       \/ \E p \in Operations :
             log[p] # NotLogged /\ log[p].state = "AI_ACTIVE" /\ log[p].version > v

(* The operator's messages leave human records in the log, and what a      *)
(* request holds, or has recorded, is anchored.                            *)
OwnerLogged ==
    /\ owner.transitionId # NoTransition => log[owner.transitionId] # NotLogged
    /\ owner.state = "HUMAN_ACTIVE" => owner.version > 0
TakeoversAnchored ==
    \A o \in Observations :
        /\ log[o] # NotLogged => log[o].state = "HUMAN_ACTIVE" /\ Anchored(log[o].version)
        /\ held[o] # NotHeld => Anchored(held[o])
ProjectsAreHeld ==
    /\ \A o \in recorded : held[o] # NotHeld
    /\ \A h \in Handlers : pc[h] = "project" => held[obs[h]] # NotHeld
HoldInv == OwnerLogged /\ TakeoversAnchored /\ ProjectsAreHeld

(* A change on its way to be announced.                                    *)
Carries(x, t) == pc[x] \in {"project", "announce"} /\ Tid(x) = t /\ Changed(x)

PreviousIsPast == \A x \in Processes : previous[x].version <= owner.version
CarriedIsLogged ==
    \A x \in Processes :
        /\ pc[x] = "announce" => Changed(x)
        /\ pc[x] \in {"project", "announce"} /\ Changed(x) => log[Tid(x)] = result[x]
AnnouncedIsLogged ==
    \A t \in TransitionIds : announced[t] # NotLogged => announced[t] = log[t]
ChangesAreCarried ==
    \A t \in TransitionIds \ failed :
        Effective(t) => announced[t] = log[t] \/ \E x \in Processes : Carries(x, t)
AnnounceInv == PreviousIsPast /\ CarriedIsLogged /\ AnnouncedIsLogged /\ ChangesAreCarried

(* A step of x leaves the others where they are.                           *)
OthersStay(x) ==
    \A y \in Processes \ {x} :
        /\ pc'[y] = pc[y] /\ previous'[y] = previous[y] /\ result'[y] = result[y]
        /\ y \in Handlers => obs'[y] = obs[y]

LEMMA GotoLeavesOthers ==
    ASSUME TypeOK, NEW x \in Processes,
           NEW point \in HandlerPoints \cup {"idle", "done"}, Goto(x, point),
           obs' = obs \/ (x \in Handlers /\ \E o : obs' = [obs EXCEPT ![x] = o]),
           previous' = previous \/ \E r : previous' = [previous EXCEPT ![x] = r],
           result' = result \/ \E r : result' = [result EXCEPT ![x] = r]
    PROVE  OthersStay(x) /\ pc'[x] = point
<1>1. \A y \in Processes \ {x} : pc'[y] = pc[y]
  BY GotoType
<1>2. \A y \in Processes \ {x} : previous'[y] = previous[y]
  BY DEF TypeOK
<1>3. \A y \in Processes \ {x} : result'[y] = result[y]
  BY DEF TypeOK
<1>4. \A y \in Handlers \ {x} : obs'[y] = obs[y]
  BY DEF TypeOK
<1> QED
  BY <1>1, <1>2, <1>3, <1>4, GotoType DEF OthersStay

LEMMA OverLeavesOthers ==
    ASSUME TypeOK, NEW h \in Handlers, Over(h)
    PROVE  /\ OthersStay(h) /\ pc'[h] = "idle" /\ obs'[h] = NoObservation
           /\ previous'[h] = InitialOwnership
<1>1. h \in Processes
  BY DEF Processes
<1>2. OthersStay(h)
  BY <1>1, GotoLeavesOthers DEF Over
<1> QED
  BY <1>1, <1>2, OverType DEF Over, TypeOK

LEMMA FinishLeavesOthers ==
    ASSUME TypeOK, NEW p \in Operations, Finish(p)
    PROVE  OthersStay(p) /\ pc'[p] = "done" /\ previous'[p] = InitialOwnership
<1>1. p \in Processes
  BY DEF Processes
<1>2. /\ Goto(p, "done") /\ obs' = obs
      /\ previous' = [previous EXCEPT ![p] = InitialOwnership]
      /\ result' = [result EXCEPT ![p] = InitialOwnership]
  BY DEF Finish
<1>3. pc'[p] = "done" /\ \A y \in Processes \ {p} : pc'[y] = pc[y]
  BY <1>1, <1>2, GotoType
<1>4. OthersStay(p)
  BY <1>2, <1>3 DEF TypeOK, OthersStay
<1> QED
  BY <1>1, <1>2, <1>3, <1>4 DEF TypeOK
-----------------------------------------------------------------------------
(* Takeovers end by a release only.                                        *)

(* Every action says which points its actor leaves for which.              *)
LEMMA SucceedLeavesOthers ==
    ASSUME TypeOK, NEW h \in Handlers, Succeed(h)
    PROVE  /\ OthersStay(h) /\ pc'[h] = "idle" /\ previous'[h] = InitialOwnership
BY OverLeavesOthers DEF Succeed

LEMMA FailLeavesOthers ==
    ASSUME TypeOK, NEW x \in Processes, Fail(x)
    PROVE  /\ OthersStay(x) /\ pc'[x] \in {"release", "done"}
           /\ previous'[x].version <= previous[x].version
           /\ failed' = failed \cup {Tid(x)}
<1>1. CASE x \in Handlers
  BY <1>1, GotoLeavesOthers DEF Fail, HandlerPoints, locals, TypeOK, Record
<1>2. CASE x \in Operations /\ x \notin Handlers
  BY <1>2, FinishLeavesOthers DEF Fail, InitialOwnership, TypeOK, Record
<1> QED
  BY <1>1, <1>2 DEF Processes

(* Steps that write neither the record nor what is held keep it.           *)
LEMMA QuietHolds ==
    ASSUME HoldInv, UNCHANGED <<owner, log, held, recorded>>,
           \A h \in Handlers : pc'[h] = "project" => pc[h] = "project" /\ obs'[h] = obs[h]
    PROVE  HoldInv'
<1>1. OwnerLogged' /\ TakeoversAnchored'
  BY DEF HoldInv, OwnerLogged, TakeoversAnchored, Anchored
<1>2. ProjectsAreHeld'
  BY DEF HoldInv, ProjectsAreHeld
<1> QED
  BY <1>1, <1>2 DEF HoldInv

LEMMA ActorHolds ==
    ASSUME HoldInv, NEW x \in Processes, OthersStay(x), pc'[x] # "project",
           UNCHANGED <<owner, log, held, recorded>>
    PROVE  HoldInv'
BY QuietHolds DEF OthersStay, Processes

(* What a transition that was not recorded before leaves.                  *)
LEMMA NewAnswer ==
    ASSUME IInv, HoldInv, NEW x \in Processes, Tid(x) \in TransitionIds,
           Answer(Call(x)) # Conflict, ~Seen(Call(x)),
           NEW a, a = Answer(Call(x))
    PROVE  /\ \/ a = owner
              \/ /\ a.version = owner.version + 1 /\ a.transitionId = Tid(x)
                 /\ a.state = NextStateFor(owner.state, Call(x).command)
           /\ x \in Handlers => a.state = "HUMAN_ACTIVE" /\ a.version > 0
           /\ owner.state = "HUMAN_ACTIVE" /\ a.state # "HUMAN_ACTIVE" =>
                 x \in Operations /\ a.state = "AI_ACTIVE"
<1>1. /\ Call(x).tid = Tid(x) /\ Call(x).command \in Commands
      /\ x \in Handlers => Call(x).command = "manual_takeover"
      /\ log[Tid(x)] = NotLogged
  BY DEF Call, Forced, Managed, Tid, IInv, TypeOK, Processes, Commands, Moves, Seen
<1>2. owner.transitionId # Tid(x)
  BY <1>1, OwnershipConstants DEF HoldInv, OwnerLogged
<1>3. a = TransitionOwnership(owner, Call(x).command, Tid(x))
  BY <1>1 DEF Answer, Outcome
<1>4. owner.state \in States /\ owner.version \in Nat
  BY DEF IInv, TypeOK, Record
<1>5. NextStateFor(owner.state, "manual_takeover") = "HUMAN_ACTIVE"
  BY <1>4 DEF NextStateFor, Moves
<1>6. NextStateFor("HUMAN_ACTIVE", "release_to_agent") = "AI_ACTIVE"
  BY DEF NextStateFor, Moves
<1>7. \/ a = owner /\ NextStateFor(owner.state, Call(x).command) = owner.state
      \/ /\ a.version = owner.version + 1 /\ a.transitionId = Tid(x)
         /\ a.state = NextStateFor(owner.state, Call(x).command)
  BY <1>2, <1>3 DEF TransitionOwnership
<1>8. x \in Handlers => a.state = "HUMAN_ACTIVE" /\ a.version > 0
  BY <1>1, <1>4, <1>5, <1>7 DEF HoldInv, OwnerLogged
<1>9. ASSUME owner.state = "HUMAN_ACTIVE", a.state # "HUMAN_ACTIVE"
      PROVE  x \in Operations /\ a.state = "AI_ACTIVE"
  <2>1. a.state = NextStateFor("HUMAN_ACTIVE", Call(x).command)
    BY <1>7, <1>9
  <2>2. Call(x).command = "release_to_agent"
    BY <1>1, <1>9, <2>1 DEF NextStateFor, Moves, Commands, States
  <2>3. x \in Operations
    BY <1>1, <2>2 DEF Processes
  <2> QED
    BY <1>6, <2>1, <2>2, <2>3
<1> QED
  BY <1>7, <1>8, <1>9

(* What was anchored stays so: a human record gives way only to a release, *)
(* which has the next version and is in the log.                           *)
LEMMA WriteAnchors ==
    ASSUME IInv, HoldInv, NEW x \in Processes, Tid(x) \in TransitionIds,
           Answer(Call(x)) # Conflict, Write(Call(x)), NEW v, Anchored(v)
    PROVE  Anchored(v)'
<1>1. CASE Seen(Call(x))
  BY <1>1 DEF Write, Anchored
<1>2. CASE ~Seen(Call(x))
  <2>1. PICK a \in Record : a = Answer(Call(x))
    BY AnswerType DEF IInv
  <2>2. /\ owner' = a /\ log' = [log EXCEPT ![Tid(x)] = a]
        /\ log[Tid(x)] = NotLogged
    <3>1. Call(x).tid = Tid(x)
      BY DEF Call, Forced, Managed, Tid
    <3> QED
      BY <1>2, <2>1, <3>1 DEF Write, Seen
  <2>3. /\ owner.version <= a.version
        /\ \A t \in TransitionIds : log[t] # NotLogged => log'[t] = log[t]
        /\ log'[Tid(x)] = a
    BY <1>2, <2>1, <2>2, NewAnswer DEF IInv, TypeOK, Record
  <2>4. v \in Nat /\ v > 0 /\ v <= owner'.version
    BY <2>1, <2>2, <2>3 DEF Anchored, IInv, TypeOK, Record
  <2>5. CASE owner.state = "HUMAN_ACTIVE" /\ a.state # "HUMAN_ACTIVE"
    <3>1. x \in Operations /\ a.state = "AI_ACTIVE" /\ a.version = owner.version + 1
      BY <1>2, <2>1, <2>5, NewAnswer
    <3>2. log'[x] = a
      BY <2>3, <3>1, TakeoverConstants DEF Tid
    <3>3. log'[x] # NotLogged /\ log'[x].state = "AI_ACTIVE" /\ log'[x].version > v
      BY <2>1, <3>1, <3>2, TakeoverConstants DEF Anchored, IInv, TypeOK, Record
    <3> QED
      BY <2>4, <3>1, <3>3 DEF Anchored
  <2>6. CASE owner.state = "HUMAN_ACTIVE" /\ a.state = "HUMAN_ACTIVE"
    BY <2>2, <2>4, <2>6 DEF Anchored
  <2>7. CASE owner.state # "HUMAN_ACTIVE"
    <3>1. PICK p \in Operations :
              log[p] # NotLogged /\ log[p].state = "AI_ACTIVE" /\ log[p].version > v
      BY <2>7 DEF Anchored
    <3>2. log'[p] = log[p]
      BY <2>3, <3>1, TakeoverConstants
    <3> QED
      BY <2>4, <3>1, <3>2 DEF Anchored
  <2> QED
    BY <2>5, <2>6, <2>7
<1> QED
  BY <1>1, <1>2
(* What a request's transition answers is a takeover that is anchored.     *)
LEMMA RequestsAreAnsweredHuman ==
    ASSUME IInv, HoldInv, NEW h \in Handlers, obs[h] \in Observations,
           Answer(Call(h)) # Conflict, Write(Call(h)), NEW a, a = Answer(Call(h))
    PROVE  a.state = "HUMAN_ACTIVE" /\ a.version > 0 /\ Anchored(a.version)'
<1>1. h \in Processes /\ Tid(h) = obs[h] /\ Tid(h) \in TransitionIds /\ Call(h).tid = obs[h]
  BY TakeoverConstants DEF Processes, Tid, Call, Forced
<1>2. CASE Seen(Call(h))
  <2>1. a = log[obs[h]] /\ log[obs[h]] # NotLogged
    BY <1>1, <1>2 DEF Answer, Seen
  <2>2. a.state = "HUMAN_ACTIVE" /\ Anchored(a.version)
    BY <2>1 DEF HoldInv, TakeoversAnchored
  <2>3. Anchored(a.version)'
    BY <1>1, <2>2, WriteAnchors
  <2> QED
    BY <2>2, <2>3 DEF Anchored
<1>3. CASE ~Seen(Call(h))
  <2>1. a.state = "HUMAN_ACTIVE" /\ a.version > 0
    BY <1>1, <1>3, NewAnswer
  <2>2. a \in Record /\ owner' = a
    BY <1>1, <1>3, AnswerType DEF IInv, Write
  <2> QED
    BY <2>1, <2>2 DEF Anchored, Record
<1> QED
  BY <1>2, <1>3

LEMMA WriteHolds ==
    ASSUME IInv, HoldInv, NEW x \in Processes, Tid(x) \in TransitionIds,
           x \in Handlers => obs[x] \in Observations,
           Answer(Call(x)) # Conflict, Write(Call(x)), HeldBy(x, Answer(Call(x))),
           UNCHANGED <<recorded, obs>>,
           \A h \in Handlers : pc'[h] = "project" => h = x \/ pc[h] = "project"
    PROVE  HoldInv'
<1>1. PICK a \in Record : a = Answer(Call(x))
  BY AnswerType DEF IInv
<1>2. Call(x).tid = Tid(x)
  BY DEF Call, Forced, Managed, Tid
<1>3. /\ \A t \in TransitionIds :
            log'[t] # NotLogged => log'[t] = log[t] \/ (t = Tid(x) /\ log'[t] = a)
      /\ \A t \in TransitionIds : log[t] # NotLogged => log'[t] # NotLogged
  BY <1>1, <1>2, TakeoverConstants DEF Write, Seen, IInv, TypeOK
<1>4. x \in Handlers => a.state = "HUMAN_ACTIVE" /\ a.version > 0 /\ Anchored(a.version)'
  BY <1>1, RequestsAreAnsweredHuman
<1>5. OwnerLogged'
  <2>1. CASE Seen(Call(x))
    BY <2>1 DEF Write, HoldInv, OwnerLogged
  <2>2. CASE ~Seen(Call(x))
    <3>1. owner' = a /\ log'[Tid(x)] = a
      BY <1>1, <1>2, <2>2 DEF Write, IInv, TypeOK
    <3>2. \/ a = owner
          \/ a.version = owner.version + 1 /\ a.transitionId = Tid(x)
      BY <1>1, <2>2, NewAnswer
    <3>3. a # NotLogged /\ owner.version \in Nat
      BY <1>1, TakeoverConstants DEF IInv, TypeOK, Record
    <3>4. owner.transitionId # NoTransition => owner.transitionId \in TransitionIds
      BY DEF IInv, TypeOK, Record
    <3> QED
      BY <1>3, <3>1, <3>2, <3>3, <3>4 DEF HoldInv, OwnerLogged
  <2> QED
    BY <2>1, <2>2
<1>6. TakeoversAnchored'
  <2>1. ASSUME NEW o \in Observations, log'[o] # NotLogged
        PROVE  log'[o].state = "HUMAN_ACTIVE" /\ Anchored(log[o].version)'
    <3>1. o \in TransitionIds /\ (o = Tid(x) => x \in Handlers)
      BY TakeoverConstants DEF Tid, Processes
    <3>2. CASE log'[o] = log[o]
      <4>1. PICK v : v = log[o].version
        OBVIOUS
      <4>2. log[o].state = "HUMAN_ACTIVE" /\ Anchored(v)
        BY <2>1, <3>2, <4>1 DEF HoldInv, TakeoversAnchored
      <4>3. Anchored(v)'
        BY <4>2, WriteAnchors
      <4> QED
        BY <3>2, <4>1, <4>2, <4>3 DEF Anchored
    <3>3. CASE o = Tid(x) /\ log'[o] = a
      BY <1>4, <3>1, <3>3 DEF Anchored
    <3> QED
      BY <1>3, <2>1, <3>1, <3>2, <3>3
  <2>2. ASSUME NEW o \in Observations, held'[o] # NotHeld
        PROVE  Anchored(held[o])'
    <3>1. PICK v : v = held'[o]
      OBVIOUS
    <3>2. CASE v = held[o]
      <4>1. Anchored(v)
        BY <2>2, <3>1, <3>2 DEF HoldInv, TakeoversAnchored
      <4>2. Anchored(v)'
        BY <4>1, WriteAnchors
      <4> QED
        BY <3>1, <4>2 DEF Anchored
    <3>3. CASE x \in Handlers /\ v = a.version
      BY <1>4, <3>1, <3>3 DEF Anchored
    <3>4. v = held[o] \/ (x \in Handlers /\ v = a.version)
      BY <1>1, <3>1 DEF HeldBy, IInv, TypeOK
    <3> QED
      BY <3>2, <3>3, <3>4
  <2> QED
    BY <2>1, <2>2 DEF TakeoversAnchored
<1>7. ProjectsAreHeld'
  <2>1. \A o \in Observations : held[o] # NotHeld => held'[o] # NotHeld
    BY <1>1, <1>4 DEF HeldBy, IInv, TypeOK, NotHeld
  <2>2. x \in Handlers => held'[obs[x]] # NotHeld
    BY <1>1, <1>4 DEF HeldBy, IInv, TypeOK, NotHeld
  <2>3. \A h \in Handlers : pc[h] = "project" => obs[h] \in Observations
    BY TakeoverConstants DEF IInv, TypeOK, RequestsHaveObservations
  <2>4. recorded \subseteq Observations
    BY DEF IInv, TypeOK
  <2> QED
    BY <2>1, <2>2, <2>3, <2>4 DEF HoldInv, ProjectsAreHeld
<1> QED
  BY <1>5, <1>6, <1>7 DEF HoldInv

LEMMA ApplyHolds ==
    ASSUME IInv, HoldInv, NEW x \in Processes, Apply(x) \/ ApplyUnacknowledged(x)
    PROVE  HoldInv'
<1>1. pc[x] \in {"apply", "reapply"}
  BY DEF Apply, ApplyUnacknowledged, At
<1>2. Tid(x) \in TransitionIds /\ (x \in Handlers => obs[x] \in Observations)
  BY <1>1, TidType
<1>3. OthersStay(x) /\ obs' = obs
  <2>1. CASE Apply(x)
    <3>1. \A y \in Processes \ {x} : pc'[y] = pc[y]
      BY <2>1, GotoType DEF IInv, Apply, HandlerPoints
    <3> QED
      BY <2>1, <3>1 DEF IInv, TypeOK, Apply, OthersStay
  <2>2. CASE ApplyUnacknowledged(x)
    BY <1>2, <2>2, FailLeavesOthers, FailType DEF IInv, ApplyUnacknowledged
  <2> QED
    BY <2>1, <2>2
<1>4. \A h \in Handlers : pc'[h] = "project" => h = x \/ pc[h] = "project"
  BY <1>3 DEF OthersStay, Processes
<1> QED
  BY <1>2, <1>3, <1>4, WriteHolds DEF Apply, ApplyUnacknowledged

LEMMA RereadHolds ==
    ASSUME IInv, HoldInv, NEW h \in Handlers, Reread(h)
    PROVE  HoldInv'
<1>1. h \in Processes /\ obs[h] \in Observations /\ pc[h] = "reread"
  BY TidType DEF Processes, Reread, At
<1>2. \A y \in Processes \ {h} : pc'[y] = pc[y]
  BY <1>1, GotoType DEF IInv, Reread, HandlerPoints
<1>3. pc'[h] = "project" => owner.state = "HUMAN_ACTIVE" /\ HeldBy(h, owner)
  BY <1>1, GotoType DEF IInv, Reread, HandlerPoints
<1>4. \/ held' = held
      \/ owner.state = "HUMAN_ACTIVE" /\ held' = [held EXCEPT ![obs[h]] = owner.version]
  BY DEF Reread, HeldBy
<1>5. owner.state = "HUMAN_ACTIVE" => Anchored(owner.version)
  BY DEF HoldInv, OwnerLogged, Anchored, IInv, TypeOK, Record
<1>6. \A o \in Observations : held'[o] # held[o] => held'[o] = owner.version /\ Anchored(owner.version)
  BY <1>1, <1>4, <1>5 DEF IInv, TypeOK
<1>7. OwnerLogged'
  BY DEF HoldInv, OwnerLogged, Reread, stores
<1>8. TakeoversAnchored'
  BY <1>6 DEF HoldInv, TakeoversAnchored, Anchored, Reread, stores
<1>9. \A o \in Observations : held[o] # NotHeld => held'[o] # NotHeld
  BY <1>6 DEF Anchored, NotHeld
<1>10. pc'[h] = "project" => held'[obs[h]] # NotHeld
  BY <1>1, <1>3, <1>5 DEF HeldBy, Anchored, NotHeld, IInv, TypeOK
<1>11. ProjectsAreHeld'
  <2>1. \A g \in Handlers : pc[g] = "project" => obs[g] \in Observations
    BY TakeoverConstants DEF IInv, TypeOK, RequestsHaveObservations
  <2>2. recorded \subseteq Observations
    BY DEF IInv, TypeOK
  <2> QED
    BY <1>2, <1>9, <1>10, <2>1, <2>2
       DEF HoldInv, ProjectsAreHeld, Reread, stores, Processes
<1> QED
  BY <1>7, <1>8, <1>11 DEF HoldInv

LEMMA ProjectTakeoverHolds ==
    ASSUME IInv, HoldInv, NEW h \in Handlers, ProjectTakeover(h)
    PROVE  HoldInv'
<1>1. h \in Processes /\ obs[h] \in Observations /\ pc[h] = "project"
  BY TidType DEF Processes, ProjectTakeover, At
<1>2. OthersStay(h) /\ pc'[h] # "project"
  <2>1. CASE Changed(h)
    <3>1. Goto(h, "announce") /\ UNCHANGED locals
      BY <2>1 DEF ProjectTakeover
    <3>2. pc'[h] = "announce" /\ \A y \in Processes \ {h} : pc'[y] = pc[y]
      BY <1>1, <3>1, GotoType DEF IInv, HandlerPoints
    <3> QED
      BY <3>1, <3>2 DEF OthersStay, locals
  <2>2. CASE ~Changed(h)
    BY <2>2, SucceedLeavesOthers DEF IInv, ProjectTakeover
  <2> QED
    BY <2>1, <2>2
<1>3. held[obs[h]] # NotHeld
  BY <1>1 DEF HoldInv, ProjectsAreHeld
<1>4. OwnerLogged' /\ TakeoversAnchored'
  BY DEF HoldInv, OwnerLogged, TakeoversAnchored, Anchored, ProjectTakeover
<1>5. ProjectsAreHeld'
  BY <1>2, <1>3 DEF HoldInv, ProjectsAreHeld, ProjectTakeover, OthersStay, Processes
<1> QED
  BY <1>4, <1>5 DEF HoldInv

LEMMA MoveLeavesOthers ==
    ASSUME TypeOK, NEW x \in Processes,
           NEW point \in HandlerPoints \cup {"idle", "done"}, Goto(x, point),
           UNCHANGED locals
    PROVE  OthersStay(x) /\ pc'[x] = point
<1>1. pc'[x] = point /\ \A y \in Processes \ {x} : pc'[y] = pc[y]
  BY GotoType
<1> QED
  BY <1>1 DEF OthersStay, locals

(* The steps of one actor that write neither record, log nor holdings.     *)
LEMMA RequestsLeaveOthers ==
    ASSUME IInv, NEW h \in Handlers,
           \/ \E o \in Observations : Deliver(h, o)
           \/ Claim(h) \/ PersistEvent(h) \/ ClaimFails(h) \/ Release(h) \/ ReleaseFails(h)
    PROVE  OthersStay(h) /\ pc'[h] \notin {"project", "announce"}
<1>1. h \in Processes
  BY DEF Processes
<1>2. ASSUME NEW o \in Observations, Deliver(h, o)
      PROVE  OthersStay(h) /\ pc'[h] = "claim"
  BY <1>1, <1>2, GotoLeavesOthers DEF IInv, Deliver, HandlerPoints
<1>3. CASE Claim(h)
  <2>1. CASE obs[h] \in claimed
    BY <1>3, <2>1, SucceedLeavesOthers DEF IInv, Claim
  <2>2. CASE obs[h] \notin claimed
    <3>1. Goto(h, "persist") /\ UNCHANGED locals
      BY <1>3, <2>2 DEF Claim
    <3> QED
      BY <1>1, <3>1, MoveLeavesOthers DEF IInv, HandlerPoints
  <2> QED
    BY <2>1, <2>2
<1>4. CASE PersistEvent(h)
  <2>1. Goto(h, "read") /\ UNCHANGED locals
    BY <1>4 DEF PersistEvent
  <2> QED
    BY <1>1, <2>1, MoveLeavesOthers DEF IInv, HandlerPoints
<1>5. CASE ClaimFails(h) \/ Release(h) \/ ReleaseFails(h)
  BY <1>5, OverLeavesOthers DEF IInv, ClaimFails, Release, ReleaseFails
<1> QED
  BY <1>2, <1>3, <1>4, <1>5

LEMMA CallsLeaveOthers ==
    ASSUME IInv, NEW x \in Processes, Read(x) \/ Refused(x) \/ Announce(x)
    PROVE  OthersStay(x) /\ pc'[x] \notin {"project", "announce"}
<1>1. CASE Read(x)
  <2>1. pc'[x] = "apply" /\ \A y \in Processes \ {x} : pc'[y] = pc[y]
    BY <1>1, GotoType DEF IInv, Read, HandlerPoints
  <2> QED
    BY <1>1, <2>1 DEF IInv, TypeOK, Read, OthersStay
<1>2. CASE Refused(x)
  <2>1. CASE x \in Operations
    BY <1>2, <2>1, FinishLeavesOthers DEF IInv, Refused
  <2>2. CASE x \notin Operations
    <3>1. /\ UNCHANGED locals
          /\ Goto(x, "reread") \/ Goto(x, "release")
      BY <1>2, <2>2 DEF Refused
    <3> QED
      BY <3>1, MoveLeavesOthers DEF IInv, HandlerPoints
  <2> QED
    BY <2>1, <2>2
<1>3. CASE Announce(x)
  <2>1. CASE x \in Handlers
    BY <1>3, <2>1, SucceedLeavesOthers DEF IInv, Announce
  <2>2. CASE x \in Operations /\ x \notin Handlers
    BY <1>3, <2>2, FinishLeavesOthers DEF IInv, Announce
  <2> QED
    BY <2>1, <2>2 DEF Processes
<1> QED
  BY <1>1, <1>2, <1>3

LEMMA FailuresLeaveOthers ==
    ASSUME IInv, NEW x \in Processes, QueryFails(x) \/ Crash(x)
    PROVE  OthersStay(x) /\ pc'[x] \notin {"project", "announce"}
<1>1. CASE QueryFails(x)
  BY <1>1, FailLeavesOthers DEF IInv, QueryFails
<1>2. CASE Crash(x)
  <2>1. CASE x \in Handlers
    BY <1>2, <2>1, OverLeavesOthers DEF IInv, Crash
  <2>2. CASE x \in Operations /\ x \notin Handlers
    BY <1>2, <2>2, FinishLeavesOthers DEF IInv, Crash
  <2> QED
    BY <2>1, <2>2 DEF Processes
<1> QED
  BY <1>1, <1>2

LEMMA ManagementLeavesOthers ==
    ASSUME IInv, NEW p \in Operations,
           (\E c \in Commands : Manage(p, c)) \/ ProjectControl(p)
    PROVE  OthersStay(p) /\ pc'[p] # "project"
<1>1. p \in Processes
  BY DEF Processes
<1>2. CASE \E c \in Commands : Manage(p, c)
  <2>1. Goto(p, "read") /\ UNCHANGED <<obs, previous, result>>
    BY <1>2 DEF Manage
  <2>2. pc'[p] = "read" /\ \A y \in Processes \ {p} : pc'[y] = pc[y]
    BY <1>1, <2>1, GotoType DEF IInv, HandlerPoints
  <2> QED
    BY <2>1, <2>2 DEF OthersStay
<1>3. CASE ProjectControl(p)
  <2>1. CASE Changed(p)
    <3>1. Goto(p, "announce") /\ UNCHANGED locals
      BY <1>3, <2>1 DEF ProjectControl
    <3> QED
      BY <1>1, <3>1, MoveLeavesOthers DEF IInv, HandlerPoints
  <2>2. CASE ~Changed(p)
    BY <1>3, <2>2, FinishLeavesOthers DEF IInv, ProjectControl
  <2> QED
    BY <2>1, <2>2
<1> QED
  BY <1>2, <1>3
LEMMA InitHolds == Init => HoldInv
<1> SUFFICES ASSUME Init PROVE HoldInv
  OBVIOUS
<1>1. owner = InitialOwnership /\ log = [t \in TransitionIds |-> NotLogged]
  BY DEF Init
<1>2. OwnerLogged
  BY <1>1 DEF InitialOwnership, OwnerLogged
<1>3. TakeoversAnchored
  BY <1>1, TakeoverConstants DEF Init, TakeoversAnchored
<1>4. ProjectsAreHeld
  BY DEF Init, ProjectsAreHeld, Processes
<1> QED
  BY <1>2, <1>3, <1>4 DEF HoldInv

LEMMA NextHolds == IInv /\ HoldInv /\ [Next]_vars => HoldInv'
<1> SUFFICES ASSUME IInv, HoldInv, [Next]_vars PROVE HoldInv'
  OBVIOUS
<1>1. CASE \E o \in Observations : Observe(o)
  BY <1>1, QuietHolds DEF Observe, stores, locals
<1>2. CASE \E x \in Processes :
              Apply(x) \/ ApplyUnacknowledged(x)
  BY <1>2, ApplyHolds
<1>3. CASE \E h \in Handlers : Reread(h) \/ ProjectTakeover(h)
  BY <1>3, RereadHolds, ProjectTakeoverHolds
<1>4. CASE \E h \in Handlers :
              \/ \E o \in Observations : Deliver(h, o)
              \/ Claim(h) \/ PersistEvent(h) \/ ClaimFails(h) \/ Release(h)
              \/ ReleaseFails(h)
  <2>1. PICK h \in Handlers :
              \/ \E o \in Observations : Deliver(h, o)
              \/ Claim(h) \/ PersistEvent(h) \/ ClaimFails(h) \/ Release(h)
              \/ ReleaseFails(h)
    BY <1>4
  <2>2. h \in Processes /\ OthersStay(h) /\ pc'[h] # "project"
    BY <2>1, RequestsLeaveOthers DEF Processes
  <2>3. UNCHANGED <<owner, log, held, recorded>>
    BY <2>1 DEF Deliver, Claim, PersistEvent, ClaimFails, Release, ReleaseFails, stores
  <2> QED
    BY <2>2, <2>3, ActorHolds
<1>5. CASE \E x \in Processes : Read(x) \/ Refused(x) \/ Announce(x)
  <2>1. PICK x \in Processes : Read(x) \/ Refused(x) \/ Announce(x)
    BY <1>5
  <2>2. OthersStay(x) /\ pc'[x] # "project"
    BY <2>1, CallsLeaveOthers
  <2>3. UNCHANGED <<owner, log, held, recorded>>
    BY <2>1 DEF Read, Refused, Announce, stores
  <2> QED
    BY <2>2, <2>3, ActorHolds
<1>6. CASE \E p \in Operations : (\E c \in Commands : Manage(p, c)) \/ ProjectControl(p)
  <2>1. PICK p \in Operations : (\E c \in Commands : Manage(p, c)) \/ ProjectControl(p)
    BY <1>6
  <2>2. p \in Processes /\ OthersStay(p) /\ pc'[p] # "project"
    BY <2>1, ManagementLeavesOthers DEF Processes
  <2>3. UNCHANGED <<owner, log, held, recorded>>
    BY <2>1 DEF Manage, ProjectControl, stores
  <2> QED
    BY <2>2, <2>3, ActorHolds
<1>7. CASE \E x \in Processes : QueryFails(x) \/ Crash(x)
  <2>1. PICK x \in Processes : QueryFails(x) \/ Crash(x)
    BY <1>7
  <2>2. OthersStay(x) /\ pc'[x] # "project"
    BY <2>1, FailuresLeaveOthers
  <2>3. UNCHANGED <<owner, log, held, recorded>>
    BY <2>1 DEF QueryFails, Crash, stores
  <2> QED
    BY <2>2, <2>3, ActorHolds
<1>8. CASE UNCHANGED vars
  BY <1>8, QuietHolds DEF vars, stores, locals
<1>9. {"manual_takeover", "release_to_agent"} \subseteq Commands
  BY DEF Commands, Moves
<1> QED
  BY <1>1, <1>2, <1>3, <1>4, <1>5, <1>6, <1>7, <1>8, <1>9, Zenon
     DEF Next, Handle, Serve, Processes

(* An operator's message, once it is in the conversation history, holds    *)
(* the conversation for people until a management call releases a later    *)
(* version: no redelivery, retry, death or refused transition can hand it  *)
(* back to the agent.                                                      *)
THEOREM TakeoversEndByReleaseOnly == Spec => []OnlyReleaseEndsTakeover
<1>1. IInv /\ HoldInv => OnlyReleaseEndsTakeover
  BY DEF IInv, TypeOK, HoldInv, TakeoversAnchored, ProjectsAreHeld, Anchored,
         OnlyReleaseEndsTakeover
<1>2. Spec => []HoldInv
  BY InitHolds, NextHolds, TakeoverInvariant, PTL DEF Spec
<1> QED
  BY <1>1, <1>2, TakeoverInvariant, PTL-----------------------------------------------------------------------------
(* Changes are announced.                                                  *)
LEMMA InitAnnounces == Init => AnnounceInv
<1> SUFFICES ASSUME Init PROVE AnnounceInv
  OBVIOUS
<1>1. PreviousIsPast
  BY DEF Init, InitialOwnership, PreviousIsPast
<1>2. CarriedIsLogged
  BY DEF Init, CarriedIsLogged
<1>3. AnnouncedIsLogged /\ ChangesAreCarried
  BY DEF Init, AnnouncedIsLogged, ChangesAreCarried, Effective
<1> QED
  BY <1>1, <1>2, <1>3 DEF AnnounceInv

(* The others carry what they carried.                                     *)
LEMMA OthersCarry ==
    ASSUME NEW x \in Processes, OthersStay(x), NEW y \in Processes \ {x}
    PROVE  /\ pc'[y] = pc[y] /\ Tid(y)' = Tid(y) /\ Changed(y)' = Changed(y)
           /\ previous'[y] = previous[y] /\ result'[y] = result[y]
           /\ \A t : Carries(y, t) => Carries(y, t)'
<1>1. /\ pc'[y] = pc[y] /\ previous'[y] = previous[y] /\ result'[y] = result[y]
      /\ y \in Handlers => obs'[y] = obs[y]
  BY DEF OthersStay
<1>2. Tid(y)' = Tid(y)
  BY <1>1 DEF Tid
<1>3. Changed(y)' = Changed(y)
  BY <1>1 DEF Changed
<1>4. \A t : Carries(y, t) => Carries(y, t)'
  BY <1>1, <1>2, <1>3 DEF Carries
<1> QED
  BY <1>1, <1>2, <1>3, <1>4

(* A step of x that leaves it without a change to announce: it had none,   *)
(* or an error got in the way of it.                                       *)
LEMMA PassAnnounces ==
    ASSUME AnnounceInv, NEW x \in Processes, OthersStay(x),
           UNCHANGED <<owner, log, announced>>,
           previous'[x].version <= owner.version,
           pc'[x] # "announce", pc'[x] = "project" => ~Changed(x)',
           failed \subseteq failed',
           Tid(x) \in failed' \/ pc[x] \notin {"project", "announce"} \/ ~Changed(x)
    PROVE  AnnounceInv'
<1>1. PreviousIsPast'
  BY OthersCarry DEF AnnounceInv, PreviousIsPast
<1>2. CarriedIsLogged'
  <2>1. ASSUME NEW y \in Processes
        PROVE  /\ pc'[y] = "announce" => Changed(y)'
               /\ pc'[y] \in {"project", "announce"} /\ Changed(y)'
                     => log'[Tid(y)'] = result'[y]
    <3>1. CASE y = x
      BY <3>1
    <3>2. CASE y # x
      BY <3>2, OthersCarry DEF AnnounceInv, CarriedIsLogged
    <3> QED
      BY <3>1, <3>2
  <2> QED
    BY <2>1 DEF CarriedIsLogged
<1>3. AnnouncedIsLogged'
  BY DEF AnnounceInv, AnnouncedIsLogged
<1>4. ChangesAreCarried'
  <2>1. ASSUME NEW t \in TransitionIds \ failed', Effective(t), announced[t] # log[t]
        PROVE  \E y \in Processes : Carries(y, t)'
    <3>1. PICK y \in Processes : Carries(y, t)
      BY <2>1 DEF AnnounceInv, ChangesAreCarried
    <3>2. y # x
      BY <2>1, <3>1 DEF Carries
    <3> QED
      BY <3>1, <3>2, OthersCarry
  <2> QED
    BY <2>1 DEF ChangesAreCarried, Effective, Carries
<1> QED
  BY <1>1, <1>2, <1>3, <1>4 DEF AnnounceInv

(* The change goes from the projection to the announcement.                *)
LEMMA ForwardAnnounces ==
    ASSUME AnnounceInv, TypeOK, NEW x \in Processes, pc[x] = "project", Changed(x),
           Goto(x, "announce"), UNCHANGED <<owner, log, announced, failed, locals>>
    PROVE  AnnounceInv'
<1>1. OthersStay(x) /\ pc'[x] = "announce"
  BY MoveLeavesOthers DEF HandlerPoints
<1>2. Tid(x)' = Tid(x) /\ Changed(x)' = Changed(x) /\ previous' = previous /\ result' = result
  BY DEF Tid, Changed, locals
<1>3. PreviousIsPast' /\ AnnouncedIsLogged'
  BY <1>2 DEF AnnounceInv, PreviousIsPast, AnnouncedIsLogged
<1>4. CarriedIsLogged'
  <2>1. ASSUME NEW y \in Processes
        PROVE  /\ pc'[y] = "announce" => Changed(y)'
               /\ pc'[y] \in {"project", "announce"} /\ Changed(y)'
                     => log'[Tid(y)'] = result'[y]
    <3>1. CASE y = x
      BY <1>2, <3>1 DEF AnnounceInv, CarriedIsLogged
    <3>2. CASE y # x
      BY <1>1, <3>2, OthersCarry DEF AnnounceInv, CarriedIsLogged
    <3> QED
      BY <3>1, <3>2
  <2> QED
    BY <2>1 DEF CarriedIsLogged
<1>5. \A t, y : y \in Processes /\ Carries(y, t) => Carries(y, t)'
  BY <1>1, <1>2, OthersCarry DEF Carries
<1>6. ChangesAreCarried'
  BY <1>5 DEF AnnounceInv, ChangesAreCarried, Effective, Carries
<1> QED
  BY <1>3, <1>4, <1>6 DEF AnnounceInv

LEMMA AnnounceAnnounces ==
    ASSUME IInv, AnnounceInv, NEW x \in Processes, Announce(x)
    PROVE  AnnounceInv'
<1>1. pc[x] = "announce" /\ Tid(x) \in TransitionIds /\ log[Tid(x)] = result[x]
  BY TidType DEF Announce, At, AnnounceInv, CarriedIsLogged
<1>2. OthersStay(x) /\ pc'[x] \notin {"project", "announce"}
  BY CallsLeaveOthers
<1>3. previous'[x].version <= owner.version
  <2>1. CASE x \in Handlers
    BY <2>1, SucceedLeavesOthers DEF IInv, TypeOK, Record, Announce, InitialOwnership
  <2>2. CASE x \notin Handlers
    BY <2>2, FinishLeavesOthers
       DEF IInv, TypeOK, Record, Announce, InitialOwnership, Processes
  <2> QED
    BY <2>1, <2>2
<1>4. /\ \A t \in TransitionIds \ {Tid(x)} : announced'[t] = announced[t]
      /\ announced'[Tid(x)] = log[Tid(x)]
  BY <1>1 DEF Announce, AnnounceInv, AnnouncedIsLogged, IInv, TypeOK
<1>5. owner' = owner /\ log' = log /\ failed' = failed
  BY DEF Announce
<1>6. PreviousIsPast'
  BY <1>2, <1>3, <1>5, OthersCarry DEF AnnounceInv, PreviousIsPast
<1>7. CarriedIsLogged'
  <2>1. ASSUME NEW y \in Processes
        PROVE  /\ pc'[y] = "announce" => Changed(y)'
               /\ pc'[y] \in {"project", "announce"} /\ Changed(y)'
                     => log'[Tid(y)'] = result'[y]
    <3>1. CASE y = x
      BY <1>2, <3>1
    <3>2. CASE y # x
      BY <1>2, <1>5, <3>2, OthersCarry DEF AnnounceInv, CarriedIsLogged
    <3> QED
      BY <3>1, <3>2
  <2> QED
    BY <2>1 DEF CarriedIsLogged
<1>8. AnnouncedIsLogged'
  BY <1>4, <1>5 DEF AnnounceInv, AnnouncedIsLogged
<1>9. ChangesAreCarried'
  <2>1. ASSUME NEW t \in TransitionIds \ failed, Effective(t), announced'[t] # log[t]
        PROVE  \E y \in Processes : Carries(y, t)'
    <3>1. t # Tid(x) /\ announced[t] # log[t]
      BY <1>4, <2>1
    <3>2. PICK y \in Processes : Carries(y, t)
      BY <2>1, <3>1 DEF AnnounceInv, ChangesAreCarried
    <3>3. y # x
      BY <3>1, <3>2 DEF Carries
    <3> QED
      BY <1>2, <3>2, <3>3, OthersCarry
  <2> QED
    BY <1>5, <2>1 DEF ChangesAreCarried, Effective, Carries
<1> QED
  BY <1>6, <1>7, <1>8, <1>9 DEF AnnounceInv

(* A transition that moves the record has a version its caller has not     *)
(* seen, so that Changed tells it.                                         *)
LEMMA WriteAnnounces ==
    ASSUME IInv, HoldInv, AnnounceInv, TypeOK', NEW x \in Processes,
           Tid(x) \in TransitionIds,
           pc[x] \in {"apply", "reapply"}, OthersStay(x), obs' = obs,
           Answer(Call(x)) # Conflict, Write(Call(x)), announced' = announced,
           previous'[x].version <= previous[x].version, failed \subseteq failed',
           pc'[x] # "announce",
           \/ /\ pc'[x] = "project" /\ result'[x] = Answer(Call(x))
              /\ previous'[x] = previous[x]
           \/ pc'[x] # "project" /\ Tid(x) \in failed'
    PROVE  AnnounceInv'
<1>1. PICK a \in Record : a = Answer(Call(x))
  BY AnswerType DEF IInv
<1>2. Call(x).tid = Tid(x)
  BY DEF Call, Forced, Managed, Tid
<1>3. /\ \A t \in TransitionIds : log[t] # NotLogged => log'[t] = log[t]
      /\ \A t \in TransitionIds \ {Tid(x)} : log'[t] = log[t]
      /\ log'[Tid(x)] = a
  BY <1>1, <1>2 DEF Write, Answer, Seen, IInv, TypeOK
<1>4. owner.version <= owner'.version
  <2>1. CASE Seen(Call(x))
    BY <2>1 DEF Write, IInv, TypeOK, Record
  <2>2. CASE ~Seen(Call(x))
    <3>1. owner' = a
      BY <1>1, <2>2 DEF Write
    <3>2. a = owner \/ a.version = owner.version + 1
      BY <1>1, <2>2, NewAnswer
    <3> QED
      BY <3>1, <3>2 DEF IInv, TypeOK, Record
  <2> QED
    BY <2>1, <2>2
<1>5. ASSUME log[Tid(x)] = NotLogged, a.transitionId = Tid(x)
      PROVE  a.version > previous[x].version
  <2>1. a # owner
    BY <1>5, OwnershipConstants DEF HoldInv, OwnerLogged
  <2>2. a.version = owner.version + 1
    BY <1>1, <1>2, <1>5, <2>1, NewAnswer DEF Seen
  <2> QED
    BY <2>2 DEF AnnounceInv, PreviousIsPast, IInv, TypeOK, Record
<1>6. PreviousIsPast'
  <2>1. \A y \in Processes : previous'[y].version <= previous[y].version
    BY OthersCarry DEF OthersStay, IInv, TypeOK, Record
  <2>2. \A y \in Processes : previous[y].version <= owner.version /\ previous[y] \in Record
    BY DEF AnnounceInv, PreviousIsPast, IInv, TypeOK
  <2>3. /\ \A y \in Processes : previous'[y].version \in Nat
        /\ \A y \in Processes : previous[y].version \in Nat
        /\ owner.version \in Nat /\ owner'.version \in Nat
    BY DEF IInv, TypeOK, Record
  <2>4. \A y \in Processes : previous'[y].version <= owner'.version
    BY <1>4, <2>1, <2>2, <2>3
  <2> QED
    BY <2>4 DEF PreviousIsPast
<1>7. CarriedIsLogged'
  <2>1. ASSUME NEW y \in Processes
        PROVE  /\ pc'[y] = "announce" => Changed(y)'
               /\ pc'[y] \in {"project", "announce"} /\ Changed(y)'
                     => log'[Tid(y)'] = result'[y]
    <3>1. CASE y = x
      <4>1. Tid(x)' = Tid(x)
        BY DEF Tid
      <4> QED
        BY <1>1, <1>3, <3>1, <4>1
    <3>2. CASE y # x
      <4>1. ASSUME pc[y] \in {"project", "announce"}, Changed(y)
            PROVE  log'[Tid(y)] = result[y]
        <5>1. log[Tid(y)] = result[y] /\ result[y] # NotLogged /\ Tid(y) \in TransitionIds
          BY <4>1, TidType, TakeoverConstants
             DEF AnnounceInv, CarriedIsLogged, IInv, TypeOK
        <5> QED
          BY <1>3, <5>1
      <4> QED
        BY <3>2, <4>1, OthersCarry DEF AnnounceInv, CarriedIsLogged
    <3> QED
      BY <3>1, <3>2
  <2> QED
    BY <2>1 DEF CarriedIsLogged
<1>8. AnnouncedIsLogged'
  BY <1>3 DEF AnnounceInv, AnnouncedIsLogged
<1>9. ChangesAreCarried'
  <2>1. ASSUME NEW t \in TransitionIds \ failed', Effective(t)', announced[t] # log'[t]
        PROVE  \E y \in Processes : Carries(y, t)'
    <3>1. CASE log[t] # NotLogged
      <4>1. log'[t] = log[t]
        BY <1>3, <3>1
      <4>2. Effective(t) /\ announced[t] # log[t]
        BY <2>1, <3>1, <4>1 DEF Effective
      <4>3. PICK y \in Processes : Carries(y, t)
        BY <2>1, <4>2 DEF AnnounceInv, ChangesAreCarried
      <4>4. y # x
        BY <4>3 DEF Carries
      <4> QED
        BY <4>3, <4>4, OthersCarry
    <3>2. CASE log[t] = NotLogged
      <4>1. t = Tid(x)
        BY <1>3, <2>1, <3>2 DEF Effective
      <4>2. a.transitionId = Tid(x) /\ pc'[x] = "project"
        BY <1>3, <2>1, <4>1 DEF Effective
      <4>3. Changed(x)'
        BY <1>1, <1>5, <3>2, <4>1, <4>2 DEF Changed, IInv, TypeOK, Record
      <4>4. Carries(x, t)'
        BY <4>1, <4>2, <4>3 DEF Carries, Tid
      <4> QED
        BY <4>4
    <3> QED
      BY <3>1, <3>2
  <2> QED
    BY <2>1 DEF ChangesAreCarried, Carries
<1> QED
  BY <1>6, <1>7, <1>8, <1>9 DEF AnnounceInv
(* The start of an answer is a record no version is below.                 *)
LEMMA InitialIsPast == ASSUME TypeOK PROVE InitialOwnership.version <= owner.version
BY DEF TypeOK, Record, InitialOwnership

LEMMA ApplyAnnounces ==
    ASSUME IInv, HoldInv, AnnounceInv, TypeOK', NEW x \in Processes,
           Apply(x) \/ ApplyUnacknowledged(x)
    PROVE  AnnounceInv'
<1>1. pc[x] \in {"apply", "reapply"} /\ Tid(x) \in TransitionIds
  BY TidType DEF Apply, ApplyUnacknowledged, At
<1>2. CASE Apply(x)
  <2>1. pc'[x] = "project" /\ \A y \in Processes \ {x} : pc'[y] = pc[y]
    BY <1>2, GotoType DEF IInv, Apply, HandlerPoints
  <2>2. OthersStay(x) /\ result'[x] = Answer(Call(x))
    BY <1>2, <2>1 DEF IInv, TypeOK, Apply, OthersStay
  <2>3. /\ obs' = obs /\ announced' = announced /\ previous' = previous /\ failed' = failed
        /\ Answer(Call(x)) # Conflict /\ Write(Call(x))
    BY <1>2 DEF Apply
  <2>4. previous'[x].version <= previous[x].version
    BY <2>3 DEF IInv, TypeOK, Record
  <2> QED
    BY <1>1, <2>1, <2>2, <2>3, <2>4, WriteAnnounces
<1>3. CASE ApplyUnacknowledged(x)
  <2>1. /\ OthersStay(x) /\ pc'[x] \in {"release", "done"}
        /\ previous'[x].version <= previous[x].version
        /\ failed' = failed \cup {Tid(x)}
    BY <1>3, FailLeavesOthers DEF IInv, ApplyUnacknowledged
  <2>2. /\ obs' = obs /\ announced' = announced
        /\ Answer(Call(x)) # Conflict /\ Write(Call(x))
    BY <1>1, <1>3, FailType DEF IInv, ApplyUnacknowledged
  <2> QED
    BY <1>1, <2>1, <2>2, WriteAnnounces
<1> QED
  BY <1>2, <1>3

LEMMA RereadAnnounces ==
    ASSUME IInv, AnnounceInv, NEW h \in Handlers, Reread(h)
    PROVE  AnnounceInv'
<1>1. h \in Processes /\ pc[h] = "reread"
  BY DEF Processes, Reread, At
<1>2. /\ pc'[h] \in {"project", "reapply"}
      /\ \A y \in Processes \ {h} : pc'[y] = pc[y]
  BY <1>1, GotoType DEF IInv, Reread, HandlerPoints
<1>3. /\ obs' = obs /\ previous' = [previous EXCEPT ![h] = owner]
      /\ result' = result \/ result' = [result EXCEPT ![h] = owner]
      /\ pc'[h] = "project" => result' = [result EXCEPT ![h] = owner]
  BY <1>1, GotoType DEF IInv, Reread, HandlerPoints
<1>4. OthersStay(h)
  BY <1>1, <1>2, <1>3 DEF OthersStay, IInv, TypeOK
<1>5. /\ previous'[h].version <= owner.version
      /\ pc'[h] = "project" => ~Changed(h)'
  BY <1>1, <1>3 DEF Changed, IInv, TypeOK, Record
<1>6. UNCHANGED <<owner, log, announced, failed>>
  BY DEF Reread, stores
<1> QED
  BY <1>1, <1>2, <1>4, <1>5, <1>6, PassAnnounces

LEMMA ProjectAnnounces ==
    ASSUME IInv, AnnounceInv, NEW x \in Processes,
           \/ x \in Handlers /\ ProjectTakeover(x)
           \/ x \in Operations /\ ProjectControl(x)
    PROVE  AnnounceInv'
<1>1. pc[x] = "project" /\ UNCHANGED <<owner, log, announced, failed>>
  BY DEF ProjectTakeover, ProjectControl, At
<1>2. CASE Changed(x)
  <2>1. Goto(x, "announce") /\ UNCHANGED locals
    BY <1>2 DEF ProjectTakeover, ProjectControl
  <2> QED
    BY <1>1, <1>2, <2>1, ForwardAnnounces DEF IInv
<1>3. CASE ~Changed(x)
  <2>1. /\ OthersStay(x) /\ pc'[x] \notin {"project", "announce"}
        /\ previous'[x] = InitialOwnership
    <3>1. CASE x \in Handlers /\ ProjectTakeover(x)
      BY <1>3, <3>1, SucceedLeavesOthers DEF IInv, ProjectTakeover
    <3>2. CASE x \in Operations /\ ProjectControl(x)
      BY <1>3, <3>2, FinishLeavesOthers DEF IInv, ProjectControl
    <3> QED
      BY <3>1, <3>2
  <2> QED
    BY <1>1, <1>3, <2>1, InitialIsPast, PassAnnounces DEF IInv
<1> QED
  BY <1>2, <1>3

LEMMA RequestsAnnounce ==
    ASSUME IInv, AnnounceInv, NEW h \in Handlers,
           \/ \E o \in Observations : Deliver(h, o)
           \/ Claim(h) \/ PersistEvent(h) \/ ClaimFails(h) \/ Release(h) \/ ReleaseFails(h)
    PROVE  AnnounceInv'
<1>1. /\ h \in Processes /\ OthersStay(h) /\ pc'[h] \notin {"project", "announce"}
      /\ pc[h] \notin {"project", "announce"}
  BY RequestsLeaveOthers
     DEF Processes, Deliver, Claim, PersistEvent, ClaimFails, Release, ReleaseFails, At
<1>2. UNCHANGED <<owner, log, announced>> /\ failed \subseteq failed'
  BY DEF Deliver, Claim, PersistEvent, ClaimFails, Release, ReleaseFails, stores
<1>3. previous'[h] = InitialOwnership \/ previous' = previous
  BY OverLeavesOthers DEF IInv, Deliver, Claim, PersistEvent, ClaimFails, Release,
     ReleaseFails, Succeed, locals
<1>4. previous'[h].version <= owner.version
  BY <1>1, <1>3, InitialIsPast DEF IInv, AnnounceInv, PreviousIsPast
<1> QED
  BY <1>1, <1>2, <1>4, PassAnnounces

LEMMA CallsAnnounce ==
    ASSUME IInv, AnnounceInv, NEW x \in Processes, Read(x) \/ Refused(x)
    PROVE  AnnounceInv'
<1>1. /\ OthersStay(x) /\ pc'[x] \notin {"project", "announce"}
      /\ pc[x] \notin {"project", "announce"}
  BY CallsLeaveOthers DEF Read, Refused, At
<1>2. UNCHANGED <<owner, log, announced>> /\ failed \subseteq failed'
  BY DEF Read, Refused, stores
<1>3. previous'[x] \in {InitialOwnership, owner} \/ previous' = previous
  BY FinishLeavesOthers DEF IInv, TypeOK, Read, Refused, locals
<1>4. previous'[x].version <= owner.version
  BY <1>3, InitialIsPast DEF IInv, TypeOK, Record, AnnounceInv, PreviousIsPast
<1> QED
  BY <1>1, <1>2, <1>4, PassAnnounces

LEMMA FailuresAnnounce ==
    ASSUME IInv, AnnounceInv, NEW x \in Processes, QueryFails(x) \/ Crash(x)
    PROVE  AnnounceInv'
<1>1. OthersStay(x) /\ pc'[x] \notin {"project", "announce"}
  BY FailuresLeaveOthers
<1>2. UNCHANGED <<owner, log, announced>> /\ failed' = failed \cup {Tid(x)}
  BY DEF QueryFails, Crash, Fail, stores
<1>3. previous'[x].version <= owner.version
  <2>1. CASE QueryFails(x)
    <3>1. previous[x].version <= owner.version
      BY DEF AnnounceInv, PreviousIsPast
    <3>2. previous' = previous \/ previous'[x] = InitialOwnership
      BY <2>1, FinishLeavesOthers DEF QueryFails, Fail, locals, IInv, Processes
    <3> QED
      BY <3>1, <3>2, InitialIsPast DEF IInv
  <2>2. CASE Crash(x)
    BY <2>2, OverLeavesOthers, FinishLeavesOthers, InitialIsPast
       DEF Crash, IInv, Processes
  <2> QED
    BY <2>1, <2>2
<1> QED
  BY <1>1, <1>2, <1>3, PassAnnounces

LEMMA ManageAnnounces ==
    ASSUME IInv, AnnounceInv, NEW p \in Operations, NEW c \in Commands, Manage(p, c)
    PROVE  AnnounceInv'
<1>1. p \in Processes /\ pc[p] = "idle"
  BY DEF Processes, Manage
<1>2. OthersStay(p) /\ pc'[p] = "read"
  <2>1. Goto(p, "read") /\ UNCHANGED <<obs, previous, result>>
    BY DEF Manage
  <2>2. pc'[p] = "read" /\ \A y \in Processes \ {p} : pc'[y] = pc[y]
    BY <1>1, <2>1, GotoType DEF IInv, HandlerPoints
  <2> QED
    BY <2>1, <2>2 DEF OthersStay
<1>3. UNCHANGED <<owner, log, announced, failed, previous>>
  BY DEF Manage, stores
<1>4. previous'[p].version <= owner.version
  BY <1>1, <1>3 DEF AnnounceInv, PreviousIsPast
<1> QED
  BY <1>1, <1>2, <1>3, <1>4, PassAnnounces

LEMMA StandstillAnnounces ==
    ASSUME AnnounceInv, UNCHANGED <<owner, log, announced, failed, pc, locals>>
    PROVE  AnnounceInv'
<1>1. \A x \in Processes : Tid(x)' = Tid(x) /\ Changed(x)' = Changed(x)
  BY DEF Tid, Changed, locals
<1>2. \A x \in Processes : \A t : Carries(x, t)' = Carries(x, t)
  BY <1>1 DEF Carries
<1>3. PreviousIsPast' /\ AnnouncedIsLogged'
  BY DEF AnnounceInv, PreviousIsPast, AnnouncedIsLogged, locals
<1>4. CarriedIsLogged'
  BY <1>1 DEF AnnounceInv, CarriedIsLogged, locals
<1>5. ChangesAreCarried'
  BY <1>2 DEF AnnounceInv, ChangesAreCarried, Effective
<1> QED
  BY <1>3, <1>4, <1>5 DEF AnnounceInv

LEMMA NextAnnounces == IInv /\ HoldInv /\ AnnounceInv /\ [Next]_vars => AnnounceInv'
<1> SUFFICES ASSUME IInv, HoldInv, AnnounceInv, [Next]_vars PROVE AnnounceInv'
  OBVIOUS
<1>1. TypeOK'
  BY NextIInv DEF IInv
<1>2. CASE \E o \in Observations : Observe(o)
  BY <1>2, StandstillAnnounces DEF Observe, stores
<1>3. CASE \E x \in Processes : Apply(x) \/ ApplyUnacknowledged(x)
  BY <1>1, <1>3, ApplyAnnounces
<1>4. CASE \E h \in Handlers : Reread(h)
  BY <1>4, RereadAnnounces
<1>5. CASE \/ \E h \in Handlers : ProjectTakeover(h)
           \/ \E p \in Operations : ProjectControl(p)
  <2>1. PICK x \in Processes :
            \/ x \in Handlers /\ ProjectTakeover(x)
            \/ x \in Operations /\ ProjectControl(x)
    BY <1>5 DEF Processes
  <2> QED
    BY <2>1, ProjectAnnounces, Zenon
<1>6. CASE \E h \in Handlers :
              \/ \E o \in Observations : Deliver(h, o)
              \/ Claim(h) \/ PersistEvent(h) \/ ClaimFails(h) \/ Release(h)
              \/ ReleaseFails(h)
  BY <1>6, RequestsAnnounce
<1>7. CASE \E x \in Processes : Read(x) \/ Refused(x)
  BY <1>7, CallsAnnounce
<1>8. CASE \E x \in Processes : Announce(x)
  BY <1>8, AnnounceAnnounces
<1>9. CASE \E p \in Operations : \E c \in Commands : Manage(p, c)
  BY <1>9, ManageAnnounces
<1>10. CASE \E x \in Processes : QueryFails(x) \/ Crash(x)
  BY <1>10, FailuresAnnounce
<1>11. CASE UNCHANGED vars
  BY <1>11, StandstillAnnounces DEF vars, stores
<1>12. {"manual_takeover", "release_to_agent"} \subseteq Commands
  BY DEF Commands, Moves
<1> QED
  BY <1>2, <1>3, <1>4, <1>5, <1>6, <1>7, <1>8, <1>9, <1>10, <1>11, <1>12, Zenon
     DEF Next, Handle, Serve, Processes

(* A change of ownership that nothing went wrong with is announced, with   *)
(* the state and the version it produced: comparing the result with the    *)
(* record read before (Changed) never mistakes a change for a repetition,  *)
(* whoever else moved the conversation in between.                         *)
THEOREM ChangesReachTheStream == Spec => []ChangesAnnouncedUnlessFailed
<1>1. IInv /\ AnnounceInv => ChangesAnnouncedUnlessFailed
  BY DEF AnnounceInv, ChangesAreCarried, Carries, Busy, At,
         ChangesAnnouncedUnlessFailed
<1>2. Spec => []HoldInv
  BY InitHolds, NextHolds, TakeoverInvariant, PTL DEF Spec
<1>3. Spec => []AnnounceInv
  BY <1>2, InitAnnounces, NextAnnounces, TakeoverInvariant, PTL DEF Spec
<1> QED
  BY <1>1, <1>3, TakeoverInvariant, PTL
-----------------------------------------------------------------------------
(* The refinement of the ledger.  Calls take over or release, and so the   *)
(* record is the agent's or a human's.                                     *)
TakesOrReleases ==
    /\ owner.state \in {"AI_ACTIVE", "HUMAN_ACTIVE"}
    /\ \A p \in Operations : command[p] \in {"manual_takeover", "release_to_agent"}

LEMMA InitTakesOrReleases == Init => TakesOrReleases
BY DEF Init, TakesOrReleases, InitialOwnership

(* The only steps that write the record or the log.                        *)
LEMMA OnlyAppliesWrite ==
    ASSUME Next, ~UNCHANGED <<owner, log>>
    PROVE  \E x \in Processes : Apply(x) \/ ApplyUnacknowledged(x)
BY DEF Next, Handle, Serve, Processes, Observe, Deliver, Claim, ClaimFails,
       PersistEvent, Read, Refused, Reread, ProjectTakeover, ProjectControl,
       Announce, Manage, QueryFails, Release, ReleaseFails, Crash, stores

(* A call that is not in the log records its outcome, made of the version  *)
(* it names, which is the present one.                                     *)
LEMMA FreshWrite ==
    ASSUME IInv, HoldInv, TakesOrReleases, NEW x \in Processes,
           Tid(x) \in TransitionIds, Answer(Call(x)) # Conflict, Write(Call(x)),
           ~Seen(Call(x))
    PROVE  /\ Call(x) = [tid |-> Tid(x), command |-> Call(x).command,
                         expected |-> owner.version]
           /\ Call(x).command \in {"manual_takeover", "release_to_agent"}
           /\ log[Tid(x)] = NotLogged
           /\ owner' = Outcome(Call(x), owner)
           /\ log' = [log EXCEPT ![Tid(x)] = owner']
           /\ owner.transitionId # Tid(x)
           /\ \/ owner' = owner
              \/ owner'.version = owner.version + 1 /\ owner'.transitionId = Tid(x)
           /\ owner'.state = IF Call(x).command = "manual_takeover" THEN "HUMAN_ACTIVE"
                                                                    ELSE "AI_ACTIVE"
<1>1. /\ Call(x) = [tid |-> Tid(x), command |-> Call(x).command,
                    expected |-> Call(x).expected]
      /\ Call(x).command \in {"manual_takeover", "release_to_agent"}
      /\ Call(x).expected \in Nat
  BY DEF Call, Forced, Managed, Tid, TakesOrReleases, Processes, IInv, TypeOK, Record
<1>2. Call(x).tid = Tid(x)
  BY DEF Call, Forced, Managed, Tid
<1>3. VersionMatches(Call(x), owner)
  BY DEF Answer
<1>4. Call(x).expected = owner.version
  BY <1>1, <1>3, OwnershipConstants DEF VersionMatches
<1>5. log[Tid(x)] = NotLogged /\ owner' = Outcome(Call(x), owner)
  BY <1>2, <1>3 DEF Seen, Write, Answer
<1>6. log' = [log EXCEPT ![Tid(x)] = owner']
  BY <1>2 DEF Write
<1>7. owner.transitionId # Tid(x)
  BY <1>5, OwnershipConstants DEF HoldInv, OwnerLogged
<1>8. NextStateFor(owner.state, Call(x).command)
        = IF Call(x).command = "manual_takeover" THEN "HUMAN_ACTIVE" ELSE "AI_ACTIVE"
  BY <1>1 DEF TakesOrReleases, NextStateFor, Moves, States
<1>9. /\ \/ owner' = owner /\ NextStateFor(owner.state, Call(x).command) = owner.state
         \/ /\ owner'.version = owner.version + 1 /\ owner'.transitionId = Tid(x)
            /\ owner'.state = NextStateFor(owner.state, Call(x).command)
  BY <1>2, <1>5, <1>7 DEF Outcome, TransitionOwnership
<1> QED
  BY <1>1, <1>4, <1>5, <1>6, <1>7, <1>8, <1>9

LEMMA NextTakesOrReleases ==
    IInv /\ HoldInv /\ TakesOrReleases /\ [Next]_vars => TakesOrReleases'
<1> SUFFICES ASSUME IInv, HoldInv, TakesOrReleases, [Next]_vars
             PROVE  TakesOrReleases'
  OBVIOUS
<1>1. owner'.state \in {"AI_ACTIVE", "HUMAN_ACTIVE"}
  <2>1. CASE UNCHANGED owner
    BY <2>1 DEF TakesOrReleases
  <2>2. CASE ~UNCHANGED owner
    <3>1. Next
      BY <2>2 DEF vars, stores
    <3>2. PICK x \in Processes : Apply(x) \/ ApplyUnacknowledged(x)
      BY <2>2, <3>1, OnlyAppliesWrite
    <3>3. Tid(x) \in TransitionIds /\ Answer(Call(x)) # Conflict /\ Write(Call(x))
      BY <3>2, TidType DEF Apply, ApplyUnacknowledged, At
    <3>4. ~Seen(Call(x))
      BY <2>2, <3>3 DEF Write
    <3> QED
      BY <3>3, <3>4, FreshWrite
  <2> QED
    BY <2>1, <2>2
<1>2. \/ command' = command
      \/ \E p \in Operations, c \in {"manual_takeover", "release_to_agent"} :
            command' = [command EXCEPT ![p] = c]
  <2>1. CASE \E p \in Operations : \E c \in {"manual_takeover", "release_to_agent"} :
                 Manage(p, c)
    BY <2>1 DEF Manage
  <2>2. CASE \E p \in Operations : Finish(p)
    BY <2>2 DEF Finish
  <2>3. CASE \E h \in Handlers : Over(h)
    BY <2>3 DEF Over
  <2>4. CASE UNCHANGED command
    BY <2>4
  <2> QED
    BY <2>1, <2>2, <2>3, <2>4
       DEF Next, Handle, Serve, Processes, Observe, Deliver, Claim, ClaimFails, Succeed,
           PersistEvent, Read, Apply, Refused, Reread, ProjectTakeover, ProjectControl,
           Announce, QueryFails, ApplyUnacknowledged, Fail, Release, ReleaseFails, Crash,
           locals, vars
<1>3. \A p \in Operations : command'[p] \in {"manual_takeover", "release_to_agent"}
  BY <1>2 DEF TakesOrReleases, IInv, TypeOK
<1> QED
  BY <1>1, <1>3 DEF TakesOrReleases

(* Such a call is a transition of the ledger: the entry read back from its *)
(* result (EntryOf) names the command and the version it was made with.    *)
LEMMA RefinedStep ==
    ASSUME IInv, HoldInv, TakesOrReleases, NEW x \in Processes,
           Tid(x) \in TransitionIds, Answer(Call(x)) # Conflict, Write(Call(x)),
           ~Seen(Call(x))
    PROVE  Ledger!LedgerNext
<1> DEFINE k == Call(x).command
           req == [tid |-> Tid(x), command |-> k, expected |-> owner.version]
           entry == [command |-> k, expected |-> owner.version, result |-> owner']
<1>1. /\ Call(x) = req /\ k \in {"manual_takeover", "release_to_agent"}
      /\ log[Tid(x)] = NotLogged
      /\ owner' = Outcome(req, owner)
      /\ log' = [log EXCEPT ![Tid(x)] = owner']
      /\ owner.transitionId # Tid(x)
      /\ \/ owner' = owner
         \/ owner'.version = owner.version + 1 /\ owner'.transitionId = Tid(x)
      /\ owner'.state = IF k = "manual_takeover" THEN "HUMAN_ACTIVE" ELSE "AI_ACTIVE"
  BY FreshWrite
<1>2. owner.version \in Nat /\ owner' # NotLogged
  <2>1. owner' \in Record
    BY WriteType DEF IInv
  <2> QED
    BY <2>1, TakeoverConstants DEF IInv, TypeOK, Record
<1>3. PICK t \in TransitionIds : t = Tid(x)
  OBVIOUS
<1>4. log'[t] = owner' /\ \A s \in TransitionIds \ {t} : log'[s] = log[s]
  BY <1>1, <1>3 DEF IInv, TypeOK
<1>5. EntryOf(t)' = entry
  <2>1. (IF owner'.state = "HUMAN_ACTIVE" THEN "manual_takeover" ELSE "release_to_agent") = k
    BY <1>1
  <2>2. (IF owner'.transitionId = t THEN owner'.version - 1 ELSE owner'.version)
          = owner.version
    BY <1>1, <1>2, <1>3
  <2> QED
    BY <1>4, <2>1, <2>2 DEF EntryOf
<1>6. /\ LogOf' = [LogOf EXCEPT ![Tid(x)] = entry]
      /\ ~Ledger!Logged(Tid(x))
  <2>1. \A s \in TransitionIds \ {t} : EntryOf(s)' = EntryOf(s)
    BY <1>4 DEF EntryOf
  <2>2. LogOf' = [LogOf EXCEPT ![t] = entry]
    BY <1>2, <1>4, <1>5, <2>1 DEF LogOf
  <2> QED
    BY <1>1, <1>3, <2>2 DEF Ledger!Logged, LogOf
<1>7. Ledger!Outcome(req, owner) = Outcome(req, owner)
  BY DEF Ledger!Outcome, Ledger!TransitionOwnership, Ledger!NextStateFor, Ledger!Moves,
         Ledger!States, Outcome, TransitionOwnership, NextStateFor, Moves, States
<1>8. Ledger!Transition(req)
  <2>1. entry # NotLogged
    <3>1. owner' \in Record /\ k \in Commands
      BY <1>1, WriteType DEF IInv, Commands, Moves
    <3> QED
      BY <1>2, <3>1, TakeoverConstants
  <2>2. LogOf'[Tid(x)] = entry
    BY <1>6 DEF LogOf
  <2> QED
    BY <1>1, <1>6, <1>7, <2>1, <2>2 DEF Ledger!Transition, Ledger!VersionMatches
<1>9. k \in Ledger!Commands /\ owner.version \in {AnyVersion, owner.version} \cap Nat
  BY <1>1, <1>2 DEF Ledger!Commands, Ledger!Moves
<1> QED
  BY <1>8, <1>9 DEF Ledger!LedgerNext

LEMMA TakeoverIsLedger ==
    IInv /\ HoldInv /\ TakesOrReleases /\ [Next]_vars => [Ledger!LedgerNext]_Ledger!ledger
<1> SUFFICES ASSUME IInv, HoldInv, TakesOrReleases, [Next]_vars,
                    ~UNCHANGED <<owner, log>>
             PROVE  Ledger!LedgerNext
  BY DEF Ledger!ledger, LogOf, EntryOf
<1>1. Next
  BY DEF vars, stores
<1>2. PICK x \in Processes : Apply(x) \/ ApplyUnacknowledged(x)
  BY <1>1, OnlyAppliesWrite
<1>3. Tid(x) \in TransitionIds /\ Answer(Call(x)) # Conflict /\ Write(Call(x))
  BY <1>2, TidType DEF Apply, ApplyUnacknowledged, At
<1>4. ~Seen(Call(x))
  BY <1>3 DEF Write
<1> QED
  BY <1>3, <1>4, RefinedStep

(* Whatever redelivery, conflicts, retries, deaths and management make of  *)
(* it, the ownership changes by the ledger's transitions alone: each under *)
(* a transitionId not used before, from the version read for it            *)
(* (forceHumanOwnership and transitionManagementOwnership over             *)
(* ownershipStore.transition).                                             *)
THEOREM TakeoverImplementsLedger == Spec => ImplementsLedger
<1>1. Init => Ledger!LedgerInit
  BY DEF Init, Ledger!LedgerInit, LogOf, InitialOwnership, Ledger!InitialOwnership
<1>2. Spec => []HoldInv
  BY InitHolds, NextHolds, TakeoverInvariant, PTL DEF Spec
<1>3. Spec => []TakesOrReleases
  BY <1>2, InitTakesOrReleases, NextTakesOrReleases, TakeoverInvariant, PTL DEF Spec
<1> QED
  BY <1>1, <1>2, <1>3, TakeoverIsLedger, TakeoverInvariant, PTL
     DEF Spec, ImplementsLedger, Ledger!LedgerSpec
-----------------------------------------------------------------------------
(* The ledger's theorems, carried over to the takeovers and releases.      *)
LP == INSTANCE OwnershipLedgerProofs WITH record <- owner, log <- LogOf,
                                          ExpectedVersions <- Nat

LEMMA LedgerConstants ==
    /\ NoTransition \notin TransitionIds /\ AnyVersion \notin Nat
    /\ Nat \subseteq Nat \cup {AnyVersion}
    /\ Conflict \notin LP!Record /\ NotLogged \notin LP!Entry
BY OwnershipConstants, TakeoverConstants
   DEF LP!Record, LP!States, LP!Entry, LP!Commands, LP!Moves,
       Record, States, Commands, Moves

LEMMA LedgerInductive ==
    /\ LP!LedgerInit => LP!LedgerInv
    /\ LP!LedgerInv /\ [LP!LedgerNext]_LP!ledger => LP!LedgerInv'
<1>1. LP!LedgerInit => LP!LedgerInv
  BY LP!InitLedgerInv, LedgerConstants
<1>2. LP!LedgerInv /\ [LP!LedgerNext]_LP!ledger => LP!LedgerInv'
  BY LP!LedgerInvKept, LedgerConstants
<1> QED
  BY <1>1, <1>2

LEMMA TakeoverLedger == Spec => LP!LedgerSpec /\ []LP!LedgerInv
<1>1. Ledger!LedgerInit => LP!LedgerInit
  BY DEF Ledger!LedgerInit, LP!LedgerInit, Ledger!InitialOwnership, LP!InitialOwnership
<1>2. [Ledger!LedgerNext]_Ledger!ledger => [LP!LedgerNext]_LP!ledger
  <2>1. ASSUME NEW req, Ledger!Transition(req)
        PROVE  LP!Transition(req)
    BY <2>1
       DEF Ledger!Transition, LP!Transition, Ledger!Logged, LP!Logged,
           Ledger!VersionMatches, LP!VersionMatches, Ledger!Outcome, LP!Outcome,
           Ledger!TransitionOwnership, LP!TransitionOwnership,
           Ledger!NextStateFor, LP!NextStateFor, Ledger!Moves, LP!Moves,
           Ledger!States, LP!States
  <2>2. Ledger!Commands = LP!Commands
    BY DEF Ledger!Commands, LP!Commands, Ledger!Moves, LP!Moves, Ledger!States, LP!States
  <2> QED
    BY <2>1, <2>2 DEF Ledger!LedgerNext, LP!LedgerNext, Ledger!ledger, LP!ledger
<1> QED
  BY <1>1, <1>2, LedgerInductive, TakeoverImplementsLedger, PTL
     DEF ImplementsLedger, Ledger!LedgerSpec, LP!LedgerSpec

(* The versions of the conversation, up to the present one, were each      *)
(* produced by one operator message or one management call and by no more, *)
(* whatever the spool delivers twice and however calls conflict.           *)
THEOREM TakeoverHistory == Spec => []Ledger!HistoryIsGapFree
<1>1. LP!LedgerInv => Ledger!HistoryIsGapFree
  BY DEF LP!LedgerInv, Ledger!HistoryIsGapFree, LP!HistoryIsGapFree,
         Ledger!RecordIsLogged, LP!RecordIsLogged, Ledger!Produced, LP!Produced,
         Ledger!Logged, LP!Logged, Ledger!InitialOwnership, LP!InitialOwnership
<1> QED
  BY <1>1, TakeoverLedger, PTL
=============================================================================
