--------------------------- MODULE ModelGatewayProofs ---------------------------
(***************************************************************************)
(* Proofs about ModelGateway, for any number of requests and slots, any    *)
(* route, thresholds and retries.                                          *)
(***************************************************************************)
EXTENDS ModelGateway, FiniteSetTheorems, SequenceTheorems, TLAPS

(* Who holds a slot is finitely many, and nobody waits twice.              *)
Holders == {r \in Requests : pc[r] \in Holding}
QueueInv ==
    /\ SlotsInv
    /\ IsFiniteSet(Holders)
    /\ \A i, j \in 1..Len(waiters) : waiters[i] = waiters[j] => i = j

(* The candidates a request has passed are none of those that never fail,  *)
(* and one that calls is at a candidate of the route.                      *)
Passed(r) ==
    /\ pc[r] \in Calling => pos[r] <= Len(Route)
    /\ \A i \in 1..(pos[r] - 1) : Route[i] \notin reliable
PlaceInv == (\A r \in Requests : Passed(r)) /\ ReliableCandidateAnswers

(* What is known of a circuit: one that opened had its failures, the calls *)
(* that go on at its candidate were under way when it opened, and once its *)
(* time is over there is none but the probe.                               *)
Watched(c) ==
    /\ c \in reliable => circuit[c].opened = "no"
    /\ circuit[c].opened # "no" => circuit[c].failures >= Threshold
    /\ circuit[c].halfOpen => circuit[c].opened = "elapsed"
    /\ circuit[c].opened = "now" => On(c) \subseteq circuit[c].since
    /\ circuit[c].opened = "elapsed" => \A q, r \in On(c) : q = r
    /\ circuit[c].opened = "elapsed" /\ ~ circuit[c].halfOpen => On(c) = {}
CircuitInv == \A c \in Candidates : Watched(c)

IndInv == TypeOK /\ QueueInv /\ PlaceInv /\ CircuitInv

-----------------------------------------------------------------------------
LEMMA InitInd == Init => IndInv
<1> SUFFICES ASSUME Init PROVE IndInv
  OBVIOUS
<1>1. TypeOK
  <2>1. Len(Route) \in Nat
    BY GatewayConstants
  <2>2. 0 \in 0..(Keys - 1) /\ 1 \in 1..(Len(Route) + 1) /\ 0 \in 0..MaxRetries /\ 0 \in 0..MaxConcurrent
    BY <2>1, GatewayConstants
  <2>3. Closed \in Circuit
    BY DEF Closed, Circuit
  <2>4. waiters \in Seq(Requests)
    BY DEF Init
  <2> QED  BY <2>2, <2>3, <2>4 DEF Init, TypeOK, Holding
<1>2. Holders = {}
  BY DEF Init, Holders, Holding, Calling
<1>3. QueueInv
  <2>1. Cardinality(Holders) = 0 /\ IsFiniteSet(Holders)
    BY <1>2, FS_EmptySet
  <2>2. waiters = <<>> /\ Len(waiters) = 0
    BY DEF Init
  <2> QED  BY <2>1, <2>2 DEF Init, QueueInv, SlotsInv, Holders
<1>4. PlaceInv
  BY DEF Init, PlaceInv, Passed, ReliableCandidateAnswers, Calling
<1>5. CircuitInv
  BY DEF Init, CircuitInv, Watched, Closed
<1> QED  BY <1>1, <1>3, <1>4, <1>5 DEF IndInv

-----------------------------------------------------------------------------
(* The slots.                                                              *)

(* A step of r that holds a slot before and after leaves the queue alone.  *)
LEMMA MovesWithSlot ==
    ASSUME TypeOK, QueueInv, NEW r \in Requests, pc[r] \in Holding,
           NEW point \in Holding, pc' = [pc EXCEPT ![r] = point],
           UNCHANGED <<active, waiters>>
    PROVE  QueueInv'
<1>1. \A q \in Requests : /\ pc'[q] \in Holding <=> pc[q] \in Holding
                          /\ pc'[q] = "waiting" <=> pc[q] = "waiting"
  BY DEF TypeOK, Holding, Calling
<1>2. Holders' = Holders
  BY <1>1 DEF Holders
<1> QED  BY <1>1, <1>2 DEF QueueInv, SlotsInv, Holders

LEMMA SlotsStay ==
    ASSUME QueueInv, UNCHANGED <<active, waiters, pc>>
    PROVE  QueueInv'
BY DEF QueueInv, SlotsInv, Holders, Holding, Calling

(* The queue's end, its head and its rest.                                 *)
LEMMA QueueFacts ==
    ASSUME TypeOK
    PROVE  /\ Len(waiters) \in Nat
           /\ \A i \in 1..Len(waiters) : waiters[i] \in Requests
           /\ waiters # <<>> => /\ Len(waiters) > 0 /\ Head(waiters) = waiters[1]
                                /\ Tail(waiters) \in Seq(Requests)
                                /\ Len(Tail(waiters)) = Len(waiters) - 1
                                /\ \A i \in 1..(Len(waiters) - 1) :
                                       Tail(waiters)[i] = waiters[i + 1]
<1>1. waiters \in Seq(Requests) /\ Len(waiters) \in Nat
  BY DEF TypeOK
<1>2. \A i \in 1..Len(waiters) : waiters[i] \in Requests
  BY <1>1
<1>3. ASSUME waiters # <<>>
      PROVE  /\ Len(waiters) > 0 /\ Head(waiters) = waiters[1]
             /\ Tail(waiters) \in Seq(Requests) /\ Len(Tail(waiters)) = Len(waiters) - 1
             /\ \A i \in 1..(Len(waiters) - 1) : Tail(waiters)[i] = waiters[i + 1]
  BY <1>1, <1>3, HeadTailProperties
<1> QED  BY <1>1, <1>2, <1>3

LEMMA AcquireKeepsSlots ==
    ASSUME TypeOK, QueueInv, NEW r \in Requests, Acquire(r)
    PROVE  /\ QueueInv' /\ active' \in 0..MaxConcurrent /\ waiters' \in Seq(Requests)
           /\ pc' \in [Requests -> Holding \cup {"idle", "waiting", "done"}]
<1>1. /\ pc[r] = "idle" /\ r \notin Holders /\ active = Cardinality(Holders)
      /\ \A i \in 1..Len(waiters) : waiters[i] # r
  BY DEF Acquire, Holders, Holding, Calling, QueueInv, SlotsInv
<1>2. CASE /\ active < MaxConcurrent /\ active' = active + 1 /\ Goto(r, "routing")
           /\ UNCHANGED waiters
  <2>1. /\ pc' = [pc EXCEPT ![r] = "routing"] /\ pc'[r] = "routing"
        /\ \A q \in Requests : q # r => pc'[q] = pc[q]
    BY <1>2 DEF Goto, TypeOK
  <2>2. Holders' = Holders \cup {r}
    BY <2>1 DEF Holders, Holding, Calling
  <2>3. IsFiniteSet(Holders') /\ Cardinality(Holders') = active + 1
    BY <1>1, <2>2, FS_AddElement DEF QueueInv
  <2>4. waiters = <<>>
    BY <1>2, GatewayConstants DEF QueueInv, SlotsInv, TypeOK
  <2>5. \A q \in Requests : pc'[q] = "waiting" <=> \E i \in 1..Len(waiters') : waiters'[i] = q
    BY <1>1, <1>2, <2>1 DEF QueueInv, SlotsInv
  <2> QED  BY <1>2, <2>1, <2>3, <2>4, <2>5, GatewayConstants
           DEF QueueInv, SlotsInv, TypeOK, Holders, Holding, Calling
<1>3. CASE /\ active = MaxConcurrent /\ waiters' = Append(waiters, r) /\ Goto(r, "waiting")
           /\ UNCHANGED active
  <2>1. /\ pc' = [pc EXCEPT ![r] = "waiting"] /\ pc'[r] = "waiting"
        /\ \A q \in Requests : q # r => pc'[q] = pc[q]
    BY <1>3 DEF Goto, TypeOK
  <2>2. Holders' = Holders
    BY <1>1, <2>1 DEF Holders, Holding, Calling
  <2>3. /\ waiters' \in Seq(Requests) /\ Len(waiters') = Len(waiters) + 1
        /\ waiters'[Len(waiters) + 1] = r /\ Len(waiters) \in Nat
        /\ \A i \in 1..Len(waiters) : waiters'[i] = waiters[i]
    BY <1>3 DEF TypeOK
  <2>4. \A i, j \in 1..Len(waiters') : waiters'[i] = waiters'[j] => i = j
    <3> SUFFICES ASSUME NEW i \in 1..Len(waiters'), NEW j \in 1..Len(waiters'),
                        waiters'[i] = waiters'[j]
                 PROVE  i = j
      OBVIOUS
    <3>1. CASE i \in 1..Len(waiters) /\ j \in 1..Len(waiters)
      BY <2>3, <3>1 DEF QueueInv
    <3>2. CASE i = Len(waiters) + 1 \/ j = Len(waiters) + 1
      BY <1>1, <2>3, <3>2
    <3> QED  BY <2>3, <3>1, <3>2
  <2>5. \A q \in Requests : pc'[q] = "waiting" <=> \E i \in 1..Len(waiters') : waiters'[i] = q
    <3>1. \E i \in 1..Len(waiters') : waiters'[i] = r
      BY <2>3
    <3>2. ASSUME NEW q \in Requests, q # r
          PROVE  pc'[q] = "waiting" <=> \E i \in 1..Len(waiters') : waiters'[i] = q
      <4>1. pc[q] = "waiting" <=> \E i \in 1..Len(waiters) : waiters[i] = q
        BY DEF QueueInv, SlotsInv
      <4>2. (\E i \in 1..Len(waiters') : waiters'[i] = q)
              <=> (\E i \in 1..Len(waiters) : waiters[i] = q)
        BY <2>3, <3>2
      <4> QED  BY <2>1, <3>2, <4>1, <4>2
    <3> QED  BY <2>1, <3>1, <3>2
  <2> QED  BY <1>1, <1>3, <2>1, <2>2, <2>3, <2>4, <2>5
           DEF QueueInv, SlotsInv, TypeOK, Holders, Holding, Calling
<1> QED  BY <1>2, <1>3 DEF Acquire

LEMMA ReleaseKeepsSlots ==
    ASSUME TypeOK, QueueInv, NEW r \in Requests, pc[r] \in Holding, Release(r)
    PROVE  /\ QueueInv' /\ active' \in 0..MaxConcurrent /\ waiters' \in Seq(Requests)
           /\ pc' \in [Requests -> Holding \cup {"idle", "waiting", "done"}]
           /\ pc'[r] = "done"
           /\ \A q \in Requests : pc'[q] \in Calling => pc[q] \in Calling
<1>1. /\ r \in Holders /\ active = Cardinality(Holders) /\ IsFiniteSet(Holders)
      /\ pc[r] # "waiting"
  BY DEF Holders, Holding, Calling, QueueInv, SlotsInv
<1>2. active \in Nat /\ active > 0
  <2>1. Cardinality(Holders) \in Nat /\ (Cardinality(Holders) = 0 => Holders = {})
    BY <1>1, FS_EmptySet, FS_CardinalityType
  <2> QED  BY <1>1, <2>1
<1>3. IsFiniteSet(Holders \ {r}) /\ Cardinality(Holders \ {r}) = active - 1
  BY <1>1, FS_RemoveElement
<1>4. CASE /\ waiters = <<>>
           /\ active' = active - 1 /\ Goto(r, "done") /\ UNCHANGED waiters
  <2>1. /\ pc' = [pc EXCEPT ![r] = "done"] /\ pc'[r] = "done"
        /\ \A q \in Requests : q # r => pc'[q] = pc[q]
    BY <1>4 DEF Goto, TypeOK
  <2>2. Holders' = Holders \ {r}
    BY <2>1 DEF Holders, Holding, Calling
  <2>3. \A q \in Requests : pc'[q] = "waiting" <=> \E i \in 1..Len(waiters') : waiters'[i] = q
    BY <1>1, <1>4, <2>1 DEF QueueInv, SlotsInv
  <2>4. QueueInv'
    <3>1. IsFiniteSet(Holders') /\ active' = Cardinality(Holders')
      BY <1>3, <1>4, <2>2
    <3>2. waiters' = <<>> /\ Len(waiters') = 0
      BY <1>4
    <3> QED  BY <2>3, <3>1, <3>2 DEF QueueInv, SlotsInv, Holders
  <2>5. active' \in 0..MaxConcurrent
    BY <1>2, <1>4, GatewayConstants DEF TypeOK
  <2> QED  BY <1>4, <2>1, <2>4, <2>5 DEF TypeOK, Calling
<1>5. CASE /\ waiters # <<>> /\ waiters' = Tail(waiters)
           /\ pc' = [pc EXCEPT ![r] = "done", ![Head(waiters)] = "routing"]
           /\ UNCHANGED active
  <2> DEFINE h == Head(waiters)
  <2>1. /\ Len(waiters) \in Nat /\ Len(waiters) > 0 /\ h = waiters[1] /\ h \in Requests
        /\ Len(waiters') = Len(waiters) - 1 /\ waiters' \in Seq(Requests)
        /\ \A i \in 1..Len(waiters') : waiters'[i] = waiters[i + 1]
    BY <1>5, QueueFacts
  <2>2. pc[h] = "waiting" /\ h # r
    <3>1. 1 \in 1..Len(waiters)
      BY <2>1
    <3>2. pc[h] = "waiting" <=> \E i \in 1..Len(waiters) : waiters[i] = h
      BY <2>1 DEF QueueInv, SlotsInv
    <3> QED  BY <1>1, <2>1, <3>1, <3>2
  <2> HIDE DEF h
  <2>3. /\ pc'[r] = "done" /\ pc'[h] = "routing"
        /\ \A q \in Requests : q # r /\ q # h => pc'[q] = pc[q]
        /\ pc' \in [Requests -> Holding \cup {"idle", "waiting", "done"}]
    <3>1. pc' = [pc EXCEPT ![r] = "done", ![h] = "routing"]
      BY <1>5 DEF h
    <3> QED  BY <2>1, <2>2, <3>1 DEF TypeOK, Holding
  <2>4. Holders' = (Holders \ {r}) \cup {h} /\ h \notin Holders \ {r}
    BY <2>1, <2>2, <2>3 DEF Holders, Holding, Calling
  <2>5. IsFiniteSet(Holders') /\ Cardinality(Holders') = active
    <3>1. Cardinality((Holders \ {r}) \cup {h}) = Cardinality(Holders \ {r}) + 1
          /\ IsFiniteSet((Holders \ {r}) \cup {h})
      BY <1>3, <2>4, FS_AddElement
    <3> QED  BY <1>2, <1>3, <2>4, <3>1
  <2>6. \A i, j \in 1..Len(waiters') : waiters'[i] = waiters'[j] => i = j
    BY <2>1 DEF QueueInv
  <2>7. \A q \in Requests : pc'[q] = "waiting" <=> \E i \in 1..Len(waiters') : waiters'[i] = q
    <3>1. \A i \in 1..Len(waiters') : waiters'[i] # h
      BY <2>1 DEF QueueInv
    <3>2. ASSUME NEW q \in Requests, q # h
          PROVE  (\E i \in 1..Len(waiters') : waiters'[i] = q)
                   <=> (\E i \in 1..Len(waiters) : waiters[i] = q)
      <4>1. ASSUME NEW i \in 1..Len(waiters), waiters[i] = q
            PROVE  \E k \in 1..Len(waiters') : waiters'[k] = q
        <5>1. i # 1 /\ i - 1 \in 1..Len(waiters') /\ (i - 1) + 1 = i
          BY <2>1, <3>2, <4>1
        <5>2. waiters'[i - 1] = waiters[(i - 1) + 1]
          BY <2>1, <5>1
        <5>3. waiters'[i - 1] = q
          BY <4>1, <5>1, <5>2
        <5> QED  BY <5>1, <5>3
      <4>2. ASSUME NEW i \in 1..Len(waiters'), waiters'[i] = q
            PROVE  \E k \in 1..Len(waiters) : waiters[k] = q
        <5>1. i + 1 \in 1..Len(waiters)
          BY <2>1
        <5> QED  BY <2>1, <4>2, <5>1
      <4> QED  BY <4>1, <4>2
    <3>3. \A q \in Requests : pc[q] = "waiting" <=> \E i \in 1..Len(waiters) : waiters[i] = q
      BY DEF QueueInv, SlotsInv
    <3>4. \A i \in 1..Len(waiters) : waiters[i] # r
      BY <1>1, <3>3
    <3>5. \A i \in 1..Len(waiters') : waiters'[i] # r
      BY <2>1, <3>4
    <3> QED  BY <2>3, <3>1, <3>2, <3>3, <3>5
  <2>8. QueueInv'
    BY <1>5, <2>1, <2>5, <2>6, <2>7 DEF QueueInv, SlotsInv, Holders
  <2> QED  BY <1>5, <2>1, <2>2, <2>3, <2>8 DEF TypeOK, Calling
<1> QED  BY <1>4, <1>5 DEF Release

LEMMA LeavingKeepsSlots ==
    ASSUME TypeOK, QueueInv, NEW r \in Requests, pc[r] = "waiting",
           LeaveQueue(r), Goto(r, "done"), UNCHANGED active
    PROVE  /\ QueueInv' /\ waiters' \in Seq(Requests)
           /\ pc' \in [Requests -> Holding \cup {"idle", "waiting", "done"}]
           /\ \A q \in Requests : pc'[q] \in Calling => pc[q] \in Calling
<1>1. /\ pc' = [pc EXCEPT ![r] = "done"] /\ pc'[r] = "done"
      /\ \A q \in Requests : q # r => pc'[q] = pc[q]
      /\ pc' \in [Requests -> Holding \cup {"idle", "waiting", "done"}]
  BY DEF Goto, TypeOK
<1>2. Holders' = Holders
  BY <1>1 DEF Holders, Holding, Calling
<1>3. PICK place \in 1..Len(waiters) :
          /\ waiters[place] = r
          /\ waiters' = [j \in 1..(Len(waiters) - 1) |->
                            waiters[IF j < place THEN j ELSE j + 1]]
  BY DEF LeaveQueue
<1> DEFINE Old(j) == IF j < place THEN j ELSE j + 1
<1>4. Len(waiters) \in Nat /\ \A i \in 1..Len(waiters) : waiters[i] \in Requests
  BY QueueFacts
<1>5. Len(waiters) - 1 \in Nat /\ \A j \in 1..(Len(waiters) - 1) : Old(j) \in 1..Len(waiters)
  BY <1>4
<1>6. /\ waiters' \in Seq(Requests) /\ Len(waiters') = Len(waiters) - 1
      /\ \A j \in 1..Len(waiters') : waiters'[j] = waiters[Old(j)]
  <2>1. waiters' \in [1..(Len(waiters) - 1) -> Requests]
    BY <1>3, <1>4, <1>5
  <2>2. waiters' \in Seq(Requests) /\ Len(waiters') = Len(waiters) - 1
    BY <1>5, <2>1
  <2> QED  BY <1>3, <2>2
<1>7. \A i, j \in 1..Len(waiters') : waiters'[i] = waiters'[j] => i = j
  <2> SUFFICES ASSUME NEW i \in 1..Len(waiters'), NEW j \in 1..Len(waiters'),
                      waiters'[i] = waiters'[j]
               PROVE  i = j
    OBVIOUS
  <2>1. Old(i) = Old(j)
    BY <1>5, <1>6 DEF QueueInv
  <2> QED  BY <1>4, <1>6, <2>1
<1>8. \A q \in Requests : pc'[q] = "waiting" <=> \E i \in 1..Len(waiters') : waiters'[i] = q
  <2>1. \A i \in 1..Len(waiters') : waiters'[i] # r
    <3> SUFFICES ASSUME NEW i \in 1..Len(waiters'), waiters'[i] = r PROVE FALSE
      OBVIOUS
    <3>1. Old(i) = place
      BY <1>3, <1>5, <1>6 DEF QueueInv
    <3> QED  BY <1>4, <1>6, <3>1
  <2>2. ASSUME NEW q \in Requests, q # r
        PROVE  pc'[q] = "waiting" <=> \E i \in 1..Len(waiters') : waiters'[i] = q
    <3>1. ASSUME NEW i \in 1..Len(waiters), waiters[i] = q
          PROVE  \E k \in 1..Len(waiters') : waiters'[k] = q
      <4>1. i # place
        BY <1>3, <2>2, <3>1
      <4>2. PICK k \in 1..Len(waiters') : Old(k) = i
        <5>1. CASE i < place
          BY <1>4, <1>6, <5>1
        <5>2. CASE i > place
          <6>1. i - 1 \in 1..Len(waiters') /\ Old(i - 1) = i
            BY <1>4, <1>6, <5>2
          <6> QED  BY <6>1
        <5> QED  BY <1>4, <4>1, <5>1, <5>2
      <4> QED  BY <1>6, <3>1, <4>2
    <3>2. ASSUME NEW k \in 1..Len(waiters'), waiters'[k] = q
          PROVE  \E i \in 1..Len(waiters) : waiters[i] = q
      BY <1>5, <1>6, <3>2
    <3>3. pc[q] = "waiting" <=> \E i \in 1..Len(waiters) : waiters[i] = q
      BY DEF QueueInv, SlotsInv
    <3> QED  BY <1>1, <2>2, <3>1, <3>2, <3>3
  <2> QED  BY <1>1, <2>1, <2>2
<1>9. waiters # <<>> /\ active = MaxConcurrent
  BY <1>3, <1>4 DEF QueueInv, SlotsInv
<1>10. QueueInv'
  BY <1>2, <1>7, <1>8, <1>9 DEF QueueInv, SlotsInv, Holders
<1> QED  BY <1>1, <1>6, <1>10 DEF Calling
-----------------------------------------------------------------------------
(* The candidates.                                                         *)
LEMMA RouteFacts ==
    TypeOK => /\ Len(Route) \in Nat /\ DOMAIN Route = 1..Len(Route)
              /\ \A i \in 1..Len(Route) : Route[i] \in Candidates
              /\ \A r \in Requests : pos[r] \in 1..(Len(Route) + 1)
BY GatewayConstants DEF TypeOK

(* A call that goes on is where it was: no candidate gets a new caller.    *)
CallsGoOn == \A q \in Requests : pc'[q] \in Calling => pc[q] \in Calling /\ pos'[q] = pos[q]

LEMMA OnShrinks ==
    ASSUME CallsGoOn, NEW c PROVE On(c)' \subseteq On(c)
BY DEF CallsGoOn, On

LEMMA CircuitsStay ==
    ASSUME CircuitInv, CallsGoOn, UNCHANGED <<circuit, reliable>>
    PROVE  CircuitInv'
<1> SUFFICES ASSUME NEW c \in Candidates PROVE Watched(c)'
  BY DEF CircuitInv
<1>1. On(c)' \subseteq On(c) /\ Watched(c)
  BY OnShrinks DEF CircuitInv
<1> QED  BY <1>1 DEF Watched

LEMMA PlacesStay ==
    ASSUME PlaceInv, CallsGoOn, UNCHANGED reliable,
           \A q \in Requests : pos'[q] = pos[q] \/ pos'[q] = 1,
           \A q \in Requests : result'[q] = "failed" =>
               result[q] = "failed" \/ \A i \in DOMAIN Route : Route[i] \notin reliable
    PROVE  PlaceInv'
<1>1. ASSUME NEW q \in Requests PROVE Passed(q)'
  <2>1. Passed(q) /\ (pc'[q] \in Calling => pc[q] \in Calling /\ pos'[q] = pos[q])
    BY DEF PlaceInv, CallsGoOn
  <2>2. CASE pos'[q] = pos[q]
    BY <2>1, <2>2 DEF Passed
  <2>3. CASE pos'[q] = 1
    BY <2>1, <2>3 DEF Passed
  <2> QED  BY <2>2, <2>3
<1>2. ReliableCandidateAnswers'
  BY DEF PlaceInv, ReliableCandidateAnswers
<1> QED  BY <1>1, <1>2 DEF PlaceInv

(* The end of a request, whatever it is.                                   *)
LEMMA FinishKeeps ==
    ASSUME TypeOK, QueueInv, NEW r \in Requests, pc[r] \in Holding,
           NEW outcome \in {"decision", "failed", "deadline"}, Finish(r, outcome),
           circuit' \in [Candidates -> Circuit], UNCHANGED <<keyIndex, reliable>>
    PROVE  /\ TypeOK' /\ QueueInv' /\ CallsGoOn
           /\ \A q \in Requests : pos'[q] = pos[q] \/ pos'[q] = 1
           /\ \A q \in Requests : result'[q] = (IF q = r THEN outcome ELSE result[q])
<1>1. /\ QueueInv' /\ active' \in 0..MaxConcurrent /\ waiters' \in Seq(Requests)
      /\ pc' \in [Requests -> Holding \cup {"idle", "waiting", "done"}]
      /\ pc'[r] = "done" /\ \A q \in Requests : pc'[q] \in Calling => pc[q] \in Calling
  BY ReleaseKeepsSlots DEF Finish
<1>2. /\ pos' = [pos EXCEPT ![r] = 1] /\ attempt' = [attempt EXCEPT ![r] = 0]
      /\ tried' = [tried EXCEPT ![r] = 0] /\ result' = [result EXCEPT ![r] = outcome]
  BY DEF Finish, Forget
<1>3. 1 \in 1..(Len(Route) + 1) /\ 0 \in 0..MaxRetries /\ 0 \in 0..(Keys - 1)
  BY RouteFacts, GatewayConstants
<1>4. TypeOK'
  BY <1>1, <1>2, <1>3 DEF TypeOK
<1>5. \A q \in Requests : /\ pos'[q] = (IF q = r THEN 1 ELSE pos[q])
                          /\ result'[q] = (IF q = r THEN outcome ELSE result[q])
  BY <1>2 DEF TypeOK
<1>6. CallsGoOn
  BY <1>1, <1>5 DEF CallsGoOn, Calling
<1> QED  BY <1>1, <1>4, <1>5, <1>6

-----------------------------------------------------------------------------
(* The actions.                                                            *)
LEMMA AcquireKeeps ==
    ASSUME IndInv, NEW r \in Requests, Acquire(r) PROVE IndInv'
<1>1. /\ QueueInv' /\ active' \in 0..MaxConcurrent /\ waiters' \in Seq(Requests)
      /\ pc' \in [Requests -> Holding \cup {"idle", "waiting", "done"}]
  BY AcquireKeepsSlots DEF IndInv
<1>2. UNCHANGED <<circuit, keyIndex, pos, attempt, tried, result, reliable>>
  BY DEF Acquire
<1>3. TypeOK'
  BY <1>1, <1>2 DEF IndInv, TypeOK
<1>4. \A q \in Requests : q # r => pc'[q] = pc[q]
  BY DEF Acquire, Goto, IndInv, TypeOK
<1>5. pc'[r] \in {"routing", "waiting"}
  BY DEF Acquire, Goto, IndInv, TypeOK
<1>6. CallsGoOn
  BY <1>2, <1>4, <1>5 DEF CallsGoOn, Calling
<1>7. PlaceInv'
  BY <1>2, <1>6, PlacesStay DEF IndInv
<1>8. CircuitInv'
  BY <1>2, <1>6, CircuitsStay DEF IndInv
<1> QED  BY <1>1, <1>3, <1>7, <1>8 DEF IndInv

LEMMA AllFailedKeeps ==
    ASSUME IndInv, NEW r \in Requests, AllFailed(r) PROVE IndInv'
<1>1. /\ pc[r] = "routing" /\ pos[r] > Len(Route) /\ Finish(r, "failed")
      /\ UNCHANGED <<circuit, keyIndex, reliable>>
  BY DEF AllFailed
<1>2. /\ TypeOK' /\ QueueInv' /\ CallsGoOn
      /\ \A q \in Requests : pos'[q] = pos[q] \/ pos'[q] = 1
      /\ \A q \in Requests : result'[q] = (IF q = r THEN "failed" ELSE result[q])
  <2>1. pc[r] \in Holding /\ circuit' \in [Candidates -> Circuit]
    BY <1>1 DEF Holding, IndInv, TypeOK
  <2>2. TypeOK /\ QueueInv
    BY DEF IndInv
  <2> QED  BY <1>1, <2>1, <2>2, FinishKeeps
<1>3. \A i \in DOMAIN Route : Route[i] \notin reliable
  <2>1. DOMAIN Route \subseteq 1..(pos[r] - 1)
    BY <1>1, RouteFacts DEF IndInv
  <2> QED  BY <2>1 DEF IndInv, PlaceInv, Passed
<1>4. PlaceInv'
  BY <1>1, <1>2, <1>3, PlacesStay DEF IndInv
<1>5. CircuitInv'
  BY <1>1, <1>2, CircuitsStay DEF IndInv
<1> QED  BY <1>2, <1>4, <1>5 DEF IndInv

LEMMA DeadlineKeeps ==
    ASSUME IndInv, NEW r \in Requests, Deadline(r) PROVE IndInv'
<1>0. TypeOK /\ QueueInv /\ UNCHANGED <<circuit, keyIndex, reliable>>
  BY DEF IndInv, Deadline
<1>1. CASE pc[r] \in Calling /\ Finish(r, "deadline")
  <2>1. /\ TypeOK' /\ QueueInv' /\ CallsGoOn
        /\ \A q \in Requests : pos'[q] = pos[q] \/ pos'[q] = 1
        /\ \A q \in Requests : result'[q] = (IF q = r THEN "deadline" ELSE result[q])
    <3>1. pc[r] \in Holding /\ circuit' \in [Candidates -> Circuit]
      BY <1>0, <1>1 DEF Holding, TypeOK
    <3> QED  BY <1>0, <1>1, <3>1, FinishKeeps
  <2>2. PlaceInv'
    BY <1>0, <2>1, PlacesStay DEF IndInv
  <2>3. CircuitInv'
    BY <1>0, <2>1, CircuitsStay DEF IndInv
  <2> QED  BY <2>1, <2>2, <2>3 DEF IndInv
<1>2. CASE /\ pc[r] = "waiting" /\ LeaveQueue(r) /\ Goto(r, "done")
           /\ result' = [result EXCEPT ![r] = "deadline"]
           /\ UNCHANGED <<active, pos, attempt, tried>>
  <2>1. /\ QueueInv' /\ waiters' \in Seq(Requests)
        /\ pc' \in [Requests -> Holding \cup {"idle", "waiting", "done"}]
        /\ \A q \in Requests : pc'[q] \in Calling => pc[q] \in Calling
    BY <1>0, <1>2, LeavingKeepsSlots
  <2>2. TypeOK'
    BY <1>0, <1>2, <2>1 DEF TypeOK
  <2>3. CallsGoOn
    BY <1>2, <2>1 DEF CallsGoOn
  <2>4. PlaceInv'
    <3>1. \A q \in Requests : result'[q] = "failed" => result[q] = "failed"
      BY <1>0, <1>2 DEF TypeOK
    <3> QED  BY <1>0, <1>2, <2>3, <3>1, PlacesStay DEF IndInv
  <2>5. CircuitInv'
    BY <1>0, <2>3, CircuitsStay DEF IndInv
  <2> QED  BY <2>1, <2>2, <2>4, <2>5 DEF IndInv
<1> QED  BY <1>1, <1>2 DEF Deadline
LEMMA RetryKeeps ==
    ASSUME IndInv, NEW r \in Requests, Retry(r) PROVE IndInv'
<1>1. /\ pc[r] = "sleeping" /\ pc' = [pc EXCEPT ![r] = "calling"]
      /\ UNCHANGED <<active, waiters, circuit, keyIndex, pos, attempt, tried, result, reliable>>
  BY DEF Retry, Goto
<1>2. QueueInv'
  <2>1. pc[r] \in Holding /\ "calling" \in Holding /\ TypeOK /\ QueueInv
    BY <1>1 DEF Holding, Calling, IndInv
  <2> QED  BY <1>1, <2>1, MovesWithSlot
<1>3. TypeOK'
  BY <1>1 DEF IndInv, TypeOK, Holding, Calling
<1>4. CallsGoOn
  BY <1>1 DEF CallsGoOn, Calling, IndInv, TypeOK
<1>5. PlaceInv'
  BY <1>1, <1>4, PlacesStay DEF IndInv
<1>6. CircuitInv'
  BY <1>1, <1>4, CircuitsStay DEF IndInv
<1> QED  BY <1>2, <1>3, <1>5, <1>6 DEF IndInv

LEMMA KeyRefusedKeeps ==
    ASSUME IndInv, NEW r \in Requests, KeyRefused(r) PROVE IndInv'
<1>1. /\ tried[r] + 1 < Keys /\ tried' = [tried EXCEPT ![r] = @ + 1]
      /\ keyIndex' = [keyIndex EXCEPT ![Route[pos[r]]] = (@ + 1) % Keys]
      /\ UNCHANGED <<active, waiters, circuit, pc, pos, attempt, result, reliable>>
  BY DEF KeyRefused, RotateKey
<1>2. QueueInv'
  BY <1>1, SlotsStay DEF IndInv
<1>3. TypeOK'
  <2>1. \A k \in Nat : (k + 1) % Keys \in 0..(Keys - 1)
    BY GatewayConstants
  <2>2. keyIndex' \in [Candidates -> 0..(Keys - 1)]
    <3>1. /\ keyIndex \in [Candidates -> 0..(Keys - 1)]
          /\ \A c \in Candidates : (keyIndex[c] + 1) % Keys \in 0..(Keys - 1)
      BY <2>1 DEF IndInv, TypeOK
    <3> QED  BY <1>1, <3>1
  <2>3. tried' \in [Requests -> 0..(Keys - 1)]
    <3>1. tried \in [Requests -> 0..(Keys - 1)] /\ tried[r] + 1 \in 0..(Keys - 1)
      BY <1>1, GatewayConstants DEF IndInv, TypeOK
    <3> QED  BY <1>1, <3>1
  <2> QED  BY <1>1, <2>2, <2>3 DEF IndInv, TypeOK
<1>4. CallsGoOn
  BY <1>1 DEF CallsGoOn
<1>5. PlaceInv'
  BY <1>1, <1>4, PlacesStay DEF IndInv
<1>6. CircuitInv'
  BY <1>1, <1>4, CircuitsStay DEF IndInv
<1> QED  BY <1>2, <1>3, <1>5, <1>6 DEF IndInv

LEMMA AnswersKeeps ==
    ASSUME IndInv, NEW r \in Requests, Answers(r) PROVE IndInv'
<1> DEFINE c == Route[pos[r]]
<1>1. /\ pc[r] = "calling" /\ Finish(r, "decision") /\ UNCHANGED <<keyIndex, reliable>>
      /\ circuit' = [circuit EXCEPT ![c] = Closed]
  BY DEF Answers
<1> HIDE DEF c
<1>2. /\ TypeOK' /\ QueueInv' /\ CallsGoOn
      /\ \A q \in Requests : pos'[q] = pos[q] \/ pos'[q] = 1
      /\ \A q \in Requests : result'[q] = (IF q = r THEN "decision" ELSE result[q])
  <2>1. pc[r] \in Holding
    BY <1>1 DEF Holding, Calling
  <2>2. circuit' \in [Candidates -> Circuit]
    <3>1. Closed \in Circuit
      BY DEF Closed, Circuit
    <3> QED  BY <1>1, <3>1 DEF IndInv, TypeOK
  <2>3. TypeOK /\ QueueInv
    BY DEF IndInv
  <2> QED  BY <1>1, <2>1, <2>2, <2>3, FinishKeeps
<1>3. PlaceInv'
  BY <1>1, <1>2, PlacesStay DEF IndInv
<1>4. ASSUME NEW d \in Candidates PROVE Watched(d)'
  <2>1. On(d)' \subseteq On(d) /\ Watched(d)
    BY <1>2, OnShrinks DEF IndInv, CircuitInv
  <2>2. CASE d = c
    <3>1. circuit'[d] = Closed
      BY <1>1, <2>2 DEF IndInv, TypeOK
    <3> QED  BY <3>1 DEF Watched, Closed
  <2>3. CASE d # c
    <3>1. circuit'[d] = circuit[d]
      BY <1>1, <2>3 DEF IndInv, TypeOK
    <3> QED  BY <1>1, <2>1, <3>1 DEF Watched
  <2> QED  BY <2>2, <2>3
<1> QED  BY <1>2, <1>3, <1>4 DEF IndInv, CircuitInv

LEMMA ElapseKeeps ==
    ASSUME IndInv, NEW c \in Candidates, Elapse(c) PROVE IndInv'
<1>1. /\ circuit[c].opened = "now" /\ circuit[c].since \cap InFlight = {}
      /\ circuit' = [circuit EXCEPT ![c].opened = "elapsed", ![c].since = {}]
      /\ UNCHANGED <<active, waiters, keyIndex, pc, pos, attempt, tried, result, reliable>>
  BY DEF Elapse
<1>2. QueueInv'
  BY <1>1, SlotsStay DEF IndInv
<1>3. /\ \A d \in Candidates : d # c => circuit'[d] = circuit[d]
      /\ circuit'[c] = [circuit[c] EXCEPT !.opened = "elapsed", !.since = {}]
      /\ circuit' \in [Candidates -> Circuit]
  <2>1. circuit[c] \in Circuit /\ circuit \in [Candidates -> Circuit]
    BY DEF IndInv, TypeOK
  <2>2. [circuit[c] EXCEPT !.opened = "elapsed", !.since = {}] \in Circuit
    BY <2>1 DEF Circuit
  <2>3. circuit' = [circuit EXCEPT ![c] = [circuit[c] EXCEPT !.opened = "elapsed", !.since = {}]]
    BY <1>1, <2>1 DEF Circuit
  <2> QED  BY <2>1, <2>2, <2>3
<1>4. TypeOK'
  BY <1>1, <1>3 DEF IndInv, TypeOK
<1>5. CallsGoOn
  BY <1>1 DEF CallsGoOn
<1>6. PlaceInv'
  BY <1>1, <1>5, PlacesStay DEF IndInv
<1>7. Watched(c)'
  <2>1. On(c)' = On(c) /\ On(c) \subseteq InFlight /\ Watched(c)
    BY <1>1 DEF On, InFlight, Holding, IndInv, CircuitInv
  <2>2. On(c)' = {} /\ c \notin reliable /\ circuit[c].failures >= Threshold
        /\ ~ circuit[c].halfOpen
    BY <1>1, <2>1 DEF Watched
  <2>3. /\ circuit'[c].opened = "elapsed" /\ circuit'[c].failures = circuit[c].failures
        /\ circuit'[c].halfOpen = circuit[c].halfOpen
    BY <1>3 DEF IndInv, TypeOK, Circuit
  <2> QED  BY <1>1, <2>2, <2>3 DEF Watched
<1>8. ASSUME NEW d \in Candidates, d # c PROVE Watched(d)'
  BY <1>1, <1>3, <1>5, <1>8, OnShrinks DEF IndInv, CircuitInv, Watched
<1>9. CircuitInv'
  BY <1>7, <1>8 DEF CircuitInv
<1> QED  BY <1>2, <1>4, <1>6, <1>9 DEF IndInv

(* Going on to the next candidate, from one that is not reliable.          *)
LEMMA NextPlace ==
    ASSUME TypeOK, PlaceInv, NEW r \in Requests, pos[r] <= Len(Route),
           Route[pos[r]] \notin reliable, pos' = [pos EXCEPT ![r] = @ + 1],
           pc'[r] \notin Calling, \A q \in Requests : q # r => pc'[q] = pc[q],
           UNCHANGED <<result, reliable>>
    PROVE  /\ PlaceInv' /\ CallsGoOn
           /\ pos' \in [Requests -> 1..(Len(Route) + 1)]
<1>1. /\ pos'[r] = pos[r] + 1 /\ pos[r] + 1 \in 1..(Len(Route) + 1)
      /\ \A q \in Requests : q # r => pos'[q] = pos[q]
      /\ pos' \in [Requests -> 1..(Len(Route) + 1)]
  BY RouteFacts DEF TypeOK
<1>2. ASSUME NEW q \in Requests, q # r PROVE Passed(q)'
  BY <1>1, <1>2 DEF PlaceInv, Passed
<1>3. Passed(r)'
  <2>1. \A i \in 1..(pos'[r] - 1) : i = pos[r] \/ i \in 1..(pos[r] - 1)
    BY <1>1, RouteFacts
  <2>2. \A i \in 1..(pos[r] - 1) : Route[i] \notin reliable
    BY DEF PlaceInv, Passed
  <2> QED  BY <2>1, <2>2 DEF Passed
<1>4. CallsGoOn
  BY <1>1 DEF CallsGoOn
<1>5. ReliableCandidateAnswers'
  BY DEF PlaceInv, ReliableCandidateAnswers
<1> QED  BY <1>1, <1>2, <1>3, <1>4, <1>5 DEF PlaceInv
LEMMA FailsKeeps ==
    ASSUME IndInv, NEW r \in Requests, Fails(r) PROVE IndInv'
<1>1. /\ pc[r] = "calling" /\ Route[pos[r]] \notin reliable
      /\ pos' = [pos EXCEPT ![r] = @ + 1] /\ attempt' = [attempt EXCEPT ![r] = 0]
      /\ pc' = [pc EXCEPT ![r] = "routing"] /\ tried' = [tried EXCEPT ![r] = 0]
      /\ UNCHANGED <<active, waiters, circuit, keyIndex, result, reliable>>
  BY DEF Fails, NextCandidate, Goto
<1>2. TypeOK /\ QueueInv /\ PlaceInv /\ CircuitInv
  BY DEF IndInv
<1>3. QueueInv'
  <2>1. pc[r] \in Holding /\ "routing" \in Holding
    BY <1>1 DEF Holding, Calling
  <2> QED  BY <1>1, <1>2, <2>1, MovesWithSlot
<1>4. /\ pc'[r] \notin Calling /\ \A q \in Requests : q # r => pc'[q] = pc[q]
      /\ pc' \in [Requests -> Holding \cup {"idle", "waiting", "done"}]
  BY <1>1, <1>2 DEF TypeOK, Calling, Holding
<1>5. /\ PlaceInv' /\ CallsGoOn /\ pos' \in [Requests -> 1..(Len(Route) + 1)]
  <2>1. pos[r] <= Len(Route)
    BY <1>1, <1>2 DEF PlaceInv, Passed, Calling
  <2> QED  BY <1>1, <1>2, <1>4, <2>1, NextPlace
<1>6. TypeOK'
  <2>1. 0 \in 0..MaxRetries /\ 0 \in 0..(Keys - 1)
    BY GatewayConstants
  <2>2. /\ attempt' \in [Requests -> 0..MaxRetries]
        /\ tried' \in [Requests -> 0..(Keys - 1)]
    BY <1>1, <1>2, <2>1 DEF TypeOK
  <2> QED  BY <1>1, <1>2, <1>4, <1>5, <2>2 DEF TypeOK
<1>7. CircuitInv'
  BY <1>1, <1>2, <1>5, CircuitsStay
<1> QED  BY <1>3, <1>5, <1>6, <1>7 DEF IndInv

LEMMA FailureIsCircuit ==
    ASSUME NEW state \in Circuit, TypeOK
    PROVE  /\ Failure(state) \in Circuit /\ Failure(state).opened # "elapsed"
           /\ Failure(state).failures = state.failures + 1 /\ ~ Failure(state).halfOpen
           /\ Failure(state).opened = "now" =>
                  /\ Failure(state).since = InFlight
                  /\ state.halfOpen \/ state.failures + 1 >= Threshold
<1>1. InFlight \subseteq Requests
  BY DEF InFlight
<1>2. state.failures + 1 \in Nat
  BY DEF Circuit
<1> QED  BY <1>1, <1>2 DEF Failure, Circuit

LEMMA FailsRetryablyKeeps ==
    ASSUME IndInv, NEW r \in Requests, FailsRetryably(r) PROVE IndInv'
<1> DEFINE c == Route[pos[r]]
<1>1. /\ pc[r] = "calling" /\ c \notin reliable
      /\ circuit' = [circuit EXCEPT ![c] = Failure(circuit[c])]
      /\ tried' = [tried EXCEPT ![r] = 0]
      /\ UNCHANGED <<active, waiters, keyIndex, result, reliable>>
  BY DEF FailsRetryably
<1>2. TypeOK /\ QueueInv /\ PlaceInv /\ CircuitInv
  BY DEF IndInv
<1>3. pos[r] <= Len(Route) /\ c \in Candidates
  <2>1. pos[r] <= Len(Route)
    BY <1>1, <1>2 DEF PlaceInv, Passed, Calling
  <2> QED  BY <1>2, <2>1, RouteFacts
<1>4. /\ QueueInv' /\ PlaceInv' /\ CallsGoOn
      /\ pos' \in [Requests -> 1..(Len(Route) + 1)]
      /\ pc' \in [Requests -> Holding \cup {"idle", "waiting", "done"}]
      /\ attempt' \in [Requests -> 0..MaxRetries]
  <2>1. pc[r] \in Holding /\ "routing" \in Holding /\ "sleeping" \in Holding
    BY <1>1 DEF Holding, Calling
  <2>2. CASE /\ attempt[r] < MaxRetries /\ attempt' = [attempt EXCEPT ![r] = @ + 1]
             /\ Goto(r, "sleeping") /\ UNCHANGED pos
    <3>1. pc' = [pc EXCEPT ![r] = "sleeping"]
      BY <2>2 DEF Goto
    <3>2. QueueInv'
      BY <1>1, <1>2, <2>1, <3>1, MovesWithSlot
    <3>3. CallsGoOn
      BY <1>1, <1>2, <2>2, <3>1 DEF CallsGoOn, Calling, TypeOK
    <3>4. PlaceInv'
      BY <1>1, <1>2, <2>2, <3>3, PlacesStay
    <3>5. attempt' \in [Requests -> 0..MaxRetries]
      <4>1. attempt \in [Requests -> 0..MaxRetries] /\ attempt[r] + 1 \in 0..MaxRetries
        BY <1>2, <2>2, GatewayConstants DEF TypeOK
      <4> QED  BY <2>2, <4>1
    <3>6. pc' \in [Requests -> Holding \cup {"idle", "waiting", "done"}]
      BY <1>2, <2>1, <3>1 DEF TypeOK
    <3> QED  BY <1>2, <2>2, <3>2, <3>3, <3>4, <3>5, <3>6 DEF TypeOK
  <2>3. CASE NextCandidate(r)
    <3>1. /\ pos' = [pos EXCEPT ![r] = @ + 1] /\ attempt' = [attempt EXCEPT ![r] = 0]
          /\ pc' = [pc EXCEPT ![r] = "routing"]
      BY <2>3 DEF NextCandidate, Goto
    <3>2. QueueInv'
      BY <1>1, <1>2, <2>1, <3>1, MovesWithSlot
    <3>3. /\ pc'[r] \notin Calling /\ \A q \in Requests : q # r => pc'[q] = pc[q]
          /\ pc' \in [Requests -> Holding \cup {"idle", "waiting", "done"}]
      BY <1>2, <3>1 DEF TypeOK, Calling, Holding
    <3>4. PlaceInv' /\ CallsGoOn /\ pos' \in [Requests -> 1..(Len(Route) + 1)]
      BY <1>1, <1>2, <1>3, <3>1, <3>3, NextPlace
    <3>5. attempt' \in [Requests -> 0..MaxRetries]
      BY <1>2, <3>1, GatewayConstants DEF TypeOK
    <3> QED  BY <3>2, <3>3, <3>4, <3>5
  <2> QED  BY <2>2, <2>3 DEF FailsRetryably
<1> HIDE DEF c
<1>5. /\ circuit[c] \in Circuit /\ circuit'[c] = Failure(circuit[c])
      /\ Failure(circuit[c]) \in Circuit
      /\ \A d \in Candidates : d # c => circuit'[d] = circuit[d]
      /\ circuit' \in [Candidates -> Circuit]
  <2>1. circuit[c] \in Circuit /\ circuit \in [Candidates -> Circuit]
    BY <1>2, <1>3 DEF TypeOK
  <2>2. Failure(circuit[c]) \in Circuit
    BY <1>2, <2>1, FailureIsCircuit
  <2> QED  BY <1>1, <1>3, <2>1, <2>2
<1>6. TypeOK'
  <2>1. tried' \in [Requests -> 0..(Keys - 1)]
    BY <1>1, <1>2, GatewayConstants DEF TypeOK
  <2> QED  BY <1>1, <1>2, <1>4, <1>5, <2>1 DEF TypeOK
<1>7. ASSUME NEW d \in Candidates PROVE Watched(d)'
  <2>1. On(d)' \subseteq On(d) /\ On(d) \subseteq InFlight /\ Watched(d)
    <3>1. On(d)' \subseteq On(d) /\ Watched(d)
      BY <1>2, <1>4, OnShrinks DEF CircuitInv
    <3>2. On(d) \subseteq InFlight
      BY DEF On, InFlight, Holding
    <3> QED  BY <3>1, <3>2
  <2>2. CASE d # c
    <3>1. circuit'[d] = circuit[d]
      BY <1>5, <2>2
    <3> QED  BY <1>1, <2>1, <3>1 DEF Watched
  <2>3. CASE d = c
    <3>1. circuit[d].failures \in Nat /\ Threshold \in Nat
      BY <1>5, <2>3, GatewayConstants DEF Circuit
    <3>2. circuit'[d] = Failure(circuit[d]) /\ circuit[d] \in Circuit /\ d \notin reliable'
      BY <1>1, <1>5, <2>3
    <3>3. /\ circuit'[d].opened # "elapsed" /\ ~ circuit'[d].halfOpen
          /\ circuit'[d].failures = circuit[d].failures + 1
          /\ circuit'[d].opened = "now" =>
                 /\ circuit'[d].since = InFlight
                 /\ circuit[d].halfOpen \/ circuit[d].failures + 1 >= Threshold
      BY <1>2, <3>2, FailureIsCircuit
    <3>4. circuit'[d].opened \in {"no", "now"}
      BY <1>5, <2>3, <3>2, <3>3 DEF Circuit
    <3>5. circuit[d].halfOpen => circuit[d].failures >= Threshold
      BY <2>1 DEF Watched
    <3> QED  BY <2>1, <3>1, <3>2, <3>3, <3>4, <3>5 DEF Watched
  <2> QED  BY <2>2, <2>3
<1> QED  BY <1>4, <1>6, <1>7 DEF IndInv, CircuitInv
(* Trying a candidate, or passing it by: a reliable one is neither missing *)
(* nor open, so that it is never passed by.                                *)
LEMMA TryKeeps ==
    ASSUME IndInv, NEW r \in Requests, Try(r) PROVE IndInv'
<1>1. TypeOK /\ QueueInv /\ PlaceInv /\ CircuitInv
  BY DEF IndInv
<1>2. /\ pc[r] = "routing" /\ pos[r] <= Len(Route)
      /\ UNCHANGED <<active, waiters, keyIndex, attempt, tried, result, reliable>>
  BY DEF Try
<1>3. Route[pos[r]] \in Candidates
  BY <1>1, <1>2, RouteFacts
<1>4. CASE /\ Route[pos[r]] \in Missing \/ ~ CanAttempt(Route[pos[r]])
           /\ pos' = [pos EXCEPT ![r] = @ + 1] /\ UNCHANGED <<circuit, pc>>
  <2>1. Route[pos[r]] \notin reliable
    <3>1. Route[pos[r]] \in reliable => circuit[Route[pos[r]]].opened = "no"
      BY <1>1, <1>3 DEF CircuitInv, Watched
    <3>2. reliable \cap Missing = {}
      BY <1>1 DEF TypeOK
    <3> QED  BY <1>4, <3>1, <3>2 DEF CanAttempt
  <2>2. /\ PlaceInv' /\ CallsGoOn /\ pos' \in [Requests -> 1..(Len(Route) + 1)]
    <3>1. pc'[r] \notin Calling /\ \A q \in Requests : q # r => pc'[q] = pc[q]
      BY <1>2, <1>4 DEF Calling
    <3> QED  BY <1>1, <1>2, <1>4, <2>1, <3>1, NextPlace
  <2>3. QueueInv'
    BY <1>1, <1>2, <1>4, SlotsStay
  <2>4. TypeOK'
    BY <1>1, <1>2, <1>4, <2>2 DEF TypeOK
  <2>5. CircuitInv'
    BY <1>1, <1>2, <1>4, <2>2, CircuitsStay
  <2> QED  BY <2>2, <2>3, <2>4, <2>5 DEF IndInv
<1>5. CASE LET c == Route[pos[r]] IN
           /\ c \notin Missing /\ CanAttempt(c)
           /\ circuit' = [circuit EXCEPT ![c].halfOpen = (circuit[c].opened = "elapsed")]
           /\ Goto(r, "calling") /\ UNCHANGED pos
  <2>1. /\ pc' = [pc EXCEPT ![r] = "calling"] /\ pos' = pos /\ pc'[r] = "calling"
        /\ \A q \in Requests : q # r => pc'[q] = pc[q]
        /\ pc' \in [Requests -> Holding \cup {"idle", "waiting", "done"}]
    BY <1>1, <1>5 DEF Goto, TypeOK, Holding, Calling
  <2>2. QueueInv'
    <3>1. pc[r] \in Holding /\ "calling" \in Holding
      BY <1>2 DEF Holding, Calling
    <3> QED  BY <1>1, <1>2, <2>1, <3>1, MovesWithSlot
  <2>3. PlaceInv'
    <3>1. ASSUME NEW q \in Requests PROVE Passed(q)'
      BY <1>1, <1>2, <2>1 DEF PlaceInv, Passed
    <3> QED  BY <1>1, <1>2, <3>1 DEF PlaceInv, ReliableCandidateAnswers
  <2>4. ASSUME NEW d \in Candidates
        PROVE  /\ circuit'[d] \in Circuit
               /\ d # Route[pos[r]] => circuit'[d] = circuit[d]
               /\ d = Route[pos[r]] =>
                      /\ circuit'[d].opened = circuit[d].opened
                      /\ circuit'[d].failures = circuit[d].failures
                      /\ circuit'[d].since = circuit[d].since
                      /\ circuit'[d].halfOpen = (circuit[d].opened = "elapsed")
    <3>1. circuit[d] \in Circuit /\ circuit \in [Candidates -> Circuit]
      BY <1>1 DEF TypeOK
    <3>2. CASE d # Route[pos[r]]
      BY <1>5, <3>1, <3>2
    <3>3. CASE d = Route[pos[r]]
      <4>1. circuit'[d] = [circuit[d] EXCEPT !.halfOpen = (circuit[d].opened = "elapsed")]
        BY <1>5, <3>1, <3>3
      <4>2. (circuit[d].opened = "elapsed") \in BOOLEAN
        OBVIOUS
      <4> QED  BY <3>1, <3>3, <4>1, <4>2 DEF Circuit
    <3> QED  BY <3>2, <3>3
  <2>5. TypeOK'
    <3>1. circuit' \in [Candidates -> Circuit]
      <4>1. DOMAIN circuit' = Candidates /\ circuit' = [d \in Candidates |-> circuit'[d]]
        BY <1>1, <1>5 DEF TypeOK
      <4> QED  BY <2>4, <4>1
    <3> QED  BY <1>1, <1>2, <2>1, <3>1 DEF TypeOK
  <2>6. ASSUME NEW d \in Candidates PROVE Watched(d)'
    <3>1. Watched(d)
      BY <1>1 DEF CircuitInv
    <3>2. CASE d # Route[pos[r]]
      <4>1. On(d)' = On(d)
        BY <1>2, <2>1, <3>2 DEF On, Calling
      <4> QED  BY <1>2, <2>4, <3>1, <3>2, <4>1 DEF Watched
    <3>3. CASE d = Route[pos[r]]
      <4>1. \/ circuit[d].opened = "no"
            \/ circuit[d].opened = "elapsed" /\ ~ circuit[d].halfOpen
        BY <1>5, <3>3 DEF CanAttempt
      <4>2. On(d)' \subseteq On(d) \cup {r}
        BY <2>1 DEF On
      <4>3. circuit[d].opened = "elapsed" => On(d)' \subseteq {r}
        BY <3>1, <4>1, <4>2 DEF Watched
      <4>4. circuit'[d].opened = circuit[d].opened /\ circuit'[d].failures = circuit[d].failures
            /\ circuit'[d].halfOpen = (circuit[d].opened = "elapsed")
        BY <2>4, <3>3
      <4> QED  BY <1>2, <3>1, <4>1, <4>3, <4>4 DEF Watched
    <3> QED  BY <3>2, <3>3
  <2> QED  BY <2>2, <2>3, <2>5, <2>6 DEF IndInv, CircuitInv
<1> QED  BY <1>4, <1>5 DEF Try

LEMMA StepKeeps == IndInv /\ [Next]_vars => IndInv'
<1> SUFFICES ASSUME IndInv, [Next]_vars PROVE IndInv'
  OBVIOUS
<1>1. CASE UNCHANGED vars
  <2>1. QueueInv'
    BY <1>1, SlotsStay DEF vars, IndInv
  <2>2. CallsGoOn
    BY <1>1 DEF vars, CallsGoOn
  <2>3. PlaceInv'
    BY <1>1, <2>2, PlacesStay DEF vars, IndInv
  <2>4. CircuitInv'
    BY <1>1, <2>2, CircuitsStay DEF vars, IndInv
  <2>5. TypeOK'
    BY <1>1 DEF vars, IndInv, TypeOK
  <2> QED  BY <2>1, <2>3, <2>4, <2>5 DEF IndInv
<1>2. ASSUME NEW r \in Requests, Acquire(r) PROVE IndInv'
  BY <1>2, AcquireKeeps
<1>3. ASSUME NEW r \in Requests, Execute(r) PROVE IndInv'
  BY <1>3, TryKeeps, AllFailedKeeps DEF Execute
<1>4. ASSUME NEW r \in Requests, KeyRefused(r) PROVE IndInv'
  BY <1>4, KeyRefusedKeeps
<1>5. ASSUME NEW r \in Requests, Answers(r) PROVE IndInv'
  BY <1>5, AnswersKeeps
<1>6. ASSUME NEW r \in Requests, FailsRetryably(r) PROVE IndInv'
  BY <1>6, FailsRetryablyKeeps
<1>7. ASSUME NEW r \in Requests, Fails(r) PROVE IndInv'
  BY <1>7, FailsKeeps
<1>8. ASSUME NEW r \in Requests, Retry(r) PROVE IndInv'
  BY <1>8, RetryKeeps
<1>9. ASSUME NEW r \in Requests, Deadline(r) PROVE IndInv'
  BY <1>9, DeadlineKeeps
<1>10. ASSUME NEW c \in Candidates, Elapse(c) PROVE IndInv'
  BY <1>10, ElapseKeeps
<1> QED  BY <1>1, <1>2, <1>3, <1>4, <1>5, <1>6, <1>7, <1>8, <1>9, <1>10 DEF Next

LEMMA AlwaysIndInv == Spec => []IndInv
BY InitInd, StepKeeps, PTL DEF Spec

-----------------------------------------------------------------------------
(* acquireSlot and releaseSlot: however deadlines, failures and answers    *)
(* fall, the count of the slots is that of the requests that hold one, and *)
(* a request waits only while none is free.                                *)
THEOREM GatewayIsSound == Spec => []GatewayInv
<1>1. IndInv => GatewayInv
  BY DEF IndInv, GatewayInv, QueueInv
<1> QED  BY <1>1, AlwaysIndInv, PTL

(* canAttempt and recordFailure: a half-open circuit has at most one       *)
(* request at its candidate.                                               *)
THEOREM ProbesStayAlone == Spec => []ProbesAreAlone
<1>1. IndInv => ProbesAreAlone
  <2> SUFFICES ASSUME IndInv, NEW c \in Candidates, circuit[c].halfOpen
               PROVE  Cardinality(On(c)) <= 1
    BY DEF ProbesAreAlone
  <2>1. \A q, r \in On(c) : q = r
    BY DEF IndInv, CircuitInv, Watched
  <2>2. CASE On(c) = {}
    BY <2>2, FS_EmptySet
  <2>3. CASE On(c) # {}
    <3>1. PICK r \in On(c) : TRUE
      BY <2>3
    <3>2. On(c) = {r}
      BY <2>1, <3>1
    <3>3. Cardinality({r}) = 1
      BY FS_Singleton
    <3> QED  BY <3>2, <3>3
  <2> QED  BY <2>2, <2>3
<1> QED  BY <1>1, AlwaysIndInv, PTL

(* decide: as long as a configured candidate of the route works, no        *)
(* request is told that all providers failed.                              *)
THEOREM FailoverReaches == Spec => []ReliableCandidateAnswers
<1>1. IndInv => ReliableCandidateAnswers
  BY DEF IndInv, PlaceInv
<1> QED  BY <1>1, AlwaysIndInv, PTL
=============================================================================
