---------------------------- MODULE WorkerProofs -----------------------------
(***************************************************************************)
(* Proofs about the two modules of the WhatsApp Web worker: OutboundEcho,  *)
(* for any sends, messages, limits and faults, and LinkedDeviceSession,    *)
(* for any messages, runs of flushOnce and budget of faults.               *)
(***************************************************************************)
EXTENDS LinkedDeviceSession, OutboundEcho, SequenceTheorems, TLAPS

(* What is queued or out was sent.                                         *)
SentInv ==
    /\ \A i \in 1..Len(queue) : call[queue[i]] # "idle"
    /\ \A s \in out \cap Sends : call[s] # "idle"
    /\ \A s \in recent : call[s] # "idle"

(* What the worker needs to recognize an echo: it is the active send's, or *)
(* known from an earlier one, until it waits for its own send or has its   *)
(* hint; where that fails, something kept the worker from it.              *)
EchoOf(s) ==
    \/ s \in late
    \/ /\ s \in out /\ sight[s] = "none" => s = active \/ s \in recent
       /\ sight[s] = "waiting" => awaits[s] = s
       /\ sight[s] = "spooled" => hint[s] = s
       /\ completion[s] # "null" /\ s \notin takenOver
RecognizedInv == \A s \in Sends : EchoOf(s)

PeopleInv == \A h \in Humans : hint[h] = None /\ h \notin ignored

IndInv == EchoInv /\ SentInv /\ RecognizedInv /\ PeopleInv

LEMMA QueueFacts ==
    ASSUME TypeOK
    PROVE  /\ Len(queue) \in Nat /\ DOMAIN queue = 1..Len(queue)
           /\ \A i \in 1..Len(queue) : queue[i] \in Sends
           /\ queue # <<>> => /\ Head(queue) \in Sends /\ Head(queue) = queue[1]
                              /\ 1 \in 1..Len(queue) /\ Len(queue) > 0
                              /\ Tail(queue) \in Seq(Sends) /\ Len(Tail(queue)) = Len(queue) - 1
                              /\ \A i \in 1..Len(Tail(queue)) :
                                    Tail(queue)[i] = queue[i + 1] /\ i + 1 \in 1..Len(queue)
           /\ \A s \in Sends : /\ Append(queue, s) \in Seq(Sends) /\ Append(queue, s) # <<>>
                               /\ Len(Append(queue, s)) = Len(queue) + 1
                               /\ \A i \in 1..Len(Append(queue, s)) :
                                     \/ i \in 1..Len(queue) /\ Append(queue, s)[i] = queue[i]
                                     \/ Append(queue, s)[i] = s
                               /\ queue # <<>> => Head(Append(queue, s)) = Head(queue)
<1>1. queue \in Seq(Sends)
  BY DEF TypeOK
<1>2. Len(queue) \in Nat /\ DOMAIN queue = 1..Len(queue) /\ \A i \in 1..Len(queue) : queue[i] \in Sends
  BY <1>1
<1>3. ASSUME queue # <<>>
      PROVE  /\ Head(queue) \in Sends /\ Head(queue) = queue[1]
             /\ 1 \in 1..Len(queue) /\ Len(queue) > 0
             /\ Tail(queue) \in Seq(Sends) /\ Len(Tail(queue)) = Len(queue) - 1
  BY <1>1, <1>3
<1>4. ASSUME queue # <<>>, NEW i \in 1..Len(Tail(queue))
      PROVE  Tail(queue)[i] = queue[i + 1] /\ i + 1 \in 1..Len(queue)
  BY <1>1, <1>2, <1>3, <1>4
<1>5. ASSUME NEW s \in Sends
      PROVE  /\ Append(queue, s) \in Seq(Sends) /\ Append(queue, s) # <<>>
             /\ Len(Append(queue, s)) = Len(queue) + 1
             /\ queue # <<>> => Head(Append(queue, s)) = Head(queue)
  <2>1. /\ Append(queue, s) \in Seq(Sends) /\ Len(Append(queue, s)) = Len(queue) + 1
        /\ \A i \in 1..Len(queue) : Append(queue, s)[i] = queue[i]
    BY <1>1, AppendProperties
  <2>2. Append(queue, s) # <<>>
    BY <1>2, <2>1
  <2>3. Head(Append(queue, s)) = Append(queue, s)[1]
    BY <2>1, <2>2
  <2> QED  BY <1>3, <2>1, <2>2, <2>3
<1>6. ASSUME NEW s \in Sends, NEW i \in 1..Len(Append(queue, s))
      PROVE  \/ i \in 1..Len(queue) /\ Append(queue, s)[i] = queue[i]
             \/ Append(queue, s)[i] = s
  BY <1>1, <1>2, <1>5, <1>6, AppendProperties
<1> QED  BY <1>2, <1>3, <1>4, <1>5, <1>6

LEMMA Limits == TypeOK => maxSendQueue \in Nat \ {0} /\ faults \in Nat /\ None \notin Sends
                          /\ Sends \subseteq Messages /\ Humans \subseteq Messages
                          /\ Sends \cap Humans = {} /\ None \notin Messages /\ MaxFaults \in Nat
  BY EchoConstants DEF TypeOK, Messages

LEMMA FaultKeeps == ASSUME TypeOK, Fault PROVE faults' \in 0..MaxFaults
  BY Limits DEF Fault, TypeOK

LEMMA AnswerKeeps ==
    ASSUME TypeOK, NEW s \in Sends, NEW result \in {"answered", "done", "failed"},
           Answer(s, result)
    PROVE  /\ call' \in [Sends -> {"idle", "waiting", "answered", "done", "failed"}]
           /\ \A u \in Sends : call'[u] = "idle" <=> call[u] = "idle"
  BY DEF TypeOK, Answer

(* Where the head of the queue is.                                         *)
LEMMA HeadIsActive ==
    ASSUME TypeOK, QueueInv
    PROVE  /\ active = None <=> ~ (queue # <<>> /\ stage = "sending")
           /\ active # None => active = Head(queue) /\ active \in Sends
  BY QueueFacts, Limits DEF QueueInv, TypeOK

-------------------------------------------------------------------------------
(* The sends.                                                              *)

LEMMA SendKeeps ==
    ASSUME IndInv, NEW s \in Sends, Send(s)
    PROVE  IndInv'
<1>1. TypeOK /\ QueueInv /\ SentInv /\ RecognizedInv /\ PeopleInv
  BY DEF IndInv, EchoInv
<1>2. /\ call[s] = "idle"
      /\ \/ Accepts /\ call' = [call EXCEPT ![s] = "waiting"] /\ queue' = Append(queue, s)
         \/ call' = [call EXCEPT ![s] = "failed"] /\ queue' = queue
      /\ UNCHANGED <<maxSendQueue, stage, ready, active, completion, recent, out,
                     sight, awaits, hint, attributed, echoed, ignored, takenOver, late>>
  BY DEF Send, observed, supervisor
<1>3. faults' \in 0..MaxFaults
  BY <1>1, FaultKeeps DEF Send, TypeOK
<1>4. /\ call' \in [Sends -> {"idle", "waiting", "answered", "done", "failed"}]
      /\ \A u \in Sends : call'[u] = "idle" => call[u] = "idle" /\ u # s
  BY <1>1, <1>2 DEF TypeOK
<1>5. CASE Accepts /\ queue' = Append(queue, s)
  <2>1. /\ queue' \in Seq(Sends) /\ queue' # <<>> /\ Len(queue') = Len(queue) + 1
        /\ \A i \in 1..Len(queue') :
              (i \in 1..Len(queue) /\ queue'[i] = queue[i]) \/ queue'[i] = s
        /\ (queue # <<>> => Head(queue') = Head(queue))
    BY <1>1, <1>5, QueueFacts
  <2>2. Len(queue') <= maxSendQueue'
    <3>1. Len(queue) < maxSendQueue /\ maxSendQueue' = maxSendQueue
      BY <1>2, <1>5 DEF Accepts
    <3> QED  BY <1>1, <2>1, <3>1, QueueFacts, Limits
  <2>3. TypeOK'
    BY <1>1, <1>2, <1>3, <1>4, <2>1 DEF TypeOK
  <2>4. QueueInv'
    BY <1>1, <1>2, <2>1, <2>2 DEF QueueInv
  <2>5. SentInv'
    BY <1>1, <1>2, <1>4, <2>1, QueueFacts DEF SentInv, TypeOK
  <2>6. RecognizedInv' /\ PeopleInv'
    BY <1>1, <1>2 DEF RecognizedInv, EchoOf, PeopleInv
  <2> QED  BY <2>3, <2>4, <2>5, <2>6 DEF IndInv, EchoInv
<1>6. CASE queue' = queue
  <2>1. TypeOK' /\ QueueInv'
    BY <1>1, <1>2, <1>3, <1>4, <1>6 DEF TypeOK, QueueInv
  <2>2. SentInv'
    BY <1>1, <1>2, <1>4, <1>6, QueueFacts DEF SentInv, TypeOK
  <2>3. RecognizedInv' /\ PeopleInv'
    BY <1>1, <1>2 DEF RecognizedInv, EchoOf, PeopleInv
  <2> QED  BY <2>1, <2>2, <2>3 DEF IndInv, EchoInv
<1> QED  BY <1>2, <1>5, <1>6

(* Steps that change nothing but which calls have an answer.               *)
LEMMA AnswersKeep ==
    ASSUME IndInv,
           UNCHANGED <<worker, out, observed, ignored, takenOver, late>>,
           faults' \in 0..MaxFaults,
           attributed' \subseteq Sends, attributed \subseteq attributed', echoed' = echoed,
           call' \in [Sends -> {"idle", "waiting", "answered", "done", "failed"}],
           \A u \in Sends : call'[u] = "idle" => call[u] = "idle"
    PROVE  IndInv'
<1>1. TypeOK /\ QueueInv /\ SentInv /\ RecognizedInv /\ PeopleInv
  BY DEF IndInv, EchoInv
<1>2. UNCHANGED <<maxSendQueue, queue, stage, ready, active, completion, recent, out,
                  sight, awaits, hint, ignored, takenOver, late>>
  BY DEF worker, observed
<1>3. TypeOK'
  BY <1>1, <1>2 DEF TypeOK
<1>4. QueueInv' /\ RecognizedInv' /\ PeopleInv'
  BY <1>1, <1>2 DEF QueueInv, RecognizedInv, EchoOf, PeopleInv
<1>5. SentInv'
  BY <1>1, <1>2, QueueFacts DEF SentInv, TypeOK
<1> QED  BY <1>3, <1>4, <1>5 DEF IndInv, EchoInv

LEMMA TimeOutKeeps == ASSUME IndInv, NEW s \in Sends, TimeOut(s) PROVE IndInv'
<1>1. TypeOK /\ echoed \subseteq attributed /\ attributed \subseteq Sends
  BY DEF IndInv, EchoInv, TypeOK
<1>2. UNCHANGED <<worker, out, observed, supervisor, late>> /\ Fault /\ Answer(s, "failed")
  BY DEF TimeOut
<1> QED  BY <1>1, <1>2, FaultKeeps, AnswerKeeps, AnswersKeep DEF supervisor

LEMMA AttributeKeeps == ASSUME IndInv, NEW s \in Sends, Attribute(s) PROVE IndInv'
<1>1. TypeOK /\ attributed \subseteq Sends
  BY DEF IndInv, EchoInv, TypeOK
<1>2. /\ UNCHANGED <<worker, out, observed, echoed, ignored, takenOver, late>>
      /\ call' = [call EXCEPT ![s] = "done"]
      /\ (Record(s) /\ UNCHANGED faults) \/ (Fault /\ UNCHANGED attributed)
  BY DEF Attribute
<1>3. /\ call' \in [Sends -> {"idle", "waiting", "answered", "done", "failed"}]
      /\ \A u \in Sends : call'[u] = "idle" => call[u] = "idle"
  BY <1>1, <1>2 DEF TypeOK
<1>4. faults' \in 0..MaxFaults
  BY <1>1, <1>2, FaultKeeps DEF TypeOK
<1>5. attributed' \subseteq Sends /\ attributed \subseteq attributed'
  BY <1>1, <1>2 DEF Record
<1> QED  BY <1>2, <1>3, <1>4, <1>5, AnswersKeep
(* The head of the queue leaves it, with nothing under way after it.       *)
LEMMA DequeueKeeps ==
    ASSUME IndInv, queue # <<>>, Dequeue, active' = None,
           UNCHANGED <<maxSendQueue, ready, out, sight, awaits, hint, supervisor>>,
           \E result \in {"answered", "failed"} : Answer(Head(queue), result),
           faults' \in 0..MaxFaults
    PROVE  /\ QueueInv' /\ PeopleInv'
           /\ \A s \in Sends : call'[s] = "idle" <=> call[s] = "idle"
           /\ \A i \in 1..Len(queue') : call'[queue'[i]] # "idle"
           /\ call[Head(queue)] # "idle"
           /\ completion' \in [Sends -> {"open", "id", "null"}] /\ recent' \subseteq Sends
              /\ late' \subseteq Sends => TypeOK'
<1>1. TypeOK /\ QueueInv /\ SentInv /\ PeopleInv
  BY DEF IndInv, EchoInv
<1>2. queue' = Tail(queue) /\ stage' = "waiting"
  BY DEF Dequeue
<1>3. /\ Head(queue) \in Sends /\ Head(queue) = queue[1] /\ 1 \in 1..Len(queue)
      /\ queue' \in Seq(Sends) /\ Len(queue') = Len(queue) - 1
      /\ \A i \in 1..Len(queue') : queue'[i] = queue[i + 1] /\ i + 1 \in 1..Len(queue)
  BY <1>1, <1>2, QueueFacts
<1>4. /\ call' \in [Sends -> {"idle", "waiting", "answered", "done", "failed"}]
      /\ \A s \in Sends : call'[s] = "idle" <=> call[s] = "idle"
  BY <1>1, <1>3, AnswerKeeps
<1>5. \A i \in 1..Len(queue') : call'[queue'[i]] # "idle"
  BY <1>1, <1>3, <1>4, QueueFacts DEF SentInv
<1>6. QueueInv'
  BY <1>1, <1>2, <1>3, QueueFacts, Limits DEF QueueInv
<1>7. UNCHANGED <<attributed, echoed, ignored, takenOver>>
  BY DEF supervisor
<1>8. completion' \in [Sends -> {"open", "id", "null"}] /\ recent' \subseteq Sends
      /\ late' \subseteq Sends => TypeOK'
  BY <1>1, <1>2, <1>3, <1>4, <1>7 DEF TypeOK
<1> QED  BY <1>1, <1>3, <1>4, <1>5, <1>6, <1>7, <1>8 DEF PeopleInv, SentInv

LEMMA BeginKeeps == ASSUME IndInv, Begin PROVE IndInv'
<1>1. TypeOK /\ QueueInv /\ SentInv /\ RecognizedInv /\ PeopleInv
  BY DEF IndInv, EchoInv
<1>2. /\ queue # <<>> /\ stage = "waiting" /\ active = None
      /\ UNCHANGED <<maxSendQueue, ready, active, completion, recent, out, sight, awaits, hint,
                     supervisor, late, faults>>
  BY <1>1, HeadIsActive DEF Begin, observed
<1>3. RecognizedInv'
  BY <1>1, <1>2 DEF RecognizedInv, EchoOf, supervisor
<1>4. CASE stage' = "spacing" /\ UNCHANGED <<call, queue>>
  BY <1>1, <1>2, <1>3, <1>4 DEF IndInv, EchoInv, TypeOK, QueueInv, SentInv, PeopleInv, supervisor
<1>5. CASE Dequeue /\ Answer(Head(queue), "failed")
  <2>1. /\ QueueInv' /\ PeopleInv' /\ TypeOK'
        /\ \A s \in Sends : call'[s] = "idle" <=> call[s] = "idle"
        /\ \A i \in 1..Len(queue') : call'[queue'[i]] # "idle"
    BY <1>1, <1>2, <1>5, DequeueKeeps DEF TypeOK
  <2>2. SentInv'
    BY <1>1, <1>2, <2>1 DEF SentInv, TypeOK
  <2> QED  BY <1>3, <2>1, <2>2 DEF IndInv, EchoInv
<1> QED  BY <1>4, <1>5 DEF Begin

LEMMA ActivateKeeps == ASSUME IndInv, Activate PROVE IndInv'
<1>1. TypeOK /\ QueueInv /\ SentInv /\ RecognizedInv /\ PeopleInv
  BY DEF IndInv, EchoInv
<1>2. /\ queue # <<>> /\ stage = "spacing" /\ active = None
      /\ stage' = "sending" /\ active' = Head(queue) /\ Head(queue) \in Sends
      /\ UNCHANGED <<maxSendQueue, call, queue, ready, completion, recent, out, sight, awaits,
                     hint, attributed, echoed, ignored, takenOver, late, faults>>
  BY <1>1, HeadIsActive, QueueFacts DEF Activate, observed, supervisor
<1>3. TypeOK' /\ QueueInv' /\ SentInv' /\ PeopleInv'
  BY <1>1, <1>2 DEF TypeOK, QueueInv, SentInv, PeopleInv
<1>4. RecognizedInv'
  BY <1>1, <1>2, Limits DEF RecognizedInv, EchoOf
<1> QED  BY <1>3, <1>4 DEF IndInv, EchoInv

LEMMA GoesOutKeeps ==
    ASSUME IndInv, GoesOut \/ \E h \in Humans : Types(h)
    PROVE  IndInv'
<1>1. TypeOK /\ QueueInv /\ SentInv /\ RecognizedInv /\ PeopleInv
  BY DEF IndInv, EchoInv
<1>2. PICK x \in Messages :
          /\ out' = out \cup {x}
          /\ x \in Sends => x = active /\ call[x] # "idle"
  <2>1. CASE GoesOut
    <3>1. active = Head(queue) /\ active \in Sends /\ call[active] # "idle"
      BY <1>1, <2>1, HeadIsActive, QueueFacts, Limits DEF GoesOut, SentInv, QueueInv
    <3> QED  BY <1>1, <2>1, <3>1, Limits DEF GoesOut
  <2>2. CASE \E h \in Humans : Types(h)
    BY <1>1, <2>2, Limits DEF Types
  <2> QED  BY <2>1, <2>2
<1>3. UNCHANGED <<maxSendQueue, call, queue, stage, ready, active, completion, recent, sight,
                  awaits, hint, attributed, echoed, ignored, takenOver, late, faults>>
  BY DEF GoesOut, Types, worker, observed, supervisor
<1>4. TypeOK' /\ QueueInv' /\ PeopleInv'
  BY <1>1, <1>2, <1>3 DEF TypeOK, QueueInv, PeopleInv
<1>5. SentInv' /\ RecognizedInv'
  BY <1>1, <1>2, <1>3 DEF SentInv, RecognizedInv, EchoOf
<1> QED  BY <1>4, <1>5 DEF IndInv, EchoInv

LEMMA SendReturnsKeeps == ASSUME IndInv, SendReturns PROVE IndInv'
<1> DEFINE h == Head(queue)
<1>1. TypeOK /\ QueueInv /\ SentInv /\ RecognizedInv /\ PeopleInv
  BY DEF IndInv, EchoInv
<1>2. /\ queue # <<>> /\ stage = "sending" /\ h \in Sends /\ active = h
      /\ recent' = recent \cup {h} /\ completion' = [completion EXCEPT ![h] = "id"]
      /\ active' = None /\ Dequeue /\ Answer(h, "answered")
      /\ UNCHANGED <<maxSendQueue, ready, out, sight, awaits, hint, supervisor, late, faults>>
  BY <1>1, HeadIsActive, QueueFacts DEF SendReturns, observed, QueueInv
<1>3. /\ completion' \in [Sends -> {"open", "id", "null"}] /\ recent' \subseteq Sends
      /\ \A s \in Sends : completion[s] # "null" => completion'[s] # "null"
  BY <1>1, <1>2 DEF TypeOK
<1>4. /\ QueueInv' /\ PeopleInv' /\ TypeOK' /\ call[h] # "idle"
      /\ \A s \in Sends : call'[s] = "idle" <=> call[s] = "idle"
      /\ \A i \in 1..Len(queue') : call'[queue'[i]] # "idle"
  BY <1>1, <1>2, <1>3, DequeueKeeps DEF TypeOK
<1> HIDE DEF h
<1>5. SentInv'
  BY <1>1, <1>2, <1>4 DEF SentInv, TypeOK
<1>6. RecognizedInv'
  BY <1>1, <1>2, <1>3 DEF RecognizedInv, EchoOf, supervisor
<1> QED  BY <1>4, <1>5, <1>6 DEF IndInv, EchoInv

LEMMA SendFailsKeeps == ASSUME IndInv, SendFails PROVE IndInv'
<1> DEFINE h == Head(queue)
<1>1. TypeOK /\ QueueInv /\ SentInv /\ RecognizedInv /\ PeopleInv
  BY DEF IndInv, EchoInv
<1>2. /\ queue # <<>> /\ stage = "sending" /\ h \in Sends /\ active = h
      /\ late' = late \cup {h} /\ completion' = [completion EXCEPT ![h] = "null"]
      /\ active' = None /\ Dequeue /\ Answer(h, "failed") /\ Fault
      /\ UNCHANGED <<maxSendQueue, ready, recent, out, sight, awaits, hint, supervisor>>
  BY <1>1, HeadIsActive, QueueFacts DEF SendFails, observed, QueueInv
<1>3. /\ completion' \in [Sends -> {"open", "id", "null"}] /\ late' \subseteq Sends
      /\ \A s \in Sends : s # h => completion'[s] = completion[s]
      /\ faults' \in 0..MaxFaults /\ recent' \subseteq Sends
  BY <1>1, <1>2, FaultKeeps DEF TypeOK
<1>4. /\ QueueInv' /\ PeopleInv' /\ TypeOK' /\ call[h] # "idle"
      /\ \A s \in Sends : call'[s] = "idle" <=> call[s] = "idle"
      /\ \A i \in 1..Len(queue') : call'[queue'[i]] # "idle"
  BY <1>1, <1>2, <1>3, DequeueKeeps
<1> HIDE DEF h
<1>5. SentInv'
  BY <1>1, <1>2, <1>4 DEF SentInv, TypeOK
<1>6. RecognizedInv'
  BY <1>1, <1>2, <1>3 DEF RecognizedInv, EchoOf, supervisor
<1> QED  BY <1>4, <1>5, <1>6 DEF IndInv, EchoInv

LEMMA PruneKeeps == ASSUME IndInv, NEW s \in Sends, Prune(s) PROVE IndInv'
<1>1. TypeOK /\ QueueInv /\ SentInv /\ RecognizedInv /\ PeopleInv
  BY DEF IndInv, EchoInv
<1>2. /\ recent' = recent \ {s} /\ late' = late \cup {s} /\ Fault
      /\ UNCHANGED <<maxSendQueue, call, queue, stage, ready, active, completion, out, sight,
                     awaits, hint, attributed, echoed, ignored, takenOver>>
  BY DEF Prune, observed, supervisor
<1>3. TypeOK'
  BY <1>1, <1>2, FaultKeeps DEF TypeOK
<1> QED  BY <1>1, <1>2, <1>3
         DEF IndInv, EchoInv, QueueInv, SentInv, RecognizedInv, EchoOf, PeopleInv

LEMMA StatusChangesKeeps == ASSUME IndInv, StatusChanges PROVE IndInv'
<1>1. TypeOK /\ QueueInv /\ SentInv /\ RecognizedInv /\ PeopleInv
  BY DEF IndInv, EchoInv
<1>2. /\ ready' \in BOOLEAN /\ Fault
      /\ UNCHANGED <<maxSendQueue, call, queue, stage, active, completion, recent, out, sight,
                     awaits, hint, attributed, echoed, ignored, takenOver, late>>
  BY DEF StatusChanges, observed, supervisor
<1>3. TypeOK'
  BY <1>1, <1>2, FaultKeeps DEF TypeOK
<1> QED  BY <1>1, <1>2, <1>3
         DEF IndInv, EchoInv, QueueInv, SentInv, RecognizedInv, EchoOf, PeopleInv

LEMMA ReplaceKeeps == ASSUME IndInv, Replace PROVE IndInv'
<1>1. TypeOK /\ QueueInv /\ SentInv /\ RecognizedInv /\ PeopleInv
  BY DEF IndInv, EchoInv
<1>2. /\ queue' = <<>> /\ stage' = "waiting" /\ active' = None /\ recent' = {} /\ Fault
      /\ completion' = [s \in Sends |->
             IF completion[s] = "open" /\ call[s] # "idle" THEN "null" ELSE completion[s]]
      /\ call' = [s \in Sends |-> IF call[s] = "waiting" THEN "failed" ELSE call[s]]
      /\ late' = {s \in Sends : call[s] # "idle"} \cup late
      /\ UNCHANGED <<maxSendQueue, ready, out, sight, awaits, hint, attributed, echoed, ignored,
                     takenOver>>
  BY DEF Replace, observed, supervisor
<1>3. <<>> \in Seq(Sends) /\ Len(<<>>) = 0
  OBVIOUS
<1>4. \A s \in Sends : /\ call'[s] \in {"idle", "waiting", "answered", "done", "failed"}
                       /\ call'[s] = "idle" => call[s] = "idle"
                       /\ completion'[s] \in {"open", "id", "null"}
                       /\ s \notin late' => call[s] = "idle" /\ completion'[s] = completion[s]
  BY <1>1, <1>2 DEF TypeOK
<1>5. TypeOK'
  BY <1>1, <1>2, <1>3, <1>4, FaultKeeps DEF TypeOK
<1>6. QueueInv'
  BY <1>1, <1>2, <1>3, Limits DEF QueueInv
<1>7. SentInv'
  BY <1>1, <1>2, <1>3, <1>4 DEF SentInv
<1>8. RecognizedInv'
  BY <1>1, <1>2, <1>4 DEF RecognizedInv, EchoOf, SentInv
<1> QED  BY <1>1, <1>2, <1>5, <1>6, <1>7, <1>8 DEF IndInv, EchoInv, PeopleInv

-------------------------------------------------------------------------------
(* The observations.                                                       *)

(* A step that only moves one observation on keeps what the others are.    *)
LEMMA SightKeeps ==
    ASSUME IndInv, NEW m \in Messages,
           UNCHANGED <<call, worker, out, attributed, faults>>,
           UNCHANGED supervisor,
           \A x \in Messages : x # m => /\ sight'[x] = sight[x] /\ awaits'[x] = awaits[x]
                                        /\ hint'[x] = hint[x],
           sight' \in [Messages -> {"none", "waiting", "spooled", "done"}],
           awaits' \in [Messages -> Sends \cup {None}],
           hint' \in [Messages -> Sends \cup {None}],
           late \subseteq late', late' \subseteq Sends,
           m \in Humans => hint'[m] = None,
           m \in Sends => \/ m \in late'
                          \/ /\ sight'[m] # "none"
                             /\ sight'[m] = "waiting" => awaits'[m] = m
                             /\ sight'[m] = "spooled" => hint'[m] = m
    PROVE  IndInv'
<1>1. TypeOK /\ QueueInv /\ SentInv /\ RecognizedInv /\ PeopleInv
  BY DEF IndInv, EchoInv
<1>2. UNCHANGED <<maxSendQueue, queue, stage, ready, active, completion, recent,
                  attributed, echoed, ignored, takenOver>>
  BY DEF worker, supervisor
<1>3. TypeOK'
  BY <1>1, <1>2 DEF TypeOK
<1>4. QueueInv' /\ SentInv'
  BY <1>1, <1>2 DEF QueueInv, SentInv
<1>5. PeopleInv'
  BY <1>1, <1>2, Limits DEF PeopleInv
<1>6. RecognizedInv'
  BY <1>1, <1>2, Limits DEF RecognizedInv, EchoOf
<1> QED  BY <1>3, <1>4, <1>5, <1>6 DEF IndInv, EchoInv

LEMMA SpoolFacts ==
    ASSUME TypeOK, NEW m \in Messages, NEW operation \in Sends \cup {None}, Spool(m, operation)
    PROVE  /\ sight'[m] = "spooled" /\ hint'[m] = operation
           /\ \A x \in Messages : x # m => /\ sight'[x] = sight[x] /\ awaits'[x] = awaits[x]
                                           /\ hint'[x] = hint[x]
           /\ sight' \in [Messages -> {"none", "waiting", "spooled", "done"}]
           /\ awaits' \in [Messages -> Sends \cup {None}]
           /\ hint' \in [Messages -> Sends \cup {None}]
  BY DEF Spool, TypeOK

LEMMA ObserveKeeps == ASSUME IndInv, NEW m \in Messages, Observe(m) PROVE IndInv'
<1>1. TypeOK /\ QueueInv /\ SentInv /\ RecognizedInv /\ PeopleInv
  BY DEF IndInv, EchoInv
<1>2. /\ m \in out /\ sight[m] = "none"
      /\ UNCHANGED <<call, worker, out, supervisor, faults>> /\ UNCHANGED attributed
  BY DEF Observe, supervisor
<1>3. m \in Sends => m \in late \/ m = active \/ m \in recent
  BY <1>1, <1>2 DEF RecognizedInv, EchoOf
<1>4. late \subseteq Sends /\ recent \subseteq Sends /\ active \in Sends \cup {None}
      /\ (m \in Humans => m \notin Sends) /\ (m = active => m \in Sends)
  BY <1>1, Limits DEF TypeOK
<1>5. CASE m \in recent /\ Spool(m, m) /\ UNCHANGED late
  BY <1>1, <1>2, <1>4, <1>5, SpoolFacts, SightKeeps
<1>6. CASE m \notin recent /\ Spool(m, None) /\ late' = IF m = active THEN late \cup {m} ELSE late
  BY <1>1, <1>2, <1>3, <1>4, <1>6, SpoolFacts, SightKeeps
<1>7. CASE /\ m \notin recent /\ active # None
           /\ sight' = [sight EXCEPT ![m] = "waiting"]
           /\ awaits' = [awaits EXCEPT ![m] = active]
           /\ UNCHANGED <<hint, late>>
  <2>1. /\ sight'[m] = "waiting" /\ awaits'[m] = active /\ hint' = hint
        /\ \A x \in Messages : x # m => sight'[x] = sight[x] /\ awaits'[x] = awaits[x]
        /\ sight' \in [Messages -> {"none", "waiting", "spooled", "done"}]
        /\ awaits' \in [Messages -> Sends \cup {None}]
        /\ hint' \in [Messages -> Sends \cup {None}]
    BY <1>1, <1>7 DEF TypeOK
  <2>2. m \in Humans => hint'[m] = None
    BY <1>1, <2>1 DEF PeopleInv
  <2> QED  BY <1>2, <1>3, <1>4, <1>7, <2>1, <2>2, SightKeeps
<1> QED  BY <1>5, <1>6, <1>7 DEF Observe

LEMMA ResolveKeeps == ASSUME IndInv, NEW m \in Messages, Resolve(m) PROVE IndInv'
<1> DEFINE operation == IF completion[awaits[m]] = "id" /\ awaits[m] = m THEN m ELSE None
<1>1. TypeOK /\ QueueInv /\ SentInv /\ RecognizedInv /\ PeopleInv
  BY DEF IndInv, EchoInv
<1>2. /\ sight[m] = "waiting" /\ completion[awaits[m]] # "open" /\ Spool(m, operation)
      /\ UNCHANGED <<call, worker, out, supervisor, late, faults>> /\ UNCHANGED attributed
  BY DEF Resolve, supervisor
<1>3. late \subseteq Sends /\ operation \in Sends \cup {None}
      /\ (m \in Humans => operation = None)
  BY <1>1, Limits DEF TypeOK
<1>4. m \in Sends => m \in late \/ operation = m
  BY <1>1, <1>2 DEF RecognizedInv, EchoOf, TypeOK
<1> HIDE DEF operation
<1>5. /\ sight'[m] = "spooled" /\ hint'[m] = operation
      /\ \A x \in Messages : x # m => /\ sight'[x] = sight[x] /\ awaits'[x] = awaits[x]
                                      /\ hint'[x] = hint[x]
      /\ sight' \in [Messages -> {"none", "waiting", "spooled", "done"}]
      /\ awaits' \in [Messages -> Sends \cup {None}]
      /\ hint' \in [Messages -> Sends \cup {None}]
  BY <1>1, <1>2, <1>3, SpoolFacts
<1> QED  BY <1>2, <1>3, <1>4, <1>5, SightKeeps

LEMMA StopWaitingKeeps == ASSUME IndInv, NEW m \in Messages, StopWaiting(m) PROVE IndInv'
<1>1. TypeOK
  BY DEF IndInv, EchoInv
<1>2. /\ Spool(m, None) /\ late' = late \cup ({m} \cap Sends)
      /\ UNCHANGED <<call, worker, out, supervisor, faults>> /\ UNCHANGED attributed
  BY DEF StopWaiting, supervisor
<1>3. late \subseteq Sends /\ late' \subseteq Sends /\ late \subseteq late'
      /\ (m \in Sends => m \in late')
  BY <1>1, <1>2 DEF TypeOK
<1> QED  BY <1>1, <1>2, <1>3, SpoolFacts, SightKeeps

(* What the supervisor makes of a message goes by what is known of it.     *)
LEMMA DeliverKeeps == ASSUME IndInv, NEW m \in Messages, Deliver(m) PROVE IndInv'
<1>1. TypeOK /\ QueueInv /\ SentInv /\ RecognizedInv /\ PeopleInv
  BY DEF IndInv, EchoInv
<1>2. /\ sight[m] = "spooled" /\ Classify(m)
      /\ \/ UNCHANGED <<sight, hint>>
         \/ /\ sight' = [sight EXCEPT ![m] = "done"]
            /\ hint' = [hint EXCEPT ![m] = None]
      /\ UNCHANGED <<call, maxSendQueue, queue, stage, ready, active, completion, recent, out,
                     awaits, attributed>>
  BY DEF Deliver, worker
<1>3. /\ m \in Humans => hint[m] = None /\ m \notin attributed /\ m \notin Sends
      /\ m \in Sends => m \in late \/ hint[m] = m
      /\ m \in attributed => m \in Sends
  BY <1>1, <1>2, Limits DEF TypeOK, PeopleInv, RecognizedInv, EchoOf
<1>4. /\ ignored' \in {ignored, ignored \cup {m}} /\ takenOver' \in {takenOver, takenOver \cup {m}}
      /\ echoed' \in {echoed, echoed \cup {m}} /\ (echoed' # echoed => m \in attributed)
      /\ late' \in {late, late \cup {m}} /\ (late' # late => m \in attributed)
      /\ ignored' # ignored => m \in attributed \/ hint[m] # None
      /\ takenOver' # takenOver => hint[m] = None /\ (m \notin attributed \/ m \in late')
  BY <1>2 DEF Classify, Find, ConsumeEcho
<1>5. faults' \in 0..MaxFaults
  BY <1>1, <1>2, FaultKeeps DEF Classify, TypeOK
<1>6. /\ \A x \in Messages : \/ sight'[x] = sight[x] /\ hint'[x] = hint[x]
                             \/ sight'[x] = "done" /\ hint'[x] = None
      /\ sight' \in [Messages -> {"none", "waiting", "spooled", "done"}]
      /\ hint' \in [Messages -> Sends \cup {None}]
  BY <1>1, <1>2 DEF TypeOK
<1>7. TypeOK'
  BY <1>1, <1>2, <1>3, <1>4, <1>5, <1>6 DEF TypeOK
<1>8. QueueInv' /\ SentInv'
  BY <1>1, <1>2 DEF QueueInv, SentInv
<1>9. PeopleInv'
  BY <1>1, <1>3, <1>4, <1>6, Limits DEF PeopleInv
<1>10. m \in Sends /\ takenOver' # takenOver => m \in late'
  BY <1>1, <1>3, <1>4, Limits
<1>11. RecognizedInv'
  BY <1>1, <1>2, <1>4, <1>6, <1>10, Limits DEF RecognizedInv, EchoOf
<1> QED  BY <1>7, <1>8, <1>9, <1>11 DEF IndInv, EchoInv

-------------------------------------------------------------------------------
LEMMA InitHolds == Init => IndInv
<1> SUFFICES ASSUME Init PROVE IndInv
  OBVIOUS
<1>1. TypeOK
  BY EchoConstants DEF Init, TypeOK
<1>2. QueueInv
  BY <1>1, Limits DEF Init, QueueInv
<1>3. SentInv /\ RecognizedInv /\ PeopleInv
  BY Limits, <1>1 DEF Init, SentInv, RecognizedInv, EchoOf, PeopleInv
<1> QED  BY <1>1, <1>2, <1>3 DEF IndInv, EchoInv

LEMMA StepHolds == IndInv /\ [Next]_vars => IndInv'
<1> SUFFICES ASSUME IndInv, [Next]_vars PROVE IndInv'
  OBVIOUS
<1>1. ASSUME UNCHANGED vars PROVE IndInv'
  BY <1>1 DEF vars, worker, observed, supervisor, IndInv, EchoInv, TypeOK, QueueInv, SentInv,
       RecognizedInv, EchoOf, PeopleInv
<1> QED  BY <1>1, SendKeeps, TimeOutKeeps, PruneKeeps, AttributeKeeps, BeginKeeps,
       ActivateKeeps, GoesOutKeeps, SendReturnsKeeps, SendFailsKeeps, StatusChangesKeeps,
       ReplaceKeeps, ObserveKeeps, ResolveKeeps, StopWaitingKeeps, DeliverKeeps DEF Next

LEMMA AlwaysIndInv == Spec => []IndInv
  BY InitHolds, StepHolds, PTL DEF Spec

(* The queue keeps its limit and activeApiSend is the send under way.      *)
THEOREM EchoesAreTyped == Spec => []EchoInv
<1>1. IndInv => EchoInv
  BY DEF IndInv
<1> QED  BY <1>1, AlwaysIndInv, PTL

(* What a person types is never taken for the agent's own words.           *)
THEOREM NoTakeoverIsMissed == Spec => []PeopleAreNeverIgnored
<1>1. IndInv => PeopleAreNeverIgnored
  BY DEF IndInv, PeopleInv, PeopleAreNeverIgnored
<1> QED  BY <1>1, AlwaysIndInv, PTL

(* An echo of a send is taken for a person only when something kept the    *)
(* worker from recognizing it.                                             *)
THEOREM EchoesStaySilent == Spec => []OwnEchoesStaySilent
<1>1. IndInv => OwnEchoesStaySilent
  BY DEF IndInv, RecognizedInv, EchoOf, OwnEchoesStaySilent
<1> QED  BY <1>1, AlwaysIndInv, PTL

-----------------------------------------------------------------------------
(* The session.                                                            *)
ClientRecord == [status : Statuses, alive : BOOLEAN, initializing : BOOLEAN,
                 wasReady : BOOLEAN, scheduled : BOOLEAN, attempt : Nat,
                 timers : Nat, restarting : Nat, seen : SUBSET Inbound]

(* A record alone: its flag is set only while a timer is.                  *)
FlagHasTimer(client) == client.scheduled => client.timers > 0
(* ... and a failed one is to be replaced.                                 *)
HasSuccessor(client) ==
    client.status \in Failed => client.timers + client.restarting > 0
Sound(client) == client \in ClientRecord /\ FlagHasTimer(client)

ClientsInv ==
    /\ clients \in Seq(ClientRecord)
    /\ current \in 0..Len(clients)
    /\ \A c \in DOMAIN clients : FlagHasTimer(clients[c])
    /\ current # 0 => HasSuccessor(clients[current])

LEMMA SessionSplit ==
    /\ SessionTypeOK <=> /\ phase \in {"down", "booting", "up", "closing"}
                         /\ clients \in Seq(ClientRecord) /\ current \in 0..Len(clients)
                         /\ handlers \subseteq [client : Nat, msg : Inbound, at : {"open", "write"}]
                         /\ spool \in [Inbound -> {"none", "empty", "full"}]
                         /\ flush \in [Flushes -> [todo : SUBSET Inbound,
                                                   sent : Inbound \cup {NoMessage}]]
                         /\ accepted \subseteq Inbound
                         /\ left \in [failures : Nat, stops : Nat, refusals : Nat, arrivals : Nat]
    /\ RestartPending <=> /\ \A c \in DOMAIN clients : FlagHasTimer(clients[c])
                          /\ current # 0 => HasSuccessor(clients[current])
BY DEF SessionTypeOK, RestartPending, ClientRecord, FlagHasTimer, HasSuccessor

(* The step of one record: the others, and what the session maps to, stay. *)
LEMMA BecomeKeeps ==
    ASSUME ClientsInv, NEW c \in DOMAIN clients, NEW client, Sound(client),
           c = current => HasSuccessor(client),
           Become(c, client), UNCHANGED current
    PROVE  ClientsInv'
<1>1. /\ clients \in Seq(ClientRecord) /\ Len(clients) \in Nat
      /\ DOMAIN clients = 1..Len(clients) /\ client \in ClientRecord
  BY DEF ClientsInv, Sound
<1>2. clients' = [clients EXCEPT ![c] = client]
  BY DEF Become
<1>3. /\ clients' \in Seq(ClientRecord) /\ Len(clients') = Len(clients)
      /\ DOMAIN clients' = DOMAIN clients
      /\ \A d \in DOMAIN clients : clients'[d] = (IF d = c THEN client ELSE clients[d])
  BY <1>1, <1>2, ExceptSeq
<1>4. \A d \in DOMAIN clients' : FlagHasTimer(clients'[d])
  BY <1>3 DEF ClientsInv, Sound
<1>5. current' # 0 => HasSuccessor(clients'[current'])
  BY <1>1, <1>3 DEF ClientsInv
<1> QED  BY <1>3, <1>4, <1>5 DEF ClientsInv

LEMMA ScheduleKeeps ==
    ASSUME NEW client, Sound(client)
    PROVE  Sound(ScheduleReconnect(client)) /\ HasSuccessor(ScheduleReconnect(client))
<1>1. CASE client.scheduled
  BY <1>1 DEF ScheduleReconnect, Sound, FlagHasTimer, HasSuccessor, ClientRecord
<1>2. CASE ~ client.scheduled
  <2> DEFINE scheduled == [client EXCEPT !.scheduled = TRUE, !.attempt = @ + 1, !.timers = @ + 1]
  <2>1. scheduled \in ClientRecord /\ scheduled.timers > 0 /\ scheduled.restarting \in Nat
    <3>1. /\ client.attempt + 1 \in Nat /\ client.timers + 1 \in Nat /\ client.timers + 1 > 0
          /\ client.restarting \in Nat /\ client \in ClientRecord
      BY DEF Sound, ClientRecord
    <3> QED  BY <3>1 DEF ClientRecord
  <2>2. ScheduleReconnect(client) = scheduled
    BY <1>2 DEF ScheduleReconnect
  <2> HIDE DEF scheduled
  <2>3. scheduled.timers \in Nat
    BY <2>1 DEF ClientRecord
  <2> QED  BY <2>1, <2>2, <2>3 DEF Sound, FlagHasTimer, HasSuccessor
<1> QED  BY <1>1, <1>2

(* The rest of the types: the files, the runs of flushOnce, the budget.    *)
InboxInv ==
    /\ handlers \subseteq [client : Nat, msg : Inbound, at : {"open", "write"}]
    /\ spool \in [Inbound -> {"none", "empty", "full"}]
    /\ flush \in [Flushes -> [todo : SUBSET Inbound, sent : Inbound \cup {NoMessage}]]
    /\ accepted \subseteq Inbound

(* What a run of flushOnce is about to unlink has been accepted.           *)
SentIsAccepted == \A f \in Flushes : flush[f].sent # NoMessage => flush[f].sent \in accepted

Budget == [failures : Nat, stops : Nat, refusals : Nat, arrivals : Nat]

SessionIndInv ==
    /\ phase \in {"down", "booting", "up", "closing"} /\ left \in Budget
    /\ ClientsInv /\ InboxInv /\ SentIsAccepted

LEMMA SessionParts == SessionIndInv => SessionInv
BY SessionSplit DEF SessionIndInv, SessionInv, ClientsInv, InboxInv, Budget

LEMMA SpendKeeps ==
    ASSUME left \in Budget, NEW kind \in {"failures", "stops", "refusals", "arrivals"},
           Spend(kind)
    PROVE  left' \in Budget
BY DEF Spend, Budget

LEMMA IdleIsRun == Idle \in [todo : SUBSET Inbound, sent : Inbound \cup {NoMessage}]
BY DEF Idle

LEMMA NewClientSound == Sound(NewClient) /\ HasSuccessor(NewClient)
BY DEF Sound, NewClient, ClientRecord, Statuses, FlagHasTimer, HasSuccessor, Failed

LEMMA InitSession == SessionInit => SessionIndInv
<1> SUFFICES ASSUME SessionInit PROVE SessionIndInv
  OBVIOUS
<1>1. ClientsInv
  BY DEF SessionInit, ClientsInv
<1>2. InboxInv /\ SentIsAccepted
  BY IdleIsRun DEF SessionInit, InboxInv, SentIsAccepted, Idle
<1>3. left \in Budget
  BY SessionConstants DEF SessionInit, Budget
<1> QED  BY <1>1, <1>2, <1>3 DEF SessionInit, SessionIndInv

(* What a client does changes its record to one that is sound; only        *)
(* a restart adds one.                                                     *)
LEMMA ClientStepKeeps ==
    ASSUME SessionIndInv, NEW c \in DOMAIN clients,
           \/ Initialized(c) \/ Pairing(c) \/ Ready(c) \/ AuthFailure(c)
           \/ Disconnected(c) \/ TimerFires(c)
    PROVE  SessionIndInv'
<1> DEFINE client == clients[c]
<1>1. /\ Sound(client) /\ (c = current => HasSuccessor(client)) /\ ClientsInv
  <2>1. client \in ClientRecord /\ ClientsInv
    BY DEF SessionIndInv, ClientsInv
  <2> QED  BY <2>1 DEF ClientsInv, Sound
<1>2. /\ client \in ClientRecord /\ client.timers \in Nat /\ client.restarting \in Nat
      /\ client.attempt \in Nat /\ FlagHasTimer(client)
  BY <1>1 DEF Sound, ClientRecord
<1>3. /\ UNCHANGED <<current, inbox>> /\ left' \in Budget
      /\ phase' \in {"down", "booting", "up", "closing"}
  BY SpendKeeps DEF Initialized, Pairing, Ready, AuthFailure, Disconnected, TimerFires,
                    SessionIndInv
<1>4. \E next : /\ Sound(next) /\ (c = current => HasSuccessor(next))
                /\ Become(c, next)
  <2>1. CASE Initialized(c)
    <3>1. CASE Become(c, [client EXCEPT !.initializing = FALSE])
      <4> DEFINE next == [client EXCEPT !.initializing = FALSE]
      <4>1. Sound(next) /\ (c = current => HasSuccessor(next))
        BY <1>1, <1>2 DEF Sound, ClientRecord, FlagHasTimer, HasSuccessor
      <4> QED  BY <3>1, <4>1
    <3>2. CASE Become(c, ScheduleReconnect(
                            [client EXCEPT !.initializing = FALSE, !.status = "error"]))
      <4> DEFINE failed == [client EXCEPT !.initializing = FALSE, !.status = "error"]
      <4>1. Sound(failed)
        BY <1>2 DEF Sound, ClientRecord, FlagHasTimer, Statuses
      <4> HIDE DEF failed
      <4>2. Sound(ScheduleReconnect(failed)) /\ HasSuccessor(ScheduleReconnect(failed))
        BY <4>1, ScheduleKeeps
      <4> QED  BY <3>2, <4>2 DEF failed
    <3> QED  BY <2>1, <3>1, <3>2 DEF Initialized
  <2>2. CASE Pairing(c)
    <3> DEFINE next == [client EXCEPT !.status = "pairing"]
    <3>1. Sound(next) /\ HasSuccessor(next)
      BY <1>2 DEF Sound, ClientRecord, FlagHasTimer, HasSuccessor, Statuses, Failed
    <3> QED  BY <2>2, <3>1 DEF Pairing
  <2>3. CASE Ready(c)
    <3> DEFINE next == [client EXCEPT !.status = "ready", !.wasReady = TRUE,
                                      !.attempt = 0, !.scheduled = FALSE]
    <3>1. Sound(next) /\ HasSuccessor(next)
      BY <1>2 DEF Sound, ClientRecord, FlagHasTimer, HasSuccessor, Statuses, Failed
    <3> QED  BY <2>3, <3>1 DEF Ready
  <2>4. CASE AuthFailure(c)
    <3> DEFINE next == [client EXCEPT !.status = "auth-failure"]
    <3>1. Sound(next) /\ HasSuccessor(next)
      BY <1>2 DEF Sound, ClientRecord, FlagHasTimer, HasSuccessor, Statuses, Failed
    <3> QED  BY <2>4, <3>1 DEF AuthFailure
  <2>5. CASE Disconnected(c)
    <3> DEFINE failed == [client EXCEPT !.status = "disconnected"]
    <3>1. Sound(failed)
      BY <1>2 DEF Sound, ClientRecord, FlagHasTimer, Statuses
    <3> HIDE DEF failed
    <3>2. Sound(ScheduleReconnect(failed)) /\ HasSuccessor(ScheduleReconnect(failed))
      BY <3>1, ScheduleKeeps
    <3> QED  BY <2>5, <3>2 DEF Disconnected, failed
  <2>6. CASE TimerFires(c)
    <3> DEFINE next == [client EXCEPT !.timers = @ - 1, !.restarting = @ + 1,
                                      !.scheduled = FALSE]
    <3>1. client.timers > 0 /\ Become(c, next)
      BY <2>6 DEF TimerFires
    <3>2. /\ client.timers - 1 \in Nat /\ client.restarting + 1 \in Nat
          /\ (client.timers - 1) + (client.restarting + 1) > 0
      BY <1>2, <3>1
    <3>3. Sound(next) /\ HasSuccessor(next)
      BY <1>2, <3>2 DEF Sound, ClientRecord, FlagHasTimer, HasSuccessor
    <3> QED  BY <3>1, <3>3
  <2> QED  BY <2>1, <2>2, <2>3, <2>4, <2>5, <2>6
<1>5. ClientsInv'
  BY <1>1, <1>3, <1>4, BecomeKeeps
<1> QED  BY <1>3, <1>5 DEF SessionIndInv, inbox, InboxInv, SentIsAccepted
LEMMA RestartKeeps ==
    ASSUME SessionIndInv, NEW c \in DOMAIN clients, Restart(c)
    PROVE  SessionIndInv'
<1>1. PICK destroyed \in BOOLEAN :
          clients' = Append([clients EXCEPT ![c].restarting = @ - 1,
                                            ![c].alive = @ /\ ~destroyed], NewClient)
  BY DEF Restart
<1> DEFINE next == [clients[c] EXCEPT !.restarting = @ - 1, !.alive = @ /\ ~destroyed]
           replaced == [clients EXCEPT ![c] = next]
<1>2. /\ clients \in Seq(ClientRecord) /\ Len(clients) \in Nat
      /\ DOMAIN clients = 1..Len(clients) /\ clients[c] \in ClientRecord
      /\ FlagHasTimer(clients[c]) /\ clients[c].restarting > 0
      /\ \A d \in DOMAIN clients : FlagHasTimer(clients[d])
  BY DEF SessionIndInv, ClientsInv, Restart
<1>3. next \in ClientRecord /\ FlagHasTimer(next)
  <2>1. clients[c].restarting - 1 \in Nat
    BY <1>2 DEF ClientRecord
  <2>2. (clients[c].alive /\ ~destroyed) \in BOOLEAN
    OBVIOUS
  <2>3. next \in ClientRecord
    BY <1>2, <2>1, <2>2 DEF ClientRecord
  <2>4. next.waiting = clients[c].waiting /\ next.timers = clients[c].timers
    BY <1>2 DEF ClientRecord
  <2> QED  BY <1>2, <2>3, <2>4 DEF FlagHasTimer
<1>4. clients' = Append(replaced, NewClient)
  BY <1>1, <1>2 DEF ClientRecord
<1> HIDE DEF next
<1>5. /\ replaced \in Seq(ClientRecord) /\ Len(replaced) = Len(clients)
      /\ \A d \in DOMAIN clients : FlagHasTimer(replaced[d])
  BY <1>2, <1>3, ExceptSeq
<1> HIDE DEF replaced
<1>6. /\ clients' \in Seq(ClientRecord) /\ Len(clients') = Len(clients) + 1
      /\ DOMAIN clients' = 1..(Len(clients) + 1)
      /\ clients'[Len(clients) + 1] = NewClient
      /\ \A d \in 1..Len(clients) : clients'[d] = replaced[d]
  <2>1. NewClient \in ClientRecord
    BY NewClientSound DEF Sound
  <2>2. /\ Append(replaced, NewClient) \in Seq(ClientRecord)
        /\ Len(Append(replaced, NewClient)) = Len(replaced) + 1
    BY <1>5, <2>1
  <2>3. \A d \in 1..Len(replaced) : Append(replaced, NewClient)[d] = replaced[d]
    BY <1>5
  <2>4. Append(replaced, NewClient)[Len(replaced) + 1] = NewClient
    BY <1>5
  <2> QED  BY <1>2, <1>4, <1>5, <2>2, <2>3, <2>4
<1>7. current' = Len(clients) + 1
  BY DEF Restart
<1>8. ClientsInv'
  <2>1. \A d \in DOMAIN clients' : FlagHasTimer(clients'[d])
    BY <1>2, <1>5, <1>6, NewClientSound DEF Sound
  <2>2. HasSuccessor(clients'[current'])
    BY <1>6, <1>7, NewClientSound
  <2> QED  BY <1>2, <1>6, <1>7, <2>1, <2>2 DEF ClientsInv
<1> QED  BY <1>8 DEF Restart, SessionIndInv, inbox, InboxInv, SentIsAccepted

LEMMA ProcessKeeps ==
    ASSUME SessionIndInv, StartAll \/ Shutdown \/ Close \/ Exit \/ Crash
    PROVE  SessionIndInv'
<1>1. CASE StartAll
  <2>1. clients' = <<NewClient>> /\ current' = 1
    BY <1>1 DEF StartAll
  <2>2. ClientsInv'
    BY <2>1, NewClientSound DEF ClientsInv, Sound
  <2> QED  BY <1>1, <2>2 DEF StartAll, SessionIndInv, inbox, InboxInv, SentIsAccepted
<1>2. CASE Shutdown
  <2>1. left' \in Budget
    BY <1>2, SpendKeeps DEF Shutdown, SessionIndInv
  <2> QED  BY <1>2, <2>1 DEF Shutdown, SessionIndInv, inbox, ClientsInv, InboxInv, SentIsAccepted
<1>3. CASE Close
  <2> DEFINE next == [clients[current] EXCEPT !.alive = FALSE]
  <2>1. /\ clients \in Seq(ClientRecord) /\ Len(clients) \in Nat
        /\ current \in DOMAIN clients /\ clients[current] \in ClientRecord
        /\ \A d \in DOMAIN clients : FlagHasTimer(clients[d])
    BY <1>3 DEF Close, SessionIndInv, ClientsInv
  <2>2. next \in ClientRecord /\ FlagHasTimer(next)
    BY <2>1 DEF ClientRecord, FlagHasTimer
  <2>3. clients' = [clients EXCEPT ![current] = next] /\ current' = 0
    BY <1>3 DEF Close, Become
  <2> HIDE DEF next
  <2>4. /\ clients' \in Seq(ClientRecord) /\ Len(clients') = Len(clients)
        /\ DOMAIN clients' = DOMAIN clients
        /\ \A d \in DOMAIN clients' : FlagHasTimer(clients'[d])
    BY <2>1, <2>2, <2>3, ExceptSeq
  <2>5. ClientsInv'
    BY <2>1, <2>3, <2>4 DEF ClientsInv
  <2> QED  BY <1>3, <2>5 DEF Close, SessionIndInv, inbox, InboxInv, SentIsAccepted
<1>4. CASE Exit \/ Crash
  <2>1. End /\ left' \in Budget
    BY <1>4, SpendKeeps DEF Exit, Crash, SessionIndInv
  <2>2. ClientsInv'
    BY <2>1 DEF End, ClientsInv
  <2>3. InboxInv' /\ SentIsAccepted'
    BY <2>1, IdleIsRun DEF End, SessionIndInv, InboxInv, SentIsAccepted, Idle
  <2> QED  BY <2>1, <2>2, <2>3 DEF End, SessionIndInv
<1> QED  BY <1>1, <1>2, <1>3, <1>4

LEMMA HandleMsgKeeps ==
    ASSUME SessionIndInv, NEW c \in DOMAIN clients, NEW m \in Inbound, HandleMsg(c, m)
    PROVE  SessionIndInv'
<1> DEFINE next == [clients[c] EXCEPT !.seen = @ \cup {m}]
<1>1. /\ clients[c] \in ClientRecord /\ FlagHasTimer(clients[c]) /\ ClientsInv
      /\ c = current => HasSuccessor(clients[c])
  <2>1. clients[c] \in ClientRecord /\ ClientsInv
    BY DEF SessionIndInv, ClientsInv
  <2> QED  BY <2>1 DEF ClientsInv
<1>2. Sound(next) /\ (c = current => HasSuccessor(next))
  BY <1>1 DEF Sound, ClientRecord, FlagHasTimer, HasSuccessor
<1>3. ClientsInv'
  BY <1>1, <1>2, BecomeKeeps DEF HandleMsg
<1>4. left' \in Budget
  BY SpendKeeps DEF HandleMsg, SessionIndInv
<1>5. InboxInv'
  <2>1. c \in Nat
    BY DEF SessionIndInv, ClientsInv
  <2> QED  BY <2>1 DEF HandleMsg, SessionIndInv, InboxInv
<1> QED  BY <1>3, <1>4, <1>5 DEF HandleMsg, SessionIndInv, SentIsAccepted

LEMMA HandlerKeeps ==
    ASSUME SessionIndInv, NEW h \in handlers, HandlerStep(h)
    PROVE  SessionIndInv'
<1>1. h.msg \in Inbound /\ [h EXCEPT !.at = "write"] \in
          [client : Nat, msg : Inbound, at : {"open", "write"}]
  BY DEF SessionIndInv, InboxInv
<1>2. UNCHANGED <<phase, clients, current, flush, accepted>> /\ left' \in Budget
  BY SpendKeeps DEF HandlerStep, OpenFile, WriteFile, lifecycle, SessionIndInv
<1>3. spool' \in [Inbound -> {"none", "empty", "full"}]
  BY <1>1 DEF HandlerStep, OpenFile, WriteFile, SessionIndInv, InboxInv
<1>4. handlers' \subseteq handlers \cup {[h EXCEPT !.at = "write"]}
  BY DEF HandlerStep, OpenFile, WriteFile, Leave
<1> QED  BY <1>1, <1>2, <1>3, <1>4 DEF SessionIndInv, ClientsInv, InboxInv, SentIsAccepted

LEMMA FlushKeeps ==
    ASSUME SessionIndInv, NEW f \in Flushes, FlushStep(f)
    PROVE  SessionIndInv'
<1> DEFINE Run == [todo : SUBSET Inbound, sent : Inbound \cup {NoMessage}]
<1>1. /\ UNCHANGED <<phase, clients, current>> /\ left' \in Budget
      /\ accepted \subseteq accepted' /\ flush \in [Flushes -> Run]
  BY SpendKeeps DEF FlushStep, StartFlush, DeliverFile, Unlink, lifecycle, SessionIndInv, InboxInv
<1>2. CASE StartFlush(f)
  <2>1. [flush[f] EXCEPT !.todo = {m \in Inbound : spool[m] = "full"}] \in Run
    BY <1>1
  <2>2. flush' = [flush EXCEPT ![f] = [flush[f] EXCEPT !.todo = {m \in Inbound : spool[m] = "full"}]]
    BY <1>2 DEF StartFlush
  <2>3. InboxInv' /\ SentIsAccepted'
    BY <1>1, <1>2, <2>1, <2>2 DEF StartFlush, SessionIndInv, InboxInv, SentIsAccepted
  <2> QED  BY <1>1, <2>3 DEF SessionIndInv, ClientsInv
<1>3. ASSUME NEW m \in Inbound, DeliverFile(f, m) PROVE SessionIndInv'
  <2>1. UNCHANGED <<handlers, spool>> /\ accepted' \subseteq Inbound
    BY <1>3 DEF DeliverFile, SessionIndInv, InboxInv
  <2>2. PICK run \in Run :
            /\ flush' = [flush EXCEPT ![f] = run]
            /\ run.sent # NoMessage => run.sent \in accepted'
    <3>1. flush[f] \in Run /\ flush[f].sent = NoMessage
      BY <1>1, <1>3 DEF DeliverFile
    <3>2. CASE /\ accepted' = accepted \cup {m}
               /\ flush' = [flush EXCEPT ![f] = [todo |-> @.todo \ {m}, sent |-> m]]
      <4>1. [todo |-> flush[f].todo \ {m}, sent |-> m] \in Run
        BY <3>1
      <4> QED  BY <3>2, <4>1
    <3>3. CASE Skip(f, m)
      <4>1. /\ [flush[f] EXCEPT !.todo = @ \ {m}] \in Run
            /\ [flush[f] EXCEPT !.todo = @ \ {m}].sent = NoMessage
        BY <3>1
      <4>2. flush' = [flush EXCEPT ![f] = [flush[f] EXCEPT !.todo = @ \ {m}]]
        BY <3>3 DEF Skip
      <4> QED  BY <4>1, <4>2
    <3> QED  BY <1>3, <3>2, <3>3 DEF DeliverFile
  <2>3. InboxInv' /\ SentIsAccepted'
    BY <1>1, <2>1, <2>2 DEF SessionIndInv, InboxInv, SentIsAccepted
  <2> QED  BY <1>1, <2>3 DEF SessionIndInv, ClientsInv
<1>4. CASE Unlink(f)
  <2>1. [flush[f] EXCEPT !.sent = NoMessage] \in Run
    BY <1>1
  <2>2. flush' = [flush EXCEPT ![f] = [flush[f] EXCEPT !.sent = NoMessage]]
    BY <1>4 DEF Unlink
  <2>3. /\ spool' \in [Inbound -> {"none", "empty", "full"}] /\ handlers' \subseteq handlers
        /\ accepted' = accepted
    BY <1>4 DEF Unlink, SessionIndInv, InboxInv
  <2>4. InboxInv' /\ SentIsAccepted'
    BY <1>1, <2>1, <2>2, <2>3 DEF SessionIndInv, InboxInv, SentIsAccepted
  <2> QED  BY <1>1, <2>4 DEF SessionIndInv, ClientsInv
<1> QED  BY <1>2, <1>3, <1>4 DEF FlushStep

LEMMA SessionStepKeeps == SessionIndInv /\ [SessionNext]_sessionVars => SessionIndInv'
<1> SUFFICES ASSUME SessionIndInv, [SessionNext]_sessionVars PROVE SessionIndInv'
  OBVIOUS
<1>1. CASE UNCHANGED sessionVars
  BY <1>1 DEF sessionVars, lifecycle, inbox, SessionIndInv, ClientsInv, InboxInv, SentIsAccepted
<1>2. CASE StartAll \/ Shutdown \/ Close \/ Exit \/ Crash
  BY <1>2, ProcessKeeps
<1>3. ASSUME NEW c \in DOMAIN clients, ClientStep(c) PROVE SessionIndInv'
  BY <1>3, ClientStepKeeps, RestartKeeps, HandleMsgKeeps DEF ClientStep
<1>4. ASSUME NEW h \in handlers, HandlerStep(h) PROVE SessionIndInv'
  BY <1>4, HandlerKeeps
<1>5. ASSUME NEW f \in Flushes, FlushStep(f) PROVE SessionIndInv'
  BY <1>5, FlushKeeps
<1> QED  BY <1>1, <1>2, <1>3, <1>4, <1>5 DEF SessionNext

LEMMA SessionInvariant == SessionSpec => []SessionIndInv
BY InitSession, SessionStepKeeps, PTL DEF SessionSpec

(* scheduleReconnect: restartScheduled is never set without a timer, and a *)
(* failed client the session still maps to has a restart coming, however   *)
(* events, timers, restarts and stops of the process interleave.           *)
THEOREM FailedClientsHaveSuccessors == SessionSpec => []SessionInv
BY SessionInvariant, SessionParts, PTL

(* deliver: a complete file is unlinked only for a message whose post was  *)
(* answered 2xx, for any number of overlapping flushes.                    *)
THEOREM FilesStayUntilAccepted == SessionSpec => FilesOutliveRefusals
<1> DEFINE Outlives == \A m \in Inbound : spool[m] = "full" /\ spool'[m] # "full" => m \in accepted
<1>1. ASSUME SessionIndInv, [SessionNext]_sessionVars PROVE [Outlives]_sessionVars
  <2>1. CASE \E f \in Flushes : Unlink(f)
    <3>1. PICK f \in Flushes : Unlink(f)
      BY <2>1
    <3>2. /\ flush[f].sent \in accepted
          /\ spool' = [spool EXCEPT ![flush[f].sent] = "none"]
          /\ spool \in [Inbound -> {"none", "empty", "full"}]
      BY <1>1, <3>1 DEF Unlink, SessionIndInv, InboxInv, SentIsAccepted
    <3> QED  BY <3>2
  <2>2. CASE \E h \in handlers : HandlerStep(h)
    BY <1>1, <2>2 DEF HandlerStep, OpenFile, WriteFile, SessionIndInv, InboxInv
  <2>3. CASE UNCHANGED spool
    BY <2>3
  <2> QED  BY <1>1, <2>1, <2>2, <2>3
           DEF SessionNext, sessionVars, inbox, StartAll, Shutdown, Close, Exit, Crash, End,
               ClientStep, Initialized, Pairing, Ready, AuthFailure, Disconnected,
               TimerFires, Restart, HandleMsg, FlushStep, StartFlush, DeliverFile
<1> QED  BY <1>1, SessionInvariant, PTL DEF SessionSpec, FilesOutliveRefusals
=============================================================================
