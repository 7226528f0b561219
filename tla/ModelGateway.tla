----------------------------- MODULE ModelGateway -----------------------------
(***************************************************************************)
(* The gateway to the model providers: decide waits for one of a fixed     *)
(* number of slots, tries the candidates of a route in order, each a few   *)
(* times and only while its circuit lets it, and gives up at a deadline.   *)
(* A provider call that outlives its request changes nothing kept here:    *)
(* every continuation looks at the abort signal first.                     *)
(***************************************************************************)
EXTENDS Naturals, Sequences, FiniteSets

CONSTANTS Requests,
          Candidates,
          Route,          \* the configured candidates, at most maxCandidates
          Missing,        \* candidates whose provider is not configured
          Keys,           \* API keys of a provider
          MaxRetries,     \* maxRetriesPerCandidate
          MaxConcurrent,
          Threshold       \* circuitFailureThreshold

ASSUME GatewayConstants ==
    /\ Route \in Seq(Candidates) /\ Missing \subseteq Candidates
    /\ Keys \in Nat \ {0} /\ MaxRetries \in Nat
    /\ MaxConcurrent \in Nat \ {0} /\ Threshold \in Nat \ {0}

VARIABLES active, waiters,
          circuit,        \* candidate -> its circuit
          keyIndex,       \* candidate -> the provider's key in use
          pc, pos,        \* request -> where it is, and at which candidate
          attempt, tried, \* request -> retries, and keys refused in this call
          result,
          reliable        \* candidates that never fail (chosen once)

vars == <<active, waiters, circuit, keyIndex, pc, pos, attempt, tried, result, reliable>>

Calling == {"calling", "sleeping"}
Holding == Calling \cup {"routing"}
InFlight == {r \in Requests : pc[r] \in Holding \cup {"waiting"}}
On(c) == {r \in Requests : pc[r] \in Calling /\ Route[pos[r]] = c}

(* since: the requests under way when the circuit opened.                  *)
Circuit == [failures : Nat, opened : {"no", "now", "elapsed"}, halfOpen : BOOLEAN,
            since : SUBSET Requests]
Closed == [failures |-> 0, opened |-> "no", halfOpen |-> FALSE, since |-> {}]

TypeOK ==
    /\ active \in 0..MaxConcurrent
    /\ waiters \in Seq(Requests)
    /\ circuit \in [Candidates -> Circuit]
    /\ keyIndex \in [Candidates -> 0..(Keys - 1)]
    /\ pc \in [Requests -> Holding \cup {"idle", "waiting", "done"}]
    /\ pos \in [Requests -> 1..(Len(Route) + 1)]
    /\ attempt \in [Requests -> 0..MaxRetries]
    /\ tried \in [Requests -> 0..(Keys - 1)]
    /\ result \in [Requests -> {"none", "decision", "failed", "deadline"}]
    /\ reliable \subseteq Candidates \ Missing

Init ==
    /\ active = 0 /\ waiters = <<>>
    /\ circuit = [c \in Candidates |-> Closed]
    /\ keyIndex = [c \in Candidates |-> 0]
    /\ pc = [r \in Requests |-> "idle"]
    /\ pos = [r \in Requests |-> 1]
    /\ attempt = [r \in Requests |-> 0]
    /\ tried = [r \in Requests |-> 0]
    /\ result = [r \in Requests |-> "none"]
    /\ reliable \in SUBSET (Candidates \ Missing)

Goto(r, point) == pc' = [pc EXCEPT ![r] = point]

Acquire(r) ==
    /\ pc[r] = "idle"
    /\ \/ /\ active < MaxConcurrent
          /\ active' = active + 1 /\ Goto(r, "routing") /\ UNCHANGED waiters
       \/ /\ active = MaxConcurrent
          /\ waiters' = Append(waiters, r) /\ Goto(r, "waiting") /\ UNCHANGED active
    /\ UNCHANGED <<circuit, keyIndex, pos, attempt, tried, result, reliable>>

ReleaseUnheard(r) ==      \* mutant: the slot is given back, the first waiter not woken
    /\ active' = active - 1 /\ Goto(r, "done") /\ UNCHANGED waiters

(* The request is over: its slot goes straight to the first that waits.    *)
Release(r) ==
    \/ /\ waiters = <<>>
       /\ active' = active - 1 /\ Goto(r, "done") /\ UNCHANGED waiters
    \/ /\ waiters # <<>>
       /\ waiters' = Tail(waiters)
       /\ pc' = [pc EXCEPT ![r] = "done", ![Head(waiters)] = "routing"]
       /\ UNCHANGED active

(* The locals of the call are gone with it.                                *)
Forget(r) ==
    /\ pos' = [pos EXCEPT ![r] = 1]
    /\ attempt' = [attempt EXCEPT ![r] = 0]
    /\ tried' = [tried EXCEPT ![r] = 0]

Finish(r, outcome) ==
    /\ Release(r)
    /\ Forget(r)
    /\ result' = [result EXCEPT ![r] = outcome]

(* The abort handler of a waiter takes it out of the queue, wherever it is. *)
LeaveQueue(r) ==
    \E i \in 1..Len(waiters) :
        /\ waiters[i] = r
        /\ waiters' = [j \in 1..(Len(waiters) - 1) |-> waiters[IF j < i THEN j ELSE j + 1]]

DeadlineInQueue(r) ==     \* mutant: the timer is cleared once the slot is there
    /\ pc[r] = "waiting"
    /\ LeaveQueue(r)
    /\ Goto(r, "done")
    /\ result' = [result EXCEPT ![r] = "deadline"]
    /\ UNCHANGED <<active, circuit, keyIndex, pos, attempt, tried, reliable>>

(* deadlineMs after decide, whatever the request waits for.                *)
Deadline(r) ==
    /\ \/ /\ pc[r] = "waiting"
          /\ LeaveQueue(r)
          /\ Goto(r, "done")
          /\ result' = [result EXCEPT ![r] = "deadline"]
          /\ UNCHANGED <<active, pos, attempt, tried>>
       \/ pc[r] \in Calling /\ Finish(r, "deadline")
    /\ UNCHANGED <<circuit, keyIndex, reliable>>

CanAttemptAgain(c) ==     \* mutant: halfOpen is not looked at
    circuit[c].opened # "now"

CanAttempt(c) ==
    \/ circuit[c].opened = "no"
    \/ circuit[c].opened = "elapsed" /\ ~circuit[c].halfOpen

(* The candidates in turn; the first attempt after circuitOpenMs is the    *)
(* half-open probe.                                                        *)
Try(r) ==
    LET c == Route[pos[r]] IN
    /\ pc[r] = "routing" /\ pos[r] <= Len(Route)
    /\ \/ /\ c \notin Missing /\ CanAttempt(c)
          /\ circuit' = [circuit EXCEPT ![c].halfOpen = (circuit[c].opened = "elapsed")]
          /\ Goto(r, "calling") /\ UNCHANGED pos
       \/ /\ c \in Missing \/ ~CanAttempt(c)
          /\ pos' = [pos EXCEPT ![r] = @ + 1]
          /\ UNCHANGED <<circuit, pc>>
    /\ UNCHANGED <<active, waiters, keyIndex, attempt, tried, result, reliable>>

AllFailed(r) ==
    /\ pc[r] = "routing" /\ pos[r] > Len(Route)
    /\ Finish(r, "failed")
    /\ UNCHANGED <<circuit, keyIndex, reliable>>

(* 401, 403 or 429 while the provider has more keys: the index all calls   *)
(* share moves on.                                                         *)
RotateKey(c) == keyIndex' = [keyIndex EXCEPT ![c] = (@ + 1) % Keys]
KeyRefused(r) ==
    /\ pc[r] = "calling" /\ tried[r] + 1 < Keys
    /\ RotateKey(Route[pos[r]])
    /\ tried' = [tried EXCEPT ![r] = @ + 1]
    /\ UNCHANGED <<active, waiters, circuit, pc, pos, attempt, result, reliable>>

Answers(r) ==
    /\ pc[r] = "calling"
    /\ circuit' = [circuit EXCEPT ![Route[pos[r]]] = Closed]
    /\ Finish(r, "decision")
    /\ UNCHANGED <<keyIndex, reliable>>

(* recordFailure, for the errors normalizeProviderError calls retryable.   *)
Failure(state) ==
    LET failures == state.failures + 1
        opens == state.halfOpen \/ failures >= Threshold
    IN [failures |-> failures, opened |-> IF opens THEN "now" ELSE "no",
        halfOpen |-> FALSE, since |-> IF opens THEN InFlight ELSE {}]

NextCandidate(r) ==
    /\ pos' = [pos EXCEPT ![r] = @ + 1]
    /\ attempt' = [attempt EXCEPT ![r] = 0]
    /\ Goto(r, "routing")

FailsForGood(r) ==        \* mutant: an error that is not retryable ends the request
    /\ pc[r] = "calling" /\ Route[pos[r]] \notin reliable
    /\ pos' = [pos EXCEPT ![r] = Len(Route) + 1] /\ Goto(r, "routing")
    /\ UNCHANGED <<active, waiters, circuit, keyIndex, attempt, tried, result, reliable>>

FailsRetryably(r) ==
    LET c == Route[pos[r]] IN
    /\ pc[r] = "calling" /\ c \notin reliable
    /\ circuit' = [circuit EXCEPT ![c] = Failure(@)]
    /\ \/ /\ attempt[r] < MaxRetries /\ circuit'[c].opened = "no"
          /\ attempt' = [attempt EXCEPT ![r] = @ + 1]
          /\ Goto(r, "sleeping") /\ UNCHANGED pos
       \/ /\ attempt[r] = MaxRetries \/ circuit'[c].opened # "no"
          /\ NextCandidate(r)
    /\ tried' = [tried EXCEPT ![r] = 0]
    /\ UNCHANGED <<active, waiters, keyIndex, result, reliable>>

Fails(r) ==
    /\ pc[r] = "calling" /\ Route[pos[r]] \notin reliable
    /\ NextCandidate(r)
    /\ tried' = [tried EXCEPT ![r] = 0]
    /\ UNCHANGED <<active, waiters, circuit, keyIndex, result, reliable>>

(* The retry asks the circuit nothing: it did before it slept.             *)
Retry(r) ==
    /\ pc[r] = "sleeping"
    /\ Goto(r, "calling")
    /\ UNCHANGED <<active, waiters, circuit, keyIndex, pos, attempt, tried, result, reliable>>

(* circuitOpenMs is longer than deadlineMs (30 s and 15 s by default): the *)
(* requests that were under way when the circuit opened are over by then.  *)
Elapse(c) ==
    /\ circuit[c].opened = "now"
    /\ circuit[c].since \cap InFlight = {}
    /\ circuit' = [circuit EXCEPT ![c].opened = "elapsed", ![c].since = {}]
    /\ UNCHANGED <<active, waiters, keyIndex, pc, pos, attempt, tried, result, reliable>>

Execute(r) == Try(r) \/ AllFailed(r)

Next ==
    \/ \E r \in Requests :
           \/ Acquire(r) \/ Execute(r) \/ KeyRefused(r) \/ Answers(r)
           \/ FailsRetryably(r) \/ Fails(r) \/ Retry(r) \/ Deadline(r)
    \/ \E c \in Candidates : Elapse(c)

(* Timers fire and the gateway's own code runs on; providers may hang.     *)
Fairness == \A r \in Requests : WF_vars(Deadline(r)) /\ WF_vars(Execute(r))

Spec == Init /\ [][Next]_vars /\ Fairness

-----------------------------------------------------------------------------
(* No slot leaks and no wake-up is lost, through deadlines in the queue    *)
(* and out of it: the count is that of the requests that hold a slot, and  *)
(* nobody waits while one is free.                                         *)
SlotsInv ==
    /\ active = Cardinality({r \in Requests : pc[r] \in Holding})
    /\ waiters # <<>> => active = MaxConcurrent
    /\ \A r \in Requests :
           pc[r] = "waiting" <=> \E i \in 1..Len(waiters) : waiters[i] = r

GatewayInv == TypeOK /\ SlotsInv

(* A provider that was failing is asked by one request at a time until one *)
(* of its answers closes the circuit.                                      *)
ProbesAreAlone == \A c \in Candidates : circuit[c].halfOpen => Cardinality(On(c)) <= 1

(* Failover: all_providers_failed is never the answer while a configured   *)
(* candidate of the route works, however the others fail.                  *)
ReliableCandidateAnswers ==
    \A r \in Requests :
        result[r] = "failed" =>
            \A i \in DOMAIN Route : Route[i] \notin reliable

(* Every request gets an answer or the deadline, even when no provider     *)
(* ever answers and every slot is taken.                                   *)
RequestsEnd == \A r \in Requests : pc[r] # "idle" ~> pc[r] = "done"
=============================================================================
