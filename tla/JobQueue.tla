------------------------------- MODULE JobQueue -------------------------------
(***************************************************************************)
(* What the job queue is to those who use it: every call of                *)
(* PostgresJobQueue takes effect at one instant, or not at all.  A row is  *)
(* taken only while it is queued, and each time by a new attempt; a lease  *)
(* may lapse while the worker that was given the row still holds on to it, *)
(* and such a worker may yet complete or fail the row.  Claims made under  *)
(* row locks (DurableJobs) and the queue an inbound message goes through   *)
(* (InboundDecision) both implement this.                                  *)
(***************************************************************************)
EXTENDS Naturals

CONSTANTS Jobs, Workers, NoJob, MaxAttempts

VARIABLES row,       \* job -> status, "queued" as long as it can be claimed
          attempts,  \* job -> attempt_count
          holding    \* worker -> the job and the attempt it was given

vars == <<row, attempts, holding>>

Idle == <<NoJob, 0>>

Init ==
    /\ row = [j \in Jobs |-> "none"]
    /\ attempts = [j \in Jobs |-> 0]
    /\ holding = [w \in Workers |-> Idle]

Becomes(j, status) == row' = [row EXCEPT ![j] = status]
LetGo(w) == holding' = [holding EXCEPT ![w] = Idle]

(* enqueue: the first of all calls with one idempotency key.               *)
Enqueue(j) ==
    /\ row[j] = "none"
    /\ Becomes(j, "queued")
    /\ UNCHANGED <<attempts, holding>>

(* claimNext: nobody has the job if its answer is lost.                    *)
Take(w, j) ==
    /\ holding[w] = Idle
    /\ row[j] = "queued"
    /\ Becomes(j, "running")
    /\ attempts' = [attempts EXCEPT ![j] = @ + 1]
    /\ \/ holding' = [holding EXCEPT ![w] = <<j, attempts[j] + 1>>]
       \/ UNCHANGED holding

(* leased_until passes, whoever is at work.                                *)
Lapse(j) ==
    /\ row[j] = "running"
    /\ Becomes(j, "queued")
    /\ UNCHANGED <<attempts, holding>>

(* complete: the worker goes on to fail the job if the answer is lost.     *)
Complete(w, j, n) ==
    /\ holding[w] = <<j, n>>
    /\ Becomes(j, "completed")
    /\ LetGo(w) \/ UNCHANGED holding
    /\ UNCHANGED attempts

(* fail, judged by the attempt the worker was given.                       *)
Fail(w, j, n) ==
    /\ holding[w] = <<j, n>>
    /\ Becomes(j, IF n >= MaxAttempts THEN "dead" ELSE "queued")
    /\ LetGo(w)
    /\ UNCHANGED attempts

(* A worker dies, or cannot reach the queue.                               *)
Drop(w) ==
    /\ LetGo(w)
    /\ UNCHANGED <<row, attempts>>

Next ==
    \/ \E j \in Jobs : Enqueue(j) \/ Lapse(j)
    \/ \E w \in Workers, j \in Jobs :
           \/ Take(w, j)
           \/ \E n \in 1..attempts[j] : Complete(w, j, n) \/ Fail(w, j, n)
    \/ \E w \in Workers : Drop(w)

Spec == Init /\ [][Next]_vars
=============================================================================
