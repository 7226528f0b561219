----------------------------- MODULE DurableJobs -----------------------------
(***************************************************************************)
(* The durable job queue and its workers: PostgresJobQueue (enqueue,       *)
(* claimNext, complete, fail) driven by DurableJobWorker.run in one or     *)
(* more supervisor processes.                                              *)
(*                                                                         *)
(* Time enters the queue only through available_at and leased_until, and   *)
(* only as "passed" or "not passed": a queued row is "queued" when it is   *)
(* due and "waiting" before; a running row is "running" while its lease    *)
(* is in force and "expired" after.  Nothing relates the length of a       *)
(* handler's run to the length of a lease, and the worker never renews     *)
(* one, so a lease may run out while its handler is at work.               *)
(***************************************************************************)
EXTENDS Naturals, FiniteSets

CONSTANTS Jobs,          \* (tenant, type, idempotency key): one row each
          Workers,       \* the worker loops, one per supervisor process
          Nobody, NoJob,
          MaxAttempts,   \* max_attempts of every job
          MaxFaults      \* bound: process deaths and failing queries

ASSUME QueueConstants ==
    /\ Nobody \notin Workers
    /\ NoJob \notin Jobs
    /\ MaxAttempts \in Nat \ {0}
    /\ MaxFaults \in Nat

VARIABLES status,     \* job -> the row's status, time taken into account
          attempts,   \* job -> attempt_count
          rowLock,    \* job -> the claim transaction that holds the row
          pc,         \* worker -> where runOnce is
          job,        \* worker -> the job it selected or claimed
          attempt,    \* worker -> attemptCount of the claim it was given
          handled,    \* jobs whose handler has returned normally (history)
          suspect,    \* jobs whose claim went wrong, see below (history)
          faults      \* deaths and failed queries so far

vars == <<status, attempts, rowLock, pc, job, attempt, handled, suspect, faults>>

Statuses == {"absent", "waiting", "queued", "running", "expired",
             "completed", "dead"}
Finished == {"completed", "dead"}

Points == {"idle", "claiming", "handling", "completing", "failing", "backoff",
           "down"}
(* The worker has been given the job and has not yet disposed of it.       *)
Working == {"handling", "completing", "failing"}

Holders(j) == {w \in Workers : pc[w] \in Working /\ job[w] = j}

TypeOK ==
    /\ status \in [Jobs -> Statuses]
    /\ attempts \in [Jobs -> Nat]
    /\ rowLock \in [Jobs -> Workers \cup {Nobody}]
    /\ pc \in [Workers -> Points]
    /\ job \in [Workers -> Jobs \cup {NoJob}]
    /\ attempt \in [Workers -> Nat]
    /\ handled \subseteq Jobs
    /\ suspect \subseteq Jobs
    /\ faults \in 0..MaxFaults

Init ==
    /\ status = [j \in Jobs |-> "absent"]
    /\ attempts = [j \in Jobs |-> 0]
    /\ rowLock = [j \in Jobs |-> Nobody]
    /\ pc = [w \in Workers |-> "idle"]
    /\ job = [w \in Workers |-> NoJob]
    /\ attempt = [w \in Workers |-> 0]
    /\ handled = {}
    /\ suspect = {}
    /\ faults = 0

Fault == faults < MaxFaults /\ faults' = faults + 1
NoFault == UNCHANGED faults

Goto(w, point) == pc' = [pc EXCEPT ![w] = point]

(* runOnce ends, in an answer or an exception: its locals are gone.        *)
Finish(w, point) ==
    /\ Goto(w, point)
    /\ job' = [job EXCEPT ![w] = NoJob]
    /\ attempt' = [attempt EXCEPT ![w] = 0]

(* UPDATEs of the row wait while a claim transaction holds it.             *)
Unlocked(j) == rowLock[j] = Nobody
------------------------------------------------------------------------------
(* INSERT ... ON CONFLICT leaves an existing row as it is.                 *)
Enqueue(j) ==
    /\ status' = [status EXCEPT ![j] = IF @ = "absent" THEN "queued" ELSE @]
    /\ UNCHANGED <<attempts, rowLock, pc, job, attempt, handled, suspect, faults>>

(* available_at, respectively leased_until, passes.                        *)
BackoffEnds(j) ==
    /\ status[j] = "waiting"
    /\ status' = [status EXCEPT ![j] = "queued"]
    /\ UNCHANGED <<attempts, rowLock, pc, job, attempt, handled, suspect, faults>>

LeaseExpires(j) ==
    /\ status[j] = "running"
    /\ status' = [status EXCEPT ![j] = "expired"]
    /\ suspect' = IF Holders(j) = {} THEN suspect ELSE suspect \cup {j}
    /\ UNCHANGED <<attempts, rowLock, pc, job, attempt, handled, faults>>
------------------------------------------------------------------------------
(* Mutant: expired leases are never taken over.                            *)
ClaimableQueuedOnly(j) == status[j] = "queued"

Claimable(j) == status[j] \in {"queued", "expired"}

(* Mutant: the SELECT takes no row lock.                                   *)
SelectWithoutLock(w, j) ==
    /\ pc[w] = "idle"
    /\ Claimable(j)
    /\ Goto(w, "claiming")
    /\ job' = [job EXCEPT ![w] = j]
    /\ UNCHANGED <<status, attempts, rowLock, attempt, handled, suspect, faults>>

(* SELECT ... FOR UPDATE SKIP LOCKED: some row that is claimable and that  *)
(* no other claim has locked; the first in queue order in the code.        *)
Select(w, j) ==
    /\ pc[w] = "idle"
    /\ Claimable(j)
    /\ Unlocked(j)
    /\ rowLock' = [rowLock EXCEPT ![j] = w]
    /\ Goto(w, "claiming")
    /\ job' = [job EXCEPT ![w] = j]
    /\ UNCHANGED <<status, attempts, attempt, handled, suspect, faults>>

Free(w) == rowLock' = [j \in Jobs |-> IF rowLock[j] = w THEN Nobody ELSE rowLock[j]]

(* Mutant: attempt_count is not advanced.                                  *)
CommitClaimSameAttempt(w) ==
    /\ pc[w] = "claiming"
    /\ status' = [status EXCEPT ![job[w]] = "running"]
    /\ Goto(w, "handling")
    /\ attempt' = [attempt EXCEPT ![w] = attempts[job[w]]]
    /\ Free(w)
    /\ UNCHANGED <<attempts, job, handled, suspect, faults>>

(* UPDATE ... RETURNING and COMMIT; the commit may go through with its     *)
(* acknowledgement lost, and then nobody works under the new lease.        *)
CommitClaim(w) ==
    /\ pc[w] = "claiming"
    /\ LET j == job[w]
       IN  /\ status' = [status EXCEPT ![j] = "running"]
           /\ attempts' = [attempts EXCEPT ![j] = @ + 1]
           /\ \/ /\ Goto(w, "handling")
                 /\ attempt' = [attempt EXCEPT ![w] = attempts[j] + 1]
                 /\ NoFault
                 /\ UNCHANGED job
              \/ Finish(w, "backoff") /\ Fault
    /\ Free(w)
    /\ UNCHANGED <<handled, suspect>>

(* connect, BEGIN, SELECT or UPDATE throws: ROLLBACK, and run backs off.   *)
ClaimFails(w) ==
    /\ pc[w] \in {"idle", "claiming"}
    /\ Fault
    /\ Free(w)
    /\ Finish(w, "backoff")
    /\ UNCHANGED <<status, attempts, handled, suspect>>
------------------------------------------------------------------------------
HandlerReturns(w) ==
    /\ pc[w] = "handling"
    /\ Goto(w, "completing")
    /\ handled' = handled \cup {job[w]}
    /\ UNCHANGED <<status, attempts, rowLock, job, attempt, suspect, faults>>

(* The handler throws, or none is registered for the job's type.           *)
HandlerThrows(w) ==
    /\ pc[w] = "handling"
    /\ Goto(w, "failing")
    /\ UNCHANGED <<status, attempts, rowLock, job, attempt, handled, suspect, faults>>

(* UPDATE ... WHERE id = $1, whoever holds the lease.  When only the       *)
(* acknowledgement is lost, runOnce takes it for a failure of the job.     *)
Complete(w) ==
    /\ pc[w] = "completing"
    /\ Unlocked(job[w])
    /\ status' = [status EXCEPT ![job[w]] = "completed"]
    /\ \/ Finish(w, "idle") /\ NoFault /\ UNCHANGED suspect
       \/ /\ Goto(w, "failing")
          /\ Fault
          /\ suspect' = suspect \cup {job[w]}
          /\ UNCHANGED <<job, attempt>>
    /\ UNCHANGED <<attempts, rowLock, handled>>

CompleteFails(w) ==
    /\ pc[w] = "completing"
    /\ Fault
    /\ Goto(w, "failing")
    /\ UNCHANGED <<status, attempts, rowLock, job, attempt, handled, suspect>>

(* Mutant: gives up one attempt early.                                     *)
AfterFailureEarly(n) == IF n + 1 >= MaxAttempts THEN "dead" ELSE "waiting"

(* Mutant: grants one attempt too many.                                    *)
AfterFailureLate(n) == IF n > MaxAttempts THEN "dead" ELSE "waiting"

(* The row's status after attempt n has failed.                            *)
AfterFailure(n) == IF n >= MaxAttempts THEN "dead" ELSE "waiting"

(* UPDATE ... WHERE id = $1, on the word of the attempt the worker holds.  *)
Fail(w) ==
    /\ pc[w] = "failing"
    /\ Unlocked(job[w])
    /\ status' = [status EXCEPT ![job[w]] = AfterFailure(attempt[w])]
    /\ \/ Finish(w, "idle") /\ NoFault
       \/ Finish(w, "backoff") /\ Fault
    /\ UNCHANGED <<attempts, rowLock, handled, suspect>>

(* fail throws, and so does runOnce: only the lease's end frees the job.   *)
FailFails(w) ==
    /\ pc[w] = "failing"
    /\ Fault
    /\ Finish(w, "backoff")
    /\ UNCHANGED <<status, attempts, rowLock, handled, suspect>>

(* The sleep after a failure of the queue is over.                         *)
Resume(w) ==
    /\ pc[w] = "backoff"
    /\ Goto(w, "idle")
    /\ UNCHANGED <<status, attempts, rowLock, job, attempt, handled, suspect, faults>>

(* The process dies, or stops on a signal between two jobs.                *)
Die(w) ==
    /\ pc[w] # "down"
    /\ Fault
    /\ Free(w)
    /\ Finish(w, "down")
    /\ UNCHANGED <<status, attempts, handled, suspect>>

Restart(w) ==
    /\ pc[w] = "down"
    /\ Goto(w, "idle")
    /\ UNCHANGED <<status, attempts, rowLock, job, attempt, handled, suspect, faults>>

(* What a worker does when nothing goes wrong.                             *)
Work(w) ==
    \/ \E j \in Jobs : Select(w, j)
    \/ CommitClaim(w)
    \/ HandlerReturns(w) \/ HandlerThrows(w)
    \/ Complete(w) \/ Fail(w)
    \/ Resume(w) \/ Restart(w)

Next ==
    \/ \E j \in Jobs : Enqueue(j) \/ BackoffEnds(j) \/ LeaseExpires(j)
    \/ \E w \in Workers :
           Work(w) \/ ClaimFails(w) \/ CompleteFails(w) \/ FailFails(w) \/ Die(w)

(* Time passes, handlers end (every model, tool and send call in them has  *)
(* a timeout), and a process that went down is started again.              *)
Fairness ==
    /\ \A j \in Jobs : WF_vars(BackoffEnds(j)) /\ WF_vars(LeaseExpires(j))
    /\ \A w \in Workers : WF_vars(Work(w))

Spec == Init /\ [][Next]_vars /\ Fairness
------------------------------------------------------------------------------
(* A claim transaction holds the row it selected, and the row stays        *)
(* claimable under it; nobody else holds a lock.                           *)
ClaimLocks ==
    /\ \A j \in Jobs : rowLock[j] # Nobody =>
           pc[rowLock[j]] = "claiming" /\ job[rowLock[j]] = j
    /\ \A w \in Workers : pc[w] = "claiming" =>
           job[w] \in Jobs /\ rowLock[job[w]] = w /\ Claimable(job[w])

(* Workers hold attempts the row has seen, each its own.                   *)
AttemptsAreGiven ==
    /\ \A w \in Workers : pc[w] \in Working =>
           job[w] \in Jobs /\ attempt[w] \in 1..attempts[job[w]]
    /\ \A v, w \in Workers :
           /\ pc[v] \in Working /\ pc[w] \in Working
           /\ job[v] = job[w] /\ attempt[v] = attempt[w]
           => v = w

(* One worker at a time has a job, under a lease in force, unless a lease  *)
(* ran out while its holder was still at work or the acknowledgement of a  *)
(* complete was lost: nothing else, no crash, no retry and no race of two  *)
(* claims, puts two handlers on one inbound message.                       *)
OneHolder ==
    \A j \in Jobs \ suspect :
        \A w \in Holders(j) : Holders(j) = {w} /\ status[j] = "running"

(* A job's end is earned: completed jobs were handled to the end, and a    *)
(* job is given up only after its last attempt.                            *)
EndsAreEarned ==
    /\ \A j \in Jobs : status[j] = "completed" => j \in handled
    /\ \A j \in Jobs : status[j] = "dead" => attempts[j] >= MaxAttempts

CompletesAfterHandling ==
    \A w \in Workers : pc[w] = "completing" => job[w] \in handled

IInv ==
    /\ TypeOK /\ ClaimLocks /\ AttemptsAreGiven /\ CompletesAfterHandling
    /\ OneHolder /\ EndsAreEarned

(* The queue as its users see it: a job that is due, in back-off or whose  *)
(* lease has run out is queued to them.                                    *)
AsRow(s) == IF s = "absent" THEN "none"
            ELSE IF s \in Finished \cup {"running"} THEN s ELSE "queued"
RowOf == [j \in Jobs |-> AsRow(status[j])]
HoldingOf == [w \in Workers |-> IF pc[w] \in Working THEN <<job[w], attempt[w]>>
                                                    ELSE <<NoJob, 0>>]
Queue == INSTANCE JobQueue WITH row <- RowOf, holding <- HoldingOf

(* The claim's transaction and its row lock, the lost acknowledgements and *)
(* the deaths add up to a queue whose calls are atomic: a job is taken     *)
(* only while it is due or its lease has run out, however many workers     *)
(* poll, and counts an attempt each time.                                  *)
ImplementsQueue == Queue!Spec

(* A finished job stays finished, also when it is enqueued again, unless   *)
(* its claim is suspect.                                                   *)
FinishedJobsStay ==
    [][\A j \in Jobs \ suspect :
           status[j] \in Finished => status'[j] = status[j]]_vars

(* A job is queued again only while it has attempts left, and whoever has  *)
(* it goes by the row's count: past its last attempt a job is started anew *)
(* only when a lease ran out, which claimNext does not hold against the    *)
(* maximum, or when its claim is suspect.                                  *)
RetriesAreBounded ==
    \A j \in Jobs \ suspect :
        /\ status[j] \in {"absent", "waiting", "queued"} => attempts[j] < MaxAttempts
        /\ \A w \in Holders(j) : attempt[w] = attempts[j]

(* No job is lost: whatever dies or fails in between, a job that was       *)
(* enqueued ends up completed or dead.                                     *)
JobsAreSettled ==
    \A j \in Jobs : status[j] # "absent" ~> status[j] \in Finished

(* "Jobs have bounded attempts": a job is given to workers at most         *)
(* max_attempts times.                                                     *)
BoundedAttempts == \A j \in Jobs : attempts[j] <= MaxAttempts
=============================================================================
