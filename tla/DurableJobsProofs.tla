--------------------------- MODULE DurableJobsProofs ---------------------------
(***************************************************************************)
(* For any number of jobs and workers: claims are exclusive, two handlers  *)
(* share a job only when its claim is suspect, and finished jobs stay      *)
(* finished but for that.                                                  *)
(***************************************************************************)
EXTENDS DurableJobs, TLAPS

LEMMA InitIInv == Init => IInv
<1> SUFFICES ASSUME Init PROVE IInv
  OBVIOUS
<1>1. TypeOK
  BY QueueConstants DEF Init, TypeOK, Statuses, Points
<1>2. ClaimLocks /\ AttemptsAreGiven /\ CompletesAfterHandling
  BY DEF Init, ClaimLocks, AttemptsAreGiven, CompletesAfterHandling, Working
<1>3. OneHolder /\ EndsAreEarned
  BY DEF Init, OneHolder, EndsAreEarned, Holders, Working
<1> QED
  BY <1>1, <1>2, <1>3 DEF IInv

LEMMA FaultCount == ASSUME TypeOK, Fault \/ NoFault PROVE faults' \in 0..MaxFaults
BY QueueConstants DEF TypeOK, Fault, NoFault

LEMMA FreeType ==
    ASSUME TypeOK, NEW w \in Workers, Free(w)
    PROVE  rowLock' \in [Jobs -> Workers \cup {Nobody}]
BY DEF TypeOK, Free

LEMMA FinishType ==
    ASSUME TypeOK, NEW w \in Workers, NEW point \in Points, Finish(w, point)
    PROVE  /\ pc' \in [Workers -> Points]
           /\ job' \in [Workers -> Jobs \cup {NoJob}]
           /\ attempt' \in [Workers -> Nat]
BY DEF TypeOK, Finish, Goto

-----------------------------------------------------------------------------
(* One lemma per step of a worker or of time.                              *)
LEMMA EnqueueIInv ==
    ASSUME IInv, NEW j \in Jobs, Enqueue(j)
    PROVE  IInv'
BY DEF IInv, Enqueue, TypeOK, Statuses, ClaimLocks, AttemptsAreGiven, Claimable,
       CompletesAfterHandling, OneHolder, Holders, EndsAreEarned

LEMMA BackoffEndsIInv ==
    ASSUME IInv, NEW j \in Jobs, BackoffEnds(j)
    PROVE  IInv'
BY DEF IInv, BackoffEnds, TypeOK, Statuses, ClaimLocks, AttemptsAreGiven, Claimable,
       CompletesAfterHandling, OneHolder, Holders, EndsAreEarned

LEMMA LeaseExpiresIInv ==
    ASSUME IInv, NEW j \in Jobs, LeaseExpires(j)
    PROVE  IInv'
BY DEF IInv, LeaseExpires, TypeOK, Statuses, ClaimLocks, AttemptsAreGiven, Claimable,
       CompletesAfterHandling, OneHolder, Holders, EndsAreEarned

LEMMA SelectIInv ==
    ASSUME IInv, NEW w \in Workers, NEW j \in Jobs, Select(w, j)
    PROVE  IInv'
<1>1. TypeOK'
  BY DEF IInv, Select, TypeOK, Points, Goto
<1>2. ClaimLocks'
  BY QueueConstants DEF IInv, Select, TypeOK, Goto, ClaimLocks, Claimable, Unlocked
<1>3. AttemptsAreGiven' /\ CompletesAfterHandling'
  BY DEF IInv, Select, TypeOK, Goto, AttemptsAreGiven, CompletesAfterHandling, Working
<1>4. \A i \in Jobs : Holders(i)' = Holders(i)
  BY DEF IInv, Select, TypeOK, Goto, Holders, Working
<1>5. OneHolder' /\ EndsAreEarned'
  BY <1>4 DEF IInv, Select, OneHolder, EndsAreEarned
<1> QED
  BY <1>1, <1>2, <1>3, <1>5 DEF IInv

LEMMA CommitClaimIInv ==
    ASSUME IInv, NEW w \in Workers, CommitClaim(w)
    PROVE  IInv'
<1> PICK j \in Jobs : job[w] = j
  BY DEF IInv, CommitClaim, ClaimLocks
<1>1. TypeOK'
  <2>1. /\ status' \in [Jobs -> Statuses] /\ attempts' \in [Jobs -> Nat]
        /\ handled' \subseteq Jobs /\ suspect' \subseteq Jobs
    BY DEF IInv, CommitClaim, TypeOK, Statuses
  <2>2. /\ pc' \in [Workers -> Points]
        /\ job' \in [Workers -> Jobs \cup {NoJob}]
        /\ attempt' \in [Workers -> Nat]
    BY FinishType DEF IInv, CommitClaim, TypeOK, Points, Goto
  <2>3. faults' \in 0..MaxFaults
    BY FaultCount DEF IInv, CommitClaim
  <2>4. rowLock' \in [Jobs -> Workers \cup {Nobody}]
    BY FreeType DEF IInv, CommitClaim
  <2> QED
    BY <2>1, <2>2, <2>3, <2>4 DEF TypeOK
<1>2. ClaimLocks'
  BY QueueConstants
     DEF IInv, CommitClaim, TypeOK, Goto, Finish, Free, ClaimLocks, Claimable
<1>3. /\ pc[w] = "claiming" /\ Claimable(j)
      /\ attempts' = [attempts EXCEPT ![j] = @ + 1]
      /\ status' = [status EXCEPT ![j] = "running"]
      /\ UNCHANGED <<handled, suspect>>
  BY DEF IInv, CommitClaim, ClaimLocks
<1>4. \A v \in Workers : v # w => pc'[v] = pc[v] /\ job'[v] = job[v] /\ attempt'[v] = attempt[v]
  BY DEF IInv, TypeOK, CommitClaim, Goto, Finish
<1>5. \/ pc'[w] = "handling" /\ job'[w] = j /\ attempt'[w] = attempts[j] + 1
      \/ pc'[w] = "backoff"
  BY DEF IInv, TypeOK, CommitClaim, Goto, Finish
<1>6. AttemptsAreGiven' /\ CompletesAfterHandling'
  BY <1>3, <1>4, <1>5
     DEF IInv, TypeOK, AttemptsAreGiven, CompletesAfterHandling, Working
<1>7. OneHolder'
  <2> SUFFICES ASSUME NEW i \in Jobs, i \notin suspect, NEW v \in Holders(i)'
               PROVE  Holders(i)' = {v} /\ status'[i] = "running"
    BY <1>3 DEF OneHolder
  <2>1. CASE i = j
    <3>1. Holders(j) = {}
      BY <1>3, <2>1 DEF IInv, OneHolder, Claimable
    <3> QED
      BY <1>3, <1>4, <1>5, <2>1, <3>1 DEF Holders, IInv, TypeOK
  <2>2. CASE i # j
    <3>1. Holders(i)' = Holders(i)
      BY <1>3, <1>4, <1>5, <2>2 DEF Holders, Working
    <3> QED
      BY <1>3, <2>2, <3>1 DEF IInv, OneHolder, TypeOK
  <2> QED
    BY <2>1, <2>2
<1>8. EndsAreEarned'
  BY <1>3 DEF IInv, EndsAreEarned, TypeOK
<1> QED
  BY <1>1, <1>2, <1>6, <1>7, <1>8 DEF IInv

(* Steps that only take the worker away from its job or its transaction.   *)
LEMMA DropIInv ==
    ASSUME IInv, NEW w \in Workers,
           \/ ClaimFails(w) \/ FailFails(w) \/ Resume(w) \/ Die(w) \/ Restart(w)
    PROVE  IInv'
<1>1. TypeOK'
  <2>1. CASE ClaimFails(w) \/ FailFails(w) \/ Die(w)
    <3>1. \E point \in Points : Finish(w, point)
      BY <2>1 DEF ClaimFails, FailFails, Die, Points
    <3>2. Fault /\ rowLock' \in [Jobs -> Workers \cup {Nobody}]
      BY <2>1, FreeType DEF IInv, TypeOK, ClaimFails, FailFails, Die
    <3> QED
      BY <2>1, <3>1, <3>2, FinishType, FaultCount
         DEF IInv, TypeOK, ClaimFails, FailFails, Die
  <2>2. CASE Resume(w) \/ Restart(w)
    BY <2>2 DEF IInv, TypeOK, Points, Resume, Restart, Goto
  <2> QED
    BY <2>1, <2>2
<1>2. ClaimLocks'
  BY QueueConstants
     DEF IInv, TypeOK, ClaimLocks, Claimable, ClaimFails, FailFails, Resume, Die,
         Restart, Goto, Finish, Free
<1>3. /\ UNCHANGED <<status, attempts, handled, suspect>>
      /\ pc'[w] \notin Working /\ pc'[w] # "claiming"
      /\ \A v \in Workers : v # w =>
             pc'[v] = pc[v] /\ job'[v] = job[v] /\ attempt'[v] = attempt[v]
  BY DEF IInv, TypeOK, Working, ClaimFails, FailFails, Resume, Die, Restart, Goto, Finish
<1>4. AttemptsAreGiven' /\ CompletesAfterHandling' /\ EndsAreEarned'
  BY <1>3 DEF IInv, AttemptsAreGiven, CompletesAfterHandling, EndsAreEarned, Working
<1>5. \A i \in Jobs : Holders(i)' \subseteq Holders(i)
  BY <1>3 DEF Holders
<1>6. OneHolder'
  BY <1>3, <1>5 DEF IInv, OneHolder
<1> QED
  BY <1>1, <1>2, <1>4, <1>6 DEF IInv

(* Steps that take the worker from one point of its work to the next.      *)
LEMMA HandleIInv ==
    ASSUME IInv, NEW w \in Workers,
           HandlerReturns(w) \/ HandlerThrows(w) \/ CompleteFails(w)
    PROVE  IInv'
<1>1. pc[w] \in Working /\ job[w] \in Jobs
  BY DEF IInv, AttemptsAreGiven, Working, HandlerReturns, HandlerThrows, CompleteFails
<1>2. TypeOK'
  <2>1. faults' \in 0..MaxFaults
    BY FaultCount DEF IInv, HandlerReturns, HandlerThrows, CompleteFails, NoFault
  <2> QED
    BY <1>1, <2>1 DEF IInv, TypeOK, Points, HandlerReturns, HandlerThrows,
                      CompleteFails, Goto
<1>3. /\ UNCHANGED <<status, attempts, rowLock, job, attempt, suspect>>
      /\ pc[w] # "claiming" /\ pc'[w] \in Working
      /\ handled \subseteq handled'
      /\ pc'[w] = "completing" => job[w] \in handled'
      /\ \A v \in Workers : v # w => pc'[v] = pc[v]
  BY DEF IInv, TypeOK, Working, HandlerReturns, HandlerThrows, CompleteFails, Goto
<1>4. ClaimLocks'
  BY <1>3 DEF IInv, ClaimLocks, Claimable, TypeOK, Working
<1>5. AttemptsAreGiven' /\ CompletesAfterHandling' /\ EndsAreEarned'
  BY <1>1, <1>3 DEF IInv, AttemptsAreGiven, CompletesAfterHandling, EndsAreEarned
<1>6. \A i \in Jobs : Holders(i)' = Holders(i)
  BY <1>1, <1>3 DEF Holders
<1>7. OneHolder'
  BY <1>3, <1>6 DEF IInv, OneHolder
<1> QED
  BY <1>2, <1>4, <1>5, <1>7 DEF IInv

(* The worker's last word on its job, which may come too late.             *)
LEMMA DisposeIInv ==
    ASSUME IInv, NEW w \in Workers, Complete(w) \/ Fail(w)
    PROVE  IInv'
<1> PICK j \in Jobs : job[w] = j
  BY DEF IInv, AttemptsAreGiven, Working, Complete, Fail
<1>1. /\ pc[w] \in Working /\ attempt[w] \in 1..attempts[j] /\ w \in Holders(j)
      /\ rowLock[j] = Nobody /\ attempts[j] \in Nat
  BY DEF IInv, TypeOK, AttemptsAreGiven, Working, Complete, Fail, Unlocked, Holders
<1>2. \E s \in {"completed", "waiting", "dead"} :
          /\ status' = [status EXCEPT ![j] = s]
          /\ s = "completed" => j \in handled
          /\ s = "dead" => attempts[j] >= MaxAttempts
  BY <1>1, QueueConstants
     DEF IInv, CompletesAfterHandling, Complete, Fail, AfterFailure
<1>3. /\ UNCHANGED <<attempts, rowLock, handled>>
      /\ suspect' \in SUBSET Jobs /\ suspect \subseteq suspect'
      /\ \A v \in Workers : v # w =>
             pc'[v] = pc[v] /\ job'[v] = job[v] /\ attempt'[v] = attempt[v]
      /\ \/ pc'[w] \in {"idle", "backoff"} /\ suspect' = suspect
         \/ /\ pc'[w] = "failing" /\ suspect' = suspect \cup {j}
            /\ job'[w] = j /\ attempt'[w] = attempt[w]
  BY DEF IInv, TypeOK, Complete, Fail, Goto, Finish
<1>4. TypeOK'
  <2>1. status' \in [Jobs -> Statuses]
    BY <1>2 DEF IInv, TypeOK, Statuses
  <2>2. suspect' \subseteq Jobs
    BY <1>3
  <2>3. faults' \in 0..MaxFaults
    BY FaultCount DEF IInv, Complete, Fail
  <2>4. /\ pc' \in [Workers -> Points]
        /\ job' \in [Workers -> Jobs \cup {NoJob}]
        /\ attempt' \in [Workers -> Nat]
    BY FinishType DEF IInv, TypeOK, Points, Complete, Fail, Goto
  <2> QED
    BY <1>3, <2>1, <2>2, <2>3, <2>4 DEF IInv, TypeOK
<1>5. ClaimLocks'
  <2>1. \A i \in Jobs : i # j => status'[i] = status[i]
    BY <1>2 DEF IInv, TypeOK
  <2>2. pc'[w] # "claiming" /\ pc[w] # "claiming"
    BY <1>1, <1>3 DEF Working
  <2>3. \A v \in Workers : pc'[v] = "claiming" =>
            v # w /\ pc[v] = "claiming" /\ job'[v] = job[v] /\ job[v] # j
    BY <1>1, <1>3, <2>2, QueueConstants DEF IInv, ClaimLocks
  <2>4. \A i \in Jobs : rowLock[i] # Nobody => rowLock[i] \in Workers \ {w}
    BY <2>2 DEF IInv, TypeOK, ClaimLocks
  <2> QED
    BY <1>3, <2>1, <2>3, <2>4 DEF IInv, ClaimLocks, Claimable
<1>6. AttemptsAreGiven' /\ CompletesAfterHandling' 
  BY <1>1, <1>3 DEF IInv, AttemptsAreGiven, CompletesAfterHandling, Working
<1>7. EndsAreEarned'
  BY <1>2, <1>3 DEF IInv, TypeOK, EndsAreEarned
<1>8. OneHolder'
  <2> SUFFICES ASSUME NEW i \in Jobs, i \notin suspect', NEW u \in Holders(i)'
               PROVE  Holders(i)' = {u} /\ status'[i] = "running"
    BY DEF OneHolder
  <2>1. i \notin suspect /\ Holders(i)' \subseteq Holders(i)
    <3>1. i \notin suspect
      BY <1>3
    <3>2. \A v \in Workers : pc'[v] \in Working /\ job'[v] = i =>
              pc[v] \in Working /\ job[v] = i
      <4> TAKE v \in Workers
      <4>1. CASE v = w
        (* w leaves its job, or the job has become suspect.                *)
        <5>1. suspect' = suspect \cup {j} => i # j
          OBVIOUS
        <5> QED
          BY <1>1, <1>3, <4>1, <5>1 DEF Working
      <4>2. CASE v # w
        BY <1>3, <4>2
      <4> QED
        BY <4>1, <4>2
    <3> QED
      BY <3>1, <3>2 DEF Holders
  <2>2. Holders(i) = {u} /\ status[i] = "running"
    BY <2>1 DEF IInv, OneHolder
  <2>3. i # j
    BY <1>1, <1>3, <2>1, <2>2 DEF Holders, Working
  <2> QED
    BY <1>2, <2>1, <2>2, <2>3 DEF IInv, TypeOK
<1> QED
  BY <1>4, <1>5, <1>6, <1>7, <1>8 DEF IInv

LEMMA NextIInv == IInv /\ [Next]_vars => IInv'
<1> SUFFICES ASSUME IInv, [Next]_vars PROVE IInv'
  OBVIOUS
<1>1. ASSUME NEW j \in Jobs, Enqueue(j) \/ BackoffEnds(j) \/ LeaseExpires(j)
      PROVE  IInv'
  BY <1>1, EnqueueIInv, BackoffEndsIInv, LeaseExpiresIInv
<1>2. ASSUME NEW w \in Workers, Work(w)
      PROVE  IInv'
  BY <1>2, SelectIInv, CommitClaimIInv, HandleIInv, DisposeIInv, DropIInv DEF Work
<1>3. ASSUME NEW w \in Workers,
             ClaimFails(w) \/ CompleteFails(w) \/ FailFails(w) \/ Die(w)
      PROVE  IInv'
  BY <1>3, HandleIInv, DropIInv
<1>4. CASE UNCHANGED vars
  BY <1>4 DEF vars, IInv, TypeOK, ClaimLocks, AttemptsAreGiven, Claimable,
              CompletesAfterHandling, OneHolder, Holders, EndsAreEarned
<1> QED
  BY <1>1, <1>2, <1>3, <1>4 DEF Next

(* Type, lock discipline, and the safety of claims and ends.               *)
THEOREM JobsInvariant == Spec => []IInv
BY InitIInv, NextIInv, PTL DEF Spec

(* Two handlers work on one job only if its claim is suspect.              *)
THEOREM JobsOneHolder == Spec => []OneHolder
<1>1. IInv => OneHolder
  BY DEF IInv
<1> QED
  BY <1>1, JobsInvariant, PTL

(* No job is completed unhandled or given up before its last attempt.      *)
THEOREM JobsEndsAreEarned == Spec => []EndsAreEarned
<1>1. IInv => EndsAreEarned
  BY DEF IInv
<1> QED
  BY <1>1, JobsInvariant, PTL

-----------------------------------------------------------------------------
(* Who holds a job that is not suspect is its only holder, and the row is  *)
(* running; a claim finds the row without one, and advances its count.     *)
LEMMA RetriesKept ==
    ASSUME IInv, RetriesAreBounded, [Next]_vars
    PROVE  RetriesAreBounded'
<1> SUFFICES ASSUME NEW j \in Jobs, j \notin suspect'
             PROVE  /\ status'[j] \in {"absent", "waiting", "queued"} =>
                           attempts'[j] < MaxAttempts
                    /\ \A v \in Holders(j)' : attempt'[v] = attempts'[j]
  BY DEF RetriesAreBounded
<1>1. j \notin suspect
  BY DEF Next, vars, Work, Enqueue, BackoffEnds, LeaseExpires, Select, CommitClaim,
         ClaimFails, HandlerReturns, HandlerThrows, Complete, CompleteFails, Fail,
         FailFails, Resume, Die, Restart
<1>2. /\ status[j] \in {"absent", "waiting", "queued"} => attempts[j] < MaxAttempts
      /\ \A v \in Holders(j) : attempt[v] = attempts[j]
      /\ \A v \in Holders(j) : Holders(j) = {v} /\ status[j] = "running"
  BY <1>1 DEF RetriesAreBounded, IInv, OneHolder
(* The steps that leave the row and those who hold it as they are.         *)
<1>3. CASE /\ attempts'[j] = attempts[j]
           /\ \/ status'[j] = status[j]
              \/ /\ status'[j] \in {"absent", "waiting", "queued"} =>
                        status[j] \in {"absent", "waiting", "queued"}
           /\ \A v \in Holders(j)' : v \in Holders(j) /\ attempt'[v] = attempt[v]
  BY <1>2, <1>3
<1>4. ASSUME NEW i \in Jobs, Enqueue(i) \/ BackoffEnds(i) \/ LeaseExpires(i)
      PROVE  /\ attempts'[j] = attempts[j] /\ UNCHANGED <<pc, job, attempt>>
             /\ status'[j] \in {"absent", "waiting", "queued"} =>
                    status[j] \in {"absent", "waiting", "queued"}
  BY <1>4 DEF IInv, TypeOK, Enqueue, BackoffEnds, LeaseExpires
<1>5. ASSUME NEW w \in Workers, CommitClaim(w)
      PROVE  /\ status'[j] \in {"absent", "waiting", "queued"} =>
                    attempts'[j] < MaxAttempts
             /\ \A v \in Holders(j)' : attempt'[v] = attempts'[j]
  <2>1. /\ pc[w] = "claiming" /\ job[w] \in Jobs /\ Claimable(job[w])
        /\ attempts' = [attempts EXCEPT ![job[w]] = @ + 1]
        /\ status' = [status EXCEPT ![job[w]] = "running"]
        /\ \A v \in Workers : v # w =>
               pc'[v] = pc[v] /\ job'[v] = job[v] /\ attempt'[v] = attempt[v]
        /\ \/ pc'[w] = "handling" /\ job'[w] = job[w] /\ attempt'[w] = attempts[job[w]] + 1
           \/ pc'[w] = "backoff"
    BY <1>5 DEF IInv, TypeOK, ClaimLocks, CommitClaim, Goto, Finish
  <2>2. CASE job[w] = j
    <3>1. Holders(j) = {} /\ status'[j] = "running" /\ attempts'[j] = attempts[j] + 1
      BY <1>2, <2>1, <2>2 DEF Claimable, IInv, TypeOK
    <3> QED  BY <2>1, <2>2, <3>1 DEF Holders, Working
  <2>3. CASE job[w] # j
    <3>1. attempts'[j] = attempts[j] /\ status'[j] = status[j]
      BY <2>1, <2>3 DEF IInv, TypeOK
    <3>2. \A v \in Holders(j)' : v \in Holders(j) /\ attempt'[v] = attempt[v]
      BY <2>1, <2>3 DEF Holders, Working
    <3> QED  BY <1>2, <3>1, <3>2
  <2> QED  BY <2>2, <2>3
(* Whoever fails the job goes by the row's count.                          *)
<1>6. ASSUME NEW w \in Workers, Complete(w) \/ Fail(w)
      PROVE  /\ status'[j] \in {"absent", "waiting", "queued"} =>
                    attempts'[j] < MaxAttempts
             /\ \A v \in Holders(j)' : attempt'[v] = attempts'[j]
  <2>1. /\ pc[w] \in Working /\ job[w] \in Jobs /\ UNCHANGED attempts
        /\ \A v \in Workers : v # w =>
               pc'[v] = pc[v] /\ job'[v] = job[v] /\ attempt'[v] = attempt[v]
        /\ \/ pc'[w] \notin Working
           \/ /\ job'[w] = job[w] /\ attempt'[w] = attempt[w]
        /\ \/ status' = [status EXCEPT ![job[w]] = "completed"]
           \/ status' = [status EXCEPT ![job[w]] = AfterFailure(attempt[w])]
    BY <1>6 DEF IInv, TypeOK, AttemptsAreGiven, Working, Complete, Fail, Goto, Finish
  <2>2. \A v \in Holders(j)' : v \in Holders(j) /\ attempt'[v] = attempt[v]
    BY <2>1 DEF Holders
  <2>3. CASE job[w] = j
    <3>1. attempt[w] = attempts[j] /\ attempts[j] \in Nat
      BY <1>2, <2>1, <2>3 DEF Holders, IInv, TypeOK
    <3>2. status'[j] \in {"absent", "waiting", "queued"} => attempts[j] < MaxAttempts
      BY <2>1, <2>3, <3>1, QueueConstants DEF AfterFailure, IInv, TypeOK
    <3> QED  BY <1>2, <2>1, <2>2, <3>2
  <2>4. CASE job[w] # j
    <3>1. status'[j] = status[j]
      BY <2>1, <2>4 DEF IInv, TypeOK
    <3> QED  BY <1>2, <2>1, <2>2, <3>1
  <2> QED  BY <2>3, <2>4
<1>7. ASSUME NEW w \in Workers,
             \/ \E i \in Jobs : Select(w, i)
             \/ ClaimFails(w) \/ HandlerReturns(w) \/ HandlerThrows(w)
             \/ CompleteFails(w) \/ FailFails(w) \/ Resume(w) \/ Die(w) \/ Restart(w)
      PROVE  /\ UNCHANGED <<status, attempts>>
             /\ \A v \in Holders(j)' : v \in Holders(j) /\ attempt'[v] = attempt[v]
  BY <1>7 DEF IInv, TypeOK, Holders, Working, Select, ClaimFails, HandlerReturns,
              HandlerThrows, CompleteFails, FailFails, Resume, Die, Restart, Goto, Finish
<1>8. CASE UNCHANGED vars
  BY <1>2, <1>8 DEF vars, Holders
<1>9. CASE \E i \in Jobs : Enqueue(i) \/ BackoffEnds(i) \/ LeaseExpires(i)
  BY <1>3, <1>4, <1>9 DEF Holders
<1>10. CASE \E w \in Workers :
               Work(w) \/ ClaimFails(w) \/ CompleteFails(w) \/ FailFails(w) \/ Die(w)
  BY <1>3, <1>5, <1>6, <1>7, <1>10 DEF Work
<1> QED
  BY <1>8, <1>9, <1>10 DEF Next

(* A job whose claim is not suspect is put back only with attempts left,   *)
(* and held by its latest attempt.                                         *)
THEOREM JobsRetriesAreBounded == Spec => []RetriesAreBounded
<1>1. Init => RetriesAreBounded
  BY QueueConstants DEF Init, RetriesAreBounded, Holders, Working
<1>2. IInv /\ RetriesAreBounded /\ [Next]_vars => RetriesAreBounded'
  BY RetriesKept
<1> QED
  BY <1>1, <1>2, JobsInvariant, PTL DEF Spec

(* A finished job is not handed out again unless its claim is suspect.     *)
THEOREM JobsFinishedStay == Spec => FinishedJobsStay
<1>1. IInv /\ [Next]_vars =>
        [\A j \in Jobs \ suspect :
             status[j] \in Finished => status'[j] = status[j]]_vars
  <2> SUFFICES ASSUME IInv, Next, NEW j \in Jobs \ suspect,
                      status[j] \in Finished
               PROVE  status'[j] = status[j]
    BY DEF vars
  <2>1. ASSUME NEW i \in Jobs, Enqueue(i) \/ BackoffEnds(i) \/ LeaseExpires(i)
        PROVE  status'[j] = status[j]
    BY <2>1 DEF IInv, TypeOK, Finished, Enqueue, BackoffEnds, LeaseExpires
  <2>2. ASSUME NEW w \in Workers, CommitClaim(w)
        PROVE  status'[j] = status[j]
    <3>1. job[w] # j
      BY <2>2 DEF IInv, ClaimLocks, CommitClaim, Claimable, Finished
    <3> QED
      BY <2>2, <3>1 DEF IInv, TypeOK, CommitClaim
  (* Whoever disposes of a job holds it, and held jobs are running.        *)
  <2>3. ASSUME NEW w \in Workers, Complete(w) \/ Fail(w)
        PROVE  status'[j] = status[j]
    <3>1. Holders(j) = {}
      BY DEF IInv, OneHolder, Finished
    <3>2. job[w] # j
      BY <2>3, <3>1 DEF Holders, Working, Complete, Fail
    <3> QED
      BY <2>3, <3>2 DEF IInv, TypeOK, Complete, Fail
  <2> QED
    BY <2>1, <2>2, <2>3
       DEF Next, Work, Select, ClaimFails, HandlerReturns, HandlerThrows,
           CompleteFails, FailFails, Resume, Die, Restart
<1> QED
  BY <1>1, JobsInvariant, PTL DEF Spec, FinishedJobsStay

-----------------------------------------------------------------------------
(* DurableJobs implements JobQueue.                                        *)

LEMMA RowStep ==
    ASSUME TypeOK, NEW j \in Jobs, NEW s, status' = [status EXCEPT ![j] = s]
    PROVE  RowOf' = [RowOf EXCEPT ![j] = AsRow(s)]
BY DEF TypeOK, RowOf

LEMMA RowStays == status' = status => RowOf' = RowOf
BY DEF RowOf

(* What the locals of w map to; the other workers hold what they held.     *)
LEMMA HoldingStep ==
    ASSUME TypeOK, NEW w \in Workers, NEW h,
           h = IF pc'[w] \in Working THEN <<job'[w], attempt'[w]>> ELSE <<NoJob, 0>>,
           \A v \in Workers : v # w =>
               pc'[v] = pc[v] /\ job'[v] = job[v] /\ attempt'[v] = attempt[v]
    PROVE  HoldingOf' = [HoldingOf EXCEPT ![w] = h]
BY DEF HoldingOf

LEMMA HoldingStays == UNCHANGED <<pc, job, attempt>> => HoldingOf' = HoldingOf
BY DEF HoldingOf

LEMMA QueueInit == Init => Queue!Init
BY DEF Init, Queue!Init, RowOf, AsRow, HoldingOf, Working, Finished, Queue!Idle

(* Time, and requests that enqueue.                                        *)
LEMMA RowImplements ==
    ASSUME IInv, NEW j \in Jobs, Enqueue(j) \/ BackoffEnds(j) \/ LeaseExpires(j)
    PROVE  Queue!Next \/ UNCHANGED Queue!vars
<1>1. UNCHANGED <<attempts, pc, job, attempt>> /\ HoldingOf' = HoldingOf
  BY HoldingStays DEF Enqueue, BackoffEnds, LeaseExpires
<1>2. CASE Enqueue(j) /\ status[j] = "absent"
  <2>1. status' = [status EXCEPT ![j] = "queued"]
    BY <1>2 DEF Enqueue
  <2>2. RowOf' = [RowOf EXCEPT ![j] = "queued"] /\ RowOf[j] = "none"
    BY <1>2, <2>1, RowStep DEF IInv, AsRow, RowOf, Finished
  <2> QED  BY <1>1, <2>2 DEF Queue!Next, Queue!Enqueue, Queue!Becomes
<1>3. CASE Enqueue(j) /\ status[j] # "absent"
  <2>1. status' = status
    BY <1>3 DEF Enqueue, IInv, TypeOK
  <2> QED  BY <1>1, <2>1, RowStays DEF Queue!vars
<1>4. CASE BackoffEnds(j)
  <2>1. RowOf' = [RowOf EXCEPT ![j] = "queued"] /\ RowOf[j] = "queued"
    BY <1>4, RowStep DEF IInv, BackoffEnds, AsRow, RowOf, Finished
  <2>2. RowOf' = RowOf
    BY <2>1 DEF RowOf
  <2> QED  BY <1>1, <2>2 DEF Queue!vars
<1>5. CASE LeaseExpires(j)
  <2>1. RowOf' = [RowOf EXCEPT ![j] = AsRow("expired")]
    BY <1>5, RowStep DEF IInv, LeaseExpires
  <2>2. AsRow("expired") = "queued" /\ RowOf[j] = "running"
    BY <1>5 DEF LeaseExpires, AsRow, RowOf, Finished
  <2> QED  BY <1>1, <2>1, <2>2 DEF Queue!Next, Queue!Lapse, Queue!Becomes
<1> QED  BY <1>2, <1>3, <1>4, <1>5

(* The claim takes effect with its UPDATE, on a row its lock has kept      *)
(* claimable since the SELECT.                                             *)
LEMMA ClaimImplements ==
    ASSUME IInv, NEW w \in Workers, CommitClaim(w)
    PROVE  Queue!Next
<1> PICK j \in Jobs : job[w] = j
  BY DEF IInv, CommitClaim, ClaimLocks
<1>1. /\ pc[w] = "claiming" /\ Claimable(j)
      /\ status' = [status EXCEPT ![j] = "running"]
      /\ attempts' = [attempts EXCEPT ![j] = @ + 1]
      /\ \A v \in Workers : v # w =>
             pc'[v] = pc[v] /\ job'[v] = job[v] /\ attempt'[v] = attempt[v]
      /\ \/ pc'[w] = "handling" /\ job'[w] = j /\ attempt'[w] = attempts[j] + 1
         \/ pc'[w] = "backoff"
  BY DEF IInv, TypeOK, ClaimLocks, CommitClaim, Goto, Finish
<1>2. RowOf' = [RowOf EXCEPT ![j] = "running"] /\ RowOf[j] = "queued"
  BY <1>1, RowStep DEF IInv, AsRow, RowOf, Finished, Claimable
<1>3. HoldingOf[w] = <<NoJob, 0>>
  BY <1>1 DEF HoldingOf, Working
<1>4. \/ HoldingOf' = [HoldingOf EXCEPT ![w] = <<j, attempts[j] + 1>>]
      \/ HoldingOf' = HoldingOf
  <2>1. CASE pc'[w] = "handling"
    BY <1>1, <2>1, HoldingStep DEF IInv, Working
  <2>2. CASE pc'[w] = "backoff"
    <3>1. HoldingOf' = [HoldingOf EXCEPT ![w] = <<NoJob, 0>>]
      BY <1>1, <2>2, HoldingStep DEF IInv, Working
    <3> QED  BY <1>3, <3>1 DEF HoldingOf
  <2> QED  BY <1>1, <2>1, <2>2
<1> QED  BY <1>1, <1>2, <1>3, <1>4
         DEF Queue!Next, Queue!Take, Queue!Becomes, Queue!Idle

(* Steps that move the worker within its work, or take it away from it.    *)
LEMMA WorkerImplements ==
    ASSUME IInv, NEW w \in Workers,
           \/ \E j \in Jobs : Select(w, j)
           \/ ClaimFails(w) \/ HandlerReturns(w) \/ HandlerThrows(w)
           \/ CompleteFails(w) \/ FailFails(w) \/ Resume(w) \/ Die(w) \/ Restart(w)
    PROVE  Queue!Next \/ UNCHANGED Queue!vars
<1>1. /\ UNCHANGED <<status, attempts>>
      /\ \A v \in Workers : v # w =>
             pc'[v] = pc[v] /\ job'[v] = job[v] /\ attempt'[v] = attempt[v]
      /\ \/ pc'[w] \notin Working
         \/ /\ pc[w] \in Working /\ pc'[w] \in Working
            /\ job'[w] = job[w] /\ attempt'[w] = attempt[w]
  BY DEF IInv, TypeOK, Working, Select, ClaimFails, HandlerReturns, HandlerThrows,
         CompleteFails, FailFails, Resume, Die, Restart, Goto, Finish
<1>2. RowOf' = RowOf
  BY <1>1, RowStays
<1>3. CASE pc'[w] \notin Working
  <2>1. HoldingOf' = [HoldingOf EXCEPT ![w] = <<NoJob, 0>>]
    BY <1>1, <1>3, HoldingStep DEF IInv
  <2> QED  BY <1>1, <1>2, <2>1 DEF Queue!Next, Queue!Drop, Queue!LetGo, Queue!Idle
<1>4. CASE /\ pc[w] \in Working /\ pc'[w] \in Working
           /\ job'[w] = job[w] /\ attempt'[w] = attempt[w]
  <2>1. HoldingOf' = [HoldingOf EXCEPT ![w] = HoldingOf[w]]
    BY <1>1, <1>4, HoldingStep DEF IInv, HoldingOf
  <2>2. HoldingOf' = HoldingOf
    BY <2>1 DEF HoldingOf
  <2> QED  BY <1>1, <1>2, <2>2 DEF Queue!vars
<1> QED  BY <1>1, <1>3, <1>4

(* The worker's last word takes effect at its UPDATE, or at both of them.  *)
LEMMA DisposalImplements ==
    ASSUME IInv, NEW w \in Workers, Complete(w) \/ Fail(w)
    PROVE  Queue!Next
<1> PICK j \in Jobs : job[w] = j
  BY DEF IInv, AttemptsAreGiven, Working, Complete, Fail
<1>1. /\ pc[w] \in Working /\ attempt[w] \in 1..attempts[j]
      /\ UNCHANGED attempts
      /\ \A v \in Workers : v # w =>
             pc'[v] = pc[v] /\ job'[v] = job[v] /\ attempt'[v] = attempt[v]
  BY DEF IInv, TypeOK, AttemptsAreGiven, Working, Complete, Fail, Goto, Finish
<1>2. HoldingOf[w] = <<j, attempt[w]>>
  BY <1>1 DEF HoldingOf
<1>3. CASE Complete(w)
  <2>1. RowOf' = [RowOf EXCEPT ![j] = "completed"]
    BY <1>3, RowStep DEF IInv, Complete, AsRow, Finished
  <2>2. \/ pc'[w] = "idle"
        \/ pc'[w] \in Working /\ job'[w] = j /\ attempt'[w] = attempt[w]
    BY <1>3 DEF IInv, TypeOK, Complete, Goto, Finish, Working
  <2>3. \/ HoldingOf' = [HoldingOf EXCEPT ![w] = <<NoJob, 0>>]
        \/ HoldingOf' = HoldingOf
    <3>1. CASE pc'[w] = "idle"
      BY <1>1, <3>1, HoldingStep DEF IInv, Working
    <3>2. CASE pc'[w] \in Working /\ job'[w] = j /\ attempt'[w] = attempt[w]
      <4>1. HoldingOf' = [HoldingOf EXCEPT ![w] = <<j, attempt[w]>>]
        BY <1>1, <3>2, HoldingStep DEF IInv
      <4> QED  BY <1>2, <4>1 DEF HoldingOf
    <3> QED  BY <2>2, <3>1, <3>2
  <2>4. Queue!Complete(w, j, attempt[w])
    BY <1>1, <1>2, <2>1, <2>3
       DEF Queue!Complete, Queue!Becomes, Queue!LetGo, Queue!Idle
  <2> QED  BY <1>1, <2>4 DEF Queue!Next
<1>4. CASE Fail(w)
  <2>1. RowOf' = [RowOf EXCEPT ![j] = IF attempt[w] >= MaxAttempts THEN "dead"
                                                                   ELSE "queued"]
    <3>1. status' = [status EXCEPT ![j] = AfterFailure(attempt[w])]
      BY <1>4 DEF Fail
    <3>2. RowOf' = [RowOf EXCEPT ![j] = AsRow(AfterFailure(attempt[w]))]
      BY <3>1, RowStep DEF IInv
    <3>3. AsRow(AfterFailure(attempt[w])) = IF attempt[w] >= MaxAttempts THEN "dead"
                                                                        ELSE "queued"
      BY DEF AsRow, AfterFailure, Finished
    <3> QED  BY <3>2, <3>3
  <2>2. pc'[w] \notin Working
    BY <1>4 DEF IInv, TypeOK, Fail, Goto, Finish, Working
  <2>3. HoldingOf' = [HoldingOf EXCEPT ![w] = <<NoJob, 0>>]
    BY <1>1, <2>2, HoldingStep DEF IInv
  <2>4. Queue!Fail(w, j, attempt[w])
    BY <1>1, <1>2, <2>1, <2>3 DEF Queue!Fail, Queue!Becomes, Queue!LetGo, Queue!Idle
  <2> QED  BY <1>1, <2>4 DEF Queue!Next
<1> QED  BY <1>3, <1>4

LEMMA StepImplements == IInv /\ [Next]_vars => [Queue!Next]_(Queue!vars)
<1> SUFFICES ASSUME IInv, [Next]_vars PROVE Queue!Next \/ UNCHANGED Queue!vars
  OBVIOUS
<1>1. CASE UNCHANGED vars
  BY <1>1, RowStays, HoldingStays DEF vars, Queue!vars
<1>2. ASSUME NEW j \in Jobs, Enqueue(j) \/ BackoffEnds(j) \/ LeaseExpires(j)
      PROVE  Queue!Next \/ UNCHANGED Queue!vars
  BY <1>2, RowImplements
<1>3. ASSUME NEW w \in Workers,
             Work(w) \/ ClaimFails(w) \/ CompleteFails(w) \/ FailFails(w) \/ Die(w)
      PROVE  Queue!Next \/ UNCHANGED Queue!vars
  BY <1>3, ClaimImplements, WorkerImplements, DisposalImplements DEF Work
<1> QED  BY <1>1, <1>2, <1>3 DEF Next

(* The queue the workers share by transactions, row locks and leases is    *)
(* one whose calls are atomic, for any number of workers and jobs and any  *)
(* deaths, lost acknowledgements and failing queries.                      *)
THEOREM JobsImplementQueue == Spec => ImplementsQueue
BY QueueInit, StepImplements, JobsInvariant, PTL DEF Spec, ImplementsQueue, Queue!Spec
=============================================================================
