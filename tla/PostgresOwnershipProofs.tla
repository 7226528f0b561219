------------------------ MODULE PostgresOwnershipProofs ------------------------
(***************************************************************************)
(* For any number of concurrent calls: the transaction keeps the lock      *)
(* discipline (IInv), it implements the atomic store, and so the store's   *)
(* promises hold of what is committed.                                     *)
(***************************************************************************)
EXTENDS PostgresOwnership, TLAPS

LEMMA CommittedType == TypeOK => Committed \in Record
BY DEF TypeOK, Committed, InitialOwnership, Record, States

(* What each step of a transaction needs to know about its call.           *)
LEMMA CallType ==
    ASSUME IInv, NEW c \in Callers, InTransaction(c)
    PROVE  /\ request[c] \in Request /\ request[c] \in Request \cup {NoRequest}
           /\ request[c] # NoRequest
           /\ request[c].tid \in TransitionIds
           /\ request[c].command \in Commands
           /\ request[c].expected \in ExpectedVersions
           /\ reply[c] = NoReply
           /\ current[c] \in Record
           /\ persisted[c] \in Record
           /\ Outcome(request[c], current[c]) \in Record
<1>1. request[c] \in Request /\ current[c] \in Record
  BY DEF IInv, TypeOK, LockDiscipline
<1> QED
  <2>1. NextStateFor(current[c].state, request[c].command) \in States
    <3>1. current[c].state \in States /\ request[c].command \in Commands
      BY <1>1 DEF Record, Request
    <3> QED
      BY <3>1 DEF NextStateFor, Moves, Commands, States
  <2>2. Outcome(request[c], current[c]) \in Record
    BY <1>1, <2>1 DEF Outcome, TransitionOwnership, Record, Request
  <2> QED
    BY <1>1, <2>2 DEF IInv, TypeOK, LockDiscipline, Request
-----------------------------------------------------------------------------
LEMMA InitIInv == Init => IInv
<1> SUFFICES ASSUME Init PROVE IInv
  OBVIOUS
<1>1. TypeOK
  BY DEF Init, TypeOK, InitialOwnership, Record, States, Steps
<1>2. LockDiscipline
  BY PostgresConstants DEF Init, LockDiscipline, InTransaction, Holding, Prepared
<1> QED
  BY <1>1, <1>2 DEF IInv

(* Steps that leave the committed state and the other calls alone keep     *)
(* what the other calls rely on.                                           *)
LEMMA BeginIInv ==
    ASSUME IInv, NEW c \in Callers, NEW req \in Requests, Begin(c, req)
    PROVE  IInv'
<1>1. req \in Request /\ req # NoRequest
  BY CallConstants, OwnershipConstants
<1>2. TypeOK'
  BY <1>1 DEF IInv, TypeOK, Begin, At, Steps
<1>3. LockDiscipline'
  BY <1>1 DEF IInv, TypeOK, LockDiscipline, Begin, At, InTransaction, Holding,
              Prepared, Committed
<1> QED
  BY <1>2, <1>3 DEF IInv

LEMMA InsertDefaultIInv ==
    ASSUME IInv, NEW c \in Callers, InsertDefault(c)
    PROVE  IInv'
<1>1. TypeOK'
  BY DEF IInv, TypeOK, InsertDefault, At, Steps
<1>2. LockDiscipline'
  BY PostgresConstants
     DEF IInv, TypeOK, LockDiscipline, InsertDefault, At, InTransaction, Holding,
         Prepared, Committed
<1> QED
  BY <1>1, <1>2 DEF IInv

LEMMA LockRowIInv ==
    ASSUME IInv, NEW c \in Callers, LockRow(c)
    PROVE  IInv'
<1>1. TypeOK'
  BY CommittedType DEF IInv, TypeOK, LockRow, At, Steps
<1>2. LockDiscipline'
  BY PostgresConstants
     DEF IInv, TypeOK, LockDiscipline, LockRow, At, InTransaction, Holding,
         Prepared, Committed
<1> QED
  BY <1>1, <1>2 DEF IInv

LEMMA LookupDuplicateIInv ==
    ASSUME IInv, NEW c \in Callers, LookupDuplicate(c)
    PROVE  IInv'
<1>1. InTransaction(c)
  BY DEF LookupDuplicate, InTransaction
<1>2. log[request[c].tid] # NotLogged => log[request[c].tid].result \in Record
  BY <1>1, CallType DEF IInv, TypeOK, Entry
<1>3. TypeOK'
  BY <1>1, <1>2, CallType DEF IInv, TypeOK, LookupDuplicate, Steps
<1>4. LockDiscipline'
  BY <1>1, CallType
     DEF IInv, TypeOK, LockDiscipline, LookupDuplicate, InTransaction, Holding,
         Prepared, Committed
<1> QED
  BY <1>3, <1>4 DEF IInv

LEMMA RollBackIInv ==
    ASSUME IInv, NEW c \in Callers, InTransaction(c),
           NEW answer \in Replies, RollBack(c, answer)
    PROVE  IInv'
<1>1. TypeOK'
  BY DEF IInv, TypeOK, RollBack, End, Steps, InitialOwnership, Record, States
<1>2. LockDiscipline'
  BY CallConstants, OwnershipConstants, PostgresConstants
     DEF IInv, TypeOK, LockDiscipline, RollBack, End, InTransaction, Holding,
         Prepared, Committed
<1> QED
  BY <1>1, <1>2 DEF IInv

LEMMA MoveOnIInv ==
    ASSUME IInv, NEW c \in Callers,
           \/ At(c, "update", "record")
           \/ At(c, "record", "commit"),
           UNCHANGED <<row, log, rowLock, current, persisted, request, reply>>
    PROVE  IInv'
<1>1. TypeOK'
  BY DEF IInv, TypeOK, At, Steps
<1>2. LockDiscipline'
  BY DEF IInv, TypeOK, LockDiscipline, At, InTransaction, Holding, Prepared,
         Committed
<1> QED
  BY <1>1, <1>2 DEF IInv

LEMMA UpdateRowIInv ==
    ASSUME IInv, NEW c \in Callers, UpdateRow(c)
    PROVE  IInv'
<1>1. CASE persisted[c] = current[c] \/ Committed.version = current[c].version
  BY <1>1, MoveOnIInv DEF UpdateRow, At
<1>2. CASE ~(persisted[c] = current[c] \/ Committed.version = current[c].version)
  BY <1>2, RollBackIInv DEF UpdateRow, InTransaction, Replies
<1> QED
  BY <1>1, <1>2

LEMMA CommitWritesIInv ==
    ASSUME IInv, NEW c \in Callers, CommitWrites(c)
    PROVE  IInv'
<1> DEFINE ent == [command  |-> request[c].command,
                   expected |-> request[c].expected,
                   result   |-> persisted[c]]
<1>1. InTransaction(c)
  BY DEF CommitWrites, InTransaction
<1>2. ent \in Entry
  BY <1>1, CallType DEF Entry
<1>3. row' \in Record /\ log' \in [TransitionIds -> Entry \cup {NotLogged}]
  BY <1>1, <1>2, CallType, CommittedType DEF IInv, TypeOK, CommitWrites
<1>4. TypeOK'
  BY <1>1, <1>3, CallType
     DEF IInv, TypeOK, CommitWrites, End, Steps, InitialOwnership, Record, States,
         Replies
(* No other call holds the row: none has read what this one overwrites.    *)
<1>5. \A d \in Callers \ {c} : pc[d] \notin Holding /\ rowLock # d
  BY PostgresConstants DEF IInv, LockDiscipline, CommitWrites, Holding
<1>6. reply'[c] # NoReply
  BY <1>1, CallType, CallConstants, OwnershipConstants DEF IInv, TypeOK, CommitWrites, Replies
<1>7. LockDiscipline'
  BY <1>5, <1>6, PostgresConstants
     DEF IInv, TypeOK, LockDiscipline, CommitWrites, End, InTransaction, Holding,
         Prepared
<1> QED
  BY <1>4, <1>7 DEF IInv

LEMMA CommitRepeatIInv ==
    ASSUME IInv, NEW c \in Callers, CommitRepeat(c)
    PROVE  IInv'
<1>1. InTransaction(c) /\ persisted[c] \in Replies
  BY CallType DEF CommitRepeat, InTransaction, Replies
<1> QED
  BY <1>1, RollBackIInv DEF CommitRepeat, RollBack

LEMMA ReturnIInv ==
    ASSUME IInv, NEW c \in Callers, Return(c)
    PROVE  IInv'
<1>1. TypeOK'
  BY DEF IInv, TypeOK, Return, txnVars
<1>2. LockDiscipline'
  BY DEF IInv, TypeOK, LockDiscipline, Return, txnVars, InTransaction, Holding,
         Prepared, Committed
<1> QED
  BY <1>1, <1>2 DEF IInv

LEMMA CrashIInv ==
    ASSUME IInv, NEW c \in Callers, Crash(c)
    PROVE  IInv'
<1>1. TypeOK'
  BY DEF IInv, TypeOK, Crash, End, Steps, InitialOwnership, Record, States
<1>2. LockDiscipline'
  BY PostgresConstants
     DEF IInv, TypeOK, LockDiscipline, Crash, End, InTransaction, Holding, Prepared,
         Committed
<1> QED
  BY <1>1, <1>2 DEF IInv

LEMMA NextIInv == IInv /\ [Next]_vars => IInv'
<1> SUFFICES ASSUME IInv, [Next]_vars PROVE IInv'
  OBVIOUS
<1>1. ASSUME NEW c \in Callers, RefuseStale(c)
      PROVE  IInv'
  BY <1>1, RollBackIInv DEF RefuseStale, InTransaction, Replies
<1>2. ASSUME NEW c \in Callers, QueryFails(c)
      PROVE  IInv'
  BY <1>2, RollBackIInv DEF QueryFails, InTransaction, Replies
<1>3. ASSUME NEW c \in Callers, RecordTransition(c)
      PROVE  IInv'
  BY <1>3, MoveOnIInv DEF RecordTransition
<1>4. ASSUME NEW c \in Callers, Progress(c)
      PROVE  IInv'
  BY <1>1, <1>3, <1>4, InsertDefaultIInv, LockRowIInv, LookupDuplicateIInv,
     UpdateRowIInv, CommitWritesIInv, CommitRepeatIInv DEF Progress
<1>5. CASE Next
  BY <1>2, <1>4, <1>5, BeginIInv, CrashIInv, ReturnIInv DEF Next
<1>6. CASE UNCHANGED vars
  BY <1>6 DEF vars, txnVars, IInv, TypeOK, LockDiscipline, InTransaction, Holding,
              Prepared, Committed
<1> QED
  BY <1>5, <1>6

(* The lock discipline holds in every reachable state.                     *)
THEOREM PostgresInvariant == Spec => []IInv
BY InitIInv, NextIInv, PTL DEF Spec
-----------------------------------------------------------------------------
(* The store's definitions and this module's speak of the same operators.  *)
LEMMA SameOperators ==
    /\ Store!InitialOwnership = InitialOwnership
    /\ \A req, r : /\ Store!Outcome(req, r) = Outcome(req, r)
                   /\ Store!VersionMatches(req, r) <=> VersionMatches(req, r)
    /\ \A t : Store!Logged(t) <=> log[t] # NotLogged
    /\ Store!Record = Record
BY DEF Store!InitialOwnership, InitialOwnership, Store!Outcome, Outcome,
       Store!TransitionOwnership, TransitionOwnership, Store!NextStateFor,
       NextStateFor, Store!Moves, Moves, Store!States, States,
       Store!VersionMatches, VersionMatches, Store!Logged, Store!Record, Record

(* An error that changes nothing is the store's Fail; only the committed   *)
(* state and the caller's answer are visible to it.                        *)
LEMMA RollBackImplements ==
    ASSUME IInv, NEW c \in Callers, InTransaction(c), RollBack(c, Failed)
    PROVE  Store!Fail(c)
BY CallType DEF RollBack, Store!Fail, Store!Answer, Committed

LEMMA RefuseStaleImplements ==
    ASSUME IInv, NEW c \in Callers, RefuseStale(c)
    PROVE  Store!Refuse(c)
<1>1. InTransaction(c) /\ current[c] = Committed
  BY DEF RefuseStale, IInv, LockDiscipline, InTransaction, Holding
<1> QED
  BY <1>1, CallType, SameOperators
     DEF RefuseStale, RollBack, Store!Refuse, Store!Answer, Committed

LEMMA UpdateRowImplements ==
    ASSUME IInv, NEW c \in Callers, UpdateRow(c)
    PROVE  UNCHANGED Store!storeVars
<1>1. Committed.version = current[c].version
  BY DEF UpdateRow, IInv, LockDiscipline, Holding
<1> QED
  BY <1>1 DEF UpdateRow, Store!storeVars, Committed

LEMMA CommitWritesImplements ==
    ASSUME IInv, NEW c \in Callers, CommitWrites(c)
    PROVE  Store!Apply(c)
<1>1. /\ InTransaction(c)
      /\ current[c] = Committed
      /\ log[request[c].tid] = NotLogged
      /\ VersionMatches(request[c], Committed)
      /\ persisted[c] = Outcome(request[c], Committed)
  BY DEF CommitWrites, IInv, LockDiscipline, InTransaction, Holding, Prepared
<1>2. row' = persisted[c] \/ (row' = Committed /\ persisted[c] = Committed)
  BY <1>1 DEF CommitWrites
<1>3. row' = persisted[c] /\ persisted[c] \in Record
  BY <1>1, <1>2, CallType
<1>4. Committed' = persisted[c]
  BY <1>3, PostgresConstants DEF Committed
<1>5. log'[request[c].tid] # NotLogged
  <2>1. [command  |-> request[c].command, expected |-> request[c].expected,
         result   |-> persisted[c]] \in Entry
    BY <1>1, CallType DEF Entry
  <2>2. log'[request[c].tid] \in Entry
    BY <1>1, <2>1, CallType DEF CommitWrites, IInv, TypeOK
  <2> QED
    BY <2>2, OwnershipConstants
<1> QED
  BY <1>1, <1>4, <1>5, CallType, SameOperators
     DEF CommitWrites, Store!Apply, Store!Transition, Store!Answer

LEMMA CommitRepeatImplements ==
    ASSUME IInv, NEW c \in Callers, CommitRepeat(c)
    PROVE  Store!Repeat(c)
<1>1. /\ InTransaction(c)
      /\ log[request[c].tid] # NotLogged
      /\ persisted[c] = log[request[c].tid].result
  BY DEF CommitRepeat, IInv, LockDiscipline, InTransaction, Prepared
<1> QED
  BY <1>1, CallType, SameOperators
     DEF CommitRepeat, Store!Repeat, Store!Answer, Committed

LEMMA ReturnImplements ==
    ASSUME IInv, NEW c \in Callers, Return(c) \/ Crash(c)
    PROVE  Store!Leave(c)
<1>1. request[c] # NoRequest
  BY DEF Return, Crash, IInv, LockDiscipline, InTransaction
<1>2. CASE Return(c)
  BY <1>1, <1>2 DEF Return, Store!Leave, Committed
<1>3. CASE Crash(c)
  <2>1. reply[c] = NoReply
    BY <1>3, CallType DEF Crash, InTransaction
  <2>2. reply = [reply EXCEPT ![c] = NoReply]
    BY <2>1 DEF IInv, TypeOK
  <2> QED
    BY <1>1, <1>3, <2>2 DEF Crash, Store!Leave, Committed
<1> QED
  BY <1>2, <1>3

LEMMA StepImplements == IInv /\ [Next]_vars => [Store!Next]_Store!storeVars
<1> SUFFICES ASSUME IInv, [Next]_vars
             PROVE  Store!Next \/ UNCHANGED Store!storeVars
  OBVIOUS
<1>1. ASSUME NEW c \in Callers, NEW req \in Requests, Begin(c, req)
      PROVE  Store!Submit(c, req)
  BY <1>1 DEF Begin, Store!Submit, Committed
<1>2. ASSUME NEW c \in Callers,
             \/ InsertDefault(c) \/ LockRow(c) \/ LookupDuplicate(c)
             \/ RecordTransition(c)
      PROVE  UNCHANGED Store!storeVars
  BY <1>2 DEF InsertDefault, LockRow, LookupDuplicate, RecordTransition,
              Store!storeVars, Committed
<1>3. ASSUME NEW c \in Callers, QueryFails(c)
      PROVE  Store!Fail(c)
  BY <1>3, RollBackImplements DEF QueryFails, InTransaction
<1>4. ASSUME NEW c \in Callers, Progress(c)
      PROVE  Store!Next \/ UNCHANGED Store!storeVars
  BY <1>2, <1>4, RefuseStaleImplements, UpdateRowImplements,
     CommitWritesImplements, CommitRepeatImplements DEF Progress, Store!Next
<1>5. CASE Next
  BY <1>1, <1>3, <1>4, <1>5, ReturnImplements DEF Next, Store!Next
<1>6. CASE UNCHANGED vars
  BY <1>6 DEF vars, Store!storeVars, Committed
<1> QED
  BY <1>5, <1>6

(* Every transition transaction is one atomic transition of the store.     *)
THEOREM PostgresImplementsStore == Spec => ImplementsStore
<1>1. Init => Store!Init
  BY SameOperators DEF Init, Store!Init, Store!LedgerInit, Committed
<1> QED
  BY <1>1, StepImplements, PostgresInvariant, PTL
     DEF Spec, ImplementsStore, Store!Spec
-----------------------------------------------------------------------------
(* The store's answers come from the log: each step of its calls keeps a   *)
(* repeated transition's answer what it was.                               *)
LEMMA RetriesKept ==
    ASSUME IInv, RetriesAgree, [Store!Next]_Store!storeVars
    PROVE  RetriesAgree'
<1> SUFFICES ASSUME NEW d \in Callers, reply'[d] \in Record
             PROVE  /\ request'[d] # NoRequest
                    /\ log'[request'[d].tid] # NotLogged
                    /\ log'[request'[d].tid].result = reply'[d]
  BY SameOperators DEF RetriesAgree, Store!RetriesAgree, Store!Logged
<1>1. reply[d] \in Record =>
          /\ request[d] # NoRequest
          /\ log[request[d].tid] # NotLogged
          /\ log[request[d].tid].result = reply[d]
  BY SameOperators DEF RetriesAgree, Store!RetriesAgree, Store!Logged
<1>2. /\ request \in [Callers -> Request \cup {NoRequest}]
      /\ reply \in [Callers -> Replies \cup {NoReply}]
      /\ log \in [TransitionIds -> Entry \cup {NotLogged}]
      /\ NoReply \notin Record /\ NoReply # Failed
      /\ Failed \notin Record /\ Conflict \notin Record
      /\ \A req \in Request : req.tid \in TransitionIds
  BY CallConstants, OwnershipConstants DEF IInv, TypeOK, Replies, Request
<1>3. CASE UNCHANGED <<log, request, reply>>
  BY <1>1, <1>3
<1>4. ASSUME NEW c \in Callers,
             \/ \E req \in Requests : Store!Submit(c, req)
             \/ Store!Repeat(c) \/ Store!Refuse(c) \/ Store!Fail(c) \/ Store!Leave(c)
      PROVE  /\ request'[d] # NoRequest
             /\ log'[request'[d].tid] # NotLogged
             /\ log'[request'[d].tid].result = reply'[d]
  BY <1>1, <1>2, <1>4, SameOperators
     DEF Store!Submit, Store!Repeat, Store!Refuse, Store!Fail, Store!Leave, Store!Answer
<1>5. ASSUME NEW c \in Callers, Store!Apply(c)
      PROVE  /\ request'[d] # NoRequest
             /\ log'[request'[d].tid] # NotLogged
             /\ log'[request'[d].tid].result = reply'[d]
  <2> DEFINE t == request[c].tid
             ent == [command  |-> request[c].command,
                     expected |-> request[c].expected,
                     result   |-> Outcome(request[c], Committed)]
  <2>1. /\ request[c] \in Request /\ t \in TransitionIds /\ log[t] = NotLogged
        /\ log' = [log EXCEPT ![t] = ent] /\ request' = request
        /\ request[c] # NoRequest /\ reply[c] = NoReply
        /\ \/ reply' = [reply EXCEPT ![c] = ent.result]
           \/ reply' = [reply EXCEPT ![c] = Failed]
    BY <1>2, <1>5, SameOperators DEF Store!Apply, Store!Transition, Store!Answer
  <2>2. CASE d = c
    <3>1. ent.result \in Record
      BY <1>2, <2>1, <2>2
    <3>2. ent \in Entry
      BY <2>1, <3>1 DEF Entry, Request
    <3>3. ent # NotLogged
      BY <3>2, OwnershipConstants
    <3> QED
      BY <1>2, <2>1, <2>2, <3>3
  <2>3. CASE d # c
    <3>1. reply[d] = reply'[d] /\ log[request[d].tid] # NotLogged /\ request[d] # NoRequest
      BY <1>1, <1>2, <2>1, <2>3
    <3>2. request[d].tid \in TransitionIds /\ request[d].tid # t
      BY <1>2, <2>1, <3>1
    <3> QED
      BY <1>1, <1>2, <2>1, <3>1, <3>2
  <2> QED
    BY <2>2, <2>3
<1> QED
  BY <1>3, <1>4, <1>5 DEF Store!Next, Store!storeVars

(* A call that repeats a transition gets the first attempt's record.       *)
THEOREM PostgresRetriesAgree == Spec => []RetriesAgree
<1>1. Init => RetriesAgree
  BY CallConstants, SameOperators
     DEF Init, RetriesAgree, Store!RetriesAgree, Replies
<1>2. IInv /\ RetriesAgree /\ [Next]_vars => RetriesAgree'
  BY RetriesKept, StepImplements
<1> QED
  BY <1>1, <1>2, PostgresInvariant, PTL DEF Spec
-----------------------------------------------------------------------------
(* The ledger's theorems, carried over to the committed row and log.       *)
LP == INSTANCE OwnershipLedgerProofs WITH record <- Committed

(* A call takes effect as a transition of the ledger, or not at all.       *)
LEMMA StoreIsLedger ==
    ASSUME IInv, [Store!Next]_Store!storeVars
    PROVE  [LP!LedgerNext]_LP!ledger
<1>1. ASSUME NEW c \in Callers, Store!Apply(c)
      PROVE  LP!LedgerNext
  <2>1. /\ request[c] \in Request
        /\ request[c].expected \in {AnyVersion, Committed.version}
    BY <1>1, SameOperators
       DEF IInv, TypeOK, Store!Apply, Store!Transition, VersionMatches
  <2>2. LP!Transition(request[c])
    BY <1>1 DEF Store!Apply, Store!Transition, LP!Transition, Store!Logged, LP!Logged,
                Store!VersionMatches, LP!VersionMatches, Store!Outcome, LP!Outcome,
                Store!TransitionOwnership, LP!TransitionOwnership,
                Store!NextStateFor, LP!NextStateFor, Store!Moves, LP!Moves,
                Store!States, LP!States
  <2>3. PICK t \in TransitionIds, k \in Commands, e \in ExpectedVersions :
            request[c] = [tid |-> t, command |-> k, expected |-> e]
    BY <2>1 DEF Request
  <2>4. LP!Commands = Commands
    BY DEF LP!Commands, LP!Moves, LP!States, Commands, Moves, States
  <2> QED
    BY <2>1, <2>2, <2>3, <2>4 DEF LP!LedgerNext
<1>2. ASSUME NEW c \in Callers,
             \/ \E req \in Requests : Store!Submit(c, req)
             \/ Store!Repeat(c) \/ Store!Refuse(c) \/ Store!Fail(c) \/ Store!Leave(c)
      PROVE  UNCHANGED LP!ledger
  BY <1>2 DEF Store!Submit, Store!Repeat, Store!Refuse, Store!Fail, Store!Leave,
              LP!ledger
<1> QED
  BY <1>1, <1>2 DEF Store!Next, Store!storeVars, LP!ledger

LEMMA SameLedgerInv == LP!LedgerInv => HistoryIsGapFree /\ ExpectedVersionHonoured
BY DEF LP!LedgerInv, HistoryIsGapFree, ExpectedVersionHonoured,
       Store!HistoryIsGapFree, LP!HistoryIsGapFree,
       Store!ExpectedVersionHonoured, LP!ExpectedVersionHonoured,
       Store!RecordIsLogged, LP!RecordIsLogged,
       Store!Produced, LP!Produced, Store!Logged, LP!Logged,
       Store!InitialOwnership, LP!InitialOwnership, Store!Record, LP!Record,
       Store!States, LP!States

LEMMA LedgerInductive ==
    /\ LP!LedgerInit => LP!LedgerInv
    /\ LP!LedgerInv /\ [LP!LedgerNext]_LP!ledger => LP!LedgerInv'
<1> USE OwnershipConstants
    DEF LP!Request, LP!Entry, LP!Record, LP!Commands, LP!Moves, LP!States,
        Request, Entry, Record, Commands, Moves, States
<1>1. LP!LedgerInit => LP!LedgerInv
  BY LP!InitLedgerInv
<1>2. LP!LedgerInv /\ [LP!LedgerNext]_LP!ledger => LP!LedgerInv'
  BY LP!LedgerInvKept
<1> QED
  BY <1>1, <1>2

(* What is committed is a ledger.                                          *)
LEMMA CommittedLedger == Spec => LP!LedgerSpec /\ []LP!LedgerInv
<1>1. Store!Init => LP!LedgerInit
  BY DEF Store!Init, Store!LedgerInit, LP!LedgerInit, Store!InitialOwnership,
         LP!InitialOwnership
<1> QED
  BY <1>1, StoreIsLedger, LedgerInductive, PostgresInvariant, PostgresImplementsStore, PTL
     DEF ImplementsStore, Store!Spec, LP!LedgerSpec

(* The history of what is committed has no gap and no fork: each version   *)
(* up to the present one was produced by one transition.                   *)
THEOREM PostgresHistory == Spec => []HistoryIsGapFree
BY CommittedLedger, SameLedgerInv, PTL

(* A transition asked for against a version applies to that version.       *)
THEOREM PostgresVersionsHonoured == Spec => []ExpectedVersionHonoured
BY CommittedLedger, SameLedgerInv, PTL

(* A human keeps the conversation until a release commits.                 *)
THEOREM PostgresKeepsHuman == Spec => HumanKeepsConversation
<1>1. LP!LedgerInv /\ [LP!LedgerNext]_LP!ledger =>
        [Committed.state = "HUMAN_ACTIVE" /\ Committed'.state # "HUMAN_ACTIVE" =>
           \E t \in TransitionIds :
               /\ log[t] = NotLogged /\ log'[t] # NotLogged
               /\ log'[t].command = "release_to_agent"
               /\ Committed' = log'[t].result]_<<Committed, log>>
  BY LP!ReleaseRecorded, OwnershipConstants
     DEF LP!Request, LP!Entry, LP!Record, LP!Commands, LP!Moves, LP!States,
         Request, Entry, Record, Commands, Moves, States
<1> QED
  BY <1>1, CommittedLedger, PTL
     DEF LP!LedgerSpec, HumanKeepsConversation, Store!HumanKeepsConversation
=============================================================================
