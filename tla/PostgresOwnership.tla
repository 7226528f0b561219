-------------------------- MODULE PostgresOwnership --------------------------
(***************************************************************************)
(* PostgresConversationOwnershipStore.transition: one READ COMMITTED       *)
(* transaction per call, several calls (of one or several supervisor       *)
(* processes) at once on one conversation, each query a step.  Queries     *)
(* and connections may fail and a process may die at any step; the commit  *)
(* may succeed with its acknowledgement lost.                              *)
(***************************************************************************)
EXTENDS OwnershipCalls

CONSTANTS NoRow,      \* no committed conversation_ownership row yet
          Nobody      \* no transaction holds the row

ASSUME PostgresConstants == Nobody \notin Callers /\ NoRow \notin Record

VARIABLES row,        \* the committed conversation_ownership row
          log,        \* the committed conversation_ownership_transitions
          rowLock,    \* the transaction that inserted or locked the row
          pc,         \* caller -> the query its transaction is about to run
          current,    \* caller -> the row its SELECT ... FOR UPDATE returned
          persisted,  \* caller -> the record it is about to log and return
          request, reply

txnVars == <<rowLock, pc, current, persisted>>
vars == <<row, log, txnVars, request, reply>>

Committed == IF row = NoRow THEN InitialOwnership ELSE row

Store == INSTANCE OwnershipStore WITH record <- Committed

Steps == {"idle", "insert", "lock", "lookup", "update", "record",
          "commit", "commit_repeat"}

(* Between the row lock and the end of the transaction.                    *)
Holding == {"lookup", "update", "record", "commit", "commit_repeat"}

TypeOK ==
    /\ row \in Record \cup {NoRow}
    /\ log \in [TransitionIds -> Entry \cup {NotLogged}]
    /\ rowLock \in Callers \cup {Nobody}
    /\ pc \in [Callers -> Steps]
    /\ current \in [Callers -> Record]
    /\ persisted \in [Callers -> Record]
    /\ request \in [Callers -> Request \cup {NoRequest}]
    /\ reply \in [Callers -> Replies \cup {NoReply}]

Init ==
    /\ row = NoRow
    /\ log = [t \in TransitionIds |-> NotLogged]
    /\ rowLock = Nobody
    /\ pc = [c \in Callers |-> "idle"]
    /\ current = [c \in Callers |-> InitialOwnership]
    /\ persisted = [c \in Callers |-> InitialOwnership]
    /\ request = [c \in Callers |-> NoRequest]
    /\ reply = [c \in Callers |-> NoReply]

At(c, from, to) == pc[c] = from /\ pc' = [pc EXCEPT ![c] = to]

(* The transaction is over, committed or rolled back: its locks are free   *)
(* and its local variables gone.                                           *)
End(c) ==
    /\ pc' = [pc EXCEPT ![c] = "idle"]
    /\ rowLock' = IF rowLock = c THEN Nobody ELSE rowLock
    /\ current' = [current EXCEPT ![c] = InitialOwnership]
    /\ persisted' = [persisted EXCEPT ![c] = InitialOwnership]

(* pool.connect and BEGIN.                                                 *)
Begin(c, req) ==
    /\ request[c] = NoRequest
    /\ At(c, "idle", "insert")
    /\ request' = [request EXCEPT ![c] = req]
    /\ UNCHANGED <<row, log, rowLock, current, persisted, reply>>

(* INSERT ... ON CONFLICT DO NOTHING: against a committed row it does      *)
(* nothing at once; with no committed row it waits for the transaction     *)
(* that has inserted one, and else inserts the default and so holds it.    *)
InsertDefault(c) ==
    /\ At(c, "insert", "lock")
    /\ IF row = NoRow
       THEN rowLock = Nobody /\ rowLock' = c
       ELSE UNCHANGED rowLock
    /\ UNCHANGED <<row, log, current, persisted, request, reply>>

(* Mutant: SELECT without FOR UPDATE.                                      *)
LockRowNoForUpdate(c) ==
    /\ At(c, "lock", "lookup")
    /\ current' = [current EXCEPT ![c] = Committed]
    /\ UNCHANGED <<row, log, rowLock, persisted, request, reply>>

(* SELECT ... FOR UPDATE waits for the holder, then reads what it left.    *)
LockRow(c) ==
    /\ At(c, "lock", "lookup")
    /\ rowLock \in {Nobody, c}
    /\ rowLock' = c
    /\ current' = [current EXCEPT ![c] = Committed]
    /\ UNCHANGED <<row, log, persisted, request, reply>>

(* Mutant: the expectedVersion is not compared with the version read.      *)
LookupDuplicateAnyVersion(c) ==
    /\ pc[c] = "lookup"
    /\ log[request[c].tid] = NotLogged
    /\ pc' = [pc EXCEPT ![c] = "update"]
    /\ persisted' = [persisted EXCEPT ![c] = Outcome(request[c], current[c])]
    /\ UNCHANGED <<row, log, rowLock, current, request, reply>>

(* Mutant: a transitionId that is recorded already is applied again.       *)
LookupDuplicateNever(c) ==
    /\ pc[c] = "lookup"
    /\ VersionMatches(request[c], current[c])
    /\ pc' = [pc EXCEPT ![c] = "update"]
    /\ persisted' = [persisted EXCEPT ![c] = Outcome(request[c], current[c])]
    /\ UNCHANGED <<row, log, rowLock, current, request, reply>>

LookupDuplicate(c) ==
    /\ pc[c] = "lookup"
    /\ LET t == request[c].tid
       IN  IF log[t] # NotLogged
           THEN /\ pc' = [pc EXCEPT ![c] = "commit_repeat"]
                /\ persisted' = [persisted EXCEPT ![c] = log[t].result]
           ELSE /\ VersionMatches(request[c], current[c])
                /\ pc' = [pc EXCEPT ![c] = "update"]
                /\ persisted' = [persisted EXCEPT ![c] =
                                   Outcome(request[c], current[c])]
    /\ UNCHANGED <<row, log, rowLock, current, request, reply>>

(* Mutant: the error is thrown without ROLLBACK, and the pooled connection *)
(* keeps its transaction open.                                             *)
RollBackForgotten(c, answer) ==
    /\ pc' = [pc EXCEPT ![c] = "idle"]
    /\ reply' = [reply EXCEPT ![c] = answer]
    /\ UNCHANGED <<row, log, rowLock, current, persisted, request>>

(* The end of a transaction that writes nothing: ROLLBACK, then throw.     *)
RollBack(c, answer) ==
    /\ End(c)
    /\ reply' = [reply EXCEPT ![c] = answer]
    /\ UNCHANGED <<row, log, request>>

RefuseStale(c) ==
    /\ pc[c] = "lookup"
    /\ log[request[c].tid] = NotLogged
    /\ ~VersionMatches(request[c], current[c])
    /\ RollBack(c, Conflict)

(* UPDATE ... WHERE version = the version read, unless the command moves   *)
(* nothing; rowCount # 1 is a conflict, which the row lock rules out.      *)
UpdateRow(c) ==
    /\ pc[c] = "update"
    /\ IF persisted[c] = current[c] \/ Committed.version = current[c].version
       THEN /\ pc' = [pc EXCEPT ![c] = "record"]
            /\ UNCHANGED <<row, log, rowLock, current, persisted, request, reply>>
       ELSE RollBack(c, Conflict)

(* INSERT INTO conversation_ownership_transitions.                         *)
RecordTransition(c) ==
    /\ At(c, "record", "commit")
    /\ UNCHANGED <<row, log, rowLock, current, persisted, request, reply>>

(* Mutant: the transition row is not part of the transaction, and is lost. *)
CommitWritesRowOnly(c) ==
    /\ pc[c] = "commit"
    /\ End(c)
    /\ row' = IF persisted[c] = current[c] THEN Committed ELSE persisted[c]
    /\ reply' = [reply EXCEPT ![c] = Failed]
    /\ UNCHANGED <<log, request>>

CommitWrites(c) ==
    /\ pc[c] = "commit"
    /\ End(c)
    /\ row' = IF persisted[c] = current[c] THEN Committed ELSE persisted[c]
    /\ log' = [log EXCEPT ![request[c].tid] =
                 [command  |-> request[c].command,
                  expected |-> request[c].expected,
                  result   |-> persisted[c]]]
    /\ \E answer \in {persisted[c], Failed} :
           reply' = [reply EXCEPT ![c] = answer]
    /\ UNCHANGED request

CommitRepeat(c) ==
    /\ pc[c] = "commit_repeat"
    /\ End(c)
    /\ reply' = [reply EXCEPT ![c] = persisted[c]]
    /\ UNCHANGED <<row, log, request>>

(* A query fails or the connection drops before the commit.                *)
QueryFails(c) ==
    /\ pc[c] # "idle"
    /\ RollBack(c, Failed)

(* The caller takes its answer.                                            *)
Return(c) ==
    /\ reply[c] # NoReply
    /\ request' = [request EXCEPT ![c] = NoRequest]
    /\ reply' = [reply EXCEPT ![c] = NoReply]
    /\ UNCHANGED <<row, log, txnVars>>

(* The caller's process dies: the server rolls its transaction back.       *)
Crash(c) ==
    /\ pc[c] # "idle"
    /\ End(c)
    /\ request' = [request EXCEPT ![c] = NoRequest]
    /\ UNCHANGED <<row, log, reply>>

Progress(c) ==
    \/ InsertDefault(c) \/ LockRow(c) \/ LookupDuplicate(c) \/ RefuseStale(c)
    \/ UpdateRow(c) \/ RecordTransition(c) \/ CommitWrites(c) \/ CommitRepeat(c)

Next ==
    \E c \in Callers :
        \/ \E req \in Requests : Begin(c, req)
        \/ Progress(c) \/ QueryFails(c) \/ Crash(c) \/ Return(c)

(* PostgreSQL grants a contended row lock in turn; everything else only    *)
(* needs the caller's process and the server to keep running.              *)
Fairness ==
    \A c \in Callers :
        /\ WF_vars(Progress(c))
        /\ SF_vars(InsertDefault(c))
        /\ SF_vars(LockRow(c))

Spec == Init /\ [][Next]_vars /\ Fairness
------------------------------------------------------------------------------
InTransaction(c) == pc[c] # "idle"

(* The transaction's bookkeeping is what its reads said it was.            *)
Prepared(c) ==
    /\ pc[c] \in {"update", "record", "commit"} =>
         /\ log[request[c].tid] = NotLogged
         /\ VersionMatches(request[c], current[c])
         /\ persisted[c] = Outcome(request[c], current[c])
    /\ pc[c] = "commit_repeat" =>
         /\ log[request[c].tid] # NotLogged
         /\ persisted[c] = log[request[c].tid].result

(* From the locking read to the end of its transaction a call holds the    *)
(* row alone, and what it read is what is committed: the version check,    *)
(* the duplicate lookup and the next record all rest on a current read.    *)
LockDiscipline ==
    \A c \in Callers :
        /\ InTransaction(c) <=> request[c] # NoRequest /\ reply[c] = NoReply
        /\ request[c] = NoRequest => reply[c] = NoReply
        /\ pc[c] \in Holding => rowLock = c /\ current[c] = Committed
        /\ rowLock = c => pc[c] \in Holding \cup {"lock"}
        /\ Prepared(c)

IInv == TypeOK /\ LockDiscipline

(* The properties of the store hold of the committed row and log.          *)
HistoryIsGapFree == Store!HistoryIsGapFree
ExpectedVersionHonoured == Store!ExpectedVersionHonoured
RetriesAgree == Store!RetriesAgree
HumanKeepsConversation == Store!HumanKeepsConversation

(* The transaction implements the store's atomic transition: CommitWrites, *)
(* CommitRepeat and RefuseStale are the instants a call takes effect.      *)
ImplementsStore == Store!Spec

(* No call hangs: a transaction that waits for a row gets it in the end.   *)
EveryCallAnswered ==
    \A c \in Callers : InTransaction(c) ~> ~InTransaction(c)
=============================================================================
