---------------------------- MODULE OwnershipLedger ----------------------------
(***************************************************************************)
(* One conversation's ownership as its stores keep it: the present record, *)
(* and the log of transitions by transitionId.  Whoever calls and whatever *)
(* becomes of the answers, a step records one transition, under an id not  *)
(* used before and from the version it was asked for.  The store's callers *)
(* (OwnershipStore) and the operators that take conversations over         *)
(* (HumanTakeover) implement this.                                         *)
(*                                                                         *)
(* Conversations share nothing (every row and ledger entry is keyed by     *)
(* tenant and conversation), so one of them stands for all.                *)
(***************************************************************************)
EXTENDS ConversationOwnership

VARIABLES record,        \* the conversation's ownership record
          log            \* transitionId -> the recorded transition

ledger == <<record, log>>

Logged(t) == log[t] # NotLogged

LedgerTypeOK ==
    /\ record \in Record
    /\ log \in [TransitionIds -> Entry \cup {NotLogged}]

LedgerInit ==
    /\ record = InitialOwnership
    /\ log = [t \in TransitionIds |-> NotLogged]

(* A transition is recorded, also one that moves nothing.                  *)
Transition(req) ==
    /\ ~Logged(req.tid) /\ log'[req.tid] # NotLogged
    /\ VersionMatches(req, record)
    /\ record' = Outcome(req, record)
    /\ log' = [log EXCEPT ![req.tid] = [command  |-> req.command,
                                        expected |-> req.expected,
                                        result   |-> Outcome(req, record)]]

LedgerNext ==
    \E t \in TransitionIds, k \in Commands,
       e \in {AnyVersion, record.version} \cap ExpectedVersions :
        Transition([tid |-> t, command |-> k, expected |-> e])

LedgerSpec == LedgerInit /\ [][LedgerNext]_ledger
------------------------------------------------------------------------------
(* The record is what the last effective transition left: it is the        *)
(* default one, or the logged result of the transition it names.           *)
RecordIsLogged ==
    \/ record = InitialOwnership
    \/ /\ record.transitionId \in TransitionIds
       /\ Logged(record.transitionId)
       /\ log[record.transitionId].result = record

(* Transition t produced version v, as opposed to finding it in place.     *)
Produced(t, v) ==
    /\ Logged(t)
    /\ log[t].result.version = v
    /\ log[t].result.transitionId = t

(* No transition is lost and none forks the history: each version up to    *)
(* the present one was produced by one recorded transition and no more,    *)
(* and none lies ahead of the record.  Two transition calls that read the  *)
(* same current record and both write would break it.                      *)
HistoryIsGapFree ==
    /\ RecordIsLogged
    /\ \A t \in TransitionIds :
           Logged(t) => log[t].result.version <= record.version
    /\ \A v \in 1..record.version : \E t \in TransitionIds : Produced(t, v)
    /\ \A s, t \in TransitionIds : \A v \in 1..record.version :
           Produced(s, v) /\ Produced(t, v) => s = t

(* A transition recorded with an expectedVersion was applied to that very  *)
(* version: its result is that version or the next.                        *)
ExpectedVersionHonoured ==
    \A t \in TransitionIds :
        Logged(t) /\ log[t].expected # AnyVersion =>
            log[t].result.version \in {log[t].expected, log[t].expected + 1}

(* Once a human owns the conversation, only a recorded release_to_agent    *)
(* takes it away, whatever other transitions are in flight.                *)
HumanKeepsConversation ==
    [][record.state = "HUMAN_ACTIVE" /\ record'.state # "HUMAN_ACTIVE" =>
         \E t \in TransitionIds :
             /\ log[t] = NotLogged /\ log'[t] # NotLogged
             /\ log'[t].command = "release_to_agent"
             /\ record' = log'[t].result]_<<record, log>>
=============================================================================
