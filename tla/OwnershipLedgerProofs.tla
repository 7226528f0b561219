------------------------- MODULE OwnershipLedgerProofs -------------------------
(***************************************************************************)
(* What the ledger promises holds for any transitionIds and expected       *)
(* versions.  LedgerInv is inductive: the history clauses need each other  *)
(* (the version a transition produces is new because every recorded        *)
(* version is at most the record's).  Whatever implements the ledger has   *)
(* these results with it.                                                  *)
(***************************************************************************)
EXTENDS OwnershipLedger, TLAPS

-----------------------------------------------------------------------------
(* Facts about the ownership state machine's operators.                    *)

(* Commands lead from ownership states to ownership states.                *)
LEMMA NextStateType ==
    ASSUME NEW s \in States, NEW k \in Commands
    PROVE  NextStateFor(s, k) \in States
BY DEF NextStateFor, Moves, Commands, States

(* transitionOwnership returns the record it was given, or one with the    *)
(* next version and the caller's transitionId in another state.            *)
LEMMA OutcomeShape ==
    ASSUME NEW r \in Record, NEW req \in Request
    PROVE  /\ Outcome(req, r) \in Record
           /\ \/ Outcome(req, r) = r
              \/ /\ Outcome(req, r).version = r.version + 1
                 /\ Outcome(req, r).transitionId = req.tid
                 /\ Outcome(req, r).state = NextStateFor(r.state, req.command)
<1>1. NextStateFor(r.state, req.command) \in States
  BY NextStateType DEF Record, Request
<1>2. QED
  BY <1>1 DEF Outcome, TransitionOwnership, Record, Request

(* Only release_to_agent takes a conversation out of HUMAN_ACTIVE.         *)
LEMMA OnlyReleaseLeavesHuman ==
    ASSUME NEW k \in Commands, NextStateFor("HUMAN_ACTIVE", k) # "HUMAN_ACTIVE"
    PROVE  k = "release_to_agent"
BY DEF NextStateFor, Moves, Commands, States

-----------------------------------------------------------------------------
LedgerInv == LedgerTypeOK /\ HistoryIsGapFree /\ ExpectedVersionHonoured

-----------------------------------------------------------------------------
LEMMA InitLedgerInv == LedgerInit => LedgerInv
<1> SUFFICES ASSUME LedgerInit PROVE LedgerInv
  OBVIOUS
<1>1. LedgerTypeOK
  BY DEF LedgerInit, LedgerTypeOK, InitialOwnership, Record, States
<1>2. HistoryIsGapFree
  BY DEF LedgerInit, HistoryIsGapFree, RecordIsLogged, Logged, InitialOwnership
<1>3. ExpectedVersionHonoured
  BY DEF LedgerInit, ExpectedVersionHonoured, Logged
<1> QED
  BY <1>1, <1>2, <1>3 DEF LedgerInv

LEMMA TransitionKeeps ==
    ASSUME LedgerInv, NEW req \in Request, Transition(req),
           NEW t \in TransitionIds, t = req.tid
    PROVE  LedgerInv'
<1> DEFINE res == Outcome(req, record)
           ent == [command |-> req.command, expected |-> req.expected,
                   result |-> res]
<1>1. ~Logged(t)
  BY DEF Transition
<1>2. record \in Record /\ record.version \in Nat
  BY DEF LedgerInv, LedgerTypeOK, Record
<1>3. /\ res \in Record
      /\ \/ res = record
         \/ res.version = record.version + 1 /\ res.transitionId = t
  BY <1>1, <1>2, OutcomeShape
<1>4. ent \in Entry /\ ent # NotLogged
  BY <1>1, <1>3, OwnershipConstants DEF Entry, Request
<1>5. record' = res /\ log' = [log EXCEPT ![t] = ent]
  BY DEF Transition
<1>6. log' \in [TransitionIds -> Entry \cup {NotLogged}]
  BY <1>1, <1>4, <1>5 DEF LedgerInv, LedgerTypeOK
<1>7. log'[t] = ent /\ \A s \in TransitionIds : s # t => log'[s] = log[s]
  BY <1>1, <1>5 DEF LedgerInv, LedgerTypeOK
<1>8. LedgerTypeOK'
  BY <1>3, <1>5, <1>6 DEF LedgerInv, LedgerTypeOK
<1>9. ExpectedVersionHonoured'
  <2>1. ent.expected # AnyVersion => ent.expected = record.version
    BY DEF Transition, VersionMatches
  <2>2. ent.expected # AnyVersion =>
          ent.result.version \in {ent.expected, ent.expected + 1}
    BY <2>1, <1>2, <1>3
  <2> QED
    BY <2>2, <1>4, <1>7 DEF LedgerInv, ExpectedVersionHonoured, Logged
<1>10. HistoryIsGapFree'
  <2>1. RecordIsLogged'
    <3>1. CASE res = record
      BY <3>1, <1>1, <1>5, <1>7 DEF LedgerInv, HistoryIsGapFree, RecordIsLogged, Logged
    <3>2. CASE res # record
      BY <3>2, <1>1, <1>3, <1>4, <1>5, <1>7 DEF RecordIsLogged, Logged
    <3> QED
      BY <3>1, <3>2
  <2>2. \A s \in TransitionIds :
           Logged(s)' => log'[s].result.version <= record'.version
    <3> SUFFICES ASSUME NEW s \in TransitionIds, Logged(s)'
                 PROVE  log'[s].result.version <= record'.version
      OBVIOUS
    <3>1. CASE s = t
      BY <3>1, <1>2, <1>3, <1>5, <1>7
    <3>2. CASE s # t
      <4>1. Logged(s) /\ log'[s] = log[s]
        BY <3>2, <1>7 DEF Logged
      <4>2. log[s].result.version <= record.version /\ log[s].result.version \in Nat
        BY <4>1 DEF LedgerInv, LedgerTypeOK, HistoryIsGapFree, Logged, Entry, Record
      <4> QED
        BY <4>1, <4>2, <1>2, <1>3, <1>5
    <3> QED
      BY <3>1, <3>2
  <2>3. \A s \in TransitionIds, v \in Nat : s # t =>
           (Produced(s, v)' <=> Produced(s, v))
    BY <1>7 DEF Produced, Logged
  <2>4. \A v \in Nat : Produced(t, v)' <=> res # record /\ v = record.version + 1
    <3>1. CASE res = record
      (* A record that names t would be logged under t, and t is new.      *)
      <4>1. record.transitionId # t
        BY <1>1, OwnershipConstants
           DEF LedgerInv, HistoryIsGapFree, RecordIsLogged, InitialOwnership
      <4> QED
        BY <3>1, <4>1, <1>7 DEF Produced
    <3>2. CASE res # record
      BY <3>2, <1>3, <1>4, <1>7 DEF Produced, Logged
    <3> QED
      BY <3>1, <3>2
  <2>5. \A v \in Nat : ~Produced(t, v)
    BY <1>1 DEF Produced
  <2>6. \A v \in 1..record'.version : \E s \in TransitionIds : Produced(s, v)'
    <3> SUFFICES ASSUME NEW v \in 1..record'.version
                 PROVE  \E s \in TransitionIds : Produced(s, v)'
      OBVIOUS
    <3>1. v \in Nat /\ (v \in 1..record.version \/ (res # record /\ v = record.version + 1))
      BY <1>2, <1>3, <1>5
    <3>2. CASE v \in 1..record.version
      <4>1. PICK s \in TransitionIds : Produced(s, v)
        BY <3>2 DEF LedgerInv, HistoryIsGapFree
      <4> QED
        BY <4>1, <3>1, <2>3, <2>5
    <3>3. CASE res # record /\ v = record.version + 1
      BY <3>1, <3>3, <2>4, <1>1
    <3> QED
      BY <3>1, <3>2, <3>3
  <2>7. \A r, s \in TransitionIds : \A v \in 1..record'.version :
           Produced(r, v)' /\ Produced(s, v)' => r = s
    <3> SUFFICES ASSUME NEW r \in TransitionIds, NEW s \in TransitionIds,
                        NEW v \in 1..record'.version,
                        Produced(r, v)', Produced(s, v)'
                 PROVE  r = s
      OBVIOUS
    <3>1. v \in Nat /\ 1 <= v
      BY <1>2, <1>3, <1>5
    (* No transition but t produced a version beyond the old record's.     *)
    <3>2. \A q \in TransitionIds : q # t /\ Produced(q, v)' => v <= record.version
      BY <3>1, <2>3 DEF LedgerInv, HistoryIsGapFree, Produced
    <3>3. CASE r # t /\ s # t
      <4>1. Produced(r, v) /\ Produced(s, v) /\ v \in 1..record.version
        BY <3>1, <3>2, <3>3, <2>3, <1>2
      <4> QED
        BY <4>1 DEF LedgerInv, HistoryIsGapFree
    <3>4. CASE r = t \/ s = t
      BY <3>1, <3>2, <3>4, <2>4, <1>2
    <3> QED
      BY <3>3, <3>4
  <2> QED
    BY <2>1, <2>2, <2>6, <2>7 DEF HistoryIsGapFree
<1> QED
  BY <1>8, <1>9, <1>10 DEF LedgerInv
-----------------------------------------------------------------------------
(* A step of the ledger is the transition of one request.                  *)
LEMMA LedgerStep ==
    ASSUME LedgerNext
    PROVE  \E req \in Request : Transition(req)
<1>1. PICK t \in TransitionIds, k \in Commands, e \in ExpectedVersions :
          Transition([tid |-> t, command |-> k, expected |-> e])
  BY DEF LedgerNext
<1> QED
  BY <1>1 DEF Request

LEMMA LedgerInvKept == LedgerInv /\ [LedgerNext]_ledger => LedgerInv'
<1> SUFFICES ASSUME LedgerInv, [LedgerNext]_ledger PROVE LedgerInv'
  OBVIOUS
<1>1. ASSUME NEW req \in Request, Transition(req)
      PROVE  LedgerInv'
  <2>1. req.tid \in TransitionIds
    BY DEF Request
  <2> QED
    BY <1>1, <2>1, TransitionKeeps
<1>2. CASE UNCHANGED ledger
  BY <1>2 DEF ledger, LedgerInv, LedgerTypeOK, HistoryIsGapFree, RecordIsLogged,
              Produced, Logged, ExpectedVersionHonoured
<1> QED
  BY <1>1, <1>2, LedgerStep

(* For any transitions, in any order: the history has no gap and no fork,  *)
(* and an expected version is the one a transition was applied to.         *)
THEOREM LedgerHistory == LedgerSpec => []LedgerInv
BY InitLedgerInv, LedgerInvKept, PTL DEF LedgerSpec

LEMMA ReleaseRecorded ==
    LedgerInv /\ [LedgerNext]_ledger =>
        [record.state = "HUMAN_ACTIVE" /\ record'.state # "HUMAN_ACTIVE" =>
           \E t \in TransitionIds :
               /\ log[t] = NotLogged /\ log'[t] # NotLogged
               /\ log'[t].command = "release_to_agent"
               /\ record' = log'[t].result]_<<record, log>>
<1> SUFFICES ASSUME LedgerInv, [LedgerNext]_ledger, record' # record,
                    record.state = "HUMAN_ACTIVE", record'.state # "HUMAN_ACTIVE"
             PROVE  \E t \in TransitionIds :
                        /\ log[t] = NotLogged /\ log'[t] # NotLogged
                        /\ log'[t].command = "release_to_agent"
                        /\ record' = log'[t].result
  OBVIOUS
<1>1. PICK req \in Request : Transition(req)
  BY LedgerStep DEF ledger
<1> DEFINE res == Outcome(req, record)
           ent == [command |-> req.command, expected |-> req.expected,
                   result |-> res]
<1>2. req.tid \in TransitionIds /\ req.command \in Commands
  BY DEF Request
<1>3. record \in Record /\ res \in Record
  BY OutcomeShape DEF LedgerInv, LedgerTypeOK
<1>4. record' = res /\ log' = [log EXCEPT ![req.tid] = ent] /\ ~Logged(req.tid)
  BY <1>1 DEF Transition
<1>5. ent \in Entry /\ ent # NotLogged
  BY <1>3, OwnershipConstants DEF Entry, Request
<1>6. res.state = NextStateFor("HUMAN_ACTIVE", req.command)
  BY <1>3, <1>4, OutcomeShape
<1>7. req.command = "release_to_agent"
  BY <1>2, <1>4, <1>6, OnlyReleaseLeavesHuman
<1>8. log'[req.tid] = ent
  BY <1>2, <1>4 DEF LedgerInv, LedgerTypeOK
<1> QED
  BY <1>2, <1>4, <1>5, <1>7, <1>8 DEF Logged

(* A human keeps the conversation until a release is recorded.             *)
THEOREM LedgerKeepsHuman == LedgerSpec => HumanKeepsConversation
BY ReleaseRecorded, LedgerHistory, PTL DEF LedgerSpec, HumanKeepsConversation
=============================================================================
