------------------------ MODULE ConversationOwnership ------------------------
(***************************************************************************)
(* Who may speak in one conversation: the ownership state machine of       *)
(* src/domain/conversation-ownership.js, as pure operators.  A record      *)
(* keeps what the code branches on (state, version, transitionId); when,   *)
(* by whom and why it changed (changedAt, changedBy, reasonCode) is data   *)
(* that no guard reads.                                                    *)
(***************************************************************************)
EXTENDS Naturals

CONSTANTS TransitionIds,    \* the idempotency keys callers may use
          NoTransition,     \* the null transitionId of the default record
          ExpectedVersions, \* what a caller may pass as expectedVersion
          AnyVersion,       \* no expectedVersion: the caller does not care
          Conflict,         \* ownership_version_conflict
          NotLogged         \* no transition with this id has been recorded

States == {"AI_ACTIVE", "WAITING_APPROVAL", "HUMAN_REQUESTED", "HUMAN_ACTIVE",
           "AI_PAUSED"}

(* What each command does, as in nextStateFor: the states it leaves and    *)
(* the one it enters.  In any other state a command changes nothing.       *)
Moves ==
    [manual_takeover   |-> [from |-> States, to |-> "HUMAN_ACTIVE"],
     request_handoff   |-> [from |-> {"AI_ACTIVE"}, to |-> "HUMAN_REQUESTED"],
     wait_for_approval |-> [from |-> {"AI_ACTIVE"}, to |-> "WAITING_APPROVAL"],
     approval_resolved |-> [from |-> {"WAITING_APPROVAL"}, to |-> "AI_ACTIVE"],
     pause_agent       |-> [from |-> States \ {"HUMAN_ACTIVE"}, to |-> "AI_PAUSED"],
     release_to_agent  |-> [from |-> {"HUMAN_ACTIVE"}, to |-> "AI_ACTIVE"],
     resume_agent      |-> [from |-> {"AI_PAUSED"}, to |-> "AI_ACTIVE"]]

Commands == DOMAIN Moves

Record == [state : States,
           version : Nat,
           transitionId : TransitionIds \cup {NoTransition}]

InitialOwnership ==
    [state |-> "AI_ACTIVE", version |-> 0, transitionId |-> NoTransition]

(* Mutant: the agent may be paused also while a human owns the chat.       *)
NextStateForPausesHuman(state, command) ==
    IF command = "pause_agent" \/ state \in Moves[command].from
    THEN Moves[command].to
    ELSE state

NextStateFor(state, command) ==
    IF state \in Moves[command].from THEN Moves[command].to ELSE state

(* A command that moves nothing returns the record as it is: neither the   *)
(* version nor the transitionId changes.                                   *)
TransitionOwnership(current, command, tid) ==
    IF \/ current.transitionId = tid
       \/ NextStateFor(current.state, command) = current.state
    THEN current
    ELSE [state |-> NextStateFor(current.state, command),
          version |-> current.version + 1,
          transitionId |-> tid]

------------------------------------------------------------------------------
(* A call of the store's transition, as assertOwnershipTransitionInput     *)
(* admits it.                                                              *)
Request == [tid : TransitionIds, command : Commands,
            expected : ExpectedVersions]

(* A recorded transition: the call and the record it resulted in.          *)
Entry == [command : Commands, expected : ExpectedVersions, result : Record]

ASSUME OwnershipConstants ==
    /\ NoTransition \notin TransitionIds
    /\ AnyVersion \notin Nat
    /\ ExpectedVersions \subseteq Nat \cup {AnyVersion}
    /\ Conflict \notin Record
    /\ NotLogged \notin Entry

VersionMatches(req, current) ==
    req.expected = AnyVersion \/ req.expected = current.version

Outcome(req, current) == TransitionOwnership(current, req.command, req.tid)
=============================================================================
