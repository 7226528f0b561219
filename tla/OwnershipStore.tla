---------------------------- MODULE OwnershipStore ----------------------------
(***************************************************************************)
(* What ConversationOwnershipStore.transition promises its callers, for    *)
(* one conversation: each call takes effect at one instant between its     *)
(* start and its answer, a transitionId takes effect once and is answered  *)
(* alike ever after, and a stale expectedVersion is refused.  A call may   *)
(* also end in an error, with or without its effect: that is what a lost   *)
(* connection or a crashed process leaves behind.                          *)
(***************************************************************************)
EXTENDS OwnershipCalls, OwnershipLedger

VARIABLES request,       \* caller -> the call it has under way
          reply          \* caller -> what the call returned or threw

storeVars == <<record, log, request, reply>>

TypeOK ==
    /\ LedgerTypeOK
    /\ request \in [Callers -> Request \cup {NoRequest}]
    /\ reply \in [Callers -> Replies \cup {NoReply}]

Init ==
    /\ LedgerInit
    /\ request = [c \in Callers |-> NoRequest]
    /\ reply = [c \in Callers |-> NoReply]

Submit(c, req) ==
    /\ request[c] = NoRequest
    /\ request' = [request EXCEPT ![c] = req]
    /\ UNCHANGED <<record, log, reply>>

Answer(c, r) ==
    /\ request[c] # NoRequest
    /\ reply[c] = NoReply
    /\ reply' = [reply EXCEPT ![c] = r]
    /\ UNCHANGED request

(* The transitionId is already recorded: the recorded result, again.       *)
Repeat(c) ==
    /\ request[c] # NoRequest
    /\ Logged(request[c].tid)
    /\ Answer(c, log[request[c].tid].result)
    /\ UNCHANGED <<record, log>>

Refuse(c) ==
    /\ request[c] # NoRequest
    /\ ~Logged(request[c].tid)
    /\ ~VersionMatches(request[c], record)
    /\ Answer(c, Conflict)
    /\ UNCHANGED <<record, log>>

(* The call takes effect; the caller learns of it, or only of an error.    *)
Apply(c) ==
    /\ request[c] # NoRequest
    /\ Transition(request[c])
    /\ \/ Answer(c, Outcome(request[c], record))
       \/ Answer(c, Failed)

(* An error before anything was written.                                   *)
Fail(c) ==
    /\ Answer(c, Failed)
    /\ UNCHANGED <<record, log>>

(* The caller goes on: it has its answer, or its process died.             *)
Leave(c) ==
    /\ request[c] # NoRequest
    /\ request' = [request EXCEPT ![c] = NoRequest]
    /\ reply' = [reply EXCEPT ![c] = NoReply]
    /\ UNCHANGED <<record, log>>

Next ==
    \E c \in Callers :
        \/ \E req \in Requests : Submit(c, req)
        \/ Repeat(c) \/ Refuse(c) \/ Apply(c) \/ Fail(c) \/ Leave(c)

Spec == Init /\ [][Next]_storeVars
------------------------------------------------------------------------------
(* Whoever asks with a transitionId gets what is recorded under it: a      *)
(* retry of a transition returns the result of the first attempt.          *)
RetriesAgree ==
    \A c \in Callers :
        reply[c] \in Record =>
            /\ request[c] # NoRequest
            /\ Logged(request[c].tid)
            /\ log[request[c].tid].result = reply[c]
=============================================================================
