---------------------------- MODULE OwnershipCalls ----------------------------
(***************************************************************************)
(* Concurrent calls of ConversationOwnershipStore.transition and their     *)
(* answers, as the abstract store and its implementations share them.      *)
(***************************************************************************)
EXTENDS ConversationOwnership

CONSTANTS Callers,          \* concurrent calls of transition
          Requests,         \* the calls they may make
          NoRequest, NoReply,
          Failed            \* any error but a version conflict

Replies == Record \cup {Conflict, Failed}

ASSUME CallConstants ==
    /\ Requests \subseteq Request
    /\ NoRequest \notin Request
    /\ NoReply \notin Replies
    /\ Failed \notin Record
=============================================================================
