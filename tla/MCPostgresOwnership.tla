------------------------- MODULE MCPostgresOwnership -------------------------
(* Two concurrent calls over two transitionIds.  The reachable versions    *)
(* are 0..2, so the expected versions 0 and 1 are each right at one moment *)
(* and stale at another.  The commands are the two the application sends   *)
(* and a third that reaches a state neither of them leaves.                *)
EXTENDS PostgresOwnership, TLC

MCRequests ==
    [tid : TransitionIds, command : {"manual_takeover"},
     expected : {AnyVersion, 0, 1}]
    \cup [tid : TransitionIds, command : {"release_to_agent"}, expected : {0, 1}]
    \cup [tid : TransitionIds, command : {"pause_agent"}, expected : {AnyVersion}]
=============================================================================
