---------------------------- MODULE MCHumanTakeover ----------------------------
(***************************************************************************)
(* Two deliveries at once against one management call: redelivery, version *)
(* conflict and failure all meet.                                          *)
(***************************************************************************)
EXTENDS HumanTakeover

MCTransitionIds == Observations \cup Operations
MCExpectedVersions == 0..3
=============================================================================
