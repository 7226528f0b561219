---------------------------- MODULE MCModelGateway ----------------------------
(***************************************************************************)
(* Three requests for two slots; a route of three candidates, one of them  *)
(* without a provider; circuits that open at the second failure.           *)
(***************************************************************************)
EXTENDS ModelGateway, TLC
CONSTANTS c1, c2, c3
MCRoute == <<c1, c2, c3>>
=============================================================================
