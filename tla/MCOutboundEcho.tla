---------------------------- MODULE MCOutboundEcho ----------------------------
(***************************************************************************)
(* Two sends on a queue of one or of two, so that the second is refused or *)
(* waits behind the first, one message typed meanwhile, and one fault.     *)
(***************************************************************************)
EXTENDS OutboundEcho
=============================================================================
