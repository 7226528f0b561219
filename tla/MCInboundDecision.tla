--------------------------- MODULE MCInboundDecision ---------------------------
(***************************************************************************)
(* One message is enough for redelivery, retry, takeover and failure to    *)
(* meet; two requests and two workers make each of them overlap.           *)
(***************************************************************************)
EXTENDS InboundDecision
=============================================================================
