---------------------------- MODULE MCDurableJobs ----------------------------
(***************************************************************************)
(* Two workers, two jobs of two attempts each, and two faults: enough for  *)
(* a worker that outlives its lease, one that takes the job over, and a    *)
(* crash or a lost acknowledgement on top.                                 *)
(***************************************************************************)
EXTENDS DurableJobs
=============================================================================
