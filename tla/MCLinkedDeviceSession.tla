------------------------- MODULE MCLinkedDeviceSession -------------------------
(***************************************************************************)
(* One session.  Two failures give three clients, enough for a timer of a  *)
(* superseded record to meet its successor's; with one failure two clients *)
(* see the same message while two flush runs overlap and the worker stops. *)
(***************************************************************************)
EXTENDS LinkedDeviceSession

Bound(f, s, r, a) == [failures |-> f, stops |-> s, refusals |-> r, arrivals |-> a]
MCBudgets == {Bound(2, 1, 0, 0), Bound(1, 1, 1, 2)}
MCFailures == {Bound(3, 0, 0, 0)}
=============================================================================
