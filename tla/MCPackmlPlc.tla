----------------------------- MODULE MCPackmlPlc -----------------------------
(***************************************************************************)
(* The PLC and the panel for TLC.                                           *)
(***************************************************************************)
EXTENDS PackmlPlc

\* A unit that is reset and started, its tags in the order in which the driver
\* reads them: against the way of the unit at first, with it afterwards.
TagsOfStart == <<"IDLE", "STARTING", "EXECUTE", "RESETTING">>

=============================================================================
