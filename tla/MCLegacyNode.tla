---------------------------- MODULE MCLegacyNode ----------------------------
(***************************************************************************)
(* LegacyNode for TLC.                                                      *)
(***************************************************************************)
EXTENDS LegacyNode

\* Bound: what the uninitialised state_value_ may hold, a state in which a mode
\* may be switched and a value that is no state.
Garbage == {"IDLE", "UNDEFINED"}

BoundedInit == LegacyInit /\ state_value \in Garbage

BoundedSpec == BoundedInit /\ [][LegacyNext]_legacyVars /\ LegacyFairness

=============================================================================
