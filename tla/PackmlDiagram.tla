---------------------------- MODULE PackmlDiagram ----------------------------
(***************************************************************************)
(* The PackML diagram as an operator knows it: the buttons the RViz panel   *)
(* enables in each state, and where they lead.  It is read from the panel   *)
(* and from the follow_diagram tests, not from the chart that the           *)
(* StatesGenerator builds, so that comparing the two says something.        *)
(***************************************************************************)
EXTENDS PackmlChart

\* The buttons that PackmlWidget::updateButtonState enables in each state, after
\* disableAllButtons: none in ABORTING.
Buttons(s) ==
  CASE s = "STOPPED"   -> {"ABORT", "RESET"}
    [] s = "IDLE"      -> {"STOP", "ABORT", "START"}
    [] s = "EXECUTE"   -> {"STOP", "ABORT", "HOLD", "SUSPEND"}
    [] s = "COMPLETE"  -> {"STOP", "ABORT", "RESET"}
    [] s = "SUSPENDED" -> {"STOP", "ABORT", "UNSUSPEND"}
    [] s = "HELD"      -> {"STOP", "ABORT", "UNHOLD"}
    [] s = "ABORTED"   -> {"CLEAR"}
    [] s \in {"CLEARING", "STOPPING"} -> {"ABORT"}
    [] s \in {"STARTING", "COMPLETING", "HOLDING", "UNHOLDING", "SUSPENDING",
              "UNSUSPENDING", "RESETTING"} -> {"STOP", "ABORT"}
    [] OTHER -> {}

\* The state each command leads to, and the state that follows each acting
\* state, in the walks of the single and the continuous follow_diagram test.
Leads == [CLEAR |-> "CLEARING", START |-> "STARTING", STOP |-> "STOPPING",
          ABORT |-> "ABORTING", HOLD |-> "HOLDING", UNHOLD |-> "UNHOLDING",
          SUSPEND |-> "SUSPENDING", UNSUSPEND |-> "UNSUSPENDING",
          RESET |-> "RESETTING"]

After == [ABORTING |-> "ABORTED", CLEARING |-> "STOPPED",
          STOPPING |-> "STOPPED", RESETTING |-> "IDLE",
          STARTING |-> "EXECUTE", HOLDING |-> "HELD",
          UNHOLDING |-> "EXECUTE", SUSPENDING |-> "SUSPENDED",
          UNSUSPENDING |-> "EXECUTE", COMPLETING |-> "COMPLETE",
          EXECUTE |-> IF Cycle = "single" THEN "COMPLETING" ELSE "EXECUTE"]

=============================================================================
