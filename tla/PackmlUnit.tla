----------------------------- MODULE PackmlUnit -----------------------------
(***************************************************************************)
(* What an operator may rely on when looking at one PackML machine: the     *)
(* state that is shown follows the PackML diagram, which the RViz panel     *)
(* draws and the follow_diagram tests walk through; only a command whose    *)
(* button the panel enables in the current state moves the unit; and the    *)
(* next state is shown only when the work of the previous one is over.      *)
(*                                                                          *)
(* The module says nothing of threads, events, modes or promises.           *)
(* StateMachine implements it.                                              *)
(***************************************************************************)
EXTENDS PackmlDiagram

VARIABLES
  unit,     \* the state the unit is in, or is committed to go to
  shown,    \* the state last reported
  working   \* whether the method of a state is at work

uvars == <<unit, shown, working>>

Off == "Off"

-----------------------------------------------------------------------------
Init == unit = Off /\ shown = Off /\ working = FALSE

PowerUp ==
  /\ unit = Off
  /\ unit' = "ABORTED" /\ shown' = "ABORTED"
  /\ UNCHANGED working

\* An operator's command, a completion and a failure commit the unit to its
\* next state; none of them happens while the unit is between two states.
Commit(s) ==
  /\ shown = unit /\ unit # Off
  /\ unit' = s
  /\ UNCHANGED <<shown, working>>

Operator(c) == c \in Buttons(unit) /\ Commit(Leads[c])

Complete == unit \in ActingStates /\ Commit(After[unit])

Fail == unit \notin {"ABORTING", "ABORTED"} /\ Commit("ABORTING")

Show ==
  /\ shown # unit /\ ~working
  /\ shown' = unit
  /\ UNCHANGED <<unit, working>>

Begin ==
  /\ shown = unit /\ unit \in ActingStates /\ ~working
  /\ working' = TRUE
  /\ UNCHANGED <<unit, shown>>

End == working /\ working' = FALSE /\ UNCHANGED <<unit, shown>>

Next ==
  \/ PowerUp \/ Complete \/ Fail \/ Show \/ Begin \/ End
  \/ \E c \in Commands : Operator(c)

SafeSpec == Init /\ [][Next]_uvars

\* Work ends, and then the state the unit is committed to is shown.
Spec == SafeSpec /\ WF_uvars(Show) /\ WF_uvars(End)

=============================================================================
