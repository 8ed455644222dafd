----------------------------- MODULE PackmlChart -----------------------------
(***************************************************************************)
(* The PackML state chart as packml_sm builds it: the seventeen states,     *)
(* the two super states, the transitions that generate_all_packml_states    *)
(* creates, the test every transition applies to an event, and the states   *)
(* each mode makes available.  The module has no variable: StateMachine     *)
(* runs the chart, and the theorems about it are in StateMachineProofs.     *)
(***************************************************************************)
EXTENDS Naturals

CONSTANT Cycle   \* which StateMachine is built: SingleCycle or ContinuousCycle

ASSUME CycleAssumption == Cycle \in {"single", "continuous"}

-----------------------------------------------------------------------------
(* States, commands, events, modes.                                         *)

WaitStates == {"ABORTED", "STOPPED", "IDLE", "HELD", "SUSPENDED", "COMPLETE"}

ActingStates == {"ABORTING", "CLEARING", "STOPPING", "RESETTING", "STARTING",
                 "EXECUTE", "HOLDING", "UNHOLDING", "SUSPENDING",
                 "UNSUSPENDING", "COMPLETING"}

States == WaitStates \cup ActingStates

\* The enumerators of State: a std::map<State, bool> is walked in this order.
Code == [CLEARING |-> 1, STOPPED |-> 2, STARTING |-> 3, IDLE |-> 4,
         SUSPENDED |-> 5, EXECUTE |-> 6, STOPPING |-> 7, ABORTING |-> 8,
         ABORTED |-> 9, HOLDING |-> 10, HELD |-> 11, UNHOLDING |-> 12,
         SUSPENDING |-> 13, UNSUSPENDING |-> 14, RESETTING |-> 15,
         COMPLETING |-> 16, COMPLETE |-> 17]

\* generate_transition picks the command of a COMMAND transition by its target.
CommandTo == [CLEARING |-> "CLEAR", STARTING |-> "START", STOPPING |-> "STOP",
              ABORTING |-> "ABORT", HOLDING |-> "HOLD", UNHOLDING |-> "UNHOLD",
              SUSPENDING |-> "SUSPEND", UNSUSPENDING |-> "UNSUSPEND",
              RESETTING |-> "RESET"]

Commands == {"CLEAR", "START", "STOP", "ABORT", "HOLD", "UNHOLD", "SUSPEND",
             "UNSUSPEND", "RESET"}

\* A CmdEvent is its command; "SC" is StateCompleteEvent, "ERR" is ErrorEvent.
Events == Commands \cup {"SC", "ERR"}

ModeTypes == {"UNDEFINED", "PRODUCTION", "MAINTENANCE", "MANUAL", "USER_DEFINED"}

-----------------------------------------------------------------------------
(* Super states.  STOPPABLE is a child of ABORTABLE.                        *)

\* Mutant: STOPPED is put under the stoppable super state.
StoppableWithStopped ==
  {"RESETTING", "IDLE", "STARTING", "EXECUTE", "HOLDING", "HELD", "UNHOLDING",
   "SUSPENDING", "SUSPENDED", "UNSUSPENDING", "COMPLETING", "COMPLETE", "STOPPED"}

Stoppable == {"RESETTING", "IDLE", "STARTING", "EXECUTE", "HOLDING", "HELD",
              "UNHOLDING", "SUSPENDING", "SUSPENDED", "UNSUSPENDING",
              "COMPLETING", "COMPLETE"}

\* Mutant: STOPPABLE is not made a child of ABORTABLE.
AbortableFlat == {"CLEARING", "STOPPING", "STOPPED"}

Abortable == Stoppable \cup {"CLEARING", "STOPPING", "STOPPED"}

\* A state and the super states around it: the sources whose transitions the
\* event loop tests when the state is active.
Lineage(s) == {s} \cup (IF s \in Stoppable THEN {"STOPPABLE"} ELSE {})
                  \cup (IF s \in Abortable THEN {"ABORTABLE"} ELSE {})

-----------------------------------------------------------------------------
(* Transitions.                                                             *)

Edge(from, on, to) == [from |-> from, on |-> on, to |-> to]
Cmd(from, to)      == Edge(from, CommandTo[to], to)
Completes(from, to) == Edge(from, "SC", to)

\* ContinuousCycle::init replaces the completion of EXECUTE by a self loop.
ExecuteDone == IF Cycle = "continuous" THEN "EXECUTE" ELSE "COMPLETING"

Transitions ==
  { Cmd("ABORTABLE", "ABORTING"),       Edge("ABORTABLE", "ERR", "ABORTING"),
    Completes("ABORTING", "ABORTED"),   Cmd("ABORTED", "CLEARING"),
    Completes("CLEARING", "STOPPED"),   Cmd("STOPPABLE", "STOPPING"),
    Completes("STOPPING", "STOPPED"),   Cmd("STOPPED", "RESETTING"),
    Completes("RESETTING", "IDLE"),     Cmd("IDLE", "STARTING"),
    Completes("STARTING", "EXECUTE"),   Cmd("EXECUTE", "HOLDING"),
    Completes("HOLDING", "HELD"),       Cmd("HELD", "UNHOLDING"),
    Completes("UNHOLDING", "EXECUTE"),  Cmd("EXECUTE", "SUSPENDING"),
    Completes("SUSPENDING", "SUSPENDED"), Cmd("SUSPENDED", "UNSUSPENDING"),
    Completes("UNSUSPENDING", "EXECUTE"), Completes("EXECUTE", ExecuteDone),
    Completes("COMPLETING", "COMPLETE"), Cmd("COMPLETE", "RESETTING") }

\* The transitions that pass eventTest for event e in state s.  avail are
\* the states whose "Available" property is set; the test looks at the target.
Enabled(s, e, avail) ==
  {t \in Transitions : t.from \in Lineage(s) /\ t.on = e /\ t.to \in avail}

\* Mutant: the super states' transitions are not tested.
AcceptedInnermost(s, e, avail) ==
  \/ Enabled(s, e, avail) # {}
  \/ \A t \in Transitions : t.from = s => t.on \notin Commands

\* The accepted flag of a command event after selection.  A QEvent is born
\* accepted; a CmdTransition that is tested and does not fire ignores it, and
\* transitions of the other kinds leave the flag alone.
Accepted(s, e, avail) ==
  \/ Enabled(s, e, avail) # {}
  \/ \A t \in Transitions : t.from \in Lineage(s) => t.on \notin Commands

-----------------------------------------------------------------------------
(* The states a mode makes available (StateMachine::changeMode).            *)

AvailableIn(mode) ==
  IF mode = "MAINTENANCE" THEN States \ {"COMPLETING"} ELSE States

\* StatesGenerator::switch_states, the states a mode may be switched in.
SwitchStates == {"IDLE"}

=============================================================================
