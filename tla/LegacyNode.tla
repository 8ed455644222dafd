------------------------------ MODULE LegacyNode ------------------------------
(***************************************************************************)
(* SMNode of packml_ros.hpp with the panel it was made for: the panel polls  *)
(* its allStatus service and sends a transition request for every click.     *)
(*                                                                          *)
(* The node has one thread, the machine's caller: while it waits for the     *)
(* answer to a command no poll is answered, and the panel gives up.  The     *)
(* panel does not wait for the answer to a click and does not look at it.    *)
(*                                                                          *)
(* SMNode also is a PackmlManagerInterface, whose init makes three services  *)
(* of its own in the same thread: changeState, changeMode, and a second one  *)
(* of the name allStatus, which answers with no state at all.  Each of the   *)
(* two gets every poll, and the client goes by the answer that comes first.  *)
(***************************************************************************)
EXTENDS StateMachine, PackmlPanel, Integers

CONSTANTS
  Clicked,      \* the commands the operator clicks on
  Requested,    \* the commands that others send to the inherited changeState
  MaxPresses,   \* bound: the transition requests under way at once
  MaxLead       \* bound: the polls one allStatus may be ahead of the other

ASSUME LegacyAssumption ==
  /\ Clicked \subseteq Commands /\ Requested \subseteq Commands
  /\ MaxPresses \in Nat /\ MaxLead \in Nat
  /\ "Succeeds" \in UserMethods

VARIABLES
  presses,   \* the transition requests under way
  inherited, \* the inherited handler the node's thread is in, and where
  lead,      \* how many polls the inherited allStatus is ahead of the other
  since      \* history: what getCurrentState() was since the panel polled

nodeVars == <<presses, inherited, lead>>
legacyVars == <<vars, panelVars, nodeVars, since>>

LegacyInit ==
  /\ Init /\ PanelInit
  /\ presses = <<>> /\ inherited = "None" /\ lead = 0
  /\ since = {}

\* A step of the machine or of its caller.
Machine(A) ==
  /\ A
  /\ since' = since \cup {state_value'}
  /\ UNCHANGED <<panelVars, presses, lead>>

\* One that is not in an inherited handler, or stays where it is in that.
Simply(A) == Machine(A) /\ UNCHANGED inherited

-----------------------------------------------------------------------------
(* The node's thread: the constructor, then the executor.                   *)

\* myExecuteMethod returns 0.
BindsExecute ==
  /\ user_method["EXECUTE"] = "None"
  /\ Bind("EXECUTE", "Succeeds")

Activates == user_method["EXECUTE"] # "None" /\ Activate

\* The thread is in no handler.
Serving == lifecycle # "NotRunning" /\ pc = "Ready" /\ inherited = "None"

\* transRequest.  Its answer, on which nobody waits, is left out.
TransRequest ==
  /\ Serving /\ presses # <<>>
  /\ ChangeState(Head(presses))
  /\ presses' = Tail(presses)
  /\ UNCHANGED <<panelVars, inherited, lead, since>>

\* modeRequest, of another client than the panel.
ModeRequest(m) == Serving /\ ChangeMode(m)

\* The inherited changeState and changeMode.
OnChangeState(c) ==
  /\ Serving
  /\ Machine(ChangeState(c))
  /\ inherited' = "ChangeState"

OnChangeMode(m) ==
  /\ Serving
  /\ Machine(ChangeMode(m))
  /\ inherited' = "ChangeMode"

\* The machine has answered.  After a success the inherited changeState waits
\* for changed_prom_, which nobody sets in this node, and the inherited
\* changeMode asks the nodes of the line.
HandlerGoesOn ==
  \/ Simply(PostCommand \/ SetAvailable)
  \/ /\ Machine(GetAnswer)
     /\ inherited' = IF inherited = "ChangeState" /\ prom = "Accepted"
                       THEN "Promise" ELSE "None"
  \/ /\ Machine(CommitMode)
     /\ inherited' = IF inherited = "ChangeMode" THEN "Round" ELSE "None"

\* The round with the nodes may be over some time.  The status it publishes is
\* not followed by the panel.
RoundOver ==
  /\ inherited = "Round"
  /\ inherited' = "None"
  /\ UNCHANGED <<vars, panelVars, presses, lead, since>>

\* statusRequest: the state that getCurrentState() returns, and no other.
StatusRequest ==
  /\ Serving
  /\ lead > -MaxLead /\ lead' = lead - 1
  /\ IF lead > 0 THEN UNCHANGED panelVars
                 ELSE Answered({state_value} \cap States)
  /\ UNCHANGED <<vars, presses, inherited, since>>

\* on_all_status, which leaves the answer as it is: no state is set.
OnAllStatus ==
  /\ Serving
  /\ lead < MaxLead /\ lead' = lead + 1
  /\ IF lead < 0 THEN UNCHANGED panelVars ELSE Answered({})
  /\ UNCHANGED <<vars, presses, inherited, since>>

NodeThread ==
  \/ Simply(BindsExecute) \/ Simply(Activates) \/ HandlerGoesOn
  \/ TransRequest \/ StatusRequest \/ OnAllStatus

-----------------------------------------------------------------------------
(* The panel's thread.                                                      *)

Polls ==
  /\ Poll
  /\ since' = {state_value}
  /\ UNCHANGED <<vars, nodeVars>>

PanelTakes == (Takes \/ TakesLate) /\ UNCHANGED <<vars, nodeVars, since>>

PanelGivesUp == GivesUp /\ UNCHANGED <<vars, nodeVars, since>>

\* onStartButton and the like.
Presses(c) ==
  /\ Clicks(c)
  /\ Len(presses) < MaxPresses
  /\ presses' = Append(presses, c)
  /\ UNCHANGED <<vars, inherited, lead, since>>

-----------------------------------------------------------------------------
LegacyNext ==
  \/ Simply(QtThread)
  \/ \E s \in ActingStates : Simply(Operation(s))
  \/ NodeThread \/ RoundOver
  \/ \E m \in Modes : Simply(ModeRequest(m)) \/ OnChangeMode(m)
  \/ \E c \in Requested : OnChangeState(c)
  \/ Polls \/ PanelTakes \/ PanelGivesUp
  \/ \E c \in Clicked : Presses(c)

\* The threads are scheduled, operations return and the timer goes off.  The
\* executor serves each of its services in turn.  No round has to end.
LegacyFairness ==
  /\ WF_legacyVars(Simply(QtThread))
  /\ WF_legacyVars(\E s \in ActingStates : Simply(Operation(s)))
  /\ WF_legacyVars(NodeThread)
  /\ SF_legacyVars(StatusRequest) /\ SF_legacyVars(OnAllStatus)
  /\ WF_legacyVars(Polls) /\ WF_legacyVars(PanelTakes)

LegacySpec == LegacyInit /\ [][LegacyNext]_legacyVars /\ LegacyFairness

-----------------------------------------------------------------------------
(* Properties.                                                              *)

LegacyTypeOK ==
  /\ TypeOK /\ PanelTypeOK
  /\ presses \in Seq(Commands) /\ Len(presses) =< MaxPresses
  /\ inherited \in {"None", "ChangeState", "Promise", "ChangeMode", "Round"}
  /\ lead \in -MaxLead..MaxLead
  /\ since \subseteq States \cup {"UNDEFINED"}

\* The panel lights one state at most, and one the machine was in since the
\* panel polled for it, however late the node answers, whichever of the two
\* services is first, and however many polls the panel has given up before.
LitSincePoll ==
  [][ lit' # lit => (lit' \subseteq since /\ \A r, s \in lit' : r = s) ]_legacyVars

\* The node's thread waits for what need not come: the answer to a command that
\* was dropped, changed_prom_, or the round of the inherited changeMode.
Stuck ==
  \/ pc = "Wait" /\ prom = "Unset" /\ CommandsIn(queue) = {}
  \/ inherited \in {"Promise", "Round"}

\* When the machine comes to rest, and polls are answered in time from then on,
\* the panel ends up showing no other state than the machine's, unless the node
\* hangs.  It may show none: the service that names no state may be first.
PanelShowsState ==
  \/ []<><<PanelGivesUp \/ state_value' # state_value>>_legacyVars
  \/ <>[](lit \subseteq {state_value} \/ Stuck)

=============================================================================
