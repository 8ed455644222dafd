--------------------------- MODULE LegacyNodeProofs ---------------------------
(***************************************************************************)
(* What holds of every legacy node with its panel, whatever the operator    *)
(* clicks, the modes that are requested and the polls that are given up.    *)
(***************************************************************************)
EXTENDS LegacyNode, StateMachineProofs, PackmlPanelProofs

-----------------------------------------------------------------------------
(* The machine in the node.                                                 *)

NodeOK ==
  /\ presses \in Seq(Commands) /\ Len(presses) =< MaxPresses
  /\ inherited \in {"None", "ChangeState", "Promise", "ChangeMode", "Round"}
  /\ lead \in -MaxLead..MaxLead

\* Only clicks on buttons get into the queue of requests, and neither of the two
\* services gets further ahead than the bound.
LEMMA NodeStep == NodeOK /\ [LegacyNext]_legacyVars => NodeOK'
<1> SUFFICES ASSUME NodeOK, [LegacyNext]_legacyVars PROVE NodeOK'
  OBVIOUS
<1>1. CASE UNCHANGED nodeVars
  BY <1>1 DEF NodeOK, nodeVars
<1>2. CASE TransRequest
  <2>1. /\ Tail(presses) \in Seq(Commands) /\ Len(Tail(presses)) = Len(presses) - 1
        /\ Len(presses) \in Nat
    BY <1>2, HeadTailProperties, LenProperties DEF NodeOK, TransRequest
  <2> QED BY <1>2, <2>1, LegacyAssumption DEF NodeOK, TransRequest
<1>3. ASSUME NEW c \in Clicked, Presses(c) PROVE NodeOK'
  BY <1>3, LegacyAssumption DEF NodeOK, Presses
<1>4. CASE StatusRequest \/ OnAllStatus
  BY <1>4, LegacyAssumption DEF NodeOK, StatusRequest, OnAllStatus
<1>5. CASE \/ \E c \in Requested : OnChangeState(c)
           \/ \E m \in Modes : OnChangeMode(m)
           \/ HandlerGoesOn \/ RoundOver
  BY <1>5 DEF NodeOK, OnChangeState, OnChangeMode, HandlerGoesOn, RoundOver,
              Machine, Simply
<1>6. Polls \/ PanelTakes \/ PanelGivesUp => UNCHANGED nodeVars
  BY DEF Polls, PanelTakes, PanelGivesUp
<1>7. CASE \/ Simply(QtThread) \/ (\E s \in ActingStates : Simply(Operation(s)))
           \/ Simply(BindsExecute) \/ Simply(Activates)
           \/ (\E m \in Modes : Simply(ModeRequest(m)))
  BY <1>1, <1>7 DEF Simply, Machine, nodeVars
<1> QED BY <1>1, <1>2, <1>3, <1>4, <1>5, <1>6, <1>7
        DEF LegacyNext, NodeThread, legacyVars

\* Every step of the node is a step of the machine or leaves it alone.
LEMMA LegacyStepsMachine == NodeOK /\ [LegacyNext]_legacyVars => [Next]_vars
<1> SUFFICES ASSUME NodeOK, [LegacyNext]_legacyVars PROVE [Next]_vars
  OBVIOUS
<1>1. CASE Simply(QtThread) \/ (\E s \in ActingStates : Simply(Operation(s)))
  BY <1>1 DEF Simply, Machine, Next
<1>2. CASE Simply(BindsExecute)
  BY <1>2, LegacyAssumption DEF Simply, Machine, BindsExecute, Next, Caller, Bindable
<1>3. CASE Simply(Activates) \/ HandlerGoesOn
  BY <1>3 DEF Simply, Machine, Activates, HandlerGoesOn, CallGoesOn, Next, Caller
<1>4. CASE TransRequest
  <2>1. Head(presses) \in Commands
    BY <1>4 DEF NodeOK, TransRequest
  <2> QED BY <1>4, <2>1 DEF TransRequest, Next, Caller
<1>5. ASSUME NEW m \in Modes, Simply(ModeRequest(m)) \/ OnChangeMode(m)
      PROVE  [Next]_vars
  BY <1>5 DEF Simply, Machine, ModeRequest, OnChangeMode, Next, Caller
<1>6. ASSUME NEW c \in Requested, OnChangeState(c) PROVE [Next]_vars
  BY <1>6, LegacyAssumption DEF Machine, OnChangeState, Next, Caller
<1>7. CASE StatusRequest \/ OnAllStatus \/ RoundOver \/ Polls \/ PanelTakes
             \/ PanelGivesUp \/ (\E c \in Clicked : Presses(c))
  BY <1>7 DEF StatusRequest, OnAllStatus, RoundOver, Polls, PanelTakes,
              PanelGivesUp, Presses
<1>8. CASE UNCHANGED legacyVars
  BY <1>8 DEF legacyVars
<1> QED BY <1>1, <1>2, <1>3, <1>4, <1>5, <1>6, <1>7, <1>8 DEF LegacyNext, NodeThread

\* NodeOK is an invariant.
LEMMA NodeTyped == LegacySpec => []NodeOK
<1>1. LegacyInit => NodeOK
  BY LegacyAssumption DEF LegacyInit, NodeOK
<1> QED BY <1>1, NodeStep, PTL DEF LegacySpec

\* The legacy node drives its machine as any caller might: what is proved of every
\* machine holds of its machine, too.
THEOREM LegacyDrivesMachine == LegacySpec => SafeSpec
<1>1. LegacyInit => Init
  BY DEF LegacyInit
<1> QED BY <1>1, LegacyStepsMachine, NodeTyped, PTL DEF LegacySpec, SafeSpec

-----------------------------------------------------------------------------
(* What the panel shows of it.                                              *)

\* Since the panel polled, its machine was in the state it is in and in the one
\* that the answer names.
AnswerSince ==
  /\ since \subseteq States \cup {"UNDEFINED"}
  /\ polling => state_value \in since
  /\ Answering => LastAnswer \subseteq since /\ \A r, s \in LastAnswer : r = s

LegacyInv == PanelOK /\ AnswerSince

\* A step of the machine or of its caller keeps LegacyInv.
LEMMA MachineKeeps ==
  ASSUME Typed', LegacyInv, UNCHANGED panelVars,
         since' = since \cup {state_value'} \/ UNCHANGED <<since, state_value>>
  PROVE  LegacyInv' /\ UNCHANGED lit
<1>1. /\ PanelOK' /\ UNCHANGED <<lit, polling, asked>>
      /\ Answering' = Answering /\ LastAnswer' = LastAnswer
  BY PanelUnchanged DEF LegacyInv
<1>2. state_value' \in States \cup {"UNDEFINED"}
  BY DEF Typed, TypeOK
<1> QED BY <1>1, <1>2 DEF LegacyInv, AnswerSince

\* Every step keeps LegacyInv, and what the panel draws was so since its poll.
LEMMA LegacyStep ==
  ASSUME Typed, Typed', LegacyInv, [LegacyNext]_legacyVars
  PROVE  /\ LegacyInv'
         /\ lit' # lit => lit' \subseteq since /\ \A r, s \in lit' : r = s
<1>1. CASE UNCHANGED panelVars /\ (\/ since' = since \cup {state_value'}
                                   \/ UNCHANGED <<since, state_value>>)
  BY <1>1, MachineKeeps
<1>2. ASSUME StatusRequest \/ OnAllStatus, ~UNCHANGED panelVars
      PROVE  LegacyInv' /\ UNCHANGED lit
  <2>1. PICK named \in {{state_value} \cap States, {}} : Answered(named)
    BY <1>2 DEF StatusRequest, OnAllStatus
  <2>2. PanelOK' /\ UNCHANGED <<lit, polling>> /\ LastAnswer' = named
    BY <2>1, AnsweredStep DEF LegacyInv
  <2>3. UNCHANGED <<since, state_value>>
    BY <1>2 DEF StatusRequest, OnAllStatus, vars, qtVars
  <2> QED BY <2>1, <2>2, <2>3 DEF LegacyInv, AnswerSince, Answering
<1>3. CASE Polls
  <2>1. PanelOK' /\ ~Answering' /\ UNCHANGED <<lit, state_value>>
    BY <1>3, PollStep DEF Polls, Poll, LegacyInv, screen, vars, qtVars
  <2>2. state_value \in States \cup {"UNDEFINED"}
    BY DEF Typed, TypeOK
  <2> QED BY <1>3, <2>1, <2>2 DEF Polls, LegacyInv, AnswerSince
<1>4. CASE Takes /\ UNCHANGED <<vars, nodeVars, since>>
  <2>1. /\ PanelOK' /\ Answering /\ lit' = LastAnswer /\ ~Answering'
        /\ ~polling' /\ since' = since
    BY <1>4, TakesStep DEF LegacyInv, Takes
  <2> QED BY <2>1 DEF LegacyInv, AnswerSince
<1>5. CASE TakesLate /\ UNCHANGED <<vars, nodeVars, since>>
  <2>1. /\ PanelOK' /\ UNCHANGED lit
        /\ Answering' => Answering /\ LastAnswer' = LastAnswer
        /\ UNCHANGED <<polling, since, state_value>>
    BY <1>5, TakesLateStep DEF LegacyInv, TakesLate, vars, qtVars
  <2> QED BY <2>1 DEF LegacyInv, AnswerSince
<1>6. CASE PanelGivesUp
  <2>1. PanelOK' /\ UNCHANGED <<lit, since>> /\ ~Answering' /\ ~polling'
    BY <1>6, GivesUpStep DEF PanelGivesUp, GivesUp, LegacyInv
  <2> QED BY <2>1 DEF LegacyInv, AnswerSince
<1>7. CASE \/ TransRequest \/ RoundOver \/ (\E c \in Clicked : Presses(c))
           \/ UNCHANGED legacyVars
           \/ (StatusRequest \/ OnAllStatus) /\ UNCHANGED panelVars
  <2>1. UNCHANGED <<panelVars, since, state_value>>
    BY <1>7 DEF TransRequest, ChangeState, RoundOver, Presses, Clicks, StatusRequest,
                OnAllStatus, legacyVars, vars, qtVars
  <2> QED BY <1>1, <2>1
<1>8. CASE \/ Simply(QtThread) \/ (\E s \in ActingStates : Simply(Operation(s)))
           \/ Simply(BindsExecute) \/ Simply(Activates) \/ HandlerGoesOn
           \/ (\E m \in Modes : Simply(ModeRequest(m)) \/ OnChangeMode(m))
           \/ (\E c \in Requested : OnChangeState(c))
  <2>1. UNCHANGED panelVars /\ since' = since \cup {state_value'}
    BY <1>8 DEF Simply, Machine, HandlerGoesOn, OnChangeMode, OnChangeState
  <2> QED BY <1>1, <2>1
<1> QED BY <1>1, <1>2, <1>3, <1>4, <1>5, <1>6, <1>7, <1>8
        DEF LegacyNext, NodeThread, PanelTakes

\* LegacyInv is an invariant.
LEMMA LegacyInvariant == LegacySpec => [](Typed /\ LegacyInv)
<1>1. LegacyInit => LegacyInv
  <2> SUFFICES ASSUME LegacyInit PROVE LegacyInv
    OBVIOUS
  <2>1. PanelOK /\ ~Answering /\ ~polling
    BY PanelStarts DEF LegacyInit, PanelInit, Answering
  <2> QED BY <2>1 DEF LegacyInit, LegacyInv, AnswerSince
<1>2. LegacySpec => []Typed
  BY LegacyDrivesMachine, WellTyped, PTL
<1>3. Typed /\ Typed' /\ LegacyInv /\ [LegacyNext]_legacyVars => LegacyInv'
  BY LegacyStep
<1> QED BY <1>1, <1>2, <1>3, PTL DEF LegacySpec

\* Every variable of node and panel keeps its type, for any clicks.
THEOREM LegacyTypeCorrect == LegacySpec => []LegacyTypeOK
<1>1. Typed /\ LegacyInv /\ NodeOK => LegacyTypeOK
  BY DEF Typed, LegacyInv, AnswerSince, PanelOK, NodeOK, LegacyTypeOK
<1> QED BY <1>1, LegacyInvariant, NodeTyped, PTL

\* The panel lights one state at most, and one the machine was in since the panel
\* polled for it, however many polls it has given up before.
THEOREM LightsSincePoll == LegacySpec => LitSincePoll
<1> DEFINE Drawn == lit' # lit => (lit' \subseteq since /\ \A r, s \in lit' : r = s)
<1>1. Typed /\ Typed' /\ LegacyInv /\ [LegacyNext]_legacyVars => Drawn
  BY LegacyStep
<1> QED BY <1>1, LegacyInvariant, PTL DEF LegacySpec, LitSincePoll

=============================================================================
