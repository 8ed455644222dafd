------------------------- MODULE StateMachineProofs -------------------------
(***************************************************************************)
(* What holds of every StateMachine, whatever the modes its caller asks for *)
(* and the operations that may fail.                                        *)
(***************************************************************************)
EXTENDS StateMachine, Integers, TLAPS

-----------------------------------------------------------------------------
(* The chart.                                                               *)

\* Every transition leads to a state.
LEMMA TargetIsState == \A t \in Transitions : t.to \in States
  BY DEF Transitions, Edge, Cmd, Completes, ExecuteDone, CommandTo, States,
         WaitStates, ActingStates

\* The events of a caller and those of an operation are told apart.
LEMMA EventKinds == "SC" \in Events \ Commands /\ "ERR" \in Events \ Commands
  BY DEF Events, Commands

\* No mode has the empty name that currentMode starts with.
LEMMA ModeIsNamed == NoMode \notin Modes
  BY ModesAssumption, Zenon DEF ModeTypes, NoMode

\* The chart starts in a wait state, and none of its states is NoState.
LEMMA NoStateIsNone == NoState \notin States /\ "ABORTED" \in States \ ActingStates
  BY DEF NoState, States, WaitStates, ActingStates

-----------------------------------------------------------------------------
(* Type correctness.                                                        *)

\* Besides the types: what the caller is working on agrees with where it is, and
\* the Qt thread is in its loop only while the machine runs.
CallOK ==
  /\ pc \in {"Post", "Wait"} => call \in Commands
  /\ pc = "SetMode" => call \in Modes

LoopOK ==
  /\ qt # "Check" => lifecycle = "Running"
  /\ lifecycle = "Starting" => conf = NoState
  /\ lifecycle = "Running" => conf # NoState
  /\ qt = "Exit" => target # NoState

Typed == TypeOK /\ CallOK /\ LoopOK

\* postEvent keeps a queue a queue of events.
LEMMA PostedType ==
  ASSUME NEW q \in Seq(Events), NEW e \in Events
  PROVE  Posted(q, e) \in Seq(Events)
  BY DEF Posted

\* An operation posts a completion or an error, never a command.
LEMMA OutcomeType == \A s \in ActingStates : Outcomes(s) \subseteq Events \ Commands
  BY EventKinds DEF Outcomes

\* A mode makes states available and nothing else.
LEMMA AvailableType == \A m : AvailableIn(m) \subseteq States
  BY DEF AvailableIn

\* Every step of every thread keeps Typed: the inductive form of TypeOK.
THEOREM WellTyped == SafeSpec => []Typed
<1>1. Init => Typed
  <2> SUFFICES ASSUME Init PROVE Typed
    OBVIOUS
  <2>1. queue \in Seq(Events)
    BY DEF Init
  <2>2. /\ op \in [ActingStates -> {"Idle", "Running", "Posted"}]
        /\ user_method \in [Bindable -> UserMethods \cup {"None"}]
    BY DEF Init
  <2> QED BY <2>1, <2>2 DEF Init, Typed, TypeOK, CallOK, LoopOK
<1>2. Typed /\ [Next]_vars => Typed'
  <2> SUFFICES ASSUME Typed, [Next]_vars
               PROVE  Typed'
    OBVIOUS
  <2> USE DEF Typed, TypeOK, CallOK, LoopOK, qtVars, callerVars, modeVars
  <2>1. CASE QtStart
    BY <2>1, NoStateIsNone DEF QtStart
  <2>2. CASE QtCheck
    BY <2>2 DEF QtCheck
  <2>3. CASE QtStop
    BY <2>3 DEF QtStop
  <2>4. CASE QtRest
    BY <2>4 DEF QtRest
  <2>5. CASE QtIgnore
    <3>1. prom' \in {"Unset", "Accepted", "Refused"}
      BY <2>5 DEF QtIgnore, Answer
    <3>2. queue' \in Seq(Events)
      BY <2>5 DEF QtIgnore
    <3> QED BY <2>5, <3>1, <3>2 DEF QtIgnore
  <2>6. CASE QtSelect
    <3>1. target' \in States
      BY <2>6, TargetIsState DEF QtSelect, Enabled
    <3>2. prom' \in {"Unset", "Accepted", "Refused"}
      BY <2>6 DEF QtSelect, Answer
    <3>3. queue' \in Seq(Events)
      BY <2>6 DEF QtSelect
    <3> QED BY <2>6, <3>1, <3>2, <3>3, NoStateIsNone DEF QtSelect
  <2>7. CASE QtEnter
    BY <2>7 DEF QtEnter
  <2>8. CASE QtLaunch
    BY <2>8 DEF QtLaunch
  <2>9. ASSUME NEW s \in ActingStates, OpPost(s)
        PROVE  Typed'
    BY <2>9, PostedType, OutcomeType DEF OpPost
  <2>10. ASSUME NEW s \in ActingStates, OpReturn(s)
         PROVE  Typed'
    BY <2>10 DEF OpReturn
  <2>11. ASSUME NEW c \in Commands, ChangeState(c)
         PROVE  Typed'
    BY <2>11 DEF ChangeState
  <2>12. CASE PostCommand
    BY <2>12, PostedType DEF PostCommand, Events
  <2>13. CASE GetAnswer
    BY <2>13 DEF GetAnswer
  <2>14. ASSUME NEW m \in Modes, ChangeMode(m)
         PROVE  Typed'
    BY <2>14 DEF ChangeMode
  <2>15. CASE SetAvailable
    <3>1. available' \subseteq States
      BY <2>15, AvailableType DEF SetAvailable, Unset
    <3> QED BY <2>15, <3>1 DEF SetAvailable
  <2>16. CASE CommitMode
    BY <2>16 DEF CommitMode
  <2>17. CASE Activate
    BY <2>17 DEF Activate
  <2>18. CASE Deactivate
    BY <2>18 DEF Deactivate
  <2>19. ASSUME NEW b \in Bindable, NEW m \in UserMethods, Bind(b, m)
         PROVE  Typed'
    BY <2>19 DEF Bind
  <2>20. CASE UNCHANGED vars
    BY <2>20 DEF vars
  <2> QED
    BY <2>1, <2>2, <2>3, <2>4, <2>5, <2>6, <2>7, <2>8, <2>9, <2>10, <2>11, <2>12,
       <2>13, <2>14, <2>15, <2>16, <2>17, <2>18, <2>19, <2>20
    DEF Next, QtThread, Operation, Caller, CallGoesOn
<1>3. QED
  BY <1>1, <1>2, PTL DEF SafeSpec

\* Every variable keeps its type, whatever the threads of StateMachine do.
THEOREM TypeCorrect == SafeSpec => []TypeOK
<1>1. Typed => TypeOK
  BY DEF Typed
<1>2. QED
  BY <1>1, WellTyped, PTL

-----------------------------------------------------------------------------
(* Operations.                                                              *)

\* The caller touches neither the chart's position nor an operation.
LEMMA CallerSteps ==
  Caller => UNCHANGED <<conf, qt, target, state_value, op>>
  BY DEF Caller, ChangeState, ChangeMode, CallGoesOn, PostCommand, GetAnswer,
         SetAvailable, CommitMode, Activate, Deactivate, Bind, qtVars

\* Only the active state's operation is ever on a pool thread.
THEOREM OperationOwned == SafeSpec => []OperationOwner
<1>1. Init => OperationOwner
  BY DEF Init, OperationOwner
<1>2. Typed /\ OperationOwner /\ [Next]_vars => OperationOwner'
  <2> SUFFICES ASSUME Typed, OperationOwner, [Next]_vars
               PROVE  OperationOwner'
    OBVIOUS
  <2>1. CASE QtStart
    \* Before the start there is no active state, so nothing operates.
    <3>1. \A s \in ActingStates : op[s] = "Idle"
      BY <2>1, NoStateIsNone DEF QtStart, OperationOwner, Typed, LoopOK, States
    <3> QED BY <2>1, <3>1 DEF QtStart, OperationOwner
  <2>2. CASE QtEnter
    \* onExit has waited for the one operation there can be.
    <3>1. \A s \in ActingStates : op[s] = "Idle"
      BY <2>2 DEF QtEnter, OperationOwner, OperationFinished
    <3> QED BY <2>2, <3>1 DEF QtEnter, OperationOwner
  <2>3. CASE QtLaunch
    BY <2>3 DEF QtLaunch, OperationOwner
  <2>4. CASE QtCheck \/ QtStop \/ QtRest \/ QtIgnore \/ QtSelect
    <3>1. UNCHANGED <<op, conf>> /\ qt' # "Enter"
      BY <2>4 DEF QtCheck, QtStop, QtRest, QtIgnore, QtSelect, qtVars
    <3> QED BY <3>1 DEF OperationOwner
  <2>5. ASSUME NEW s \in ActingStates, Operation(s)
        PROVE  OperationOwner'
    <3>1. op[s] # "Idle" /\ UNCHANGED <<conf, qt>>
      BY <2>5 DEF Operation, OpPost, OpReturn, qtVars
    <3>2. \A r \in ActingStates : r # s => op'[r] = op[r]
      BY <2>5 DEF Operation, OpPost, OpReturn, Typed, TypeOK
    <3> QED BY <3>1, <3>2 DEF OperationOwner
  <2>6. CASE Caller \/ UNCHANGED vars
    <3>1. UNCHANGED <<op, conf, qt>>
      BY <2>6, CallerSteps DEF vars, qtVars
    <3> QED BY <3>1 DEF OperationOwner
  <2> QED
    BY <2>1, <2>2, <2>3, <2>4, <2>5, <2>6 DEF Next, QtThread
<1>3. QED
  BY <1>1, <1>2, WellTyped, PTL DEF SafeSpec

-----------------------------------------------------------------------------
(* Commands and their answers.                                              *)

\* The commands of a queue after an event is posted.
LEMMA CommandsAfterAppend ==
  ASSUME NEW q \in Seq(Events), NEW e \in Events
  PROVE  /\ e \notin Commands => CommandsIn(Append(q, e)) = CommandsIn(q)
         /\ e \in Commands => CommandsIn(Append(q, e)) = CommandsIn(q) \cup {Len(q) + 1}
  BY DEF CommandsIn

\* The commands of a queue after an event is taken.
LEMMA CommandsAfterTail ==
  ASSUME NEW q \in Seq(Events), q # <<>>
  PROVE  /\ Tail(q) \in Seq(Events)
         /\ \A i \in CommandsIn(Tail(q)) : i \in Nat /\ i > 0 /\ i + 1 \in CommandsIn(q)
                                         /\ Tail(q)[i] = q[i + 1]
         /\ \A i \in CommandsIn(q) : i # 1 => i - 1 \in CommandsIn(Tail(q))
         /\ Head(q) \in Commands <=> 1 \in CommandsIn(q)
  BY DEF CommandsIn

\* OneCommand, and the promise is fresh when the command is about to be posted.
CommandProtocol == OneCommand /\ (pc = "Post" => prom = "Unset")

\* Taking the next event, whatever becomes of it, keeps the protocol.
LEMMA TakeEvent ==
  ASSUME Typed, CommandProtocol, queue # <<>>, queue' = Tail(queue),
         prom' = Answer(Head(queue)), UNCHANGED callerVars
  PROVE  CommandProtocol'
<1>1. CASE Head(queue) \in Commands
  <2>1. 1 \in CommandsIn(queue)
    BY <1>1, CommandsAfterTail DEF Typed, TypeOK
  <2>2. CommandsIn(queue) = {1} /\ pc = "Wait"
    BY <2>1 DEF CommandProtocol, OneCommand
  <2>3. CommandsIn(queue') = {}
    <3> SUFFICES ASSUME NEW i \in CommandsIn(Tail(queue)) PROVE FALSE
      OBVIOUS
    <3> QED BY <2>2, CommandsAfterTail DEF Typed, TypeOK
  <2> QED BY <2>2, <2>3 DEF CommandProtocol, OneCommand, callerVars
<1>2. CASE Head(queue) \notin Commands
  <2>1. prom' = prom
    BY <1>2 DEF Answer
  <2>2. ASSUME NEW i \in CommandsIn(queue')
        PROVE  /\ pc = "Wait" /\ prom = "Unset" /\ queue'[i] = call
               /\ CommandsIn(queue') = {i}
    <3>1. /\ i \in Nat /\ i > 0 /\ i + 1 \in CommandsIn(queue)
          /\ queue'[i] = queue[i + 1]
      BY <2>2, CommandsAfterTail DEF Typed, TypeOK
    <3>2. CommandsIn(queue) = {i + 1} /\ queue[i + 1] = call
      BY <3>1 DEF CommandProtocol, OneCommand
    <3>3. ASSUME NEW j \in CommandsIn(queue') PROVE j = i
      <4>1. j \in Nat /\ j + 1 \in CommandsIn(queue)
        BY <3>3, CommandsAfterTail DEF Typed, TypeOK
      <4> QED BY <4>1, <3>1, <3>2
    <3> QED BY <3>1, <3>2, <3>3 DEF CommandProtocol, OneCommand
  <2> QED BY <2>1, <2>2 DEF CommandProtocol, OneCommand, callerVars
<1> QED BY <1>1, <1>2

\* The promise of a call is set once, and by the fate of its own command.
THEOREM CommandsAnswered == SafeSpec => []OneCommand
<1>1. Init => CommandProtocol
  BY DEF Init, CommandProtocol, OneCommand, CommandsIn
<1>2. Typed /\ CommandProtocol /\ [Next]_vars => CommandProtocol'
  <2> SUFFICES ASSUME Typed, CommandProtocol, [Next]_vars
               PROVE  CommandProtocol'
    OBVIOUS
  <2>1. CASE QtStart
    BY <2>1 DEF QtStart, CommandProtocol, OneCommand, CommandsIn, callerVars
  <2>2. CASE QtIgnore \/ QtSelect
    BY <2>2, TakeEvent DEF QtIgnore, QtSelect
  <2>3. ASSUME NEW s \in ActingStates, OpPost(s)
        PROVE  CommandProtocol'
    <3>1. PICK e \in Events \ Commands : queue' = Posted(queue, e)
      BY <2>3, OutcomeType DEF OpPost
    <3>2. CommandsIn(queue') = CommandsIn(queue)
      BY <3>1, CommandsAfterAppend DEF Posted, Typed, TypeOK
    <3>3. \A i \in CommandsIn(queue) : queue'[i] = queue[i]
      BY <3>1 DEF Posted, Typed, TypeOK, CommandsIn
    <3> QED
      BY <2>3, <3>2, <3>3 DEF OpPost, CommandProtocol, OneCommand, callerVars
  <2>4. CASE PostCommand
    <3>1. CommandsIn(queue) = {} /\ prom = "Unset" /\ call \in Commands
      BY <2>4 DEF PostCommand, CommandProtocol, OneCommand, Typed, CallOK
    <3>2. CASE lifecycle = "Running"
      <4>1. queue' = Append(queue, call) /\ call \in Events
        BY <2>4, <3>1, <3>2 DEF PostCommand, Posted, Events
      <4>2. CommandsIn(queue') = {Len(queue) + 1}
        BY <4>1, <3>1, CommandsAfterAppend DEF Typed, TypeOK
      <4>3. queue'[Len(queue) + 1] = call
        BY <4>1 DEF Typed, TypeOK
      <4> QED
        BY <2>4, <3>1, <4>2, <4>3 DEF PostCommand, CommandProtocol, OneCommand
    <3>3. CASE lifecycle # "Running"
      BY <2>4, <3>1, <3>3 DEF PostCommand, Posted, CommandProtocol, OneCommand
    <3> QED BY <3>2, <3>3
  <2>5. CASE GetAnswer \/ (\E c \in Commands : ChangeState(c))
               \/ (\E m \in Modes : ChangeMode(m)) \/ SetAvailable \/ CommitMode
    <3>1. CommandsIn(queue) = {} /\ queue' = queue /\ (pc' = "Post" => prom' = "Unset")
      BY <2>5 DEF GetAnswer, ChangeState, ChangeMode, SetAvailable, CommitMode,
                  CommandProtocol, OneCommand, callerVars
    <3> QED BY <3>1 DEF CommandProtocol, OneCommand
  <2>6. CASE UNCHANGED <<queue, prom, callerVars>>
    BY <2>6 DEF CommandProtocol, OneCommand, callerVars
  <2>7. QtCheck \/ QtStop \/ QtRest \/ QtEnter \/ QtLaunch
          \/ (\E s \in ActingStates : OpReturn(s)) \/ Activate \/ Deactivate
          \/ (\E b \in Bindable, m \in UserMethods : Bind(b, m)) \/ UNCHANGED vars
        => UNCHANGED <<queue, prom, callerVars>>
    BY DEF QtCheck, QtStop, QtRest, QtEnter, QtLaunch, OpReturn, Activate,
           Deactivate, Bind, vars
  <2> QED
    BY <2>1, <2>2, <2>3, <2>4, <2>5, <2>6, <2>7
    DEF Next, QtThread, Operation, Caller, CallGoesOn
<1>3. CommandProtocol => OneCommand
  BY DEF CommandProtocol
<1>4. QED
  BY <1>1, <1>2, <1>3, WellTyped, PTL DEF SafeSpec
-----------------------------------------------------------------------------
(* Modes.                                                                   *)

\* Outside changeMode the properties agree with the current mode.
THEOREM ModesConsistent == SafeSpec => []ModeConsistent
<1>1. Init => ModeConsistent
  BY DEF Init, ModeConsistent
<1>2. Typed /\ ModeConsistent /\ [Next]_vars => ModeConsistent'
  <2> SUFFICES ASSUME Typed, ModeConsistent, [Next]_vars
               PROVE  ModeConsistent'
    OBVIOUS
  <2>1. CASE CommitMode
    <3>1. available = AvailableIn(call) /\ currentMode' = call /\ call # NoMode
      BY <2>1, ModeIsNamed DEF CommitMode, Unset, Typed, CallOK
    <3> QED BY <2>1, <3>1 DEF CommitMode, ModeConsistent
  <2>2. CASE SetAvailable \/ (\E m \in Modes : ChangeMode(m))
    <3>1. pc' = "SetMode"
      BY <2>2 DEF SetAvailable, ChangeMode, callerVars
    <3> QED BY <3>1 DEF ModeConsistent
  <2>3. CASE UNCHANGED modeVars /\ (pc' # "SetMode" => pc # "SetMode")
    BY <2>3 DEF ModeConsistent, modeVars
  <2>4. QtThread => UNCHANGED <<modeVars, callerVars>>
    BY DEF QtThread, QtStart, QtCheck, QtStop, QtRest, QtIgnore, QtSelect,
           QtEnter, QtLaunch
  <2>5. ASSUME NEW s \in ActingStates
        PROVE  Operation(s) => UNCHANGED <<modeVars, callerVars>>
    BY DEF Operation, OpPost, OpReturn
  <2>6. (\E c \in Commands : ChangeState(c)) \/ PostCommand \/ GetAnswer
          \/ Activate \/ Deactivate
          \/ (\E b \in Bindable, m \in UserMethods : Bind(b, m)) \/ UNCHANGED vars
        => UNCHANGED modeVars /\ (pc' # "SetMode" => pc # "SetMode")
    BY DEF ChangeState, PostCommand, GetAnswer, Activate, Deactivate, Bind, vars,
           callerVars
  <2> QED
    BY <2>1, <2>2, <2>3, <2>4, <2>5, <2>6 DEF Next, Caller, CallGoesOn, callerVars
<1>3. QED
  BY <1>1, <1>2, WellTyped, PTL DEF SafeSpec

\* Before the first mode the queue holds at most the command of a blocked caller,
\* and the machine is where it starts.
Untouched ==
  currentMode = NoMode =>
    /\ conf \in {NoState, "ABORTED"} /\ qt # "Exit"
    /\ \A i \in 1..Len(queue) : queue[i] \in Commands

\* A machine without a mode stays ABORTED.
THEOREM StaysWithoutMode == SafeSpec => []WaitsForMode
<1>1. Init => Untouched
  BY DEF Init, Untouched
<1> DEFINE Known == Typed /\ OperationOwner /\ OneCommand /\ ModeConsistent
<1>2. Known /\ Untouched /\ [Next]_vars => Untouched'
  <2> SUFFICES ASSUME Known, Untouched, [Next]_vars, currentMode' = NoMode
               PROVE  /\ conf' \in {NoState, "ABORTED"} /\ qt' # "Exit"
                      /\ \A i \in 1..Len(queue') : queue'[i] \in Commands
    BY DEF Untouched
  <2>1. CASE QtStart
    BY <2>1 DEF QtStart, Untouched
  <2>2. CASE CommitMode
    BY <2>2, ModeIsNamed DEF CommitMode, Typed, CallOK
  <2>3. currentMode = NoMode /\ UNCHANGED currentMode
    <3>1. CASE ~CommitMode
      BY <3>1 DEF Next, QtThread, QtStart, QtCheck, QtStop, QtRest, QtIgnore,
                  QtSelect, QtEnter, QtLaunch, Operation, OpPost, OpReturn, Caller,
                  CallGoesOn, ChangeState, ChangeMode, PostCommand, GetAnswer,
                  SetAvailable, Activate, Deactivate, Bind, vars, modeVars
    <3> QED BY <3>1, <2>2, ModeIsNamed DEF CommitMode, Typed, CallOK
  <2>4. CASE QtSelect
    \* The event is a command, so the caller is not in changeMode, nothing is
    \* available, and no transition can have been selected.
    <3>1. 1 \in CommandsIn(queue)
      BY <2>3, <2>4 DEF QtSelect, Untouched, CommandsIn, Typed, TypeOK
    <3>2. available = {}
      BY <2>3, <3>1 DEF OneCommand, ModeConsistent
    <3> QED BY <2>4, <3>2 DEF QtSelect, Enabled
  <2>5. CASE QtIgnore
    <3>1. \A i \in 1..Len(Tail(queue)) : Tail(queue)[i] = queue[i + 1]
      BY <2>5 DEF QtIgnore, Typed, TypeOK
    <3>2. Len(Tail(queue)) = Len(queue) - 1 /\ Len(queue) \in Nat
      BY <2>5 DEF QtIgnore, Typed, TypeOK
    <3> QED BY <2>3, <2>5, <3>1, <3>2 DEF QtIgnore, Untouched, qtVars
  <2>6. ASSUME NEW s \in ActingStates, Operation(s)
        PROVE  FALSE
    <3>1. conf = s
      BY <2>6 DEF Operation, OpPost, OpReturn, OperationOwner
    <3> QED BY <2>3, <2>6, <3>1, NoStateIsNone DEF Untouched, States
  <2>7. CASE PostCommand
    <3>1. call \in Commands /\ call \in Events
      BY <2>7 DEF PostCommand, Typed, CallOK, Events
    <3>2. \A i \in 1..Len(queue') : queue'[i] \in Commands
      BY <2>3, <2>7, <3>1 DEF PostCommand, Posted, Untouched, Typed, TypeOK
    <3> QED BY <2>3, <2>7, <3>2 DEF PostCommand, Untouched, qtVars
  <2>8. CASE QtEnter
    BY <2>3, <2>8 DEF QtEnter, Untouched
  <2>9. CASE UNCHANGED <<conf, queue>> /\ qt' # "Exit"
    BY <2>3, <2>9 DEF Untouched
  <2>10. QtCheck \/ QtStop \/ QtRest \/ QtLaunch => UNCHANGED <<conf, queue>> /\ qt' # "Exit"
    BY DEF QtCheck, QtStop, QtRest, QtLaunch
  <2>11. (Caller /\ ~PostCommand) \/ UNCHANGED vars => UNCHANGED <<conf, queue, qt>>
    BY DEF Caller, CallGoesOn, ChangeState, ChangeMode, GetAnswer, SetAvailable,
           CommitMode, Activate, Deactivate, Bind, vars, qtVars
  <2> QED
    BY <2>1, <2>2, <2>3, <2>4, <2>5, <2>6, <2>7, <2>8, <2>9, <2>10, <2>11
    DEF Next, QtThread, Untouched
<1>3. Untouched => WaitsForMode
  BY DEF Untouched, WaitsForMode
<1>4. QED
  BY <1>1, <1>2, <1>3, WellTyped, OperationOwned, CommandsAnswered,
     ModesConsistent, PTL DEF SafeSpec
-----------------------------------------------------------------------------
(* Answers.                                                                 *)

\* In every state but ABORTING a command is tested by some transition, so that a
\* refused one is marked as ignored.
LEMMA CommandIsTested ==
  ASSUME NEW s \in States \ {"ABORTING"}
  PROVE  \E t \in Transitions : t.from \in Lineage(s) /\ t.on \in Commands
<1>1. CASE s = "ABORTED"
  <2>1. Cmd("ABORTED", "CLEARING") \in Transitions
    BY DEF Transitions
  <2>2. /\ Cmd("ABORTED", "CLEARING").from \in Lineage(s)
        /\ Cmd("ABORTED", "CLEARING").on \in Commands
    BY <1>1 DEF Cmd, Edge, CommandTo, Commands, Lineage
  <2> QED BY <2>1, <2>2
<1>2. CASE s # "ABORTED"
  <2>1. Cmd("ABORTABLE", "ABORTING") \in Transitions
    BY DEF Transitions
  <2>2. s \in Abortable
    BY <1>2 DEF States, WaitStates, ActingStates, Abortable, Stoppable
  <2>3. /\ Cmd("ABORTABLE", "ABORTING").from \in Lineage(s)
        /\ Cmd("ABORTABLE", "ABORTING").on \in Commands
    BY <2>2 DEF Cmd, Edge, CommandTo, Commands, Lineage
  <2> QED BY <2>1, <2>3
<1> QED BY <1>1, <1>2

\* Outside ABORTING the answer tells whether the command switches the machine.
THEOREM AnswersTrue == SafeSpec => AnswerTells
<1> DEFINE Step == (prom = "Unset" /\ prom' # "Unset" /\ conf # "ABORTING")
                     => (prom' = "Accepted") = (qt' = "Exit")
<1>1. Typed /\ [Next]_vars => Step
  <2> SUFFICES ASSUME Typed, [Next]_vars, prom = "Unset", prom' # "Unset",
                      conf # "ABORTING"
               PROVE  (prom' = "Accepted") <=> (qt' = "Exit")
    OBVIOUS
  <2>1. QtIgnore \/ QtSelect
    BY DEF Next, QtThread, QtStart, QtCheck, QtStop, QtRest, QtEnter, QtLaunch,
           Operation, OpPost, OpReturn, Caller, CallGoesOn, ChangeState, ChangeMode,
           PostCommand, GetAnswer, SetAvailable, CommitMode, Activate, Deactivate,
           Bind, vars
  <2>2. Head(queue) \in Commands /\ qt = "Select"
    BY <2>1 DEF QtIgnore, QtSelect, Answer
  <2>3. conf \in States \ {"ABORTING"}
    BY <2>2 DEF Typed, TypeOK, LoopOK
  <2>4. Accepted(conf, Head(queue), available)
          <=> Enabled(conf, Head(queue), available) # {}
    BY <2>3, CommandIsTested DEF Accepted
  <2>5. CASE QtIgnore
    BY <2>2, <2>4, <2>5 DEF QtIgnore, Answer, qtVars
  <2>6. CASE QtSelect
    BY <2>2, <2>4, <2>6 DEF QtSelect, Answer
  <2> QED BY <2>1, <2>5, <2>6
<1>2. QED
  BY <1>1, WellTyped, PTL DEF SafeSpec, AnswerTells

-----------------------------------------------------------------------------
(* The machine implements the abstract unit.                                *)

\* The abstract unit names commands and states as the machine does.
LEMMA SameNames ==
  Unit!Commands = Commands /\ Unit!ActingStates = ActingStates
  BY DEF Unit!Commands, Commands, Unit!ActingStates, ActingStates

\* The chart's transitions are the moves of the PackML diagram.
LEMMA CommandFollowsDiagram ==
  ASSUME NEW s \in States, NEW t \in Transitions, t.from \in Lineage(s),
         t.on \in Commands
  PROVE  t.on \in Unit!Buttons(s) /\ t.to = Unit!Leads[t.on]
  BY DEF Transitions, Cmd, Completes, Edge, CommandTo, Commands, Lineage, Stoppable,
         Abortable, States, WaitStates, ActingStates, Unit!Buttons, Unit!Leads

\* A completion moves an acting state to the one the diagram puts after it.
LEMMA CompletionFollowsDiagram ==
  ASSUME NEW s \in States, NEW t \in Transitions, t.from \in Lineage(s), t.on = "SC"
  PROVE  s \in ActingStates /\ t.to = Unit!After[s]
  BY CycleAssumption
  DEF Transitions, Cmd, Completes, Edge, CommandTo, Lineage, Stoppable, Abortable,
      States, WaitStates, ActingStates, ExecuteDone, Unit!After

\* An error aborts every state but ABORTING and ABORTED.
LEMMA ErrorFollowsDiagram ==
  ASSUME NEW s \in States, NEW t \in Transitions, t.from \in Lineage(s), t.on = "ERR"
  PROVE  s \notin {"ABORTING", "ABORTED"} /\ t.to = "ABORTING"
  BY DEF Transitions, Cmd, Completes, Edge, CommandTo, Lineage, Stoppable, Abortable,
         States, WaitStates, ActingStates

\* Once started, the machine has reported the state it is in.
StateReported == conf # NoState => state_value = conf

\* setState has reported the state that is active.
LEMMA ReportsState == SafeSpec => []StateReported
<1>1. Init => StateReported
  BY DEF Init, StateReported
<1>2. Typed /\ StateReported /\ [Next]_vars => StateReported'
  BY CallerSteps
  DEF Next, QtThread, QtStart, QtCheck, QtStop, QtRest, QtIgnore, QtSelect, QtEnter,
      QtLaunch, Operation, OpPost, OpReturn, vars, qtVars, StateReported
<1>3. QED
  BY <1>1, <1>2, WellTyped, PTL DEF SafeSpec

\* One operation is at work exactly when the active state's is.
LEMMA OnlyOperation ==
  ASSUME OperationOwner
  PROVE  /\ \A s \in ActingStates : op[s] # "Idle" => (Operating /\ conf = s)
         /\ qt = "Enter" => ~Operating
         /\ OperationFinished(conf) => ~Operating
  BY DEF OperationOwner, Operating, OperationFinished

\* Selecting a transition commits the unit to a move of the diagram.
LEMMA SelectCommits ==
  ASSUME Typed, StateReported, QtSelect
  PROVE  Unit!Next
<1>1. conf \in States /\ conf # NoState /\ qt = "Select" /\ queue # <<>>
  BY DEF QtSelect, Typed, TypeOK, LoopOK
<1>2. PICK t \in Transitions : /\ t.from \in Lineage(conf) /\ t.on = Head(queue)
                              /\ target' = t.to
  BY DEF QtSelect, Enabled
<1>3. UNCHANGED <<conf, state_value, op>> /\ qt' = "Exit"
  BY DEF QtSelect
<1>4. /\ CommittedTo = conf /\ Reported = conf
      /\ CommittedTo' = t.to /\ Reported' = conf
  BY <1>1, <1>2, <1>3 DEF CommittedTo, Reported, StateReported
<1>5. Operating' = Operating
  BY <1>3 DEF Operating
<1>6. conf # "Off"
  BY <1>1 DEF States, WaitStates, ActingStates
<1>7. ASSUME NEW s, s = t.to PROVE Unit!Commit(s)
  <2>1. UNCHANGED <<Reported, Operating>>
    BY <1>4, <1>5
  <2> QED BY <1>4, <1>6, <1>7, <2>1 DEF Unit!Commit, Unit!Off
<1>8. CASE t.on \in Commands
  <2>1. t.on \in Unit!Buttons(conf) /\ t.to = Unit!Leads[t.on]
    BY <1>1, <1>2, <1>8, CommandFollowsDiagram
  <2>2. t.on \in Unit!Buttons(CommittedTo)
    BY <1>4, <2>1
  <2>3. Unit!Commit(Unit!Leads[t.on])
    BY <1>7, <2>1
  <2>4. Unit!Operator(t.on)
    BY <2>2, <2>3 DEF Unit!Operator
  <2> QED BY <1>8, <2>4, SameNames DEF Unit!Next
<1>9. CASE t.on = "SC"
  <2>1. CommittedTo \in Unit!ActingStates /\ t.to = Unit!After[CommittedTo]
    BY <1>1, <1>2, <1>4, <1>9, CompletionFollowsDiagram, SameNames
  <2>2. Unit!Complete
    BY <1>7, <2>1 DEF Unit!Complete
  <2> QED BY <2>2 DEF Unit!Next
<1>10. CASE t.on = "ERR"
  BY <1>1, <1>2, <1>4, <1>7, <1>10, ErrorFollowsDiagram DEF Unit!Next, Unit!Fail
<1>11. Head(queue) \in Events
  BY <1>1 DEF Typed, TypeOK
<1> QED BY <1>2, <1>8, <1>9, <1>10, <1>11 DEF Events

\* The steps that keep the committed state, the reported one and the work going.
LEMMA Stutters ==
  ASSUME UNCHANGED <<conf, target, state_value, op>>,
         (qt = "Exit") <=> (qt' = "Exit")
  PROVE  UNCHANGED Unit!uvars
  BY DEF Unit!uvars, CommittedTo, Reported, Operating

\* Every step of the machine is a step of the abstract unit, or none.
LEMMA StepImplements ==
  ASSUME Typed, OperationOwner, StateReported, [Next]_vars
  PROVE  [Unit!Next]_(Unit!uvars)
<1>1. CASE QtStart
  <2>1. CommittedTo = "Off" /\ Reported = "Off"
    BY <1>1 DEF QtStart, Typed, LoopOK, CommittedTo, Reported
  <2>2. CommittedTo' = "ABORTED" /\ Reported' = "ABORTED"
    BY <1>1 DEF QtStart, CommittedTo, Reported, NoState
  <2>3. Operating' = Operating
    BY <1>1 DEF QtStart, Operating
  <2> QED BY <2>1, <2>2, <2>3 DEF Unit!Next, Unit!PowerUp, Unit!Off
<1>2. CASE QtSelect
  BY <1>2, SelectCommits
<1>3. CASE QtEnter
  <2>1. Operating = FALSE /\ Operating' = FALSE
    BY <1>3, OnlyOperation DEF QtEnter, Operating
  <2>2. conf # NoState /\ conf' = target /\ target # NoState
    BY <1>3 DEF QtEnter, Typed, LoopOK
  <2>3. CommittedTo' = CommittedTo /\ Reported' = CommittedTo
    BY <1>3, <2>2 DEF QtEnter, CommittedTo, Reported
  <2>4. CASE Reported = CommittedTo
    BY <2>1, <2>3, <2>4 DEF Unit!uvars
  <2>5. CASE Reported # CommittedTo
    <3>1. Unit!Show
      BY <2>1, <2>3, <2>5 DEF Unit!Show
    <3> QED BY <3>1 DEF Unit!Next
  <2> QED BY <2>4, <2>5
<1>4. CASE QtLaunch
  <2>1. Operating = FALSE
    BY <1>4, OnlyOperation DEF QtLaunch, Operating
  <2>2. /\ CommittedTo = conf /\ Reported = conf
        /\ CommittedTo' = conf /\ Reported' = conf
    BY <1>4 DEF QtLaunch, Typed, LoopOK, CommittedTo, Reported, StateReported
  <2>3. CASE conf \in ActingStates
    <3>1. Operating' = TRUE
      BY <1>4, <2>3 DEF QtLaunch, Operating
    <3>2. Unit!Begin
      BY <2>1, <2>2, <2>3, <3>1, SameNames DEF Unit!Begin
    <3> QED BY <3>2 DEF Unit!Next
  <2>4. CASE conf \notin ActingStates
    <3>1. Operating' = FALSE
      BY <1>4, <2>1, <2>4 DEF QtLaunch, Operating
    <3> QED BY <2>1, <2>2, <3>1 DEF Unit!uvars
  <2> QED BY <2>3, <2>4
<1>5. ASSUME NEW s \in ActingStates, OpPost(s)
      PROVE  UNCHANGED Unit!uvars
  <2>1. Operating /\ Operating'
    BY <1>5 DEF OpPost, Operating, Typed, TypeOK
  <2>2. UNCHANGED <<CommittedTo, Reported>>
    BY <1>5 DEF OpPost, qtVars, CommittedTo, Reported
  <2> QED BY <2>1, <2>2 DEF Unit!uvars
<1>6. ASSUME NEW s \in ActingStates, OpReturn(s)
      PROVE  Unit!End
  <2>1. Operating
    BY <1>6 DEF OpReturn, Operating
  <2>2. ~Operating'
    BY <1>6 DEF OpReturn, Operating, OperationOwner, Typed, TypeOK
  <2>3. UNCHANGED <<CommittedTo, Reported>>
    BY <1>6 DEF OpReturn, qtVars, CommittedTo, Reported
  <2> QED BY <2>1, <2>2, <2>3 DEF Unit!End
<1>7. CASE QtCheck \/ QtStop \/ QtRest \/ QtIgnore
  <2>1. /\ UNCHANGED <<conf, target, state_value, op>>
        /\ qt # "Exit" /\ qt' # "Exit"
    BY <1>7 DEF QtCheck, QtStop, QtRest, QtIgnore, qtVars
  <2> QED BY <2>1, Stutters
<1>8. CASE Caller \/ UNCHANGED vars
  BY <1>8, CallerSteps, Stutters DEF vars, qtVars
<1> QED
  BY <1>1, <1>2, <1>3, <1>4, <1>5, <1>6, <1>7, <1>8
  DEF Next, QtThread, Operation, Unit!Next

\* The machine implements the abstract unit, for every mode and every fault.
THEOREM MachineImplementsUnit == SafeSpec => ImplementsSafely
<1>1. Init => Unit!Init
  BY DEF Init, Unit!Init, CommittedTo, Reported, Operating, Unit!Off
<1>2. QED
  BY <1>1, StepImplements, WellTyped, OperationOwned, ReportsState, PTL
  DEF SafeSpec, ImplementsSafely, Unit!SafeSpec

-----------------------------------------------------------------------------
(* The buttons the machine takes.                                           *)

\* Every button of the panel has its transition, to a state that every mode makes
\* available.
LEMMA ButtonHasTransition ==
  ASSUME NEW s \in States, NEW e \in Unit!Buttons(s)
  PROVE  /\ e \in Commands
         /\ \E t \in Transitions :
              t.from \in Lineage(s) /\ t.on = e /\ t.to \in States \ {"COMPLETING"}
<1> USE DEF Edge, Cmd, CommandTo, Commands, Lineage, States, WaitStates, ActingStates,
            Stoppable, Abortable, Unit!Buttons
<1>1. CASE e = "STOP"
  <2>1. s \in Stoppable
    BY <1>1
  <2>2. Cmd("STOPPABLE", "STOPPING") \in Transitions
    BY DEF Transitions
  <2> QED BY <1>1, <2>1, <2>2
<1>2. CASE e = "ABORT"
  <2>1. s \in Abortable
    BY <1>2
  <2>2. Cmd("ABORTABLE", "ABORTING") \in Transitions
    BY DEF Transitions
  <2> QED BY <1>2, <2>1, <2>2
<1>3. CASE e = "RESET"
  <2>1. s = "STOPPED" \/ s = "COMPLETE"
    BY <1>3
  <2>2. {Cmd("STOPPED", "RESETTING"), Cmd("COMPLETE", "RESETTING")} \subseteq Transitions
    BY DEF Transitions
  <2> QED BY <1>3, <2>1, <2>2
<1>4. CASE e \in {"CLEAR", "START"}
  <2>1. (e = "CLEAR" => s = "ABORTED") /\ (e = "START" => s = "IDLE")
    BY <1>4
  <2>2. {Cmd("ABORTED", "CLEARING"), Cmd("IDLE", "STARTING")} \subseteq Transitions
    BY DEF Transitions
  <2> QED BY <1>4, <2>1, <2>2
<1>5. CASE e \in {"HOLD", "UNHOLD"}
  <2>1. (e = "HOLD" => s = "EXECUTE") /\ (e = "UNHOLD" => s = "HELD")
    BY <1>5
  <2>2. {Cmd("EXECUTE", "HOLDING"), Cmd("HELD", "UNHOLDING")} \subseteq Transitions
    BY DEF Transitions
  <2> QED BY <1>5, <2>1, <2>2
<1>6. CASE e \in {"SUSPEND", "UNSUSPEND"}
  <2>1. (e = "SUSPEND" => s = "EXECUTE") /\ (e = "UNSUSPEND" => s = "SUSPENDED")
    BY <1>6
  <2>2. {Cmd("EXECUTE", "SUSPENDING"), Cmd("SUSPENDED", "UNSUSPENDING")}
          \subseteq Transitions
    BY DEF Transitions
  <2> QED BY <1>6, <2>1, <2>2
<1>7. e \in {"STOP", "ABORT", "RESET", "CLEAR", "START", "HOLD", "UNHOLD", "SUSPEND",
             "UNSUSPEND"}
  OBVIOUS
<1> QED BY <1>1, <1>2, <1>3, <1>4, <1>5, <1>6, <1>7

\* Once it has a mode the machine refuses no command that the panel offers in the
\* state it is in, in any mode and in either cycle.
THEOREM ButtonsAccepted == SafeSpec => OfferedAccepted
<1> DEFINE Inv == Typed /\ OneCommand /\ ModeConsistent
           Refuses == prom = "Unset" /\ prom' = "Refused"
           Step == Refuses => (currentMode = NoMode \/ call \notin Unit!Buttons(conf))
<1>1. Inv /\ [Next]_vars => Step
  <2> SUFFICES ASSUME Inv, [Next]_vars, Refuses, currentMode # NoMode,
                      call \in Unit!Buttons(conf)
               PROVE  FALSE
    OBVIOUS
  <2>1. QtIgnore \/ QtSelect
    BY DEF Next, QtThread, QtStart, QtCheck, QtStop, QtRest, QtEnter, QtLaunch,
           Operation, OpPost, OpReturn, Caller, CallGoesOn, ChangeState, ChangeMode,
           PostCommand, GetAnswer, SetAvailable, CommitMode, Activate, Deactivate,
           Bind, vars
  <2>2. /\ qt = "Select" /\ queue # <<>> /\ Head(queue) \in Commands
        /\ ~Accepted(conf, Head(queue), available)
    BY <2>1 DEF QtIgnore, QtSelect, Answer
  <2>3. conf \in States
    BY <2>2 DEF Typed, TypeOK, LoopOK
  <2>4. 1 \in CommandsIn(queue) /\ Head(queue) = queue[1]
    BY <2>2 DEF Typed, TypeOK, CommandsIn
  <2>5. Head(queue) = call /\ pc = "Wait"
    BY <2>4 DEF OneCommand
  <2>6. States \ {"COMPLETING"} \subseteq available
    BY <2>5 DEF ModeConsistent, AvailableIn
  <2>7. Enabled(conf, call, available) # {}
    BY <2>3, <2>6, ButtonHasTransition DEF Enabled
  <2> QED BY <2>2, <2>5, <2>7 DEF Accepted
<1>2. QED
  BY <1>1, WellTyped, CommandsAnswered, ModesConsistent, PTL
  DEF SafeSpec, OfferedAccepted

-----------------------------------------------------------------------------
(* The events of operations and their transitions.                          *)

\* Every mode makes all states available but one, and so does every table between
\* two modes.
ModeKept == currentMode # NoMode => States \ {"COMPLETING"} \subseteq available

\* Once the machine has a mode it always has the states that all modes share.
LEMMA KeepsMode == SafeSpec => []ModeKept
<1>1. Init => ModeKept
  BY DEF Init, ModeKept
<1>2. Typed /\ ModeKept /\ [Next]_vars => ModeKept'
  <2> SUFFICES ASSUME Typed, ModeKept, [Next]_vars
               PROVE  ModeKept'
    OBVIOUS
  <2>1. CASE CommitMode
    <3>1. available' = AvailableIn(call)
      BY <2>1 DEF CommitMode, Unset
    <3> QED BY <3>1 DEF AvailableIn, ModeKept
  <2>2. CASE SetAvailable
    <3>1. PICK s \in Unset : available' = IF s \in available THEN available \ {s}
                                                             ELSE available \cup {s}
      BY <2>2 DEF SetAvailable
    <3>2. s \in available => s = "COMPLETING"
      BY <3>1 DEF Unset, AvailableIn, Typed, TypeOK
    <3> QED BY <2>2, <3>1, <3>2 DEF SetAvailable, ModeKept
  <2>3. CASE UNCHANGED modeVars
    BY <2>3 DEF ModeKept, modeVars
  <2>4. QtThread \/ UNCHANGED vars => UNCHANGED modeVars
    BY DEF QtThread, QtStart, QtCheck, QtStop, QtRest, QtIgnore, QtSelect, QtEnter,
           QtLaunch, vars
  <2>5. ASSUME NEW s \in ActingStates
        PROVE  Operation(s) => UNCHANGED modeVars
    BY DEF Operation, OpPost, OpReturn
  <2>6. Caller => CommitMode \/ SetAvailable \/ UNCHANGED modeVars
    BY DEF Caller, CallGoesOn, ChangeState, ChangeMode, PostCommand, GetAnswer,
           Activate, Deactivate, Bind
  <2> QED BY <2>1, <2>2, <2>3, <2>4, <2>5, <2>6 DEF Next
<1>3. QED
  BY <1>1, <1>2, WellTyped, PTL DEF SafeSpec

\* Every state but ABORTING and ABORTED can be aborted by an error, and every acting
\* state but EXECUTE is ended by a completion in every mode.
LEMMA EventHasTransition ==
  ASSUME NEW s \in States, NEW avail, States \ {"COMPLETING"} \subseteq avail
  PROVE  /\ s \notin {"ABORTING", "ABORTED"} => Enabled(s, "ERR", avail) # {}
         /\ s \in ActingStates \ {"EXECUTE"} => Enabled(s, "SC", avail) # {}
<1>1. ASSUME s \notin {"ABORTING", "ABORTED"}
      PROVE  Enabled(s, "ERR", avail) # {}
  <2>1. Edge("ABORTABLE", "ERR", "ABORTING") \in Transitions
    BY DEF Transitions
  <2>2. "ABORTABLE" \in Lineage(s)
    BY <1>1 DEF Lineage, Abortable, Stoppable, States, WaitStates, ActingStates
  <2>3. "ABORTING" \in avail
    BY DEF States, ActingStates
  <2>4. /\ Edge("ABORTABLE", "ERR", "ABORTING").from = "ABORTABLE"
        /\ Edge("ABORTABLE", "ERR", "ABORTING").on = "ERR"
        /\ Edge("ABORTABLE", "ERR", "ABORTING").to = "ABORTING"
    BY DEF Edge
  <2>5. Edge("ABORTABLE", "ERR", "ABORTING") \in Enabled(s, "ERR", avail)
    BY <2>1, <2>2, <2>3, <2>4 DEF Enabled
  <2> QED BY <2>5
<1>2. ASSUME s \in ActingStates \ {"EXECUTE"}
      PROVE  Enabled(s, "SC", avail) # {}
  <2>1. PICK r \in States \ {"COMPLETING"} : Edge(s, "SC", r) \in Transitions
    BY <1>2 DEF Transitions, Completes, Edge, Cmd, ActingStates, WaitStates, States
  <2>2. Edge(s, "SC", r).from = s /\ Edge(s, "SC", r).on = "SC" /\ Edge(s, "SC", r).to = r
    BY DEF Edge
  <2>3. Edge(s, "SC", r) \in Enabled(s, "SC", avail)
    BY <2>1, <2>2 DEF Enabled, Lineage
  <2> QED BY <2>3
<1> QED BY <1>1, <1>2

\* Nothing but the Qt thread takes an event.
LEMMA OnlyQtTakes ==
  ASSUME Typed, [Next]_vars, qt = "Select", queue # <<>>, queue' = Tail(queue)
  PROVE  QtIgnore \/ QtSelect
<1>1. queue' # queue
  BY DEF Typed, TypeOK
<1>2. ASSUME NEW e \in Events PROVE queue' # Posted(queue, e)
  BY DEF Posted, Typed, TypeOK
<1>3. ~QtStart
  BY DEF QtStart, Typed, LoopOK
<1>4. ASSUME NEW s \in ActingStates PROVE ~Operation(s)
  BY <1>1, <1>2, OutcomeType DEF Operation, OpPost, OpReturn
<1>5. ~Caller
  BY <1>1, <1>2
  DEF Caller, CallGoesOn, ChangeState, ChangeMode, PostCommand, GetAnswer, SetAvailable,
      CommitMode, Activate, Deactivate, Bind, Typed, CallOK, Events
<1> QED
  BY <1>1, <1>3, <1>4, <1>5
  DEF Next, QtThread, QtCheck, QtStop, QtRest, QtEnter, QtLaunch, vars

\* No error and no completion that the chart has a transition for is lost to a mode,
\* or to the switching of one.
THEOREM OperationsHeeded == SafeSpec => EventsHeeded
<1> DEFINE Inv == Typed /\ WaitsForMode /\ ModeKept
           Takes == qt = "Select" /\ queue # <<>> /\ queue' = Tail(queue)
           Heeds == /\ (Head(queue) = "ERR" /\ conf \notin {"ABORTING", "ABORTED"})
                         => target' = "ABORTING" /\ qt' = "Exit"
                    /\ (Head(queue) = "SC" /\ conf \in ActingStates \ {"EXECUTE"})
                         => qt' = "Exit"
<1>1. Inv /\ [Next]_vars => (Takes => Heeds)
  <2> SUFFICES ASSUME Inv, [Next]_vars, Takes
               PROVE  Heeds
    OBVIOUS
  <2>1. conf \in States
    BY DEF Typed, TypeOK, LoopOK
  <2>2. CASE QtIgnore
    <3>1. conf # "ABORTED" => States \ {"COMPLETING"} \subseteq available
      BY <2>1, NoStateIsNone DEF WaitsForMode, ModeKept
    <3>2. Enabled(conf, Head(queue), available) = {}
      BY <2>2 DEF QtIgnore
    <3> QED BY <2>1, <3>1, <3>2, EventHasTransition, NoStateIsNone
  <2>3. CASE QtSelect
    <3>1. PICK t \in Transitions : /\ t.from \in Lineage(conf) /\ t.on = Head(queue)
                                  /\ target' = t.to
      BY <2>3 DEF QtSelect, Enabled
    <3> QED BY <2>1, <2>3, <3>1, ErrorFollowsDiagram DEF QtSelect
  <2> QED BY <2>2, <2>3, OnlyQtTakes
<1>2. QED
  BY <1>1, WellTyped, StaysWithoutMode, KeepsMode, PTL DEF SafeSpec, EventsHeeded

-----------------------------------------------------------------------------
(* The length of the queue.                                                 *)

\* The events of a queue that operations have posted, OneCommand given.
Reports(q) == Len(q) - (IF CommandsIn(q) = {} THEN 0 ELSE 1)

\* Of the operation at work, and of the one that the way to the next state still
\* launches, an event is to come.
Unposted == IF \E s \in ActingStates : op[s] = "Running" THEN 1 ELSE 0
Unlaunched ==
  IF qt \in {"Exit", "Enter"} /\ CommittedTo \in ActingStates THEN 1 ELSE 0

Outstanding == Reports(queue) + Unposted + Unlaunched

\* The acting states with four events outstanding, when a command came after three.
Crowded == {"ABORTING", "CLEARING", "STOPPING", "HOLDING", "SUSPENDING"}

\* Only a command adds to the events that are outstanding: a completion brings one
\* operation for the one it ends, or none.  Another command is posted behind those
\* that are there, and most of them are taken in wait states, without a successor,
\* before it is.
QueueShare ==
  /\ Outstanding =< 4
  /\ Outstanding = 4 => CommittedTo \in Crowded
  /\ \A i \in CommandsIn(queue) :
       /\ Outstanding = 4 /\ CommittedTo # "ABORTING" => i >= 3
       /\ Outstanding = 3 /\ CommittedTo \in WaitStates \ {"ABORTED"} => i >= 2

\* Only a command leads to a crowded state, or an error to ABORTING; to the other
\* acting states it leads from wait states.
LEMMA CommandCrowds ==
  ASSUME NEW s \in States, NEW t \in Transitions, t.from \in Lineage(s),
         t.on \in Commands
  PROVE  /\ s # "ABORTING" /\ t.to \in ActingStates
         /\ t.to \notin Crowded => s \in WaitStates \ {"ABORTED"}
  BY DEF Transitions, Cmd, Completes, Edge, CommandTo, Commands, Lineage, Stoppable,
         Abortable, States, WaitStates, ActingStates, Crowded

\* A completion leads to a wait state, or from an acting state that is not crowded
\* to another.
LEMMA CompletionRelieves ==
  ASSUME NEW s \in States, NEW t \in Transitions, t.from \in Lineage(s), t.on = "SC"
  PROVE  \/ t.to \in WaitStates /\ (s = "ABORTING" => t.to = "ABORTED")
         \/ t.to \in ActingStates /\ s \notin Crowded
  BY CycleAssumption
  DEF Transitions, Cmd, Completes, Edge, CommandTo, Commands, Lineage, Stoppable,
      Abortable, States, WaitStates, ActingStates, ExecuteDone, Crowded

LEMMA WaitOrActing == WaitStates \cap (ActingStates \cup Crowded) = {}
  BY DEF WaitStates, ActingStates, Crowded

LEMMA OutstandingType ==
  ASSUME Typed
  PROVE  /\ Reports(queue) \in Int /\ Outstanding \in Int
         /\ Unposted \in {0, 1} /\ Unlaunched \in {0, 1}
  BY DEF Typed, TypeOK, Reports, Outstanding, Unposted, Unlaunched

\* What taking the next event does to the queue.
LEMMA ReportsAfterTake ==
  ASSUME Typed, OneCommand, queue # <<>>
  PROVE  /\ Head(queue) \in Commands =>
              /\ CommandsIn(queue) = {1} /\ CommandsIn(Tail(queue)) = {}
              /\ Reports(Tail(queue)) = Reports(queue)
         /\ Head(queue) \notin Commands =>
              /\ \A i \in CommandsIn(Tail(queue)) : i + 1 \in CommandsIn(queue)
              /\ Reports(Tail(queue)) = Reports(queue) - 1
<1>1. queue \in Seq(Events) /\ Len(Tail(queue)) = Len(queue) - 1 /\ Len(queue) \in Nat
  BY DEF Typed, TypeOK
<1>2. CASE Head(queue) \in Commands
  <2>1. CommandsIn(queue) = {1}
    <3>1. 1 \in CommandsIn(queue)
      BY <1>1, <1>2, CommandsAfterTail
    <3> QED BY <3>1 DEF OneCommand
  <2>2. CommandsIn(Tail(queue)) = {}
    <3> SUFFICES ASSUME NEW i \in CommandsIn(Tail(queue)) PROVE FALSE
      OBVIOUS
    <3> QED BY <1>1, <2>1, CommandsAfterTail
  <2>3. Reports(queue) = Len(queue) - 1 /\ Reports(Tail(queue)) = Len(Tail(queue))
    BY <1>1, <2>1, <2>2 DEF Reports
  <2>4. Reports(Tail(queue)) = Reports(queue)
    BY <1>1, <2>3
  <2> QED BY <1>2, <2>1, <2>2, <2>4
<1>3. CASE Head(queue) \notin Commands
  <2>1. \A i \in CommandsIn(Tail(queue)) : i + 1 \in CommandsIn(queue)
    BY <1>1, CommandsAfterTail
  <2>2. CommandsIn(queue) = {} <=> CommandsIn(Tail(queue)) = {}
    BY <1>1, <1>3, CommandsAfterTail
  <2> QED BY <1>1, <1>3, <2>1, <2>2 DEF Reports
<1> QED BY <1>2, <1>3

\* What posting an event does to the queue.
LEMMA ReportsAfterPost ==
  ASSUME Typed, NEW e \in Events
  PROVE  /\ e \notin Commands =>
              /\ CommandsIn(Append(queue, e)) = CommandsIn(queue)
              /\ Reports(Append(queue, e)) = Reports(queue) + 1
         /\ e \in Commands /\ CommandsIn(queue) = {} =>
              /\ CommandsIn(Append(queue, e)) = {Len(queue) + 1}
              /\ Reports(queue) = Len(queue)
              /\ Reports(Append(queue, e)) = Reports(queue)
<1>1. queue \in Seq(Events) /\ Len(Append(queue, e)) = Len(queue) + 1 /\ Len(queue) \in Nat
  BY DEF Typed, TypeOK
<1>2. CASE e \notin Commands
  BY <1>1, <1>2, CommandsAfterAppend DEF Reports
<1>3. CASE e \in Commands /\ CommandsIn(queue) = {}
  <2>1. CommandsIn(Append(queue, e)) = {Len(queue) + 1}
    BY <1>1, <1>3, CommandsAfterAppend
  <2> QED BY <1>1, <1>3, <2>1 DEF Reports
<1> QED BY <1>2, <1>3

\* Only one operation is at work, the active state's, and none while a state is
\* being entered.
LEMMA UnpostedAlone ==
  ASSUME Typed, OperationOwner
  PROVE  /\ conf = NoState \/ qt = "Enter" => Unposted = 0
         /\ \A s \in ActingStates : op[s] # "Idle" =>
              \A r \in ActingStates \ {s} : op[r] = "Idle"
  BY NoStateIsNone DEF OperationOwner, Unposted, Typed, TypeOK, States

\* The steps that neither take nor post an event nor commit the unit.
LEMMA ShareStays ==
  ASSUME QueueShare, queue' = queue, Outstanding' = Outstanding,
         CommittedTo' = CommittedTo
  PROVE  QueueShare'
  BY DEF QueueShare

\* Taking an event that has a transition.
LEMMA ShareSelect ==
  ASSUME Typed, OneCommand, QueueShare, QtSelect
  PROVE  QueueShare'
<1>1. /\ conf \in States /\ conf # NoState /\ qt = "Select" /\ queue # <<>>
      /\ queue' = Tail(queue) /\ Head(queue) \in Events
  BY DEF QtSelect, Typed, TypeOK, LoopOK
<1>2. PICK t \in Transitions : /\ t.from \in Lineage(conf) /\ t.on = Head(queue)
                              /\ target' = t.to
  BY DEF QtSelect, Enabled
<1>3. UNCHANGED <<conf, op>> /\ qt' = "Exit"
  BY DEF QtSelect
<1>4. /\ CommittedTo = conf /\ CommittedTo' = t.to
      /\ Unlaunched = 0 /\ Unlaunched' = IF t.to \in ActingStates THEN 1 ELSE 0
  BY <1>1, <1>2, <1>3 DEF CommittedTo, Unlaunched
<1>5. Unposted' = Unposted
  BY <1>3 DEF Unposted
<1>6. Outstanding = Reports(queue) + Unposted
  BY <1>4, OutstandingType DEF Outstanding
<1>7. Outstanding' = Reports(Tail(queue)) + Unposted + Unlaunched'
  BY <1>1, <1>5 DEF Outstanding
<1>8. CASE t.on \in Commands
  <2>1. /\ CommandsIn(queue) = {1} /\ CommandsIn(queue') = {}
        /\ Reports(Tail(queue)) = Reports(queue)
    BY <1>1, <1>2, <1>8, ReportsAfterTake
  <2>2. /\ conf # "ABORTING" /\ t.to \in ActingStates
        /\ t.to \notin Crowded => conf \in WaitStates \ {"ABORTED"}
    BY <1>1, <1>2, <1>8, CommandCrowds
  <2>3. Outstanding' = Outstanding + 1
    BY <1>4, <1>6, <1>7, <2>1, <2>2, OutstandingType
  <2>4. Outstanding # 4 /\ (Outstanding = 3 => t.to \in Crowded)
    BY <1>4, <2>1, <2>2 DEF QueueShare
  <2> QED BY <1>4, <2>1, <2>3, <2>4, OutstandingType DEF QueueShare
<1>9. CASE t.on \notin Commands
  <2>1. /\ \A i \in CommandsIn(queue') : i + 1 \in CommandsIn(queue) /\ i \in Nat
        /\ Reports(Tail(queue)) = Reports(queue) - 1
    BY <1>1, <1>2, <1>9, ReportsAfterTake DEF CommandsIn
  <2>2. CASE t.on = "ERR"
    <3>1. t.to = "ABORTING" /\ t.to \in ActingStates
      BY <1>1, <1>2, <2>2, ErrorFollowsDiagram DEF ActingStates
    <3>2. Outstanding' = Outstanding
      BY <1>4, <1>6, <1>7, <2>1, <3>1, OutstandingType
    <3> QED BY <1>4, <3>1, <3>2, WaitOrActing DEF QueueShare, Crowded
  <2>3. CASE t.on = "SC" /\ t.to \in ActingStates /\ conf \notin Crowded
    <3>1. Outstanding' = Outstanding
      BY <1>4, <1>6, <1>7, <2>1, <2>3, OutstandingType
    <3>2. t.to \notin WaitStates
      BY <2>3, WaitOrActing
    <3> QED BY <1>4, <2>3, <3>1, <3>2 DEF QueueShare
  <2>4. CASE t.on = "SC" /\ t.to \in WaitStates /\ (conf = "ABORTING" => t.to = "ABORTED")
    <3>1. Outstanding' = Outstanding - 1
      BY <1>4, <1>6, <1>7, <2>1, <2>4, WaitOrActing, OutstandingType
    <3>2. Outstanding' =< 3
      BY <3>1, OutstandingType DEF QueueShare
    <3>3. ASSUME NEW i \in CommandsIn(queue'), Outstanding' = 3, t.to # "ABORTED"
          PROVE  i >= 2
      <4>1. Outstanding = 4 /\ i + 1 \in CommandsIn(queue) /\ i \in Nat
        BY <2>1, <3>1, <3>3, OutstandingType
      <4>2. i + 1 >= 3
        BY <1>4, <2>4, <3>3, <4>1 DEF QueueShare
      <4> QED BY <4>1, <4>2
    <3> QED BY <1>4, <3>1, <3>2, <3>3, OutstandingType DEF QueueShare
  <2> QED
    BY <1>1, <1>2, <1>9, <2>2, <2>3, <2>4, CompletionRelieves DEF Events
<1> QED BY <1>8, <1>9

\* Taking an event that has no transition.
LEMMA ShareIgnore ==
  ASSUME Typed, OneCommand, QueueShare, QtIgnore
  PROVE  QueueShare'
<1>1. /\ queue # <<>> /\ queue' = Tail(queue)
      /\ UNCHANGED <<CommittedTo, Unposted, Unlaunched>>
  BY DEF QtIgnore, qtVars, CommittedTo, Unposted, Unlaunched
<1>2. CASE Head(queue) \in Commands
  <2>1. CommandsIn(queue') = {} /\ Reports(queue') = Reports(queue)
    BY <1>1, <1>2, ReportsAfterTake
  <2>2. Outstanding' = Outstanding
    BY <1>1, <2>1 DEF Outstanding
  <2> QED BY <1>1, <2>1, <2>2 DEF QueueShare
<1>3. CASE Head(queue) \notin Commands
  <2>1. Outstanding' = Outstanding - 1
    BY <1>1, <1>3, ReportsAfterTake, OutstandingType DEF Outstanding
  <2>2. Outstanding' = 3 => CommittedTo' \notin WaitStates
    BY <1>1, <2>1, OutstandingType, WaitOrActing DEF QueueShare
  <2> QED BY <1>1, <2>1, <2>2, OutstandingType DEF QueueShare
<1> QED BY <1>2, <1>3

\* A command is posted behind the events that have come, all but two of those that
\* are outstanding.
LEMMA SharePostCommand ==
  ASSUME Typed, OneCommand, QueueShare, PostCommand
  PROVE  QueueShare'
<1>1. CommandsIn(queue) = {} /\ call \in Commands
  BY DEF PostCommand, OneCommand, Typed, CallOK
<1>2. UNCHANGED <<CommittedTo, Unposted, Unlaunched>>
  BY DEF PostCommand, qtVars, CommittedTo, Unposted, Unlaunched
<1>3. CASE lifecycle # "Running"
  BY <1>2, <1>3, ShareStays DEF PostCommand, Posted, Outstanding
<1>4. CASE lifecycle = "Running"
  <2>1. queue' = Append(queue, call)
    BY <1>4 DEF PostCommand, Posted
  <2>2. /\ CommandsIn(queue') = {Len(queue) + 1} /\ Reports(queue) = Len(queue)
        /\ Reports(queue') = Reports(queue)
    BY <1>1, <2>1, ReportsAfterPost DEF Events
  <2>3. Outstanding' = Outstanding
    BY <1>2, <2>2 DEF Outstanding
  <2>4. Outstanding = Len(queue) + Unposted + Unlaunched
    BY <2>2 DEF Outstanding
  <2>5. CommittedTo \in WaitStates => Unlaunched = 0
    BY WaitOrActing DEF Unlaunched
  <2>6. Len(queue) \in Nat /\ Unposted \in {0, 1} /\ Unlaunched \in {0, 1}
    BY OutstandingType DEF Typed, TypeOK
  <2>7. /\ Outstanding = 4 => Len(queue) + 1 >= 3
        /\ Outstanding = 3 /\ CommittedTo \in WaitStates => Len(queue) + 1 >= 2
    BY <2>4, <2>5, <2>6
  <2> QED BY <1>2, <2>2, <2>3, <2>7 DEF QueueShare
<1> QED BY <1>3, <1>4

\* An operation that posts its event leaves none to come; a machine that was
\* stopped drops it.
LEMMA ShareOpPost ==
  ASSUME Typed, OperationOwner, QueueShare, NEW s \in ActingStates, OpPost(s)
  PROVE  QueueShare'
<1>1. UNCHANGED <<CommittedTo, Unlaunched>>
  BY DEF OpPost, qtVars, CommittedTo, Unlaunched
<1>2. Unposted = 1
  BY DEF OpPost, Unposted
<1>3. Unposted' = 0
  BY UnpostedAlone DEF OpPost, Unposted, Typed, TypeOK
<1>4. PICK e \in Events \ Commands : queue' = Posted(queue, e)
  BY OutcomeType DEF OpPost
<1>5. /\ CommandsIn(queue') = CommandsIn(queue)
      /\ Reports(queue') \in {Reports(queue), Reports(queue) + 1}
  BY <1>4, ReportsAfterPost DEF Posted
<1>6. Outstanding' \in {Outstanding, Outstanding - 1}
  BY <1>1, <1>2, <1>3, <1>5, OutstandingType DEF Outstanding
<1>7. CASE Outstanding' = Outstanding
  BY <1>1, <1>5, <1>7 DEF QueueShare
<1>8. CASE Outstanding' = Outstanding - 1
  <2>1. Outstanding' = 3 => CommittedTo' \notin WaitStates
    BY <1>1, <1>8, OutstandingType, WaitOrActing DEF QueueShare
  <2> QED BY <1>1, <1>8, <2>1, OutstandingType DEF QueueShare
<1> QED BY <1>6, <1>7, <1>8

\* Whatever fails and whatever is commanded, at most four events of operations are
\* outstanding, so that with a command five are queued.
THEOREM QueueStaysShort == SafeSpec => []QueueBounded
<1> DEFINE Inv == Typed /\ OperationOwner /\ OneCommand
<1>1. Init => QueueShare
  <2> SUFFICES ASSUME Init PROVE QueueShare
    OBVIOUS
  <2>1. Reports(queue) = 0 /\ CommandsIn(queue) = {}
    BY DEF Init, Reports, CommandsIn
  <2>2. Unposted = 0 /\ Unlaunched = 0
    BY DEF Init, Unposted, Unlaunched
  <2> QED BY <2>1, <2>2 DEF QueueShare, Outstanding
<1>2. Inv /\ QueueShare /\ [Next]_vars => QueueShare'
  <2> SUFFICES ASSUME Inv, QueueShare, [Next]_vars
               PROVE  QueueShare'
    OBVIOUS
  <2>1. CASE QtStart
    <3>1. Reports(queue') = 0 /\ CommandsIn(queue') = {}
      BY <2>1 DEF QtStart, Reports, CommandsIn
    <3>2. Unposted' = 0
      BY <2>1, UnpostedAlone DEF QtStart, Typed, LoopOK, Unposted
    <3>3. Unlaunched' = 0
      BY <2>1, NoStateIsNone DEF QtStart, Unlaunched, CommittedTo, States
    <3> QED BY <3>1, <3>2, <3>3 DEF QueueShare, Outstanding
  <2>2. CASE QtCheck \/ QtStop \/ QtRest
    <3>1. /\ UNCHANGED <<queue, op, conf, target>>
          /\ qt \in {"Check", "Select"} /\ qt' \in {"Check", "Select"}
      BY <2>2 DEF QtCheck, QtStop, QtRest
    <3>2. UNCHANGED <<CommittedTo, Unposted, Unlaunched>>
      BY <3>1 DEF CommittedTo, Unposted, Unlaunched
    <3> QED BY <3>1, <3>2, ShareStays DEF Outstanding
  <2>3. CASE QtIgnore
    BY <2>3, ShareIgnore
  <2>4. CASE QtSelect
    BY <2>4, ShareSelect
  <2>5. CASE QtEnter
    <3>1. CommittedTo = target /\ CommittedTo' = target
      BY <2>5 DEF QtEnter, Typed, LoopOK, CommittedTo
    <3>2. UNCHANGED <<CommittedTo, Unposted, Unlaunched>>
      BY <2>5, <3>1 DEF QtEnter, Unposted, Unlaunched
    <3> QED BY <2>5, <3>2, ShareStays DEF QtEnter, Outstanding
  <2>6. CASE QtLaunch
    <3>1. CommittedTo = conf /\ CommittedTo' = conf
      BY <2>6 DEF QtLaunch, Typed, LoopOK, CommittedTo
    <3>2. Unposted = 0 /\ Unlaunched' = 0
      BY <2>6, UnpostedAlone DEF QtLaunch, Unlaunched
    <3>3. Unposted' = Unlaunched
      <4>1. CASE conf \in ActingStates
        BY <2>6, <3>1, <4>1 DEF QtLaunch, Unposted, Unlaunched
      <4>2. CASE conf \notin ActingStates
        BY <2>6, <3>1, <3>2, <4>2 DEF QtLaunch, Unposted, Unlaunched
      <4> QED BY <4>1, <4>2
    <3>4. Outstanding' = Outstanding
      BY <2>6, <3>2, <3>3, OutstandingType DEF QtLaunch, Outstanding
    <3> QED BY <2>6, <3>1, <3>4, ShareStays DEF QtLaunch
  <2>7. ASSUME NEW s \in ActingStates, OpPost(s)
        PROVE  QueueShare'
    BY <2>7, ShareOpPost
  <2>8. ASSUME NEW s \in ActingStates, OpReturn(s)
        PROVE  QueueShare'
    <3>1. UNCHANGED <<queue, CommittedTo, Unlaunched>>
      BY <2>8 DEF OpReturn, qtVars, CommittedTo, Unlaunched
    <3>2. \A r \in ActingStates : op'[r] = "Running" <=> op[r] = "Running"
      BY <2>8 DEF OpReturn, Typed, TypeOK
    <3>3. Unposted' = Unposted
      BY <3>2 DEF Unposted
    <3> QED BY <3>1, <3>3, ShareStays DEF Outstanding
  <2>9. CASE PostCommand
    BY <2>9, SharePostCommand
  <2>10. CASE Caller \/ UNCHANGED vars
    <3>1. CASE PostCommand
      BY <3>1, <2>9
    <3>2. CASE ~PostCommand
      <4>1. UNCHANGED <<queue, conf, qt, target, op>>
        BY <2>10, <3>2
        DEF vars, qtVars, Caller, ChangeState, ChangeMode, CallGoesOn, GetAnswer,
            SetAvailable, CommitMode, Activate, Deactivate, Bind
      <4>2. UNCHANGED <<CommittedTo, Unposted, Unlaunched>>
        BY <4>1 DEF CommittedTo, Unposted, Unlaunched
      <4> QED BY <4>1, <4>2, ShareStays DEF Outstanding
    <3> QED BY <3>1, <3>2
  <2> QED
    BY <2>1, <2>2, <2>3, <2>4, <2>5, <2>6, <2>7, <2>8, <2>10
    DEF Next, QtThread, Operation
<1>3. Inv /\ QueueShare => QueueBounded
  <2> SUFFICES ASSUME Inv, QueueShare PROVE QueueBounded
    OBVIOUS
  <2>1. Reports(queue) =< 4
    BY OutstandingType DEF QueueShare, Outstanding
  <2>2. Len(queue) \in Nat /\ Len(queue) =< Reports(queue) + 1
    BY DEF Reports, Typed, TypeOK
  <2> QED BY <2>1, <2>2, OutstandingType DEF QueueBounded, MaxQueue
<1>4. QED
  BY <1>1, <1>2, <1>3, WellTyped, OperationOwned, CommandsAnswered, PTL DEF SafeSpec

=============================================================================
