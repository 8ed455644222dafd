------------------------- MODULE PackmlManagerProofs -------------------------
(***************************************************************************)
(* What holds of every manager, whatever the number of its clients, the     *)
(* ones that may be away, and the commands and modes that are requested.    *)
(***************************************************************************)
EXTENDS PackmlManager, StateMachineProofs

-----------------------------------------------------------------------------
(* The machine in the manager.                                              *)

\* Nothing a thread does in a round is a step of the machine.
LEMMA RoundLeavesMachine ==
  ASSUME NEW t \in Threads, Round(t)
  PROVE  UNCHANGED vars
<1>1. CASE Exchange(t)
  BY <1>1 DEF Exchange, CallAll, SpinOnce, SpinClash, TakeResponse, TakeLeftover,
              LoopAgain, RoundSucceeds, ReadStatus
<1>2. CASE RoundFails(t) \/ SendStatus(t)
  BY <1>2 DEF RoundFails, SendStatus
<1>3. ASSUME NEW away \in SUBSET Unreliable, CallSome(t, away)
      PROVE  UNCHANGED vars
  BY <1>3 DEF CallSome
<1> QED BY <1>1, <1>2, <1>3 DEF Round

\* Every step of the manager is a step of the machine or leaves it alone.
LEMMA ManagerStepsMachine == [ManagerNext]_allVars => [Next]_vars
<1> SUFFICES ASSUME [ManagerNext]_allVars PROVE [Next]_vars
  OBVIOUS
<1>1. CASE QtSteps
  <2>1. CASE StateEntered
    BY <2>1 DEF StateEntered, Next, QtThread
  <2>2. CASE SetChangedPromise
    BY <2>2 DEF SetChangedPromise
  <2>3. CASE MachineGoesOn
    BY <2>3 DEF MachineGoesOn, Next, QtThread
  <2>4. CASE Round("Qt")
    BY <2>4, RoundLeavesMachine DEF Threads
  <2> QED BY <1>1, <2>1, <2>2, <2>3, <2>4 DEF QtSteps, QtAlone
<1>2. CASE ExecutorGoesOn
  <2>1. CASE PostCommand \/ SetAvailable \/ ChangeStateAnswers \/ OnModeChanged
    BY <2>1 DEF ChangeStateAnswers, OnModeChanged, Next, Caller, CallGoesOn
  <2>2. CASE GetFuture \/ FutureError
    BY <2>2 DEF GetFuture, FutureError
  <2>3. CASE ConstructorSetsMode \/ ConstructorActivates
    BY <2>3, ManagerAssumption
    DEF ConstructorSetsMode, ConstructorActivates, Next, Caller
  <2>4. CASE Round("Executor")
    BY <2>4, RoundLeavesMachine DEF Threads
  <2> QED BY <1>2, <2>1, <2>2, <2>3, <2>4 DEF ExecutorGoesOn, ExecutorAlone
<1>3. ASSUME NEW s \in ActingStates, Works(s)
      PROVE  [Next]_vars
  BY <1>3 DEF Works, Next
<1>4. ASSUME NEW c \in Requests, OnChangeState(c)
      PROVE  [Next]_vars
  BY <1>4, ManagerAssumption DEF OnChangeState, Next, Caller
<1>5. ASSUME NEW m \in ModeRequests, OnChangeMode(m)
      PROVE  [Next]_vars
  BY <1>5, ManagerAssumption DEF OnChangeMode, Next, Caller
<1>6. ASSUME NEW t \in Threads, NEW c \in Clients, Reply(t, c)
      PROVE  [Next]_vars
  BY <1>6 DEF Reply
<1>7. CASE UNCHANGED allVars
  BY <1>7 DEF allVars
<1> QED BY <1>1, <1>2, <1>3, <1>4, <1>5, <1>6, <1>7 DEF ManagerNext

\* The manager drives its machine as any caller might: what is proved of every
\* machine (one answer per command, operations that never overlap, the diagram)
\* holds of the machine in the manager.
THEOREM ManagerDrivesMachine == ManagerSafeSpec => SafeSpec
<1>1. ManagerInit => Init
  BY DEF ManagerInit
<1> QED BY <1>1, ManagerStepsMachine, PTL DEF ManagerSafeSpec, SafeSpec

\* In particular it keeps its types, and agrees with where its caller is.
LEMMA MachineTyped == ManagerSafeSpec => []Typed
  BY ManagerDrivesMachine, WellTyped, PTL

-----------------------------------------------------------------------------
(* Type correctness.  Each step of the machine keeps the machine's types, so  *)
(* that only the manager's own variables are left.                          *)

\* A thread is in the loop over the clients only when there are some.
LoopHasClients ==
  \A t \in Threads : phase[t] \in {"Next", "Spin", "Check"} => Clients # {}

ManagerTyped ==
  /\ LoopHasClients
  /\ serving \in {"Construct", "None", "ChangeState", "Future", "ChangeMode"}
  /\ phase \in [Threads -> Phases]
  /\ at \in [Threads -> 1..NumClients \cup {1}]
  /\ future \in [Threads -> [Clients ->
                   {"None", "Asked", "Arrived", "Ready", "Read"}]]
  /\ agrees \in [Threads -> [Clients -> BOOLEAN]]
  /\ leftover \subseteq Clients
  /\ retrieved \in BOOLEAN /\ crashed \in BOOLEAN
  /\ <<current_state, current_mode>> \in Statuses
  /\ message \in [Threads -> Statuses]
  /\ status \in Statuses

\* Nothing is known at the start, and that is a status, too.
LEMMA NothingIsStatus == Nothing \in Statuses
  BY DEF Nothing, Statuses

\* A step of the loop over the clients stays in the loop.
LEMMA TurnsTyped ==
  ASSUME ManagerTyped, NEW t \in Threads, phase[t] = "Spin", Turns(t)
  PROVE  /\ at' \in [Threads -> 1..NumClients \cup {1}]
         /\ phase' \in [Threads -> Phases]
         /\ LoopHasClients'
<1>1. NumClients \in Nat /\ NumClients > 0
  BY ManagerAssumption DEF ManagerTyped, LoopHasClients, Clients
<1>2. at' \in [Threads -> 1..NumClients \cup {1}]
  <2>1. at[t] \in 1..NumClients
    BY <1>1 DEF ManagerTyped
  <2>2. (IF at[t] = NumClients THEN 1 ELSE at[t] + 1) \in 1..NumClients \cup {1}
    BY <1>1, <2>1
  <2> QED BY <2>2 DEF ManagerTyped, Turns
<1>3. phase' \in [Threads -> Phases]
  BY DEF ManagerTyped, Turns, Goes, Phases
<1> QED BY <1>1, <1>2, <1>3 DEF LoopHasClients, Clients

\* What a thread does in a round keeps the types of the round.
LEMMA RoundTyped ==
  ASSUME Typed, ManagerTyped, NEW t \in Threads, Round(t)
  PROVE  ManagerTyped'
<1> USE DEF ManagerTyped, LoopHasClients, Phases, topicVars, roundVars
<1>1. CASE CallAll(t)
  BY <1>1 DEF CallAll, Goes
<1>2. CASE SpinOnce(t) \/ SpinClash(t)
  BY <1>2 DEF SpinOnce, SpinClash, Goes
<1>3. CASE TakeResponse(t)
  <2>1. future' \in [Threads -> [Clients ->
                       {"None", "Asked", "Arrived", "Ready", "Read"}]]
    <3>1. PICK u \in Threads : future' = [future EXCEPT ![u][at[t]] = "Ready"]
      BY <1>3 DEF TakeResponse
    <3>2. future' = [future EXCEPT ![u] = [future[u] EXCEPT ![at[t]] = "Ready"]]
      BY <3>1
    <3>3. [future[u] EXCEPT ![at[t]] = "Ready"]
            \in [Clients -> {"None", "Asked", "Arrived", "Ready", "Read"}]
      OBVIOUS
    <3> QED BY <3>2, <3>3
  <2> QED BY <1>3, <2>1, TurnsTyped DEF TakeResponse
<1>4. CASE TakeLeftover(t)
  BY <1>4, TurnsTyped DEF TakeLeftover
<1>5. CASE LoopAgain(t)
  BY <1>5 DEF LoopAgain, Goes
<1>6. CASE RoundSucceeds(t)
  <2>1. current_state' \in States \cup {"UNDEFINED"}
    BY <1>6 DEF RoundSucceeds, Typed, TypeOK, Statuses
  <2> QED BY <1>6, <2>1
      DEF RoundSucceeds, Forgets, Goes, NoRound, NoAnswer, Statuses
<1>7. CASE ReadStatus(t)
  BY <1>7 DEF ReadStatus, Goes
<1>8. CASE RoundFails(t)
  <2>1. Waiting(t) \subseteq Clients
    BY DEF Waiting
  <2> QED BY <1>8, <2>1 DEF RoundFails, Forgets, Leaves, Goes, NoRound, NoAnswer
<1>9. CASE SendStatus(t)
  BY <1>9, NothingIsStatus DEF SendStatus, Leaves, Goes
<1>10. ASSUME NEW away \in SUBSET Unreliable, CallSome(t, away)
       PROVE  ManagerTyped'
  BY <1>10 DEF CallSome, Leaves, Goes
<1> QED BY <1>1, <1>2, <1>3, <1>4, <1>5, <1>6, <1>7, <1>8, <1>9, <1>10
        DEF Round, Exchange

\* Every step of the manager keeps the types: the inductive form of ManagerTypeOK.
LEMMA ManagerStepTyped ==
  Typed /\ ManagerTyped /\ [ManagerNext]_allVars => ManagerTyped'
<1> SUFFICES ASSUME Typed, ManagerTyped, [ManagerNext]_allVars PROVE ManagerTyped'
  OBVIOUS
<1> USE DEF ManagerTyped, LoopHasClients, Phases, topicVars, roundVars,
            managerVars, Goes
<1>1. CASE StateEntered \/ SetChangedPromise \/ MachineGoesOn
  BY <1>1 DEF StateEntered, SetChangedPromise, MachineGoesOn
<1>2. ASSUME NEW t \in Threads, Round(t) PROVE ManagerTyped'
  BY <1>2, RoundTyped
<1>3. CASE ChangeStateAnswers \/ GetFuture \/ FutureError
  BY <1>3 DEF ChangeStateAnswers, GetFuture, FutureError
<1>4. CASE OnModeChanged
  <2>1. current_mode' \in Modes
    BY <1>4 DEF OnModeChanged, CommitMode, Typed, CallOK
  <2> QED BY <1>4, <2>1 DEF OnModeChanged, Statuses
<1>5. CASE ConstructorSetsMode \/ ConstructorActivates
  BY <1>5 DEF ConstructorSetsMode, ConstructorActivates
<1>6. CASE (PostCommand \/ SetAvailable) /\ UNCHANGED managerVars
  BY <1>6
<1>7. ASSUME NEW s \in ActingStates, Works(s) PROVE ManagerTyped'
  BY <1>7 DEF Works
<1>8. ASSUME NEW c \in Requests, OnChangeState(c) PROVE ManagerTyped'
  BY <1>8 DEF OnChangeState
<1>9. ASSUME NEW m \in ModeRequests, OnChangeMode(m) PROVE ManagerTyped'
  BY <1>9 DEF OnChangeMode
<1>10. ASSUME NEW t \in Threads, NEW c \in Clients, Reply(t, c)
       PROVE  ManagerTyped'
  BY <1>10 DEF Reply
<1>11. CASE UNCHANGED allVars
  BY <1>11 DEF allVars
<1> QED BY <1>1, <1>2, <1>3, <1>4, <1>5, <1>6, <1>7, <1>8, <1>9, <1>10, <1>11
        DEF ManagerNext, QtSteps, QtAlone, ExecutorGoesOn, ExecutorAlone, Threads

\* The types of the manager and of its machine, together with what the machine's
\* caller is doing: the invariant that the other proofs start from.
LEMMA ManagerWellTyped == ManagerSafeSpec => [](Typed /\ ManagerTyped)
<1>1. ManagerInit => ManagerTyped
  <2> SUFFICES ASSUME ManagerInit PROVE ManagerTyped
    OBVIOUS
  <2>1. LoopHasClients
    BY DEF ManagerInit, LoopHasClients
  <2>2. /\ <<current_state, current_mode>> \in Statuses
        /\ message \in [Threads -> Statuses]
        /\ status \in Statuses
    BY NothingIsStatus DEF ManagerInit, Statuses
  <2>3. /\ future \in [Threads -> [Clients ->
                   {"None", "Asked", "Arrived", "Ready", "Read"}]]
        /\ agrees \in [Threads -> [Clients -> BOOLEAN]]
    BY DEF ManagerInit, NoRound, NoAnswer
  <2> QED BY <2>1, <2>2, <2>3 DEF ManagerInit, ManagerTyped, Phases
<1> QED BY <1>1, MachineTyped, ManagerStepTyped, PTL DEF ManagerSafeSpec

\* Every variable of the manager keeps its type, for any number of clients,
\* whichever of them are away.
THEOREM ManagerTypeCorrect == ManagerSafeSpec => []ManagerTypeOK
<1>1. Typed /\ ManagerTyped => ManagerTypeOK
  BY DEF Typed, ManagerTyped, ManagerTypeOK
<1> QED BY <1>1, ManagerWellTyped, PTL

-----------------------------------------------------------------------------
(* The mode.                                                                *)

\* Only a change of mode touches the mode, and it gives the machine and the
\* manager the same.
LEMMA ModeStep ==
  Typed /\ ModeInStep /\ [ManagerNext]_allVars => ModeInStep'
<1> SUFFICES ASSUME Typed, ModeInStep, [ManagerNext]_allVars PROVE ModeInStep'
  OBVIOUS
<1> USE DEF ModeInStep, topicVars, roundVars, managerVars, callerVars, modeVars
<1>1. CASE StateEntered \/ MachineGoesOn
  BY <1>1 DEF StateEntered, MachineGoesOn, QtStart, QtEnter, QtCheck, QtStop, QtRest,
              QtIgnore, QtSelect, QtLaunch
<1>2. CASE SetChangedPromise
  BY <1>2 DEF SetChangedPromise, vars
<1>3. ASSUME NEW t \in Threads, Round(t) PROVE ModeInStep'
  <2>1. UNCHANGED <<pc, currentMode>>
    BY <1>3, RoundLeavesMachine DEF vars
  <2>2. UNCHANGED current_mode
    BY <1>3 DEF Round, Exchange, CallAll, CallSome, SpinOnce, SpinClash, TakeResponse,
                TakeLeftover, LoopAgain, RoundFails, RoundSucceeds, ReadStatus, SendStatus
  <2> QED BY <2>1, <2>2
<1>4. CASE ChangeStateAnswers
  BY <1>4 DEF ChangeStateAnswers, GetAnswer
<1>5. CASE GetFuture \/ FutureError
  BY <1>5 DEF GetFuture, FutureError, vars
<1>6. CASE OnModeChanged
  BY <1>6, ModeIsNamed DEF OnModeChanged, CommitMode, Typed, CallOK
<1>7. CASE ConstructorSetsMode \/ ConstructorActivates
  BY <1>7 DEF ConstructorSetsMode, ConstructorActivates, ChangeMode, Activate
<1>8. CASE (PostCommand \/ SetAvailable) /\ UNCHANGED managerVars
  BY <1>8 DEF PostCommand, SetAvailable
<1>9. ASSUME NEW s \in ActingStates, Works(s) PROVE ModeInStep'
  BY <1>9 DEF Works, Operation, OpPost, OpReturn
<1>10. ASSUME NEW c \in Requests, OnChangeState(c) PROVE ModeInStep'
  BY <1>10 DEF OnChangeState, ChangeState
<1>11. ASSUME NEW m \in ModeRequests, OnChangeMode(m) PROVE ModeInStep'
  BY <1>11 DEF OnChangeMode, ChangeMode
<1>12. ASSUME NEW t \in Threads, NEW c \in Clients, Reply(t, c)
       PROVE  ModeInStep'
  BY <1>12 DEF Reply, vars
<1>13. CASE UNCHANGED allVars
  BY <1>13 DEF allVars, vars
<1> QED BY <1>1, <1>2, <1>3, <1>4, <1>5, <1>6, <1>7, <1>8, <1>9, <1>10, <1>11, <1>12,
           <1>13
        DEF ManagerNext, QtSteps, QtAlone, ExecutorGoesOn, ExecutorAlone, Threads

\* The manager never publishes another mode than the one its machine runs in,
\* although it commits and publishes a mode before the clients may refuse it.
THEOREM ModesInStep == ManagerSafeSpec => []ModeInStep
<1>1. ManagerInit => ModeInStep
  BY DEF ManagerInit, Init, ModeInStep
<1> QED BY <1>1, ModeStep, MachineTyped, PTL DEF ManagerSafeSpec

-----------------------------------------------------------------------------
(* What a round that succeeds has heard.                                    *)

\* In the loop every client was asked, and a client that was heard in an earlier
\* turn had agreed if it is the last of client_map_: otherwise the round is over.
RoundHears ==
  \A t \in Threads :
    /\ phase[t] \in {"Next", "Spin", "Check"}
         => \A c \in Clients : future[t][c] # "None"
    /\ \A c \in Clients : (c = NumClients /\ future[t][c] = "Read") => agrees[t][c]

\* A turn of the loop that goes on has heard nothing from the last client, or its
\* agreement.
LEMMA LastClientAgreed ==
  ASSUME ManagerTyped, RoundHears, NEW t \in Threads, Success(t),
         NEW c \in Clients, c = NumClients, future[t][c] \in {"Ready", "Read"}
  PROVE  agrees[t][c]
<1>1. CASE future[t][c] = "Read"
  BY <1>1 DEF RoundHears
<1>2. CASE future[t][c] = "Ready"
  <2>1. c \in Ready(t) /\ \A d \in Ready(t) : d =< c
    BY <1>2, ManagerAssumption DEF Ready, Clients
  <2> QED BY <2>1 DEF Success
<1> QED BY <1>1, <1>2

\* What is not a step of the exchange leaves the answers alone.
LEMMA HearsUnchanged ==
  ASSUME RoundHears, UNCHANGED <<future, agrees>>,
         \A t \in Threads : phase'[t] \in {"Next", "Spin", "Check"}
                             => phase[t] \in {"Next", "Spin", "Check"}
  PROVE  RoundHears'
  BY DEF RoundHears

\* A step of a thread in a round keeps RoundHears.
LEMMA RoundStepHears ==
  ASSUME ManagerTyped, RoundHears, NEW t \in Threads, Round(t)
  PROVE  RoundHears'
<1> USE DEF ManagerTyped
<1>1. CASE CallAll(t)
  BY <1>1 DEF CallAll, Goes, RoundHears
<1>2. CASE SpinOnce(t) \/ SpinClash(t)
  BY <1>2, HearsUnchanged DEF SpinOnce, SpinClash, Goes, roundVars
<1>3. CASE TakeResponse(t)
  <2>1. PICK u \in Threads : /\ future[u][at[t]] = "Arrived"
                             /\ future' = [future EXCEPT ![u][at[t]] = "Ready"]
    BY <1>3 DEF TakeResponse
  <2>2. \A v \in Threads, c \in Clients :
          /\ future[v][c] # "None" => future'[v][c] # "None"
          /\ future'[v][c] = "Read" => future[v][c] = "Read"
    BY <2>1
  <2> QED BY <1>3, <2>2 DEF TakeResponse, Turns, Goes, RoundHears
<1>4. CASE TakeLeftover(t)
  BY <1>4, HearsUnchanged DEF TakeLeftover, Turns, Goes
<1>5. CASE LoopAgain(t)
  <2>1. \A v \in Threads, c \in Clients :
          /\ future[v][c] # "None" => future'[v][c] # "None"
          /\ future'[v][c] = "Read"
               => \/ future[v][c] = "Read"
                  \/ v = t /\ future[v][c] = "Ready"
    BY <1>5 DEF LoopAgain, Ready
  <2>2. \A v \in Threads, c \in Clients :
          (c = NumClients /\ future'[v][c] = "Read") => agrees[v][c]
    BY <1>5, <2>1, LastClientAgreed DEF LoopAgain, RoundHears
  <2> QED BY <1>5, <2>1, <2>2 DEF LoopAgain, Goes, RoundHears
<1>6. CASE RoundSucceeds(t) \/ RoundFails(t)
  <2>1. Forgets(t)
    BY <1>6 DEF RoundSucceeds, RoundFails
  <2>2. /\ phase' \in {[phase EXCEPT ![t] = "Publish"], [phase EXCEPT ![t] = "Out"]}
        /\ phase \in [Threads -> Phases]
    BY <1>6 DEF RoundSucceeds, RoundFails, Leaves, Goes
  <2>3. ASSUME NEW v \in Threads, v # t
        PROVE  phase'[v] = phase[v] /\ future'[v] = future[v] /\ agrees'[v] = agrees[v]
    BY <2>1, <2>2, <2>3 DEF Forgets
  <2>4. /\ phase'[t] \in {"Publish", "Out"}
        /\ \A c \in Clients : future'[t][c] = "None"
    BY <2>1, <2>2 DEF Forgets, NoRound
  <2> QED BY <2>3, <2>4 DEF RoundHears
<1>7. CASE ReadStatus(t) \/ SendStatus(t)
  BY <1>7, HearsUnchanged DEF ReadStatus, SendStatus, Leaves, Goes
<1>8. ASSUME NEW away \in SUBSET Unreliable, CallSome(t, away)
      PROVE  RoundHears'
  BY <1>8, HearsUnchanged DEF CallSome, Leaves, Goes
<1> QED BY <1>1, <1>2, <1>3, <1>4, <1>5, <1>6, <1>7, <1>8 DEF Round, Exchange

\* Every step of the manager keeps RoundHears.
LEMMA HearsStep ==
  ManagerTyped /\ RoundHears /\ [ManagerNext]_allVars => RoundHears'
<1> SUFFICES ASSUME ManagerTyped, RoundHears, [ManagerNext]_allVars PROVE RoundHears'
  OBVIOUS
<1> USE HearsUnchanged DEF roundVars, managerVars
<1>1. CASE StateEntered \/ SetChangedPromise \/ OnModeChanged
  BY <1>1 DEF StateEntered, SetChangedPromise, OnModeChanged, Goes, ManagerTyped
<1>2. ASSUME NEW t \in Threads, Round(t) PROVE RoundHears'
  BY <1>2, RoundStepHears
<1>3. CASE UNCHANGED roundVars
  BY <1>3
<1>4. CASE MachineGoesOn \/ ChangeStateAnswers \/ GetFuture \/ FutureError
             \/ ConstructorSetsMode \/ ConstructorActivates
  BY <1>3, <1>4 DEF MachineGoesOn, ChangeStateAnswers, GetFuture, FutureError,
                    ConstructorSetsMode, ConstructorActivates
<1>5. ASSUME NEW s \in ActingStates, Works(s) PROVE RoundHears'
  BY <1>3, <1>5 DEF Works
<1>6. ASSUME NEW c \in Requests, OnChangeState(c) PROVE RoundHears'
  BY <1>3, <1>6 DEF OnChangeState
<1>7. ASSUME NEW m \in ModeRequests, OnChangeMode(m) PROVE RoundHears'
  BY <1>3, <1>7 DEF OnChangeMode
<1>8. ASSUME NEW t \in Threads, NEW c \in Clients, Reply(t, c)
      PROVE  RoundHears'
  <2>1. \A v \in Threads, d \in Clients :
          /\ future[v][d] # "None" => future'[v][d] # "None"
          /\ future'[v][d] = "Read" => /\ future[v][d] = "Read"
                                       /\ agrees'[v][d] = agrees[v][d]
    BY <1>8 DEF Reply, ManagerTyped
  <2> QED BY <1>8, <2>1 DEF Reply, RoundHears
<1>9. CASE UNCHANGED allVars
  BY <1>3, <1>9 DEF allVars
<1> QED BY <1>1, <1>2, <1>3, <1>4, <1>5, <1>6, <1>7, <1>8, <1>9
        DEF ManagerNext, QtSteps, QtAlone, ExecutorGoesOn, ExecutorAlone, Threads

\* A thread begins to publish only at the end of a round of its own.
LEMMA PublishEndsRound ==
  ASSUME ManagerTyped, [ManagerNext]_allVars, NEW t \in Threads,
         phase[t] # "Publish", phase'[t] = "Publish"
  PROVE  RoundSucceeds(t)
<1> USE DEF ManagerTyped, Goes, roundVars, managerVars
<1>1. CASE StateEntered \/ SetChangedPromise \/ OnModeChanged
  BY <1>1 DEF StateEntered, SetChangedPromise, OnModeChanged
<1>2. CASE UNCHANGED phase
  BY <1>2
<1>3. ASSUME NEW u \in Threads, Round(u) PROVE RoundSucceeds(t)
  <2>1. CASE RoundSucceeds(u)
    BY <2>1 DEF RoundSucceeds
  <2>2. CASE CallAll(u) \/ SpinOnce(u) \/ SpinClash(u) \/ LoopAgain(u)
    BY <2>2 DEF CallAll, SpinOnce, SpinClash, LoopAgain
  <2>3. CASE TakeResponse(u) \/ TakeLeftover(u)
    BY <2>3 DEF TakeResponse, TakeLeftover, Turns
  <2>4. CASE ReadStatus(u) \/ SendStatus(u) \/ RoundFails(u)
    BY <2>4 DEF ReadStatus, SendStatus, RoundFails, Leaves
  <2>5. ASSUME NEW away \in SUBSET Unreliable, CallSome(u, away)
        PROVE  RoundSucceeds(t)
    BY <2>5 DEF CallSome, Leaves
  <2> QED BY <1>3, <2>1, <2>2, <2>3, <2>4, <2>5 DEF Round, Exchange
<1>4. CASE MachineGoesOn \/ ChangeStateAnswers \/ GetFuture \/ FutureError
             \/ ConstructorSetsMode \/ ConstructorActivates
  BY <1>2, <1>4 DEF MachineGoesOn, ChangeStateAnswers, GetFuture, FutureError,
                    ConstructorSetsMode, ConstructorActivates
<1>5. ASSUME NEW s \in ActingStates, Works(s) PROVE RoundSucceeds(t)
  BY <1>2, <1>5 DEF Works
<1>6. ASSUME NEW c \in Requests, OnChangeState(c) PROVE RoundSucceeds(t)
  BY <1>2, <1>6 DEF OnChangeState
<1>7. ASSUME NEW m \in ModeRequests, OnChangeMode(m) PROVE RoundSucceeds(t)
  BY <1>2, <1>7 DEF OnChangeMode
<1>8. ASSUME NEW u \in Threads, NEW c \in Clients, Reply(u, c)
      PROVE  RoundSucceeds(t)
  BY <1>2, <1>8 DEF Reply
<1>9. CASE UNCHANGED allVars
  BY <1>2, <1>9 DEF allVars
<1> QED BY <1>1, <1>2, <1>3, <1>4, <1>5, <1>6, <1>7, <1>8, <1>9
        DEF ManagerNext, QtSteps, QtAlone, ExecutorGoesOn, ExecutorAlone, Threads

\* Nothing is published at the end of a round before every client has answered
\* this very request and the last of them agreed, for any number of clients and
\* whatever responses of other rounds are about.
THEOREM AnsweredWhenPublished == ManagerSafeSpec => PublishedAnswered
<1> DEFINE Hears == ManagerTyped /\ RoundHears
           Answered(t) == /\ Clients # {}
                          /\ \A c \in Clients : future[t][c] \in {"Ready", "Read"}
                          /\ agrees[t][NumClients]
           Begins(t) == phase[t] # "Publish" /\ phase'[t] = "Publish"
<1>1. ManagerInit => RoundHears
  BY DEF ManagerInit, RoundHears, NoRound
<1>2. ManagerSafeSpec => []Hears
  BY <1>1, HearsStep, ManagerWellTyped, PTL DEF ManagerSafeSpec
<1>3. ASSUME Hears, [ManagerNext]_allVars, NEW t \in Threads, Begins(t)
      PROVE  Answered(t)
  <2>1. RoundSucceeds(t)
    BY <1>3, PublishEndsRound
  <2>2. Clients # {} /\ NumClients \in Clients
    BY <1>3, <2>1, ManagerAssumption
    DEF RoundSucceeds, ManagerTyped, LoopHasClients, Clients
  <2>3. \A c \in Clients : future[t][c] \in {"Ready", "Read"}
    BY <1>3, <2>1 DEF RoundSucceeds, Waiting, RoundHears, ManagerTyped
  <2>4. agrees[t][NumClients]
    BY <1>3, <2>1, <2>2, <2>3, LastClientAgreed DEF RoundSucceeds
  <2> QED BY <2>2, <2>3, <2>4
<1>4. Hears /\ [ManagerNext]_allVars
        => [\A t \in Threads : Begins(t) => Answered(t)]_allVars
  BY <1>3
<1> QED BY <1>2, <1>4, PTL DEF ManagerSafeSpec, PublishedAnswered

-----------------------------------------------------------------------------
(* The rounds as the line sees them.                                        *)

\* Who is where: the Qt thread is in a round while it enters a state, the executor
\* while it serves a change of mode, or in the constructor, which does so once.
ThreadsPlaced ==
  /\ pc \in {"Post", "Wait"} => serving = "ChangeState"
  /\ pc = "SetMode" => /\ serving \in {"Construct", "ChangeMode"}
                       /\ phase["Executor"] = "Out"
  /\ phase["Executor"] # "Out" => serving \in {"Construct", "ChangeMode"}
  /\ serving = "Construct" /\ currentMode = NoMode => phase["Executor"] = "Out"
  /\ phase["Qt"] # "Out" => qt = "Enter"
  /\ phase["Qt"] \notin {"Announce", "Announcing"}

InLoop(t) == phase[t] \in {"Next", "Spin", "Check"}

\* Out of the loop no request is on its way.
RoundOver == \A t \in Threads : ~InLoop(t) => future[t] = NoRound

\* Where a thread goes, it goes in its stage.
LEMMA PhaseGoes ==
  ASSUME ManagerTyped, NEW t \in Threads, NEW p \in Phases, Goes(t, p)
  PROVE  /\ phase'[t] = p /\ \A u \in Threads \ {t} : phase'[u] = phase[u]
         /\ Stage[t] = StageOf[phase[t]]
         /\ Line!Goes(t, StageOf[phase[t]], StageOf[p])
<1>1. phase' = [phase EXCEPT ![t] = p] /\ phase \in [Threads -> Phases]
  BY DEF Goes, ManagerTyped
<1>2. phase'[t] = p /\ \A u \in Threads \ {t} : phase'[u] = phase[u]
  BY <1>1
<1>3. Stage' = [Stage EXCEPT ![t] = StageOf[p]] /\ Stage[t] = StageOf[phase[t]]
  BY <1>2 DEF Stage
<1> QED BY <1>2, <1>3 DEF Line!Goes

\* Every phase has its stage.
LEMMA Stages ==
  /\ StageOf["Out"] = "Rest"
  /\ StageOf["Entered"] = "Due" /\ StageOf["Call"] = "Due"
  /\ \A p \in {"Next", "Spin", "Check"} : StageOf[p] = "Asking"
  /\ \A p \in {"Announce", "Announcing"} : StageOf[p] = "Announcing"
  /\ \A p \in {"Publish", "Publishing"} : StageOf[p] = "Agreed"
  BY DEF StageOf

LEMMA LineNames == Line!Threads = Threads /\ Line!Clients = Clients
  BY DEF Line!Threads, Threads, Line!Clients, Clients

\* Whether a response was taken or read makes no difference to the line.
LEMMA SaidStays ==
  ASSUME UNCHANGED agrees,
         \A t \in Threads, c \in Clients :
           future'[t][c] \in {"None", "Asked"} <=> future[t][c] \in {"None", "Asked"}
  PROVE  Said' = Said
  BY DEF Said

LEMMA SaidReset ==
  ASSUME ManagerTyped, NEW t \in Threads, Forgets(t)
  PROVE  Said' = [Said EXCEPT ![t] = Line!Silence]
<1>1. /\ \A c \in Clients : future'[t][c] = "None"
      /\ \A u \in Threads \ {t} : future'[u] = future[u] /\ agrees'[u] = agrees[u]
  BY DEF Forgets, NoRound, ManagerTyped
<1>2. Said'[t] = Line!Silence
  BY <1>1, LineNames DEF Said, Line!Silence
<1>3. \A u \in Threads \ {t} : Said'[u] = Said[u]
  BY <1>1 DEF Said
<1> QED BY <1>2, <1>3 DEF Said

\* A step that stays in its stages and in which nobody answers.
LEMMA LineStutters ==
  ASSUME UNCHANGED <<state_value, current_state, current_mode, Stage, Said>>
  PROVE  UNCHANGED Line!rvars
  BY DEF Line!rvars

\* What a thread does in a round is a step of the round, or none.
LEMMA RoundStepKept ==
  ASSUME Typed, ManagerTyped, RoundHears, ThreadsPlaced, RoundOver,
         NEW t \in Threads, Round(t)
  PROVE  [Line!Next]_(Line!rvars)
<1> USE DEF Phases
<1>1. UNCHANGED state_value
  BY RoundLeavesMachine DEF vars, qtVars
<1>2. ASSUME Line!Round(t) PROVE Line!Next
  BY <1>2, LineNames DEF Line!Next
<1>3. ASSUME NEW p \in Phases, Goes(t, p), StageOf[phase[t]] = StageOf[p]
      PROVE  Stage' = Stage
  <2>1. \A u \in Threads : StageOf[phase'[u]] = StageOf[phase[u]]
    BY <1>3, PhaseGoes
  <2> QED BY <2>1 DEF Stage
<1>4. CASE CallAll(t)
  <2>1. Line!Goes(t, "Due", "Asking")
    BY <1>4, PhaseGoes, Stages DEF CallAll
  <2>2. future[t] = NoRound
    BY <1>4 DEF CallAll, RoundOver, InLoop
  <2>3. Said' = Said
    <3>1. \A u \in Threads, c \in Clients :
            future'[u][c] \in {"None", "Asked"} <=> future[u][c] \in {"None", "Asked"}
      BY <1>4, <2>2 DEF CallAll, NoRound, ManagerTyped
    <3> QED BY <1>4, <3>1, SaidStays DEF CallAll
  <2> QED
    BY <1>1, <1>2, <1>4, <2>1, <2>3
    DEF CallAll, topicVars, Line!Ask, Line!Round
<1>5. ASSUME NEW away \in SUBSET Unreliable, CallSome(t, away)
      PROVE  Line!Next
  <2>1. Line!Goes(t, "Due", "Rest")
    BY <1>5, PhaseGoes, Stages DEF CallSome, Leaves
  <2>2. Said' = Said
    BY <1>5, SaidStays DEF CallSome
  <2> QED
    BY <1>1, <1>2, <1>5, <2>1, <2>2
    DEF CallSome, topicVars, Line!Ask, Line!Round
<1>6. CASE SpinOnce(t) \/ SpinClash(t)
  <2>1. Stage' = Stage
    <3>1. CASE SpinOnce(t)
      BY <1>3, <3>1, Stages DEF SpinOnce
    <3>2. CASE SpinClash(t)
      BY <3>2 DEF SpinClash, roundVars, Stage
    <3> QED BY <1>6, <3>1, <3>2
  <2>2. Said' = Said
    BY <1>6, SaidStays DEF SpinOnce, SpinClash, roundVars
  <2> QED
    BY <1>1, <1>6, <2>1, <2>2, LineStutters DEF SpinOnce, SpinClash, topicVars
<1>7. ASSUME phase[t] = "Spin", Turns(t) PROVE Stage' = Stage
  <2>1. PICK p \in {"Next", "Check"} : Goes(t, p)
    BY <1>7 DEF Turns
  <2> QED BY <1>3, <1>7, <2>1, Stages
<1>8. CASE TakeResponse(t)
  <2>1. PICK u \in Threads : /\ future[u][at[t]] = "Arrived"
                             /\ future' = [future EXCEPT ![u][at[t]] = "Ready"]
    BY <1>8 DEF TakeResponse
  <2>2. Said' = Said
    <3>1. \A v \in Threads, c \in Clients :
            future'[v][c] \in {"None", "Asked"} <=> future[v][c] \in {"None", "Asked"}
      BY <2>1 DEF ManagerTyped
    <3> QED BY <1>8, <3>1, SaidStays DEF TakeResponse
  <2> QED BY <1>1, <1>7, <1>8, <2>2, LineStutters DEF TakeResponse, topicVars
<1>9. CASE TakeLeftover(t)
  <2>1. Said' = Said
    BY <1>9, SaidStays DEF TakeLeftover
  <2> QED BY <1>1, <1>7, <1>9, <2>1, LineStutters DEF TakeLeftover, topicVars
<1>10. CASE LoopAgain(t)
  <2>1. Said' = Said
    <3>1. \A v \in Threads, c \in Clients :
            future'[v][c] \in {"None", "Asked"} <=> future[v][c] \in {"None", "Asked"}
      BY <1>10 DEF LoopAgain, Ready, ManagerTyped
    <3> QED BY <1>10, <3>1, SaidStays DEF LoopAgain
  <2>2. Stage' = Stage
    BY <1>3, <1>10, Stages DEF LoopAgain
  <2> QED BY <1>1, <1>10, <2>1, <2>2, LineStutters DEF LoopAgain, topicVars
<1>11. CASE RoundFails(t)
  <2>1. Line!Goes(t, "Asking", "Rest")
    BY <1>11, PhaseGoes, Stages DEF RoundFails, Leaves
  <2>2. PICK c \in Clients : future[t][c] = "Ready" /\ ~agrees[t][c]
    BY <1>11 DEF RoundFails, Success, Ready
  <2>3. Said[t][c] = "No"
    BY <2>2 DEF Said
  <2>4. Line!Refused(t)
    BY <1>1, <1>11, <2>1, <2>3, SaidReset, LineNames
    DEF RoundFails, topicVars, Line!Refused
  <2> QED BY <1>2, <2>4 DEF Line!Round
<1>12. CASE RoundSucceeds(t)
  <2>1. Line!Goes(t, "Asking", "Agreed")
    BY <1>12, PhaseGoes, Stages DEF RoundSucceeds
  <2>2. \A c \in Clients : future[t][c] \in {"Ready", "Read"}
    BY <1>12 DEF RoundSucceeds, Waiting, RoundHears, ManagerTyped
  <2>3. NumClients \in Clients /\ NumClients > 0
    BY <1>12, ManagerAssumption DEF RoundSucceeds, ManagerTyped, LoopHasClients, Clients
  <2>4. agrees[t][NumClients]
    BY <1>12, <2>2, <2>3, LastClientAgreed DEF RoundSucceeds
  <2>5. (\A c \in Clients : Said[t][c] # "Nothing") /\ Said[t][NumClients] = "Yes"
    BY <2>2, <2>3, <2>4 DEF Said
  <2>6. Line!Accepted(t)
    BY <1>1, <1>12, <2>1, <2>3, <2>5, SaidReset, LineNames
    DEF RoundSucceeds, Line!Accepted
  <2> QED BY <1>2, <2>6 DEF Line!Round
<1>13. CASE ReadStatus(t)
  <2>1. Said' = Said
    BY <1>13, SaidStays DEF ReadStatus
  <2>2. Stage' = Stage
    BY <1>3, <1>13, Stages DEF ReadStatus
  <2> QED BY <1>1, <1>13, <2>1, <2>2, LineStutters DEF ReadStatus
<1>14. CASE SendStatus(t)
  <2>1. Said' = Said
    BY <1>14, SaidStays DEF SendStatus
  <2>2. CASE phase[t] = "Publishing"
    <3>1. Line!Goes(t, "Agreed", "Rest")
      BY <1>14, <2>2, PhaseGoes, Stages DEF SendStatus, Leaves
    <3> QED
      BY <1>1, <1>2, <1>14, <2>1, <3>1 DEF SendStatus, Line!Published, Line!Round
  <2>3. CASE phase[t] = "Announcing"
    <3>1. t = "Executor"
      BY <2>3 DEF ThreadsPlaced, Threads
    <3>2. PICK p \in {"Call", "Out"} : Goes(t, p)
      BY <1>14, <2>3 DEF SendStatus
    <3>3. Line!Goes(t, "Announcing", "Due") \/ Line!Goes(t, "Announcing", "Rest")
      BY <2>3, <3>2, PhaseGoes, Stages
    <3> QED
      BY <1>1, <1>14, <2>1, <3>1, <3>3 DEF SendStatus, Line!Announced, Line!Next
  <2> QED BY <1>14, <2>2, <2>3 DEF SendStatus
<1> QED BY <1>4, <1>5, <1>6, <1>8, <1>9, <1>10, <1>11, <1>12, <1>13, <1>14
        DEF Round, Exchange

\* A step of a round keeps the threads in their places.
LEMMA RoundPlaced ==
  ASSUME ManagerTyped, ThreadsPlaced, NEW t \in Threads, Round(t)
  PROVE  ThreadsPlaced'
<1> USE DEF Phases
<1>1. UNCHANGED <<pc, qt, currentMode>>
  BY RoundLeavesMachine DEF vars, qtVars, callerVars, modeVars
<1>2. phase[t] # "Out"
  BY DEF Round, Exchange, CallAll, SpinOnce, SpinClash, TakeResponse, TakeLeftover,
         LoopAgain, RoundSucceeds, ReadStatus, RoundFails, SendStatus, CallSome
<1>3. ASSUME NEW p \in Phases \ {"Announce", "Announcing"}, Goes(t, p),
             serving' = serving
      PROVE  ThreadsPlaced'
  BY <1>1, <1>2, <1>3, PhaseGoes DEF ThreadsPlaced, Threads
<1>4. ASSUME Leaves(t) PROVE ThreadsPlaced'
  <2>1. CASE t = "Qt"
    BY <1>3, <1>4, <2>1 DEF Leaves
  <2>2. CASE t = "Executor"
    BY <1>1, <1>2, <1>4, <2>2, PhaseGoes DEF Leaves, ThreadsPlaced, Threads
  <2> QED BY <2>1, <2>2 DEF Threads
<1>5. CASE CallAll(t) \/ SpinOnce(t) \/ LoopAgain(t) \/ RoundSucceeds(t)
  BY <1>3, <1>5 DEF CallAll, SpinOnce, LoopAgain, RoundSucceeds
<1>6. CASE TakeResponse(t) \/ TakeLeftover(t)
  <2>1. PICK p \in {"Next", "Check"} : Goes(t, p)
    BY <1>6 DEF TakeResponse, TakeLeftover, Turns
  <2> QED BY <1>3, <1>6, <2>1 DEF TakeResponse, TakeLeftover
<1>7. CASE SpinClash(t)
  BY <1>1, <1>7 DEF SpinClash, roundVars, ThreadsPlaced
<1>8. CASE ReadStatus(t)
  <2>1. CASE phase[t] = "Publish"
    BY <1>3, <1>8, <2>1 DEF ReadStatus
  <2>2. CASE phase[t] = "Announce"
    <3>1. t = "Executor" /\ Goes(t, "Announcing") /\ serving' = serving
      BY <1>8, <2>2 DEF ReadStatus, ThreadsPlaced, Threads
    <3> QED BY <1>1, <1>2, <3>1, PhaseGoes DEF ThreadsPlaced, Threads
  <2> QED BY <1>8, <2>1, <2>2 DEF ReadStatus
<1>9. CASE RoundFails(t)
  BY <1>4, <1>9 DEF RoundFails
<1>10. CASE SendStatus(t)
  BY <1>3, <1>4, <1>10 DEF SendStatus
<1>11. ASSUME NEW away \in SUBSET Unreliable, CallSome(t, away)
       PROVE  ThreadsPlaced'
  BY <1>4, <1>11 DEF CallSome
<1> QED BY <1>5, <1>6, <1>7, <1>8, <1>9, <1>10, <1>11 DEF Round, Exchange

\* Every step keeps the threads in their places.
LEMMA PlacedStep ==
  Typed /\ ManagerTyped /\ ThreadsPlaced /\ [ManagerNext]_allVars => ThreadsPlaced'
<1> SUFFICES ASSUME Typed, ManagerTyped, ThreadsPlaced, [ManagerNext]_allVars
             PROVE  ThreadsPlaced'
  OBVIOUS
<1> USE DEF ThreadsPlaced, Phases, Threads
<1>1. CASE StateEntered
  <2>1. phase'["Qt"] = "Entered" /\ phase'["Executor"] = phase["Executor"]
    BY <1>1, PhaseGoes DEF StateEntered
  <2> QED BY <1>1, <2>1 DEF StateEntered, QtStart, QtEnter, callerVars, modeVars
<1>2. CASE SetChangedPromise
  <2>1. phase'["Qt"] = "Call" /\ phase'["Executor"] = phase["Executor"]
    BY <1>2, PhaseGoes DEF SetChangedPromise
  <2> QED BY <1>2, <2>1 DEF SetChangedPromise, vars, qtVars, callerVars, modeVars
<1>3. CASE MachineGoesOn
  BY <1>3 DEF MachineGoesOn, QtCheck, QtRest, QtIgnore, QtSelect, QtLaunch, managerVars,
              roundVars, callerVars, modeVars, qtVars
<1>4. CASE Round("Qt") \/ Round("Executor")
  BY <1>4, RoundPlaced
<1>5. CASE (PostCommand \/ SetAvailable) /\ UNCHANGED managerVars
  BY <1>5 DEF PostCommand, SetAvailable, managerVars, roundVars, callerVars, qtVars,
              modeVars
<1>6. CASE ChangeStateAnswers
  BY <1>6 DEF ChangeStateAnswers, GetAnswer, roundVars, qtVars, modeVars
<1>7. CASE GetFuture \/ FutureError
  BY <1>7 DEF GetFuture, FutureError, roundVars, vars, qtVars, callerVars, modeVars
<1>8. CASE OnModeChanged
  <2>1. phase'["Executor"] = "Announce" /\ phase'["Qt"] = phase["Qt"]
    BY <1>8, PhaseGoes DEF OnModeChanged
  <2>2. currentMode' # NoMode
    BY <1>8, ModeIsNamed DEF OnModeChanged, CommitMode, Typed, CallOK
  <2> QED BY <1>8, <2>1, <2>2 DEF OnModeChanged, CommitMode, qtVars
<1>9. CASE ConstructorSetsMode \/ ConstructorActivates
  BY <1>9 DEF ConstructorSetsMode, ConstructorActivates, ChangeMode, Activate,
              managerVars, roundVars, callerVars, modeVars, qtVars
<1>10. ASSUME NEW s \in ActingStates, Works(s) PROVE ThreadsPlaced'
  BY <1>10 DEF Works, Operation, OpPost, OpReturn, managerVars, roundVars, callerVars,
               modeVars, qtVars
<1>11. ASSUME NEW c \in Requests, OnChangeState(c) PROVE ThreadsPlaced'
  BY <1>11 DEF OnChangeState, ChangeState, roundVars, qtVars, modeVars
<1>12. ASSUME NEW m \in ModeRequests, OnChangeMode(m) PROVE ThreadsPlaced'
  BY <1>12 DEF OnChangeMode, ChangeMode, roundVars, qtVars, modeVars
<1>13. ASSUME NEW t \in Threads, NEW c \in Clients, Reply(t, c) PROVE ThreadsPlaced'
  BY <1>13 DEF Reply, vars, qtVars, callerVars, modeVars
<1>14. CASE UNCHANGED allVars
  BY <1>14 DEF allVars, vars, managerVars, roundVars, callerVars, modeVars, qtVars
<1> QED BY <1>1, <1>2, <1>3, <1>4, <1>5, <1>6, <1>7, <1>8, <1>9, <1>10, <1>11, <1>12,
           <1>13, <1>14
        DEF ManagerNext, QtSteps, QtAlone, ExecutorGoesOn, ExecutorAlone

\* A step of a round ends with no request on its way, or stays in the loop.
LEMMA RoundStepOver ==
  ASSUME ManagerTyped, RoundOver, NEW t \in Threads, Round(t)
  PROVE  RoundOver'
<1> USE DEF Phases
<1>1. ASSUME NEW p \in Phases, Goes(t, p), UNCHANGED future,
             p \in {"Next", "Spin", "Check"} \/ ~InLoop(t)
      PROVE  RoundOver'
  BY <1>1, PhaseGoes DEF RoundOver, InLoop
<1>2. ASSUME NEW p \in {"Next", "Spin", "Check"}, Goes(t, p), InLoop(t),
             NEW u \in Threads, InLoop(u),
             \A v \in Threads \ {u} : future'[v] = future[v]
      PROVE  RoundOver'
  BY <1>2, PhaseGoes DEF RoundOver, InLoop
<1>3. CASE CallAll(t)
  <2>1. \A v \in Threads \ {t} : future'[v] = future[v]
    BY <1>3 DEF CallAll, ManagerTyped
  <2> QED BY <1>3, <2>1, PhaseGoes DEF CallAll, RoundOver, InLoop
<1>4. CASE SpinOnce(t)
  BY <1>1, <1>4 DEF SpinOnce
<1>5. CASE SpinClash(t)
  BY <1>5 DEF SpinClash, roundVars, RoundOver, InLoop
<1>6. CASE TakeResponse(t)
  <2>1. PICK u \in Threads : /\ future[u][at[t]] = "Arrived"
                             /\ future' = [future EXCEPT ![u][at[t]] = "Ready"]
    BY <1>6 DEF TakeResponse
  <2>2. at[t] \in Clients
    BY <1>6, ManagerAssumption
    DEF TakeResponse, ManagerTyped, LoopHasClients, Clients
  <2>3. InLoop(u)
    BY <2>1, <2>2 DEF RoundOver, NoRound
  <2>4. \A v \in Threads \ {u} : future'[v] = future[v]
    BY <2>1 DEF ManagerTyped
  <2>5. PICK p \in {"Next", "Check"} : Goes(t, p)
    BY <1>6 DEF TakeResponse, Turns
  <2> QED BY <1>2, <1>6, <2>3, <2>4, <2>5 DEF TakeResponse, InLoop
<1>7. CASE TakeLeftover(t)
  <2>1. PICK p \in {"Next", "Check"} : Goes(t, p)
    BY <1>7 DEF TakeLeftover, Turns
  <2> QED BY <1>1, <1>7, <2>1 DEF TakeLeftover
<1>8. CASE LoopAgain(t)
  <2>1. \A v \in Threads \ {t} : future'[v] = future[v]
    BY <1>8 DEF LoopAgain, ManagerTyped
  <2> QED BY <1>2, <1>8, <2>1 DEF LoopAgain, InLoop
<1>9. CASE RoundSucceeds(t) \/ RoundFails(t)
  <2>1. future'[t] = NoRound /\ \A v \in Threads \ {t} : future'[v] = future[v]
    BY <1>9 DEF RoundSucceeds, RoundFails, Forgets, ManagerTyped
  <2>2. PICK p \in {"Publish", "Out"} : Goes(t, p)
    BY <1>9 DEF RoundSucceeds, RoundFails, Leaves
  <2> QED BY <2>1, <2>2, PhaseGoes DEF RoundOver, InLoop
<1>10. CASE ReadStatus(t) \/ SendStatus(t)
  <2>1. PICK p \in {"Announcing", "Publishing", "Call", "Out"} : Goes(t, p)
    BY <1>10 DEF ReadStatus, SendStatus, Leaves
  <2> QED BY <1>1, <1>10, <2>1 DEF ReadStatus, SendStatus, InLoop
<1>11. ASSUME NEW away \in SUBSET Unreliable, CallSome(t, away)
       PROVE  RoundOver'
  BY <1>1, <1>11 DEF CallSome, Leaves, InLoop
<1> QED BY <1>3, <1>4, <1>5, <1>6, <1>7, <1>8, <1>9, <1>10, <1>11 DEF Round, Exchange

\* Every step keeps RoundOver.
LEMMA OverStep ==
  Typed /\ ManagerTyped /\ ThreadsPlaced /\ RoundOver /\ [ManagerNext]_allVars
    => RoundOver'
<1> SUFFICES ASSUME Typed, ManagerTyped, ThreadsPlaced, RoundOver,
                    [ManagerNext]_allVars
             PROVE  RoundOver'
  OBVIOUS
<1> USE DEF Phases
<1>1. ASSUME NEW t \in Threads, ~InLoop(t), UNCHANGED future,
             NEW p \in Phases, Goes(t, p)
      PROVE  RoundOver'
  BY <1>1, PhaseGoes DEF RoundOver, InLoop
<1>2. CASE StateEntered
  BY <1>1, <1>2 DEF StateEntered, QtStart, QtEnter, ThreadsPlaced, Typed, LoopOK, InLoop,
                    Threads
<1>3. CASE SetChangedPromise
  BY <1>1, <1>3 DEF SetChangedPromise, InLoop, Threads
<1>4. CASE OnModeChanged
  BY <1>1, <1>4 DEF OnModeChanged, CommitMode, ThreadsPlaced, InLoop, Threads
<1>5. ASSUME NEW t \in Threads, Round(t) PROVE RoundOver'
  BY <1>5, RoundStepOver
<1>6. ASSUME NEW t \in Threads, NEW c \in Clients, Reply(t, c) PROVE RoundOver'
  <2>1. InLoop(t)
    BY <1>6 DEF Reply, RoundOver, NoRound
  <2>2. \A v \in Threads \ {t} : future'[v] = future[v]
    BY <1>6 DEF Reply, ManagerTyped
  <2> QED BY <1>6, <2>1, <2>2 DEF Reply, RoundOver, InLoop
<1>7. CASE UNCHANGED roundVars
  BY <1>7 DEF roundVars, RoundOver, InLoop
<1>8. CASE MachineGoesOn \/ ChangeStateAnswers \/ GetFuture \/ FutureError
             \/ ConstructorSetsMode \/ ConstructorActivates
  BY <1>7, <1>8 DEF MachineGoesOn, ChangeStateAnswers, GetFuture, FutureError,
                    ConstructorSetsMode, ConstructorActivates, managerVars
<1>9. ASSUME NEW s \in ActingStates, Works(s) PROVE RoundOver'
  BY <1>7, <1>9 DEF Works, managerVars
<1>10. ASSUME NEW c \in Requests, OnChangeState(c) PROVE RoundOver'
  BY <1>7, <1>10 DEF OnChangeState
<1>11. ASSUME NEW m \in ModeRequests, OnChangeMode(m) PROVE RoundOver'
  BY <1>7, <1>11 DEF OnChangeMode
<1>12. CASE UNCHANGED allVars \/ UNCHANGED managerVars
  BY <1>7, <1>12 DEF allVars, managerVars
<1> QED BY <1>2, <1>3, <1>4, <1>5, <1>6, <1>8, <1>9, <1>10, <1>11, <1>12
        DEF ManagerNext, QtSteps, QtAlone, ExecutorGoesOn, ExecutorAlone, Threads

\* The steps outside the rounds begin one, or are nothing to the line.
LEMMA LineStep ==
  ASSUME Typed, ManagerTyped, RoundHears, ThreadsPlaced, RoundOver,
         [ManagerNext]_allVars
  PROVE  [Line!Next]_(Line!rvars)
<1> USE DEF Phases
<1>1. ASSUME UNCHANGED <<state_value, current_state, current_mode, phase, future, agrees>>
      PROVE  UNCHANGED Line!rvars
  <2>1. Stage' = Stage
    BY <1>1 DEF Stage
  <2> QED BY <1>1, <2>1, SaidStays, LineStutters
<1>2. CASE StateEntered
  <2>1. phase["Qt"] = "Out"
    BY <1>2 DEF StateEntered, QtStart, QtEnter, ThreadsPlaced, Typed, LoopOK
  <2>2. Line!Goes("Qt", "Rest", "Due")
    BY <1>2, <2>1, PhaseGoes, Stages DEF StateEntered, Threads
  <2>3. state_value' \in States
    BY <1>2, NoStateIsNone DEF StateEntered, QtStart, QtEnter, Typed, TypeOK, LoopOK
  <2>4. Said' = Said
    BY <1>2, SaidStays DEF StateEntered
  <2> QED
    BY <1>2, <2>2, <2>3, <2>4 DEF StateEntered, topicVars, Line!Report, Line!Next
<1>3. CASE SetChangedPromise
  <2>1. \A u \in Threads : StageOf[phase'[u]] = StageOf[phase[u]]
    BY <1>3, PhaseGoes, Stages DEF SetChangedPromise, Threads
  <2>2. Stage' = Stage
    BY <2>1 DEF Stage
  <2> QED BY <1>3, <2>2, SaidStays, LineStutters
          DEF SetChangedPromise, topicVars, vars, qtVars
<1>4. CASE OnModeChanged
  <2>1. phase["Executor"] = "Out" /\ current_mode' \in Modes
    BY <1>4 DEF OnModeChanged, CommitMode, ThreadsPlaced, Typed, CallOK
  <2>2. Line!Goes("Executor", "Rest", "Announcing")
    BY <1>4, <2>1, PhaseGoes, Stages DEF OnModeChanged, Threads
  <2>3. Said' = Said
    BY <1>4, SaidStays DEF OnModeChanged
  <2> QED
    BY <1>4, <2>1, <2>2, <2>3
    DEF OnModeChanged, CommitMode, qtVars, Line!Switch, Line!Next
<1>5. ASSUME NEW t \in Threads, Round(t) PROVE [Line!Next]_(Line!rvars)
  BY <1>5, RoundStepKept
<1>6. ASSUME NEW t \in Threads, NEW c \in Clients, Reply(t, c)
      PROVE  Line!Next
  <2>1. Stage[t] = "Asking" /\ Said[t][c] = "Nothing"
    BY <1>6, Stages DEF Reply, RoundOver, NoRound, InLoop, Stage, Said
  <2>2. PICK a \in {"Yes", "No"} : Said'[t][c] = a
    BY <1>6 DEF Reply, Said, ManagerTyped
  <2>3. \A u \in Threads, d \in Clients :
          (u # t \/ d # c) => Said'[u][d] = Said[u][d]
    BY <1>6 DEF Reply, Said, ManagerTyped
  <2>4. Said' = [Said EXCEPT ![t][c] = a]
    <3>1. \A u \in Threads : /\ DOMAIN Said[u] = Clients
                            /\ Said[u] = [d \in Clients |-> Said[u][d]]
                            /\ Said'[u] = [d \in Clients |-> Said'[u][d]]
      BY DEF Said
    <3>2. \A u \in Threads \ {t} : Said'[u] = Said[u]
      BY <2>3, <3>1
    <3>3. Said'[t] = [d \in Clients |-> IF d = c THEN a ELSE Said[t][d]]
      BY <2>2, <2>3, <3>1
    <3>4. Said'[t] = [Said[t] EXCEPT ![c] = a]
      BY <3>1, <3>3
    <3> QED BY <3>2, <3>4 DEF Said
  <2>5. Stage' = Stage
    BY <1>6 DEF Reply, Stage
  <2>6. Line!Answer(t, c)
    BY <1>6, <2>1, <2>4, <2>5 DEF Reply, topicVars, vars, qtVars, Line!Answer
  <2> QED BY <2>6, LineNames DEF Line!Round, Line!Next
<1>7. CASE MachineGoesOn
  BY <1>1, <1>7 DEF MachineGoesOn, QtCheck, QtRest, QtIgnore, QtSelect, QtLaunch, qtVars,
                    managerVars, roundVars, topicVars
<1>8. CASE ChangeStateAnswers \/ GetFuture \/ FutureError
             \/ ConstructorSetsMode \/ ConstructorActivates
  BY <1>1, <1>8
  DEF ChangeStateAnswers, GetAnswer, GetFuture, FutureError, ConstructorSetsMode,
      ConstructorActivates, ChangeMode, Activate, vars, qtVars, managerVars, roundVars,
      topicVars
<1>9. CASE (PostCommand \/ SetAvailable) /\ UNCHANGED managerVars
  BY <1>1, <1>9 DEF PostCommand, SetAvailable, qtVars, managerVars, roundVars, topicVars
<1>10. ASSUME NEW s \in ActingStates, Works(s) PROVE UNCHANGED Line!rvars
  BY <1>1, <1>10 DEF Works, Operation, OpPost, OpReturn, qtVars, managerVars, roundVars,
                     topicVars
<1>11. ASSUME NEW c \in Requests, OnChangeState(c) PROVE UNCHANGED Line!rvars
  BY <1>1, <1>11 DEF OnChangeState, ChangeState, qtVars, roundVars, topicVars
<1>12. ASSUME NEW m \in ModeRequests, OnChangeMode(m) PROVE UNCHANGED Line!rvars
  BY <1>1, <1>12 DEF OnChangeMode, ChangeMode, qtVars, roundVars, topicVars
<1>13. CASE UNCHANGED allVars
  BY <1>1, <1>13 DEF allVars, vars, qtVars, managerVars, roundVars, topicVars
<1> QED BY <1>2, <1>3, <1>4, <1>5, <1>6, <1>7, <1>8, <1>9, <1>10, <1>11, <1>12, <1>13
        DEF ManagerNext, QtSteps, QtAlone, ExecutorGoesOn, ExecutorAlone, Threads

\* Each thread's rounds go as if it was alone with the clients, for any number of
\* clients and whatever responses of the other thread's and of abandoned rounds are
\* about.
THEOREM ManagerKeepsRounds == ManagerSafeSpec => RoundsKept
<1> DEFINE Inv == Typed /\ ManagerTyped /\ RoundHears /\ ThreadsPlaced /\ RoundOver
<1>1. ManagerInit => RoundHears /\ ThreadsPlaced /\ RoundOver
  BY DEF ManagerInit, Init, RoundHears, ThreadsPlaced, RoundOver, NoRound, Threads
<1>2. ManagerInit => Line!Init
  <2> SUFFICES ASSUME ManagerInit PROVE Line!Init
    OBVIOUS
  <2>1. Stage = [t \in Threads |-> "Rest"]
    BY Stages DEF ManagerInit, Stage
  <2>2. Said = [t \in Threads |-> Line!Silence]
    BY LineNames DEF ManagerInit, Said, NoRound, Line!Silence
  <2> QED BY <2>1, <2>2, LineNames DEF ManagerInit, Init, Line!Init
<1>3. Inv /\ [ManagerNext]_allVars => (RoundHears /\ ThreadsPlaced /\ RoundOver)'
  BY HearsStep, PlacedStep, OverStep
<1>4. Inv /\ [ManagerNext]_allVars => [Line!Next]_(Line!rvars)
  BY LineStep
<1> QED
  BY <1>1, <1>2, <1>3, <1>4, ManagerWellTyped, PTL
  DEF ManagerSafeSpec, RoundsKept, Line!SafeSpec

-----------------------------------------------------------------------------
(* The status, with both threads publishing.                                *)

\* A thread that has read what it is about to send.
HasRead(t) == phase[t] \in {"Announcing", "Publishing"}

\* A step that touches neither the topic nor who is at it.
TopicRests ==
  /\ UNCHANGED topicVars
  /\ \A t \in Threads : /\ InPublish(t)' <=> InPublish(t)
                        /\ HasRead(t)' <=> HasRead(t)

\* No phase in or out of publish_status is changed to one on the other side.
LEMMA PhaseStays ==
  ASSUME ManagerTyped, UNCHANGED topicVars, NEW t \in Threads, NEW p, NEW q,
         {p, q} \cap {"Announce", "Announcing", "Publish", "Publishing"} = {},
         phase[t] = p, phase' = [phase EXCEPT ![t] = q]
  PROVE  TopicRests
  BY DEF ManagerTyped, TopicRests, InPublish, HasRead

\* The topic and what is published there are touched in these steps only.
LEMMA PublishSteps ==
  ASSUME Typed, ManagerTyped, ThreadsPlaced, [ManagerNext]_allVars
  PROVE  \/ OnModeChanged \/ TopicRests
         \/ \E t \in Threads : RoundSucceeds(t) \/ ReadStatus(t) \/ SendStatus(t)
<1>1. ASSUME UNCHANGED <<topicVars, phase>> PROVE TopicRests
  BY <1>1 DEF TopicRests, InPublish, HasRead
<1>2. ASSUME NEW t \in Threads, Round(t)
      PROVE  TopicRests \/ RoundSucceeds(t) \/ ReadStatus(t) \/ SendStatus(t)
  <2>1. CASE CallAll(t)
    BY <2>1, PhaseStays DEF CallAll, Goes
  <2>2. CASE SpinOnce(t)
    BY <2>2, PhaseStays DEF SpinOnce, Goes
  <2>3. CASE SpinClash(t)
    BY <1>1, <2>3 DEF SpinClash, roundVars
  <2>4. CASE TakeResponse(t) \/ TakeLeftover(t)
    <3>1. phase[t] = "Spin" /\ UNCHANGED topicVars
      BY <2>4 DEF TakeResponse, TakeLeftover
    <3>2. PICK q \in {"Next", "Check"} : phase' = [phase EXCEPT ![t] = q]
      BY <2>4 DEF TakeResponse, TakeLeftover, Turns, Goes
    <3> QED BY <3>1, <3>2, PhaseStays
  <2>5. CASE LoopAgain(t)
    BY <2>5, PhaseStays DEF LoopAgain, Goes
  <2>6. CASE RoundFails(t)
    BY <2>6, PhaseStays DEF RoundFails, Leaves, Goes
  <2>7. ASSUME NEW away \in SUBSET Unreliable, CallSome(t, away) PROVE TopicRests
    BY <2>7, PhaseStays DEF CallSome, Leaves, Goes
  <2> QED BY <1>2, <2>1, <2>2, <2>3, <2>4, <2>5, <2>6, <2>7 DEF Round, Exchange
<1>3. CASE StateEntered
  <2>1. phase["Qt"] = "Out"
    BY <1>3 DEF StateEntered, QtStart, QtEnter, ThreadsPlaced, Typed, LoopOK
  <2> QED BY <1>3, <2>1, PhaseStays DEF StateEntered, Goes, Threads
<1>4. CASE SetChangedPromise
  BY <1>4, PhaseStays DEF SetChangedPromise, Goes, Threads
<1>5. CASE MachineGoesOn \/ (ExecutorAlone /\ ~OnModeChanged)
  BY <1>1, <1>5 DEF MachineGoesOn, ExecutorAlone, ChangeStateAnswers, GetFuture,
              FutureError, ConstructorSetsMode, ConstructorActivates, managerVars, roundVars
<1>6. ASSUME NEW s \in ActingStates, Works(s) PROVE TopicRests
  BY <1>1, <1>6 DEF Works, managerVars, roundVars
<1>7. ASSUME NEW c \in Requests, OnChangeState(c) PROVE TopicRests
  BY <1>1, <1>7 DEF OnChangeState, roundVars
<1>8. ASSUME NEW m \in ModeRequests, OnChangeMode(m) PROVE TopicRests
  BY <1>1, <1>8 DEF OnChangeMode, roundVars
<1>9. ASSUME NEW t \in Threads, NEW c \in Clients, Reply(t, c) PROVE TopicRests
  BY <1>1, <1>9 DEF Reply
<1>10. CASE UNCHANGED allVars
  BY <1>1, <1>10 DEF allVars, managerVars, roundVars
<1> QED BY <1>2, <1>3, <1>4, <1>5, <1>6, <1>7, <1>8, <1>9, <1>10
        DEF ManagerNext, QtSteps, QtAlone, ExecutorGoesOn, Threads

\* The threads keep to their places.
LEMMA ManagerPlaced == ManagerSafeSpec => [](Typed /\ ManagerTyped /\ ThreadsPlaced)
<1>1. ManagerInit => ThreadsPlaced
  BY DEF ManagerInit, Init, ThreadsPlaced, Threads
<1> QED BY <1>1, PlacedStep, ManagerWellTyped, PTL DEF ManagerSafeSpec

\* What a thread is about to send has its own half right: the other thread never
\* sets that.
OwnHalf ==
  /\ HasRead("Qt") => message["Qt"][1] = current_state
  /\ HasRead("Executor") => message["Executor"][2] = current_mode

\* Also when the threads publish at a time and the older message is sent last, one
\* half of it is current: for any clients, whatever they answer and whatever modes
\* are requested.
THEOREM HalfPublished == ManagerSafeSpec => []OneHalfCurrent
<1> DEFINE Placed == Typed /\ ManagerTyped /\ ThreadsPlaced
           Half == OwnHalf /\ OneHalfCurrent
<1>1. ManagerInit => Half
  BY DEF ManagerInit, OwnHalf, OneHalfCurrent, HasRead, Threads, Nothing
<1>2. Placed /\ Half /\ [ManagerNext]_allVars => Half'
  <2> SUFFICES ASSUME Placed, Half, [ManagerNext]_allVars PROVE Half'
    OBVIOUS
  <2> USE DEF Goes, HasRead, InPublish, Threads
  <2>1. phase \in [Threads -> Phases] /\ message \in [Threads -> Statuses]
    BY DEF ManagerTyped
  <2>2. CASE TopicRests
    BY <2>2 DEF TopicRests, topicVars, OwnHalf, OneHalfCurrent
  <2>3. CASE OnModeChanged
    BY <2>1, <2>3 DEF OnModeChanged, OwnHalf, OneHalfCurrent
  <2>4. ASSUME NEW t \in Threads, RoundSucceeds(t) PROVE Half'
    BY <2>1, <2>4 DEF RoundSucceeds, OwnHalf, OneHalfCurrent
  <2>5. ASSUME NEW t \in Threads, ReadStatus(t) PROVE Half'
    BY <2>1, <2>5 DEF ReadStatus, OwnHalf, OneHalfCurrent
  <2>6. ASSUME NEW t \in Threads, SendStatus(t) PROVE Half'
    <3>1. /\ status' = message[t] /\ UNCHANGED <<current_state, current_mode>>
          /\ status'[1] = current_state' \/ status'[2] = current_mode'
      BY <2>6 DEF SendStatus, OwnHalf
    <3>2. PICK p \in {"Out", "Call"} : phase' = [phase EXCEPT ![t] = p]
      BY <2>6 DEF SendStatus, Leaves
    <3>3. message' = [message EXCEPT ![t] = Nothing]
      BY <2>6 DEF SendStatus
    <3> QED BY <2>1, <3>1, <3>2, <3>3 DEF OwnHalf, OneHalfCurrent
  <2> QED BY <2>2, <2>3, <2>4, <2>5, <2>6, PublishSteps
<1>3. Half => OneHalfCurrent
  OBVIOUS
<1> QED BY <1>1, <1>2, <1>3, ManagerPlaced, PTL DEF ManagerSafeSpec

\* The two threads do not publish at a time.
OneAtATime == ~(InPublish("Qt") /\ InPublish("Executor"))

\* What is about to be sent is current.
MessagesCurrent ==
  \A t \in Threads : HasRead(t) => message[t] = <<current_state, current_mode>>

\* As long as the two threads do not publish at a time, the last message on the
\* topic is current whenever no thread is publishing, whatever modes are requested:
\* nothing else that they do at a time can make it stale.
THEOREM CurrentPublished == ManagerSafeSpec /\ []OneAtATime => []StatusCurrent
<1> DEFINE Placed == Typed /\ ManagerTyped /\ ThreadsPlaced
           Fresh == MessagesCurrent /\ StatusCurrent
<1>1. ManagerInit => Fresh
  BY DEF ManagerInit, MessagesCurrent, StatusCurrent, HasRead, Threads, Nothing
<1>2. Placed /\ Fresh /\ OneAtATime' /\ [ManagerNext]_allVars => Fresh'
  <2> SUFFICES ASSUME Placed, Fresh, OneAtATime', [ManagerNext]_allVars PROVE Fresh'
    OBVIOUS
  <2> USE DEF Goes, HasRead, InPublish, Threads
  <2>1. phase \in [Threads -> Phases] /\ message \in [Threads -> Statuses]
    BY DEF ManagerTyped
  <2>2. CASE TopicRests
    BY <2>2 DEF TopicRests, topicVars, MessagesCurrent, StatusCurrent
  <2>3. CASE OnModeChanged
    BY <2>1, <2>3 DEF OnModeChanged, OneAtATime, MessagesCurrent, StatusCurrent
  <2>4. ASSUME NEW t \in Threads, RoundSucceeds(t) PROVE Fresh'
    BY <2>1, <2>4 DEF RoundSucceeds, OneAtATime, MessagesCurrent, StatusCurrent
  <2>5. ASSUME NEW t \in Threads, ReadStatus(t) PROVE Fresh'
    BY <2>1, <2>5 DEF ReadStatus, MessagesCurrent, StatusCurrent
  <2>6. ASSUME NEW t \in Threads, SendStatus(t) PROVE Fresh'
    <3>1. /\ status' = <<current_state, current_mode>>
          /\ UNCHANGED <<current_state, current_mode>>
      BY <2>6 DEF SendStatus, MessagesCurrent
    <3>2. PICK p \in {"Out", "Call"} : phase' = [phase EXCEPT ![t] = p]
      BY <2>6 DEF SendStatus, Leaves
    <3>3. message' = [message EXCEPT ![t] = Nothing]
      BY <2>6 DEF SendStatus
    <3> QED BY <2>1, <3>1, <3>2, <3>3 DEF MessagesCurrent, StatusCurrent
  <2> QED BY <2>2, <2>3, <2>4, <2>5, <2>6, PublishSteps
<1>3. Fresh => StatusCurrent
  OBVIOUS
<1> QED BY <1>1, <1>2, <1>3, ManagerPlaced, PTL DEF ManagerSafeSpec

-----------------------------------------------------------------------------
(* A manager without clients.                                               *)

\* Nobody has a state on its way to the topic.
NoStateShown ==
  /\ current_state = "UNDEFINED" /\ status[1] = "UNDEFINED"
  /\ \A t \in Threads : message[t][1] = "UNDEFINED"

\* The line agrees to a state only if there are clients.
LEMMA AgreesWithClients ==
  ASSUME Typed, ManagerTyped, RoundHears, ThreadsPlaced, RoundOver,
         [ManagerNext]_allVars, NumClients = 0
  PROVE  current_state' = current_state
<1>1. CASE UNCHANGED Line!rvars
  BY <1>1 DEF Line!rvars
<1>2. CASE Line!Next
  BY <1>1, <1>2 DEF Line!Next, Line!Unnoticed, Line!Report, Line!Switch, Line!Announced,
                    Line!Round, Line!Ask, Line!Answer, Line!Refused, Line!Accepted,
                    Line!Published
<1> QED BY <1>1, <1>2, LineStep

\* Waiting for all of no clients is a failure: a manager without clients never takes a
\* state for current and never publishes one, whatever its machine does.
THEOREM AloneShowsNoState ==
  ASSUME NumClients = 0
  PROVE  ManagerSafeSpec => [](current_state = "UNDEFINED" /\ status[1] = "UNDEFINED")
<1> DEFINE Rounds == RoundHears /\ ThreadsPlaced /\ RoundOver
<1>1. ManagerInit => Rounds /\ NoStateShown
  BY DEF ManagerInit, Init, RoundHears, ThreadsPlaced, RoundOver, NoRound, Threads,
         NoStateShown, Nothing
<1>2. Typed /\ ManagerTyped /\ Rounds /\ [ManagerNext]_allVars => Rounds'
  BY HearsStep, PlacedStep, OverStep
<1>3. Typed /\ ManagerTyped /\ Rounds /\ NoStateShown /\ [ManagerNext]_allVars
        => NoStateShown'
  <2> SUFFICES ASSUME Typed, ManagerTyped, Rounds, NoStateShown, [ManagerNext]_allVars
               PROVE  NoStateShown'
    OBVIOUS
  <2>1. current_state' = "UNDEFINED"
    BY AgreesWithClients DEF NoStateShown
  <2>2. message \in [Threads -> Statuses]
    BY DEF ManagerTyped
  <2>3. ASSUME NEW t \in Threads, ReadStatus(t) PROVE NoStateShown'
    BY <2>1, <2>2, <2>3 DEF ReadStatus, NoStateShown
  <2>4. ASSUME NEW t \in Threads, SendStatus(t) PROVE NoStateShown'
    BY <2>1, <2>2, <2>4 DEF SendStatus, NoStateShown, Nothing
  <2>5. CASE OnModeChanged \/ TopicRests \/ \E t \in Threads : RoundSucceeds(t)
    BY <2>1, <2>5 DEF OnModeChanged, TopicRests, topicVars, RoundSucceeds, NoStateShown
  <2> QED BY <2>3, <2>4, <2>5, PublishSteps
<1>4. NoStateShown => current_state = "UNDEFINED" /\ status[1] = "UNDEFINED"
  BY DEF NoStateShown
<1> QED BY <1>1, <1>2, <1>3, <1>4, ManagerWellTyped, PTL DEF ManagerSafeSpec

=============================================================================
