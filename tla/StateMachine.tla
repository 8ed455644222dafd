---------------------------- MODULE StateMachine ----------------------------
(***************************************************************************)
(* packml_sm::StateMachine: one PackML state machine, run by three kinds of *)
(* thread.                                                                  *)
(*                                                                          *)
(*   - the Qt thread runs PackmlStateMachine's event loop.  It takes one    *)
(*     event from the queue, selects a transition, answers the promise of a *)
(*     command, exits the active state and enters the target;               *)
(*   - each acting state runs its operation on a thread of the Qt pool,     *)
(*     which posts StateCompleteEvent or ErrorEvent and then returns;       *)
(*   - the caller (the executor of the ROS node, or a test) calls activate, *)
(*     deactivate, changeState, changeMode, setExecute and setResetting.    *)
(*     There is one: every node of the repository spins a single thread.    *)
(*                                                                          *)
(* A step is what a thread does between two points where another thread can *)
(* see a difference.  activate is called once per machine, as everywhere in *)
(* the repository: a machine that was stopped is not started again.         *)
(***************************************************************************)
EXTENDS PackmlChart, Sequences

CONSTANTS
  Fallible,     \* the acting states whose operation may return an error code
  UserMethods,  \* the outcomes of the methods a caller binds
  Modes         \* the modes a caller asks for

ASSUME FallibleAssumption    == Fallible \subseteq ActingStates
ASSUME UserMethodsAssumption == UserMethods \subseteq {"Succeeds", "Fails"}
ASSUME ModesAssumption       == Modes \subseteq ModeTypes

VARIABLES
  lifecycle,    \* QStateMachine's state: NotRunning, Starting, Running
  stop,         \* QStateMachine's stop flag
  queue,        \* its external event queue
  conf,         \* its configuration: the active atomic state, or NoState
  qt,           \* where the Qt thread is: Check, Select, Exit, Enter
  target,       \* the target of the selected transition, while qt = Exit
  state_value,  \* state_value_, what getCurrentState() returns
  op,           \* the operation of each acting state: Idle, Running, Posted
  prom,         \* sm_internal_.prom: Unset, Accepted, Refused
  pc,           \* where the caller is: Ready, Post, Wait, SetMode
  call,         \* the command or mode the caller is working on
  available,    \* the states whose "Available" property is set
  currentMode,  \* the name of gen->currentMode
  user_method   \* the method bound by setExecute and setResetting

qtVars     == <<lifecycle, stop, conf, qt, target, state_value>>
callerVars == <<pc, call>>
modeVars   == <<available, currentMode>>
vars == <<qtVars, queue, op, prom, callerVars, modeVars, user_method>>

-----------------------------------------------------------------------------
NoState == "NoState"

NoMode == ""   \* the name of gen->currentMode before the first changeMode

Bindable == {"EXECUTE", "RESETTING"}

\* The constructors.  state_value_ is not initialised: it holds anything.
Init ==
  /\ lifecycle = "NotRunning"
  /\ stop = FALSE
  /\ queue = <<>>
  /\ conf = NoState
  /\ qt = "Check"
  /\ target = NoState
  /\ state_value \in States \cup {"UNDEFINED"}
  /\ op = [s \in ActingStates |-> "Idle"]
  /\ prom = "Unset"
  /\ pc = "Ready"
  /\ call = "None"
  /\ available = {}
  /\ currentMode = NoMode
  /\ user_method = [b \in Bindable |-> "None"]

\* postEvent: an event posted to a machine that is not running is dropped.
Posted(q, e) == IF lifecycle = "Running" THEN Append(q, e) ELSE q

-----------------------------------------------------------------------------
(* The Qt thread.                                                           *)

\* The queued start of the machine: the queue is cleared and the initial state
\* entered.  onEntry emits stateEntered, which calls setState in this thread.
QtStart ==
  /\ lifecycle = "Starting"
  /\ lifecycle' = "Running"
  /\ queue' = <<>>
  /\ conf' = "ABORTED"
  /\ state_value' = "ABORTED"
  /\ qt' = "Enter"
  /\ UNCHANGED <<stop, target, op, prom, callerVars, modeVars, user_method>>

\* The head of the event loop: the stop flag is looked at before the queue.
QtCheck ==
  /\ lifecycle = "Running" /\ qt = "Check" /\ ~stop
  /\ qt' = "Select"
  /\ UNCHANGED <<lifecycle, stop, queue, conf, target, state_value, op, prom,
                 callerVars, modeVars, user_method>>

QtStop ==
  /\ lifecycle = "Running" /\ qt = "Check" /\ stop
  /\ lifecycle' = "NotRunning"
  /\ stop' = FALSE
  /\ UNCHANGED <<queue, conf, qt, target, state_value, op, prom, callerVars,
                 modeVars, user_method>>

\* Nothing left in the queue: the loop ends until the next event is posted.
QtRest ==
  /\ qt = "Select" /\ queue = <<>>
  /\ qt' = "Check"
  /\ UNCHANGED <<lifecycle, stop, queue, conf, target, state_value, op, prom,
                 callerVars, modeVars, user_method>>

\* Mutant: only an accepted command sets the promise.
AnswerOnlyAccepted(e) ==
  IF e \in Commands /\ Accepted(conf, e, available) THEN "Accepted" ELSE prom

\* endSelectTransitions: the promise of a command is set before its transition
\* is carried out.
Answer(e) ==
  IF e \notin Commands THEN prom
  ELSE IF Accepted(conf, e, available) THEN "Accepted" ELSE "Refused"

\* The next event, when no transition is enabled: it is deleted, and the loop
\* goes on with the event after it, without a look at the stop flag.
QtIgnore ==
  /\ qt = "Select" /\ queue # <<>>
  /\ Enabled(conf, Head(queue), available) = {}
  /\ queue' = Tail(queue)
  /\ prom' = Answer(Head(queue))
  /\ UNCHANGED <<qtVars, op, callerVars, modeVars, user_method>>

\* The next event, when a transition is enabled.
QtSelect ==
  /\ qt = "Select" /\ queue # <<>>
  /\ \E t \in Enabled(conf, Head(queue), available) : target' = t.to
  /\ queue' = Tail(queue)
  /\ prom' = Answer(Head(queue))
  /\ qt' = "Exit"
  /\ UNCHANGED <<lifecycle, stop, conf, state_value, op, callerVars, modeVars,
                 user_method>>

\* Mutant: onExit does not wait.
OperationNotAwaited(s) == TRUE

\* ActingState::onExit waits for the operation to return.
OperationFinished(s) == s \in ActingStates => op[s] = "Idle"

\* Exit of the active state and entry of the target, up to the call of
\* on_state_changed.
QtEnter ==
  /\ qt = "Exit"
  /\ OperationFinished(conf)
  /\ conf' = target
  /\ state_value' = target
  /\ target' = NoState
  /\ qt' = "Enter"
  /\ UNCHANGED <<lifecycle, stop, queue, op, prom, callerVars, modeVars,
                 user_method>>

\* on_state_changed has returned: the entry of an acting state launches its
\* operation.
QtLaunch ==
  /\ qt = "Enter"
  /\ op' = [s \in ActingStates |-> IF s = conf THEN "Running" ELSE op[s]]
  /\ qt' = "Check"
  /\ UNCHANGED <<lifecycle, stop, queue, conf, target, state_value, prom,
                 callerVars, modeVars, user_method>>

QtThread == QtStart \/ QtCheck \/ QtStop \/ QtRest \/ QtIgnore \/ QtSelect
              \/ QtEnter \/ QtLaunch

-----------------------------------------------------------------------------
(* The operation of an acting state.                                        *)

\* Mutant: any operation may fail, that of ABORTING included.
OutcomesAnyError(s) == {"SC", "ERR"}

\* What operation() posts: the installed method decides, not the bound one,
\* which belongs to a state object that is never entered.
Outcomes(s) == {"SC"} \cup (IF s \in Fallible THEN {"ERR"} ELSE {})

\* Mutant: the operation posts again and again.
OpPostAgain(s) ==
  /\ op[s] = "Running"
  /\ \E e \in Outcomes(s) : queue' = Posted(queue, e)
  /\ UNCHANGED <<qtVars, op, prom, callerVars, modeVars, user_method>>

OpPost(s) ==
  /\ op[s] = "Running"
  /\ op' = [op EXCEPT ![s] = "Posted"]
  /\ \E e \in Outcomes(s) : queue' = Posted(queue, e)
  /\ UNCHANGED <<qtVars, prom, callerVars, modeVars, user_method>>

OpReturn(s) ==
  /\ op[s] = "Posted"
  /\ op' = [op EXCEPT ![s] = "Idle"]
  /\ UNCHANGED <<qtVars, queue, prom, callerVars, modeVars, user_method>>

\* Mutant: an operation that never returns.
OperationStuck(s) == OpPost(s)

Operation(s) == OpPost(s) \/ OpReturn(s)

-----------------------------------------------------------------------------
(* The caller.                                                              *)

\* Mutant: the command is forgotten before it is posted.
ChangeStateForgets(c) ==
  /\ pc = "Ready"
  /\ pc' = "Post"
  /\ prom' = "Unset"
  /\ UNCHANGED <<qtVars, call, queue, op, modeVars, user_method>>

\* changeState, up to the fresh promise.  NO_COMMAND returns an error at once
\* and changes nothing.
ChangeState(c) ==
  /\ pc = "Ready"
  /\ pc' = "Post"
  /\ call' = c
  /\ prom' = "Unset"
  /\ UNCHANGED <<qtVars, queue, op, modeVars, user_method>>

PostCommand ==
  /\ pc = "Post"
  /\ pc' = "Wait"
  /\ queue' = Posted(queue, call)
  /\ UNCHANGED <<qtVars, op, prom, call, modeVars, user_method>>

\* Mutant: the caller does not wait for the answer.
GetAnswerNoWait ==
  /\ pc = "Wait"
  /\ pc' = "Ready"
  /\ call' = "None"
  /\ UNCHANGED <<qtVars, queue, op, prom, modeVars, user_method>>

\* get_future().get(): the caller blocks until the promise is set.
GetAnswer ==
  /\ pc = "Wait" /\ prom # "Unset"
  /\ pc' = "Ready"
  /\ call' = "None"
  /\ UNCHANGED <<qtVars, queue, op, prom, modeVars, user_method>>

\* The test of mode_switcher, on what getCurrentState() returns.
MaySwitch == state_value \in SwitchStates \/ currentMode = NoMode

\* Mutant: every property is cleared before those of the mode are set.
ChangeModeClears(m) ==
  /\ pc = "Ready"
  /\ MaySwitch
  /\ pc' = "SetMode"
  /\ call' = m
  /\ available' = {}
  /\ UNCHANGED <<qtVars, queue, op, prom, currentMode, user_method>>

\* changeMode, past the test.  When the test fails nothing changes.
ChangeMode(m) ==
  /\ pc = "Ready"
  /\ MaySwitch
  /\ pc' = "SetMode"
  /\ call' = m
  /\ UNCHANGED <<qtVars, queue, op, prom, modeVars, user_method>>

\* The states whose property the loop of mode_switcher still has to change.
Unset == (available \ AvailableIn(call)) \cup (AvailableIn(call) \ available)

\* One turn of that loop, in the order of the map.
SetAvailable ==
  /\ pc = "SetMode"
  /\ \E s \in Unset :
       /\ \A r \in Unset : Code[s] =< Code[r]
       /\ available' = IF s \in available THEN available \ {s}
                                          ELSE available \cup {s}
  /\ UNCHANGED <<qtVars, queue, op, prom, callerVars, currentMode,
                 user_method>>

\* Mutant: the mode is committed before every property is set.
CommitModeEarly ==
  /\ pc = "SetMode"
  /\ currentMode' = call
  /\ pc' = "Ready"
  /\ call' = "None"
  /\ UNCHANGED <<qtVars, queue, op, prom, available, user_method>>

CommitMode ==
  /\ pc = "SetMode" /\ Unset = {}
  /\ currentMode' = call
  /\ pc' = "Ready"
  /\ call' = "None"
  /\ UNCHANGED <<qtVars, queue, op, prom, available, user_method>>

Activate ==
  /\ pc = "Ready"
  /\ lifecycle = "NotRunning" /\ conf = NoState
  /\ lifecycle' = "Starting"
  /\ UNCHANGED <<stop, queue, conf, qt, target, state_value, op, prom,
                 callerVars, modeVars, user_method>>

\* QStateMachine::stop: only a flag, the event loop stops later.
Deactivate ==
  /\ pc = "Ready"
  /\ lifecycle # "NotRunning"
  /\ stop' = TRUE
  /\ UNCHANGED <<lifecycle, queue, conf, qt, target, state_value, op, prom,
                 callerVars, modeVars, user_method>>

\* setExecute, setResetting: they bind the method of execute_ and resetting_,
\* the objects of the constructor, and not of the states the generator made.
Bind(b, m) ==
  /\ pc = "Ready"
  /\ user_method' = [user_method EXCEPT ![b] = m]
  /\ UNCHANGED <<qtVars, queue, op, prom, callerVars, modeVars>>

\* What the caller does once inside a call.
CallGoesOn == PostCommand \/ GetAnswer \/ SetAvailable \/ CommitMode

Caller ==
  \/ \E c \in Commands : ChangeState(c)
  \/ \E m \in Modes : ChangeMode(m)
  \/ CallGoesOn
  \/ Activate
  \/ Deactivate
  \/ \E b \in Bindable, m \in UserMethods : Bind(b, m)

-----------------------------------------------------------------------------
Next == QtThread \/ (\E s \in ActingStates : Operation(s)) \/ Caller

SafeSpec == Init /\ [][Next]_vars

\* The Qt thread and the pool are scheduled, every operation returns, and the
\* caller goes on with a call it is in.  Nobody is obliged to call anything.
Fairness ==
  /\ WF_vars(QtThread)
  /\ \A s \in ActingStates : WF_vars(Operation(s))
  /\ WF_vars(CallGoesOn)

Spec == SafeSpec /\ Fairness

-----------------------------------------------------------------------------
(* Invariants.                                                              *)

TypeOK ==
  /\ lifecycle \in {"NotRunning", "Starting", "Running"}
  /\ stop \in BOOLEAN
  /\ queue \in Seq(Events)
  /\ conf \in States \cup {NoState}
  /\ qt \in {"Check", "Select", "Exit", "Enter"}
  /\ target \in States \cup {NoState}
  /\ state_value \in States \cup {"UNDEFINED"}
  /\ op \in [ActingStates -> {"Idle", "Running", "Posted"}]
  /\ prom \in {"Unset", "Accepted", "Refused"}
  /\ pc \in {"Ready", "Post", "Wait", "SetMode"}
  /\ call \in Commands \cup Modes \cup {"None"}
  /\ available \subseteq States
  /\ currentMode \in Modes \cup {NoMode}
  /\ user_method \in [Bindable -> UserMethods \cup {"None"}]

CommandsIn(q) == {i \in 1..Len(q) : q[i] \in Commands}

\* Only the active state's operation is on a pool thread, and never while the
\* state is being entered: two methods of the machine never run side by side,
\* and a self transition of EXECUTE never runs its method twice at a time.
\* ActingState::onExit's waitForFinished is there for this.
OperationOwner ==
  \A s \in ActingStates : op[s] # "Idle" => conf = s /\ qt # "Enter"

\* A command in the queue belongs to the call the caller is blocked in, whose
\* promise is not yet set, and it is the only one: endSelectTransitions never
\* sets a promise twice (std::future_error in the Qt thread) and never answers
\* a call with the fate of another's command.
OneCommand ==
  \A i \in CommandsIn(queue) :
    /\ pc = "Wait" /\ prom = "Unset" /\ queue[i] = call
    /\ CommandsIn(queue) = {i}

\* What the caller is told is what the machine does with the command: success
\* when a transition is selected, failure when none is.  ABORTING is left out:
\* no transition there tests a command, and Qt reports what nobody tested as
\* accepted.
AnswerTells ==
  [][ (prom = "Unset" /\ prom' # "Unset" /\ conf # "ABORTING")
        => (prom' = "Accepted") = (qt' = "Exit") ]_vars

\* Outside changeMode, the "Available" properties that eventTest reads are
\* those of the mode the generator calls current.
ModeConsistent ==
  pc # "SetMode" =>
    available = IF currentMode = NoMode THEN {} ELSE AvailableIn(currentMode)

\* Before the first changeMode the machine cannot leave the state it starts in,
\* whatever is commanded.
WaitsForMode ==
  currentMode = NoMode => conf \in {NoState, "ABORTED"} /\ qt # "Exit"

\* A completion event may outlive its state: a command that is in the queue
\* before it takes the machine elsewhere.  Such events pile up only this far.
MaxQueue == 5
QueueBounded == Len(queue) =< MaxQueue

\* Once the machine has left ABORTED no event of an operation is lost to a mode,
\* also while one is being switched: an error aborts the state it is taken in,
\* whichever operation it is from, and a completion ends every acting state but
\* EXECUTE, whose next state a mode may disable.
EventsHeeded ==
  [][ (qt = "Select" /\ queue # <<>> /\ queue' = Tail(queue))
        => /\ (Head(queue) = "ERR" /\ conf \notin {"ABORTING", "ABORTED"})
                => target' = "ABORTING" /\ qt' = "Exit"
           /\ (Head(queue) = "SC" /\ conf \in ActingStates \ {"EXECUTE"})
                => qt' = "Exit" ]_vars

-----------------------------------------------------------------------------
(* The unit an operator sees.                                               *)

CommittedTo ==
  IF conf = NoState THEN "Off" ELSE IF qt = "Exit" THEN target ELSE conf

Reported == IF conf = NoState THEN "Off" ELSE state_value

Operating == \E s \in ActingStates : op[s] # "Idle"

Unit == INSTANCE PackmlUnit
          WITH unit <- CommittedTo, shown <- Reported, working <- Operating

\* The machine implements the abstract unit: through every interleaving of its
\* threads the reported states walk the PackML diagram, moved only by commands
\* that the panel offers, by completions and by failures, and an operation is
\* over before the next state is reported.
ImplementsSafely == Unit!SafeSpec
Implements == Unit!Spec

\* Once it has a mode the machine refuses a command only in a state in which the
\* panel does not offer it.  With ImplementsSafely, by which no other command
\* moves the machine, the panel and the machine agree on every button.
OfferedAccepted ==
  [][ (prom = "Unset" /\ prom' = "Refused")
        => (currentMode = NoMode \/ call \notin Unit!Buttons(conf)) ]_vars

-----------------------------------------------------------------------------
(* Liveness.                                                                *)

\* A command that reached the queue is answered, or the machine stops.
CallAnswered ==
  CommandsIn(queue) # {} ~> pc = "Ready" \/ lifecycle = "NotRunning"

\* Every acting state but EXECUTE, which a continuous cycle repeats and the
\* maintenance mode never completes, is left.
ActingEnds ==
  \A s \in ActingStates \ {"EXECUTE"} :
    conf = s ~> conf # s \/ lifecycle = "NotRunning"

\* The error of a failed operation brings the machine to ABORTED.
ErrorAborts ==
  (\E i \in 1..Len(queue) : queue[i] = "ERR")
    ~> conf = "ABORTED" \/ lifecycle = "NotRunning"

=============================================================================
