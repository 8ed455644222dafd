# packml_ros2 in TLA+

packml_ros2 runs a PackML unit: a state machine on Qt's state machine framework
(`packml_sm`), a ROS 2 manager that shares its states and modes with other nodes
(`packml_ros`), an RViz panel (`packml_plugin`) and a driver for a PLC that runs
the machine itself (`packml_plc`). This directory holds the TLA+ modules of these
parts and of their compositions, the TLC runs that check them and the proofs that
TLAPS checks.
`PROJECT.json` lists the components, the runs, a mutant for every property, the
source lines of every definition, the findings, the hazards and the theorems.

    tlc -workers 2 -config SingleThreads.cfg MCStateMachine     (in this directory)
    tlc -workers 2 -config LineLiveness.cfg PackmlLine
    tlapm StateMachineProofs.tla                (and each of the other *Proofs.tla)

## 1. The system

### Components

| component | state it keeps | operations | correct when |
|---|---|---|---|
| state chart (`states_generator.hpp`, `common.hpp`, `transitions/`) | 17 states, 2 super states, 22 transitions; the `Available` property of each state | `generate_all_packml_states`, `eventTest` | the moves are those of the PackML diagram; a command is refused exactly when no transition takes it |
| state machine (`state_machine.cpp`) | Qt's queue, configuration and stop flag; `state_value_`; one promise; the mode | `activate`, `deactivate`, `changeState`, `changeMode`, `setExecute`, `setResetting`, `setState` | one answer per command, to the call that waits for it; every posted command is answered |
| acting states (`states/acting_state.cpp`) | the operation on Qt's thread pool | `onEntry`, `onExit`, `operation` | operations never overlap; each ends and moves the machine on, or aborts it |
| mode switching (`mode_switcher`) | `currentMode`, the `Available` properties | `changeMode` | the mode is switched only in IDLE, as a whole |
| manager (`packml_interface.hpp`, `packml_ros-new.hpp`) | current and switching state and mode, `changed_prom_`, the clients | `changeMode`, `changeState`, `allStatus` services, `on_state_changed`, `on_mode_changed`, status topic | a state is published when every node agreed to it; a service call ends with the truth |
| node interface (`packml_interface.hpp`) | current and switching state and mode, two waiting flags | two transition services, status subscription | a node that agreed to a state gets to it |
| legacy node (`packml_ros.hpp`) | a count of polls per state | `transition`, `allStatus`, `modeChange` services; those of the manager, which it inherits | what it answers is the state of its machine; it always answers |
| panel (`packml_widget.cpp`) | enabled buttons, states in red, pending requests | 200 ms poll given up after 100 ms, nine buttons | what is lit is the state at the last poll, never an answer to an older one |
| PLC listener (`packml_plc_listener.py`) | `newvals`, a time per state; the PLC's tags | listening thread, `allStatus` | what it answers was the PLC's state a scan ago; a torn scan goes away |
| PLC sender (`packml_plc_sender.py`) | none | `transition` | a button sends its own command |
| messages (`packml_msgs/`), build and launch files | none | none | |

### How they interact

Three kinds of thread run the state machine.

* The **Qt thread** (`qtWorker`) runs the event loop of `PackmlStateMachine`. It
  takes one event, tests the transitions of the active state and its super
  states, answers the promise of a command in `endSelectTransitions`, runs
  `onExit` of the old state, which waits for its operation, then `onEntry` of the
  new one, which calls `setState` and through it `on_state_changed`, and only then
  launches the operation.
* The **operation** of an acting state runs on a thread of Qt's pool and posts
  `StateCompleteEvent` or `ErrorEvent` as its last act.
* The **caller** (the executor of the ROS node, or a test) posts commands and
  blocks on the promise, and switches modes by writing properties which the Qt
  thread reads.

The manager asks each node over a service, from the Qt thread for a state and
from the executor for a mode, and publishes the status that the nodes follow: on a
best effort topic, once per change.

The panel polls a status service by a timer, in the thread of its buttons. It was
made for two servers of that service: the legacy node, whose one thread also calls
the machine and which has a second, empty service of that name, and the PLC listener, whose one thread answers from what another thread
has read from the PLC. (The node that is built today, `SMNode_new`, has an
`allStatus` service that answers nothing, and the listener's service is named
`/allStatus`, so that the panel needs a remapping to see it.)

### What is hard

* An event may be stale: a command queued before a completion moves the machine,
  and the completion is tested in another state, which may be acting too.
* A command, a completion and an error may be in the queue at once, in any order.
* An acting state is left while its operation runs; EXECUTE of a continuous cycle
  re-enters itself.
* The promise is one object for all commands, replaced by the caller and set by
  the Qt thread; the answer is set *before* the transition is carried out, so that
  a caller that was told success still reads the old state.
* The mode is tested and set in the caller's thread while the machine moves.
* A machine that is stopped drops what is posted to it, and its caller waits for
  ever; a machine that has no mode refuses everything.
* In the manager: futures that never complete in the Qt thread, two threads that
  spin one executor, a promise replaced on every state change, a status topic that
  loses messages, a mode that is committed before the nodes refuse it.
* A node hears of a change on two ways that are not ordered: a message may overtake
  the request that belongs to it, or a later one.
* A request that the manager has given up is handled by the node all the same, and
  its response comes in during a later round.
* The panel gives up polls whose answers come in during later polls; the PLC changes
  while its tags are read one by one, and `newvals` is replaced while it is copied.

`PROJECT.json` gives each of these with its line and the properties that cover it.

## 2. The modules

    PackmlChart              the chart: constants and operators, no variable
      PackmlDiagram          the diagram as panel and tests know it: operators
        PackmlUnit           abstract: what an operator sees of a unit
        PackmlPanel          the panel and its polls
          PackmlPanelProofs  lemmas about polls and answers
          PackmlPlc          panel, PLC driver and PLC
            MCPackmlPlc      TLC: the tags
            PackmlPlcProofs  theorems of PackmlPlc
      StateMachine           the machine with its threads; implements PackmlUnit
        MCStateMachine       TLC: values, and claims of the repository that fail
        StateMachineProofs   theorems of StateMachine
        PackmlRound          abstract: the manager's rounds, each by itself (no EXTENDS)
        PackmlManager        the manager node with its clients, around the machine;
                             implements PackmlRound
          MCPackmlManager    TLC: a claim about the manager that fails
          PackmlManagerProofs  theorems of PackmlManager
          PackmlLine         the manager and the nodes that follow it
            PackmlLineProofs   theorems of PackmlLine
      LegacyNode             the legacy node: StateMachine and PackmlPanel
        MCLegacyNode         TLC: what is in memory that is not initialised
        LegacyNodeProofs     theorems of LegacyNode
    QueueLemmas              a lemma about queues, for the proofs

**PackmlChart** translates `generate_all_packml_states`: `Transitions` is a set of
records (from, on, to) where *from* may be a super state; `Lineage` is the active
state with its super states. `Enabled(s, e, avail)` is the set of transitions that
`eventTest` lets pass. `Accepted` is the accepted flag of a command event once the
tests are over: a `QEvent` starts accepted, each `CmdTransition` that was tested
without firing ignores it, the one that fires accepts it and ends the tests; so an
event that no command transition tested stays accepted. `Cycle` selects
`SingleCycle` or `ContinuousCycle`.

**PackmlUnit** is the abstract specification. It has no threads and no events: a
unit is off, at a state, or committed to the next; an operator moves it only with
the buttons that `updateButtonState` enables, work follows `After`, a failure leads
to ABORTING, and the next state is shown only when the work is over. Its diagram,
`PackmlDiagram`, is read from the panel and the `follow_diagram` tests, not from the generator,
so that the implementation says something.

**StateMachine** has one action per step of a thread between two points where
another thread can see the difference:

| action | code |
|---|---|
| `QtStart`, `QtCheck`, `QtStop`, `QtRest`, `QtIgnore`, `QtSelect` | the loop of `QStateMachine` (external): start, stop flag, empty queue, event taken without and with a transition; `QtIgnore` and `QtSelect` include `endSelectTransitions` (`Answer`) |
| `QtEnter` | `onExit` (`waitForFinished`), `onEntry` up to `setState` |
| `QtLaunch` | the rest of `ActingState::onEntry` |
| `OpPost`, `OpReturn` | `ActingState::operation`: the event is posted, then the method returns |
| `ChangeState`, `PostCommand`, `GetAnswer` | `changeState` and `_start` .. `_abort`: fresh promise, `postEvent`, `get()` |
| `ChangeMode`, `SetAvailable`, `CommitMode` | `changeMode` and `mode_switcher`: the test, one turn of the loop, the assignment |
| `Activate`, `Deactivate`, `Bind` | `activate`, `deactivate`, `setExecute` and `setResetting` |

`QtSelect` to `QtEnter` is the window between the answer and the change of state;
`QtEnter` to `QtLaunch` is the time of `on_state_changed`. `state_value_` is not
initialised in the code: `Init` allows every value. Qt's part is modelled from how
the code uses it: `postEvent` of a machine that is not running drops the event,
`stop` only sets a flag, the flag is looked at when the loop begins anew and not
between two ignored events.

Left out of the module: what is printed, the state times that `onExit` sums up and
only prints, delays, the error code (only zero or not), `changeState(NO_COMMAND)`
(an error at once, nothing changes) and a failed test of `mode_switcher` (the same).
`activate` is called once per machine, as in every program of the repository.

**PackmlManager** composes the machine with the node that drives it: it EXTENDS
`StateMachine`, and a step of the machine's threads is an action of that module joined
with what the manager does in it. `phase` says where each of the two threads is.

| action | code |
|---|---|
| `ConstructorSetsMode`, `ConstructorActivates` | `SMNode_new`: MANUAL, then `activate`, then the node is spun |
| `StateEntered`, `SetChangedPromise` | the machine calls `on_state_changed`; `changed_prom_` is replaced and set |
| `MachineGoesOn` | the event loop, once `on_state_changed` has returned |
| `CallAll`, `CallSome` | `call_all_clients`, and the two tests on the number of futures: with a client away the others keep a request that nobody waits for (`leftover`) |
| `SpinOnce`, `SpinClash`, `TakeResponse`, `TakeLeftover`, `Turns` | `spin_once` on each client in turn (rclcpp, external): it throws when the other thread is in the same executor, blocks until a response is there and takes one, whosesoever it is |
| `LoopAgain`, `RoundFails`, `RoundSucceeds` | the futures are read in order, `success` is overwritten; the loop goes on, or ends |
| `ReadStatus`, `SendStatus` | `publish_status`, with the other thread between reading and publishing |
| `OnChangeState`, `ChangeStateAnswers`, `GetFuture`, `FutureError` | `on_change_state`: the machine's answer, then `changed_prom_.get_future().get()`, which throws when the future was taken before |
| `OnChangeMode`, `OnModeChanged` | `on_change_mode` and, within `sm->changeMode`, `on_mode_changed` |
| `Reply` | a node's answer, either one (`onStateTranseReq`, `onModeTransReq`) |

The reads of the futures in one turn are one step, and so are the requests that
`call_all_clients` sends: the other thread can only deliver a response in between,
which the model puts before or after. `success` is not a variable: it is true whenever
the loop is entered. `switching_mode` is left out, as it equals `current_mode` wherever
it is read. A fresh executor may wake once for its own callback group, which costs one
more turn of the loop and is left out. `leftover` does not count: taking such a response
may leave another.

**PackmlRound** is the abstract specification of that: no executors, futures, promises
or messages, only where each thread is (`stage`), what each client has said to its
request (`said`), and what is reported, agreed and switched to. The unit reports a
state and no other until the round for it is over; a mode is switched first and asked
for afterwards; a round that was begun fails only when a client refuses; a state is
agreed when all have answered and the last of them accepted. `RoundsKept` is its
safety part, with the mapping of `Stage` and `Said`: an answer counts as said from the
moment the client gives it, whether its response was taken, or read, yet.

**PackmlLine** EXTENDS `PackmlManager` with the nodes' side. For each client in `Nodes`
it has what `PackmlNodeInterface` keeps, `view_state`, `view_mode` and the two waiting
flags, with its subscription (`feed`) and the requests of given up rounds that it has
not handled (`overdue`). The flags are not initialised: `LineInit` allows every value.

| action | code |
|---|---|
| `NodeAnswers`, `NodeAnswersLate` | `onStateTranseReq` and `onModeTransReq`: the node agrees, and waits, or refuses; also for a request on whose answer nobody waits |
| `NodeHears` (`TakesState`, `TakesMode`) | `onStatusChanged`, with its disabled branches as they are: any message is taken |
| `Publishes` | `publish_status` with the topic (external): the message is lost or comes to the end of the queue, which drops its oldest when it is full |
| `Abandons` | a round that fails: the requests that were sent stay with the nodes |

`switching_state` and `switching_mode` are only printed. The module's `LineNext` joins
each action of the manager with what it does to the nodes; a node goes on after the
manager has crashed.

**PackmlPanel** has the panel: `Poll`, `Takes`, `TakesLate`, `GivesUp` are
`timerEvent`, `Draws` is `updateButtonState`, `Clicks` the nine button slots. The client
keeps a poll that was given up, so that its answer is received in a later poll and goes
nowhere. Answers keep the order of the polls, as service and client are one thread each;
so polls have no names: while the panel polls, its own is the last under way. The
service is the other module's: `Answered(s)` sends an answer that names the states *s*.

**PackmlPlc** composes it with the listener. `ReadsTag` reads one tag, `StoresScan`
replaces `newvals`; `CopiesField` copies one field of an answer, `SendsData` sends it;
`LosesConnection` is the error that ends the listening thread. The PLC (`PlcMoves`,
external) moves along the diagram. `inScan`, `inNewvals`, `recent` are history: which
states the PLC had been in, for the properties.

**LegacyNode** composes the panel with `StateMachine`: the caller of the machine is the
node's executor, which is in one handler at a time, so that no poll is answered while a
command waits for the Qt thread. `SMNode` has six services, three of them inherited:
its constructor calls `PackmlManagerInterface::init` first.

| action | code |
|---|---|
| `BindsExecute`, `Activates` | the constructor |
| `TransRequest`, `ModeRequest`, `StatusRequest` | its own services |
| `OnChangeState`, `OnChangeMode`, `OnAllStatus` | the inherited ones: `on_change_state`, `on_change_mode`, and `on_all_status`, which answers with no state |
| `HandlerGoesOn` | the call of the machine; after it an accepted command of the inherited `changeState` waits for `changed_prom_` (`inherited = "Promise"`), which nobody sets here, and the inherited `changeMode` asks the nodes of the line (`"Round"`) |
| `RoundOver` | `wait_all_futures` is over, which it need not ever be (`PackmlManager` has the rounds step by step) |

Two services have the name `~/allStatus`. Each gets every poll; the answer that is sent
first is the one the client goes by, the other goes nowhere. `lead` says how many polls the
inherited one is ahead: only the service that is not behind answers for the panel. That
answers reach the client in the order they are sent is assumed for both services, which
send from one thread. `since` is history. The constructor never calls `changeMode`: until
somebody else requests a mode the machine refuses everything.

## 3. The runs

| run (module) | constants | shows |
|---|---|---|
| `SingleThreads` (`MCStateMachine`) | single cycle, no fault, two modes, bound methods | `OperationOwner`, `OneCommand`, `ModeConsistent`, `AnswerTells`, `OfferedAccepted` |
| `ContinuousFaults` (`MCStateMachine`) | continuous cycle, every operation but ABORTING's may fail, two modes, fair threads | `OperationOwner` where EXECUTE re-enters itself, `QueueBounded`, `EventsHeeded`, `ImplementsSafely`; `CallAnswered`, `ErrorAborts` against a loop that posts for ever |
| `SingleLiveness` (`MCStateMachine`) | single cycle, STARTING and EXECUTE may fail, fair threads | `Implements`, `CallAnswered`, `ActingEnds`, `ErrorAborts` |
| `ManagerThreads` (`MCPackmlManager`) | two clients, the first may be away or never answer; CLEAR, RESET; MAINTENANCE requested | `PublishedAnswered`, `ModeInStep`, `RoundsKept`, `OneHalfCurrent` while state and mode rounds overlap |
| `LineLiveness` (`PackmlLine`) | two clients that answer yes or no, the first a node with a lossy topic and a queue of two, the second may be away; CLEAR; no mode after the start; fair threads | `NodeUpToDate`, `NodeFollows`, `StatusCurrent`, `RequestAnswered`, `RoundEnds` |
| `PlcPanel` (`MCPackmlPlc`) | four tags, two polls under way | `LitRecently`, `PanelFollows` |
| `LegacyPanel` (`MCLegacyNode`) | single cycle, PRODUCTION; CLEAR clicked, RESET requested of the inherited service; two polls and one click under way | `LitSincePoll`, `PanelShowsState` |
| `BoundMethod`, `NoModeClear`, `StaleModeCheck` (`MCStateMachine`), `HiddenRefusal` (`MCPackmlManager`), `ModeWait` (`PackmlLine`) | | the findings below |

`CHECK_DEADLOCK` is off, except in `PlcPanel`, because the system does stop: after
`deactivate`, when its caller posted a command to a machine that did not run and blocks
for ever, or when an exception ends the manager.

**Bounds.** In the machine nothing is cut: the queue, the counters and the calls have no
bound in the guards. The state space is finite because the machine itself bounds its queue:
the caller is blocked while its command is queued, an operation posts once, and a
state is left only after its operation returned. `QueueBounded` states the bound
(five; with four TLC finds a state with five events), and `QueueStaysShort` proves it.
PRODUCTION and MAINTENANCE stand for all modes: the code gives every other mode the table
of PRODUCTION.

For the manager two clients are the least with which a refusal can hide behind an
agreement and a leftover response can disturb a later round. CLEAR and RESET lead to
IDLE, the only state in which a mode is changed and the one in which state and mode
rounds overlap. `LineLiveness` has one node that is followed: nodes do not see each
other, and the second client is there for the rounds that fail. Its queue of two
(`Depth`; five in the code) overflows, as CLEAR alone leads through three states.

`MaxPolls` bounds the polls under way at once, that is how many the panel gives up in a
row, `MaxPresses` the clicks that the node has not served, and `MaxLead` how far one of
the two services of the legacy node is ahead of the other. With two polls there is
one that was given up beside the one that counts, which is what the panel has to tell
apart; with a lead of one either service may answer the one poll and the other the next.
`BoundedSpec` takes two values for the uninitialised `state_value_` of the legacy
node, one in which a mode may be switched and one that is no state (`Garbage`); the runs
of the machine and the proofs take all. CLEAR and RESET bring the node to a click
that is accepted, one that is refused, and to the inherited service in both cases. The tags of `PlcPanel` are read against the way of the PLC at first and with it
later, so that a scan sees none and two states.

**Faults.** ABORTING's operation does not fail in the runs: no method can be installed
there (`ActingState::Aborting` takes a delay only), and what runs without one always
posts a completion (`acting_state.cpp:63`). Clients are away, refuse or never
answer, messages are lost and overrun, polls time out and are answered late, and the
connection to the PLC is lost for good, as the listener has no way to open it again.

**Fairness** (only in the liveness runs):

* `Fairness`: weak fairness of the Qt thread (its loop is always scheduled), of each
  operation (the default operations sleep and return), and of the caller inside a call.
  Nobody has to call anything: commands, modes, `activate` and `deactivate` are not fair.
  `GetAnswer` is enabled only once the promise is set, so `CallAnswered` is not granted by
  fairness of the caller.
* `LineFairness`: the manager's two threads (the executor within a handler), the
  operations, the answers of clients that were asked, and each node's own executor. No
  request and no delivery is fair.
* `PlcFairness`: the listening thread, the node that serves, the panel's timer and its
  handling of answers. That the PLC moves, that the connection is lost and that a poll
  times out is never obliged: `PanelFollows` is about behaviours in which the PLC rests
  and polls stop timing out.
* `LegacyFairness`: the Qt thread, the operations, the node's thread, the timer; strong
  fairness of `StatusRequest` and of `OnAllStatus`, since the executor serves each of its
  services in turn and clicks or modes cannot keep it from a poll for ever. No round of the
  inherited `changeMode` has to end.

### Findings

1. **`BoundMethod`.** `setExecute` and `setResetting` bind a method to the state
   objects of the constructor, which are not part of the running chart; the method is
   never called (`state_machine.cpp:336`, against `state_machine.hpp:279` and the
   `set_execute` test). The run shows EXECUTE posting a completion while the bound
   method fails.
2. **`NoModeClear`.** Before the first `changeMode` no state is available, and CLEAR is
   refused in ABORTED, although a test of `packml_sm` that calls no `changeMode` asserts
   that it is accepted (`utest.cpp:82-83`, `packml_transitions.hpp:59`). `WaitsForMode`,
   which is proved, says that such a machine does nothing at all.
3. **`StaleModeCheck`.** A mode may be switched while the machine leaves IDLE, and
   the machine ends up in COMPLETING with MAINTENANCE, which disables it
   (`states_generator.hpp:106`).
4. **`HiddenRefusal`.** `wait_all_futures` keeps the answer it reads last, so a refusal
   of one client is hidden by the agreement of a later one
   (`packml_interface.hpp:384`, against the comment on line 364). `PublishedAnswered`
   says what does hold: all have answered, and the last client of the map agreed.
5. **`ModeWait`.** A mode is published before the nodes are asked for it
   (`packml_ros-new.hpp:228`). A node that hears the message first takes the mode over,
   agrees to it afterwards and then says `is_switching_mode()` for ever
   (`packml_interface.hpp:114`), when no mode change is active any more. No answer of the
   node tells of it: the words chosen at line 137 are replaced on a refusal (line 148)
   and not sent on a success.

Two more statements of the repository do not hold, and invariants say what holds
instead:

* in ABORTING every command is reported as accepted and nothing happens
  (`state_machine.hpp:60`, against "If successful it will call callback
  on_state_changed", `state_machine.cpp:345`): `AnswerTells` says that this is the only state;
* a mode that the machine accepted, and that is published, is answered with a failure when
  a client refuses it (`packml_interface.hpp:465`, against "True if Mode has been accepted",
  `ModeChange.srv:9`): `ModeInStep` says that manager and machine do agree on it.

Of the manager TLC also shows, where no text of the repository says otherwise:

* with modes requested `RoundEnds` fails although every node answers. The rounds of
  IDLE and of a mode overlap, one thread takes the other's response, and the other calls
  `spin_once` once more for a response that does not come: the Qt thread, and with it the
  machine, is blocked for good. This is why `LineLiveness` requests no mode;
* it also fails after a client was away once, although every client answers from then on.
  The others had been asked; the response of one of them to the abandoned request is taken
  in the next round in place of the one that is waited for; the loop begins anew, and blocks
  at a client whose response it has read already. `RoundEnds` and `RequestAnswered`
  therefore hold as long as no request was abandoned (`leftover`);
* `StatusCurrent` fails then, too: the executor publishes a status it read before the Qt
  thread published the new state. `OneHalfCurrent` holds all the same: the mode of that
  message is current, as the state is when the Qt thread is the late one;
* the two threads may be in the executor of one client, which throws (`SpinClash`), and
  `get_future` may be called twice on one promise, which throws (`FutureError`): a first
  handler takes the new promise late, a second one the same promise early;
* a success may be answered before the machine has entered the new state, as
  `changed_prom_` is still that of the state before;
* a command that comes in while the machine starts is dropped, and the node's thread
  waits for ever; `RequestAnswered` therefore speaks of commands in the queue.

Of the panel: two states may be lit at once (IDLE and STARTING from a torn scan, IDLE and
EXECUTE from a torn answer), and none after one was lit, against the panel's account of
itself (`packml_widget.hpp:67`); `LitRecently` and `PanelFollows` say how old and how
lasting this may be. The legacy node hangs when a button is clicked while its machine
starts: every button is enabled until the first answer (`packml.ui`); and with the first
command that is accepted over the `changeState` it inherits (`packml_interface.hpp:511`).
With the legacy node the panel may also stay dark for ever while the machine is in a state
and every poll is answered in time: the inherited `~/allStatus` is first each time
(`packml_interface.hpp:583`, 614). `PanelShowsState` therefore says that the panel ends up
with no other state than the machine's; that it ends up with that state does not hold.

While the model was explored TLC also found that a unit whose EXECUTE failed may be
reported COMPLETE before its error aborts it: EXECUTE is left by a stale completion
(of a state that a command had left early), its operation posts the error late, and a
second stale completion is ahead of that error in the queue. No text of the repository
rules this out, so it is not a finding; `ErrorAborts` says that the error still aborts.

## 4. The proofs

### The machine

`StateMachineProofs` proves, for both cycles and for every choice of failing
operations, bound methods and modes allowed by the assumptions `CycleAssumption`,
`FallibleAssumption`, `UserMethodsAssumption` and `ModesAssumption`:

| theorem | inductive invariant | why it is needed |
|---|---|---|
| `TypeCorrect`: `TypeOK` | `Typed` = `TypeOK`, `CallOK`, `LoopOK` (`WellTyped`) | `call` is a command or a mode according to `pc`; `qt` leaves `Check` only in a running machine |
| `OperationOwned`: `OperationOwner` | itself, with `Typed` | before the start there is no active state, so no operation |
| `CommandsAnswered`: `OneCommand` | `CommandProtocol`: the promise is fresh when a command is about to be posted | a posted command must find its promise unset |
| `ModesConsistent`: `ModeConsistent` | itself, with `Typed` | |
| `StaysWithoutMode`: `WaitsForMode` | `Untouched`: before the first mode only commands are queued | an event of the blocked caller excludes a mode switch in progress, so that nothing is available |
| `AnswersTrue`: `AnswerTells` | `Typed` and `CommandIsTested` | a command transition is tested in every state but ABORTING |
| `ButtonsAccepted`: `OfferedAccepted` | `Typed`, `OneCommand`, `ModeConsistent`, with `ButtonHasTransition` | the command that is refused is the call's own, no mode switch is under way meanwhile, and every mode makes the target of every button available |
| `OperationsHeeded`: `EventsHeeded` | `WaitsForMode`, `ModeKept`: once there is a mode, all states but COMPLETING are available, between two turns of `mode_switcher` too | the mode that is being left and the one that is set both have the targets of errors and completions, and the loop only touches what differs; `EventHasTransition` names the targets |
| `QueueStaysShort`: `QueueBounded` | `Typed`, `OperationOwner`, `OneCommand`, `QueueShare` (below) | the bound alone is not inductive: which states have four events outstanding must be known, and where the command is |
| `MachineImplementsUnit`: `ImplementsSafely` | `Typed`, `OperationOwner`, `StateReported` | each step is mapped to a step of `PackmlUnit` or to a stutter; `SelectCommits` does it for the chart, from three lemmas that compare its transitions with the diagram |

`QueueShare` counts what operations have posted with what the one at work, or the one
about to be launched, will post (`Outstanding`). A completion or an error that moves the
machine brings one operation for the event it removes, or none; so only a command adds to
the count (`CommandCrowds`, `CompletionRelieves`). The count is four at most, and
four in five states only, those a command leads to while three are outstanding
(`Crowded`). A command that comes then is behind these events, for it was posted
after them, and most of them are taken in wait states, where they bring nothing new; so
the invariant also says how far from the head of the queue a command is. That no operation posts twice is `UnpostedAlone`. It holds with ABORTING failing,
too, and TLC checked it that way, for both cycles, before it was proved.

The refinement maps `unit` to the target once a transition is selected and to the
active state otherwise, `shown` to `state_value_`, `working` to "some operation is on
the pool".

### The manager and the line

`PackmlManagerProofs` proves, under `ManagerAssumption` besides, for any number of
clients (none included), any of them away, and any requests:

| theorem | inductive invariant | why it is needed |
|---|---|---|
| `ManagerDrivesMachine`: `ManagerSafeSpec => SafeSpec` | none: each step is a step of the machine or leaves it alone | the theorems about the machine hold in the node |
| `ManagerTypeCorrect`: `ManagerTypeOK` | `Typed`, `ManagerTyped` with `LoopHasClients` | a thread counts through the clients only when there are some |
| `ModesInStep`: `ModeInStep` | itself, with `Typed` | `OnModeChanged` is one step with `CommitMode`; all else leaves both modes alone |
| `AnsweredWhenPublished`: `PublishedAnswered` | `ManagerTyped`, `RoundHears`: in the loop every client was asked, and the last client agreed if its answer was read | a turn that reads a refusal of the last client ends the round, so that what earlier turns read need not be looked at again |
| `HalfPublished`: `OneHalfCurrent` | `OwnHalf`: what a thread has read and not sent yet has that thread's own half right | the half is set by nobody else while the message waits, however long; `PublishSteps` names the steps that touch the topic |
| `CurrentPublished`: `StatusCurrent`, as long as `OneAtATime` | `MessagesCurrent`: what is about to be sent is current | a half that is set while the other thread holds a message is all that can make that message stale, in any mode and whatever is requested |
| `ManagerKeepsRounds`: `RoundsKept` | `Typed`, `ManagerTyped`, `RoundHears`, `ThreadsPlaced` (the Qt thread is in a round only within `on_state_changed`, that is with `qt` at `Enter`; the executor only in a handler for modes), `RoundOver` (out of the loop a thread has no request) | a new report finds the last round over only because the machine waits for `on_state_changed`; a round begins with nobody having said anything only because the last was cleaned up. `RoundStepKept` maps each step of a round, `LineStep` all others: to a step of `PackmlRound` or to none |
| `AloneShowsNoState`, if `NumClients = 0` | the same, with `NoStateShown` | follows from the rounds: a state is agreed only with clients, and what is published is read from `current_state` (`PublishSteps`) |

`PackmlLineProofs` proves, under `LineAssumption`, for any nodes, any depth of the
subscription and any loss of messages:

| theorem | inductive invariant | why it is needed |
|---|---|---|
| `LineDrivesManager`: `LineSafeSpec => ManagerSafeSpec` | none, as above | the theorems above hold in the line |
| `LineTypeCorrect`: `LineTypeOK` | `LineTyped` = `ManagerTyped`, `FeedTyped`, `FlagsTyped` | |
| `UpToDate`: `NodeUpToDate` | `FeedTyped`, `LatestCurrent`: the last message at a node, or its view when there is none, is the status, unless it was lost | the property itself speaks of an empty queue only; `TopicSteps` shows that nothing but `Publishes` and `NodeHears` touches topic or views |

### The panel and what it polls

`PackmlPanelProofs` has one lemma for each step of the panel. They rest on `PanelOK` (a
poll is given up only while there is room for the next, `MaxPolls` under way at most) and
on `Answering`: no poll waits for the service, so the last answer is that of the poll
that counts. `TakesStep` shows that this is what is drawn, `TakesLateStep` that an answer
nobody waits for is never the last. The services add what they answer with, for any
`MaxPolls`, tags, clicks and modes (`TagsAssumption`, `LegacyAssumption`):

| theorem | inductive invariant | why it is needed |
|---|---|---|
| `PlcTypeCorrect`: `PlcTypeOK`; `LightsRecent`: `LitRecently` | `PlcInv`: `ScansKnown` (a scan under way is not older than the one of `newvals`), `AnswerRecent` (so is what is copied for the poll, once it is the oldest, and its answer) | a scan or an answer that was begun before the poll and finished after it must not bring older values |
| `LegacyDrivesMachine`: `LegacySpec => SafeSpec` | `NodeOK`: only commands are clicked, and the lead is bounded | the theorems about the machine hold in the legacy node |
| `LegacyTypeCorrect`: `LegacyTypeOK`; `LightsSincePoll`: `LitSincePoll` | `LegacyInv`: `AnswerSince` (what the answer names was so since the poll) | an answer that names no state is one of the answers; the second answer to a poll changes nothing |

Only model-checked: the liveness properties (`Implements` with its fairness,
`CallAnswered`, `ActingEnds`, `ErrorAborts`, `RequestAnswered`, `RoundEnds`,
`NodeFollows`, `PanelFollows`, `PanelShowsState`), which are out of the prover's reach
as they rest on fairness. Their safety parts are proved where they have one of their own:
`OperationsHeeded` says that an event of an operation does what `ActingEnds` and
`ErrorAborts` need once it is taken, and `QueueStaysShort` how many are taken before it.
Every invariant and every action property of the passing runs has its theorem.

## 5. Not modelled, and the plan

Assumed: one caller (every node of the repository spins one thread), a property
and a promise that are read and written as a whole, a machine that is activated once.
A stopped machine that is activated again would clear Qt's configuration without calling
`onExit`, so that an operation of its first life might meet one of its second; no program
of the repository does so.

Not modelled:

* the PLC sender: it imports `packml_msgs.srv.Transition`
  (`packml_plc_sender.py:23`), which the repository does not have, and ends before it
  serves anything;
* times: those that `onExit` sums up and prints, those of the legacy node, which count
  polls (0.2 per `allStatus` request), and those of the listener, which only the panel's
  labels show (COMPLETE's from the flag instead of the time, `packml_widget.cpp:291`);
* `on_all_status` in the manager, where it is empty and nobody polls it, and the status
  that the legacy node publishes after a round of its inherited `changeMode`;
* messages, services, build and launch files: no behaviour of their own.

The plan: a machine that is activated again, with the operation of its first life still at
work, and whatever of `OperationOwner` and `QueueBounded` is left then.
