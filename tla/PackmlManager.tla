---------------------------- MODULE PackmlManager ----------------------------
(***************************************************************************)
(* The manager node (SMNode_new on PackmlManagerInterface): it drives one   *)
(* StateMachine and keeps the nodes of the line, its clients, in step.      *)
(*                                                                          *)
(* Two threads run it.  The Qt thread calls on_state_changed at the entry   *)
(* of every state and the executor serves changeState and changeMode; each  *)
(* asks all clients over a service and waits for their answers, spinning    *)
(* the executor of every client in turn.  A client has one executor for     *)
(* both services, so that the two threads may meet there, and one of them   *)
(* may take the response the other waits for.                               *)
(*                                                                          *)
(* The module composes with StateMachine: a step of the machine's threads   *)
(* is a step of that module, joined with what the manager does in it.  The  *)
(* machine is never deactivated and no method is bound, as in the node.     *)
(***************************************************************************)
EXTENDS StateMachine

CONSTANTS
  NumClients,    \* the number of node_names
  Unreliable,    \* the clients that may be away or never answer
  Requests,      \* the commands that are requested
  ModeRequests   \* the modes that are requested

Clients == 1..NumClients   \* in the order of client_map_

ASSUME ManagerAssumption ==
  /\ NumClients \in Nat
  /\ Unreliable \subseteq Clients
  /\ Requests \subseteq Commands
  /\ "MANUAL" \in Modes /\ ModeRequests \subseteq Modes

VARIABLES
  serving,        \* what the executor's thread is at
  phase,          \* where each thread is in a round or in publish_status
  at,             \* the client whose executor the thread spins
  future,         \* what became of each thread's request to each client
  agrees,         \* the answer of that client
  leftover,       \* clients that hold answers to abandoned requests
  retrieved,      \* whether get_future was called on changed_prom_
  current_state, current_mode,
  message,        \* the status each thread is about to publish
  status,         \* the status last published on packml_status
  crashed         \* an exception ended the process

roundVars == <<phase, at, future, agrees, leftover>>
topicVars == <<current_state, current_mode, message, status>>
managerVars == <<serving, roundVars, topicVars, retrieved, crashed>>
allVars == <<vars, managerVars>>

Threads == {"Qt", "Executor"}

NoRound == [c \in Clients |-> "None"]
NoAnswer == [c \in Clients |-> FALSE]

Nothing == <<"UNDEFINED", "UNDEFINED">>

\* init.  The status before the first message stands for no message.
ManagerInit ==
  /\ Init
  /\ serving = "Construct"
  /\ phase = [t \in Threads |-> "Out"]
  /\ at = [t \in Threads |-> 1]
  /\ future = [t \in Threads |-> NoRound]
  /\ agrees = [t \in Threads |-> NoAnswer]
  /\ leftover = {}
  /\ retrieved = FALSE
  /\ current_state = "UNDEFINED" /\ current_mode = "UNDEFINED"
  /\ message = [t \in Threads |-> Nothing]
  /\ status = Nothing
  /\ crashed = FALSE

Goes(t, p) == phase' = [phase EXCEPT ![t] = p]

-----------------------------------------------------------------------------
(* A round: call_all_clients and wait_all_futures.                          *)

\* The thread leaves its handler.
Leaves(t) ==
  /\ Goes(t, "Out")
  /\ serving' = IF t = "Executor" THEN "None" ELSE serving

Forgets(t) ==
  /\ future' = [future EXCEPT ![t] = NoRound]
  /\ agrees' = [agrees EXCEPT ![t] = NoAnswer]
  /\ at' = [at EXCEPT ![t] = 1]

\* Every client's service is there, and each is sent the request.
CallAll(t) ==
  /\ phase[t] = "Call" /\ Clients # {}
  /\ future' = [future EXCEPT ![t] = [c \in Clients |-> "Asked"]]
  /\ Goes(t, "Next")
  /\ UNCHANGED <<vars, serving, at, agrees, leftover, topicVars, retrieved,
                 crashed>>

\* Some are away, or there is none: those that are there are sent the request
\* all the same, and the round fails before it waits for them.
CallSome(t, away) ==
  /\ phase[t] = "Call"
  /\ away # {} \/ Clients = {}
  /\ leftover' = leftover \cup (Clients \ away)
  /\ Leaves(t)
  /\ UNCHANGED <<vars, at, future, agrees, topicVars, retrieved, crashed>>

\* A client accepts or refuses the state or the mode.
Reply(t, c) ==
  /\ future[t][c] = "Asked"
  /\ future' = [future EXCEPT ![t][c] = "Arrived"]
  /\ \E yes \in BOOLEAN : agrees' = [agrees EXCEPT ![t][c] = yes]
  /\ UNCHANGED <<vars, serving, phase, at, leftover, topicVars, retrieved,
                 crashed>>

SpunBy(t, u) == u # t /\ phase[u] = "Spin" /\ at[u] = at[t]

SpinOnce(t) ==
  /\ phase[t] = "Next"
  /\ \A u \in Threads : ~SpunBy(t, u)
  /\ Goes(t, "Spin")
  /\ UNCHANGED <<vars, serving, at, future, agrees, leftover, topicVars,
                 retrieved, crashed>>

\* spin_once throws when another thread is spinning that executor.
SpinClash(t) ==
  /\ phase[t] = "Next"
  /\ \E u \in Threads : SpunBy(t, u)
  /\ crashed' = TRUE
  /\ UNCHANGED <<vars, serving, roundVars, topicVars, retrieved>>

\* Mutant: one client too many.
TurnsPastTheEnd(t) ==
  /\ at' = [at EXCEPT ![t] = @ + 1]
  /\ Goes(t, IF at[t] > NumClients THEN "Check" ELSE "Next")

\* The loop over client_map_: the next client, or on to the futures.
Turns(t) ==
  /\ at' = [at EXCEPT ![t] = IF @ = NumClients THEN 1 ELSE @ + 1]
  /\ Goes(t, IF at[t] = NumClients THEN "Check" ELSE "Next")

\* spin_once blocks until there is a response at the client, and takes one,
\* whichever request it answers.
TakeResponse(t) ==
  /\ phase[t] = "Spin"
  /\ \E u \in Threads :
       /\ future[u][at[t]] = "Arrived"
       /\ future' = [future EXCEPT ![u][at[t]] = "Ready"]
  /\ Turns(t)
  /\ UNCHANGED <<vars, serving, agrees, leftover, topicVars, retrieved,
                 crashed>>

TakeLeftover(t) ==
  /\ phase[t] = "Spin"
  /\ at[t] \in leftover
  /\ leftover' \in {leftover, leftover \ {at[t]}}
  /\ Turns(t)
  /\ UNCHANGED <<vars, serving, future, agrees, topicVars, retrieved, crashed>>

Ready(t) == {c \in Clients : future[t][c] = "Ready"}

\* Mutant: any_waiting tells only of the last future.
WaitingForLast(t) == {c \in {NumClients} : future[t][c] \in {"Asked", "Arrived"}}

Waiting(t) == {c \in Clients : future[t][c] \in {"Asked", "Arrived"}}

\* The futures are read in order and success is overwritten by each.
Success(t) ==
  \A c \in Ready(t) : (\A d \in Ready(t) : d =< c) => agrees[t][c]

LoopAgain(t) ==
  /\ phase[t] = "Check"
  /\ Success(t) /\ Waiting(t) # {}
  /\ future' = [future EXCEPT ![t] =
                  [c \in Clients |-> IF c \in Ready(t) THEN "Read" ELSE @[c]]]
  /\ Goes(t, "Next")
  /\ UNCHANGED <<vars, serving, at, agrees, leftover, topicVars, retrieved,
                 crashed>>

\* Mutant: a failed round goes on.
RoundFailsNever(t) ==
  /\ phase[t] = "Check" /\ ~Success(t)
  /\ Goes(t, "Next")
  /\ UNCHANGED <<vars, serving, at, future, agrees, leftover, topicVars,
                 retrieved, crashed>>

\* The round fails: nothing is published, and what is still to come is left.
RoundFails(t) ==
  /\ phase[t] = "Check" /\ ~Success(t)
  /\ leftover' = leftover \cup Waiting(t)
  /\ Forgets(t)
  /\ Leaves(t)
  /\ UNCHANGED <<vars, topicVars, retrieved, crashed>>

\* Mutant: the new state is not published.
RoundSucceedsSilently(t) ==
  /\ phase[t] = "Check" /\ Success(t) /\ Waiting(t) = {}
  /\ Forgets(t)
  /\ current_state' = IF t = "Qt" THEN state_value ELSE current_state
  /\ Leaves(t)
  /\ UNCHANGED <<vars, leftover, current_mode, message, status, retrieved,
                 crashed>>

\* The round succeeds: current_state is set to the new state by the Qt thread;
\* current_mode, which the executor sets, already is the new mode.
RoundSucceeds(t) ==
  /\ phase[t] = "Check" /\ Success(t) /\ Waiting(t) = {}
  /\ Forgets(t)
  /\ current_state' = IF t = "Qt" THEN state_value ELSE current_state
  /\ Goes(t, "Publish")
  /\ UNCHANGED <<vars, serving, leftover, current_mode, message, status,
                 retrieved, crashed>>

-----------------------------------------------------------------------------
(* publish_status.  "Announce" is its call in on_mode_changed, "Publish" the  *)
(* one at the end of a round.                                               *)

\* Mutant: the state is taken from the last message.
ReadStatusOfLast(t) ==
  /\ phase[t] \in {"Announce", "Publish"}
  /\ message' = [message EXCEPT ![t] = <<status[1], current_mode>>]
  /\ Goes(t, IF phase[t] = "Announce" THEN "Announcing" ELSE "Publishing")
  /\ UNCHANGED <<vars, serving, at, future, agrees, leftover, current_state,
                 current_mode, status, retrieved, crashed>>

ReadStatus(t) ==
  /\ phase[t] \in {"Announce", "Publish"}
  /\ message' = [message EXCEPT ![t] = <<current_state, current_mode>>]
  /\ Goes(t, IF phase[t] = "Announce" THEN "Announcing" ELSE "Publishing")
  /\ UNCHANGED <<vars, serving, at, future, agrees, leftover, current_state,
                 current_mode, status, retrieved, crashed>>

SendStatus(t) ==
  /\ phase[t] \in {"Announcing", "Publishing"}
  /\ status' = message[t]
  /\ message' = [message EXCEPT ![t] = Nothing]
  /\ IF phase[t] = "Publishing" THEN Leaves(t)
     ELSE /\ Goes(t, IF serving = "ChangeMode" THEN "Call" ELSE "Out")
          /\ UNCHANGED serving
  /\ UNCHANGED <<vars, at, future, agrees, leftover, current_state,
                 current_mode, retrieved, crashed>>

\* What a thread does in a round that no client notices, and what one does.
Exchange(t) ==
  \/ CallAll(t) \/ SpinOnce(t) \/ SpinClash(t)
  \/ TakeResponse(t) \/ TakeLeftover(t)
  \/ LoopAgain(t) \/ RoundSucceeds(t) \/ ReadStatus(t)

Round(t) ==
  \/ Exchange(t) \/ RoundFails(t) \/ SendStatus(t)
  \/ \E away \in SUBSET Unreliable : CallSome(t, away)

-----------------------------------------------------------------------------
(* The Qt thread.                                                           *)

\* A state is entered: the machine calls on_state_changed.
StateEntered ==
  /\ QtStart \/ QtEnter
  /\ Goes("Qt", "Entered")
  /\ UNCHANGED <<serving, at, future, agrees, leftover, topicVars, retrieved,
                 crashed>>

\* changed_prom_ is replaced by a fresh promise that is set at once.
SetChangedPromise ==
  /\ phase["Qt"] = "Entered"
  /\ retrieved' = FALSE
  /\ Goes("Qt", "Call")
  /\ UNCHANGED <<vars, serving, at, future, agrees, leftover, topicVars,
                 crashed>>

\* Mutant: the machine does not wait for on_state_changed.
MachineRunsAhead ==
  /\ QtCheck \/ QtRest \/ QtIgnore \/ QtSelect \/ QtLaunch
  /\ UNCHANGED managerVars

\* The machine goes on when on_state_changed has returned.
MachineGoesOn ==
  /\ phase["Qt"] = "Out"
  /\ QtCheck \/ QtRest \/ QtIgnore \/ QtSelect \/ QtLaunch
  /\ UNCHANGED managerVars

QtAlone == StateEntered \/ SetChangedPromise \/ MachineGoesOn

QtSteps == QtAlone \/ Round("Qt")

Works(s) == Operation(s) /\ UNCHANGED managerVars

-----------------------------------------------------------------------------
(* The constructor, and then the executor of the node.                      *)

OnChangeState(c) ==
  /\ serving = "None"
  /\ ChangeState(c)
  /\ serving' = "ChangeState"
  /\ UNCHANGED <<roundVars, topicVars, retrieved, crashed>>

\* The machine's answer: a failure is answered at once, a success waits for
\* changed_prom_.
ChangeStateAnswers ==
  /\ GetAnswer
  /\ serving' = IF prom = "Accepted" THEN "Future" ELSE "None"
  /\ UNCHANGED <<roundVars, topicVars, retrieved, crashed>>

\* Mutant: the promise is renewed when the wait begins, not when a state is
\* entered: only the next entry ends the wait.
GetFutureOfNext ==
  /\ serving = "Future" /\ phase["Qt"] = "Call"
  /\ retrieved' = TRUE
  /\ serving' = "None"
  /\ UNCHANGED <<vars, roundVars, topicVars, crashed>>

\* changed_prom_.get_future().get(), on whichever promise is there: it is set.
GetFuture ==
  /\ serving = "Future" /\ ~retrieved
  /\ retrieved' = TRUE
  /\ serving' = "None"
  /\ UNCHANGED <<vars, roundVars, topicVars, crashed>>

\* get_future throws on a promise whose future was retrieved before.
FutureError ==
  /\ serving = "Future" /\ retrieved
  /\ crashed' = TRUE
  /\ UNCHANGED <<vars, serving, roundVars, topicVars, retrieved>>

\* A mode the machine refuses is answered at once, and changes nothing.
OnChangeMode(m) ==
  /\ serving = "None"
  /\ ChangeMode(m)
  /\ serving' = "ChangeMode"
  /\ UNCHANGED <<roundVars, topicVars, retrieved, crashed>>

\* Mutant: the mode is only taken over when the clients agree.
OnModeChangedLater ==
  /\ CommitMode
  /\ Goes("Executor", "Announce")
  /\ UNCHANGED <<serving, at, future, agrees, leftover, topicVars, retrieved,
                 crashed>>

\* changeMode commits the mode and calls on_mode_changed before the clients
\* are asked.
OnModeChanged ==
  /\ CommitMode
  /\ current_mode' = call
  /\ Goes("Executor", "Announce")
  /\ UNCHANGED <<serving, at, future, agrees, leftover, current_state, message,
                 status, retrieved, crashed>>

\* SMNode_new: the mode MANUAL, then activate, then the node is spun.
ConstructorSetsMode ==
  /\ serving = "Construct" /\ currentMode = NoMode
  /\ ChangeMode("MANUAL")
  /\ UNCHANGED managerVars

ConstructorActivates ==
  /\ serving = "Construct" /\ currentMode # NoMode
  /\ phase["Executor"] = "Out"
  /\ Activate
  /\ serving' = "None"
  /\ UNCHANGED <<roundVars, topicVars, retrieved, crashed>>

\* What the executor's thread does once it is in a handler.
ExecutorAlone ==
  \/ (PostCommand \/ SetAvailable) /\ UNCHANGED managerVars
  \/ ChangeStateAnswers \/ GetFuture \/ FutureError
  \/ OnModeChanged
  \/ ConstructorSetsMode \/ ConstructorActivates

ExecutorGoesOn == ExecutorAlone \/ Round("Executor")

-----------------------------------------------------------------------------
ManagerNext ==
  /\ ~crashed
  /\ \/ QtSteps
     \/ ExecutorGoesOn
     \/ \E s \in ActingStates : Works(s)
     \/ \E c \in Requests : OnChangeState(c)
     \/ \E m \in ModeRequests : OnChangeMode(m)
     \/ \E t \in Threads, c \in Clients : Reply(t, c)

ManagerSafeSpec == ManagerInit /\ [][ManagerNext]_allVars

-----------------------------------------------------------------------------
(* Invariants.                                                              *)

Phases == {"Out", "Entered", "Call", "Next", "Spin", "Check", "Announce",
           "Announcing", "Publish", "Publishing"}

Statuses == (States \cup {"UNDEFINED"}) \X (Modes \cup {"UNDEFINED"})

ManagerTypeOK ==
  /\ TypeOK
  /\ serving \in {"Construct", "None", "ChangeState", "Future", "ChangeMode"}
  /\ phase \in [Threads -> Phases]
  /\ at \in [Threads -> 1..NumClients \cup {1}]
  /\ future \in [Threads -> [Clients ->
                   {"None", "Asked", "Arrived", "Ready", "Read"}]]
  /\ agrees \in [Threads -> [Clients -> BOOLEAN]]
  /\ leftover \subseteq Clients
  /\ retrieved \in BOOLEAN /\ crashed \in BOOLEAN
  /\ <<current_state, current_mode>> \in Statuses
  /\ message \in [Threads -> Statuses]
  /\ status \in Statuses

\* The manager and the machine it drives have the same mode outside
\* sm->changeMode, also after the clients refused the mode: the mode it
\* publishes decides what the nodes do, the machine's which states are entered.
ModeInStep ==
  pc # "SetMode" =>
    current_mode = IF currentMode = NoMode THEN "UNDEFINED" ELSE currentMode

InPublish(t) == phase[t] \in {"Announce", "Announcing", "Publish", "Publishing"}

\* The last message on packml_status is what the manager takes for current once
\* no thread is publishing, as long as two threads never do so at a time: nothing
\* is repeated, so a node that goes by an old message would do so until the next
\* change.
StatusCurrent ==
  (\A t \in Threads : ~InPublish(t)) => status = <<current_state, current_mode>>

\* When the two threads do publish at a time, without a lock, the message that was
\* read first may be sent last.  Even so one half of it is current: each thread
\* publishes after it has set its own half, which the other leaves alone.
OneHalfCurrent ==
  (\A t \in Threads : ~InPublish(t))
    => status[1] = current_state \/ status[2] = current_mode

\* A state or a mode is published only when every client has answered this
\* very request and the last client of client_map_ agreed, although responses
\* of abandoned rounds are about and the other thread takes some of these: an
\* answer is never taken for the answer to something else, or for one missing.
PublishedAnswered ==
  [][ \A t \in Threads :
        (phase[t] # "Publish" /\ phase'[t] = "Publish")
          => /\ Clients # {}
             /\ \A c \in Clients : future[t][c] \in {"Ready", "Read"}
             /\ agrees[t][NumClients] ]_allVars

-----------------------------------------------------------------------------
(* The rounds as the line sees them.                                        *)

StageOf == [Out |-> "Rest", Entered |-> "Due", Call |-> "Due", Next |-> "Asking",
            Spin |-> "Asking", Check |-> "Asking", Announce |-> "Announcing",
            Announcing |-> "Announcing", Publish |-> "Agreed",
            Publishing |-> "Agreed"]

Stage == [t \in Threads |-> StageOf[phase[t]]]

\* What a client has answered, whether or not its response was taken or read yet.
Said == [t \in Threads |-> [c \in Clients |->
           IF future[t][c] \in {"None", "Asked"} THEN "Nothing"
           ELSE IF agrees[t][c] THEN "Yes" ELSE "No"]]

Line == INSTANCE PackmlRound
          WITH shown <- state_value, agreed <- current_state, mode <- current_mode,
               stage <- Stage, said <- Said

\* Although the threads share the executors of the clients, take each other's
\* responses and leave responses of abandoned rounds behind, each round goes as if it
\* was alone: the machine reports no state before the round for the last one is over,
\* a round fails only when a client refuses it, and current_state is the state that
\* was reported when all had answered.
RoundsKept == Line!SafeSpec

-----------------------------------------------------------------------------
(* Liveness, under the fairness of PackmlLine.                              *)

\* Unless a request was ever abandoned, whoever requests a change of state gets an
\* answer once the command is in the machine's queue, also while on_state_changed
\* holds the machine up, or the node ends with an exception: the wait for
\* changed_prom_ adds no way to hang.
RequestAnswered ==
  [](leftover = {}) => (CommandsIn(queue) # {} ~> serving = "None" \/ crashed)

\* Unless a request was ever abandoned, every call of on_state_changed returns,
\* whatever the clients answer.  The response to an abandoned request takes the
\* place of the one that is waited for, and the thread then blocks at a client
\* that has nothing more to say.
RoundEnds ==
  [](leftover = {}) => (phase["Qt"] # "Out" ~> phase["Qt"] = "Out" \/ crashed)

=============================================================================
