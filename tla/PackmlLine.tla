------------------------------ MODULE PackmlLine ------------------------------
(***************************************************************************)
(* The line: the manager and nodes that follow it (PackmlNodeInterface).    *)
(*                                                                          *)
(* A node is told of a change on two ways: it is asked for its agreement    *)
(* over a service, and it takes the new state or mode from the packml_status *)
(* topic.  The ways are not ordered: a message may come before or after a   *)
(* request that was sent later.  The topic is best effort and keeps the     *)
(* last Depth messages: the queue of a slow node loses the oldest, and a    *)
(* message may be lost on its way.  A node goes on by itself, also when the *)
(* manager has crashed.                                                     *)
(***************************************************************************)
EXTENDS PackmlManager

CONSTANTS
  Nodes,   \* the clients whose own state is followed
  Far,     \* the nodes to which a message may be lost
  Depth    \* the depth of SensorDataQoS

ASSUME LineAssumption ==
  /\ Nodes \subseteq Clients /\ Far \subseteq Nodes
  /\ Depth \in Nat \ {0}

VARIABLES
  view_state, view_mode,         \* current_state and current_mode of a node
  waiting_state, waiting_mode,   \* waiting_for_new_state, waiting_for_new_mode
  overdue,     \* the abandoned requests a node has not handled, by their thread
  feed,        \* the messages at a node's subscription
  missed       \* whether the last message was lost on its way to the node

viewVars == <<view_state, view_mode>>
flagVars == <<waiting_state, waiting_mode>>
feedVars == <<feed, missed>>
nodeVars == <<viewVars, flagVars, overdue, feedVars>>
lineVars == <<allVars, nodeVars>>

\* PackmlNodeInterface::init, which leaves the two flags as they are.
LineInit ==
  /\ ManagerInit
  /\ view_state = [n \in Nodes |-> "UNDEFINED"]
  /\ view_mode = [n \in Nodes |-> "UNDEFINED"]
  /\ waiting_state \in [Nodes -> BOOLEAN]
  /\ waiting_mode \in [Nodes -> BOOLEAN]
  /\ overdue = [n \in Nodes |-> {}]
  /\ feed = [n \in Nodes |-> <<>>]
  /\ missed = [n \in Nodes |-> FALSE]

-----------------------------------------------------------------------------
(* The services of a node.                                                  *)

\* The node agrees to a state, which the Qt thread asks for, or to a mode,
\* which the executor asks for.
AgreesTo(t, n) ==
  IF t = "Qt"
  THEN waiting_state' = [waiting_state EXCEPT ![n] = TRUE]
       /\ UNCHANGED waiting_mode
  ELSE waiting_mode' = [waiting_mode EXCEPT ![n] = TRUE]
       /\ UNCHANGED waiting_state

\* onStateTranseReq and onModeTransReq.  Whether the node already waits for
\* something makes no difference to its answer: the words that are chosen for it
\* are replaced when the node refuses, and not sent when it agrees.
NodeAnswers(t, n) ==
  /\ Reply(t, n)
  /\ IF agrees'[t][n] THEN AgreesTo(t, n) ELSE UNCHANGED flagVars
  /\ UNCHANGED <<viewVars, overdue, feedVars>>

\* The same for a request that nobody waits for.
NodeAnswersLate(t, n) ==
  /\ t \in overdue[n]
  /\ overdue' = [overdue EXCEPT ![n] = @ \ {t}]
  /\ AgreesTo(t, n) \/ UNCHANGED flagVars
  /\ UNCHANGED <<allVars, viewVars, feedVars>>

\* A thread gives up a round: the nodes get its requests all the same.
Abandons(t) ==
  /\ \/ /\ RoundFails(t)
        /\ overdue' = [n \in Nodes |->
             IF future[t][n] = "Asked" THEN overdue[n] \cup {t} ELSE overdue[n]]
     \/ \E away \in SUBSET Unreliable :
          /\ CallSome(t, away)
          /\ overdue' = [n \in Nodes |->
               IF n \in away THEN overdue[n] ELSE overdue[n] \cup {t}]
  /\ UNCHANGED <<viewVars, flagVars, feedVars>>

-----------------------------------------------------------------------------
(* The topic.                                                               *)

\* Mutant: the queue grows without a bound.
DeliveredAlways(f, m) == Append(f, m)

\* Mutant: a full queue refuses the newest message.
DeliveredIfRoom(f, m) == IF Len(f) < Depth THEN Append(f, m) ELSE f

Delivered(f, m) == Append(IF Len(f) < Depth THEN f ELSE Tail(f), m)

Publishes(t) ==
  /\ SendStatus(t)
  /\ \E lost \in SUBSET Far :
       /\ missed' = [n \in Nodes |-> n \in lost]
       /\ feed' = [n \in Nodes |->
            IF n \in lost THEN feed[n] ELSE Delivered(feed[n], message[t])]
  /\ UNCHANGED <<viewVars, flagVars, overdue>>

\* Mutant: a node takes only the state it waits for, as the disabled branches
\* of onStatusChanged would have it.
TakesStateAwaited(n, s) ==
  IF s = view_state[n] \/ ~waiting_state[n]
  THEN UNCHANGED <<view_state, waiting_state>>
  ELSE /\ view_state' = [view_state EXCEPT ![n] = s]
       /\ waiting_state' = [waiting_state EXCEPT ![n] = FALSE]

TakesState(n, s) ==
  IF s = view_state[n] THEN UNCHANGED <<view_state, waiting_state>>
  ELSE /\ view_state' = [view_state EXCEPT ![n] = s]
       /\ waiting_state' = [waiting_state EXCEPT ![n] = FALSE]

TakesMode(n, m) ==
  IF m = view_mode[n] THEN UNCHANGED <<view_mode, waiting_mode>>
  ELSE /\ view_mode' = [view_mode EXCEPT ![n] = m]
       /\ waiting_mode' = [waiting_mode EXCEPT ![n] = FALSE]

\* onStatusChanged.
NodeHears(n) ==
  /\ feed[n] # <<>>
  /\ TakesState(n, Head(feed[n])[1])
  /\ TakesMode(n, Head(feed[n])[2])
  /\ feed' = [feed EXCEPT ![n] = Tail(@)]
  /\ UNCHANGED <<allVars, overdue, missed>>

-----------------------------------------------------------------------------
InRound(t) ==
  \/ Exchange(t) /\ UNCHANGED nodeVars
  \/ Abandons(t)
  \/ Publishes(t)

LineQt == InRound("Qt") \/ (QtAlone /\ UNCHANGED nodeVars)

LineExecutor == InRound("Executor") \/ (ExecutorAlone /\ UNCHANGED nodeVars)

LineWorks == (\E s \in ActingStates : Works(s)) /\ UNCHANGED nodeVars

Answers(t, c) ==
  IF c \in Nodes THEN NodeAnswers(t, c) ELSE Reply(t, c) /\ UNCHANGED nodeVars

NodeSteps(n) == NodeHears(n) \/ \E t \in Threads : NodeAnswersLate(t, n)

LineNext ==
  \/ /\ ~crashed
     /\ \/ LineQt
        \/ LineExecutor
        \/ LineWorks
        \/ \E c \in Requests : OnChangeState(c) /\ UNCHANGED nodeVars
        \/ \E m \in ModeRequests : OnChangeMode(m) /\ UNCHANGED nodeVars
        \/ \E t \in Threads, c \in Clients : Answers(t, c)
  \/ \E n \in Nodes : NodeSteps(n)

LineSafeSpec == LineInit /\ [][LineNext]_lineVars

\* Every thread is scheduled, operations return, and a client that was asked
\* answers, even if it may be away at other times.  No message is sure to arrive.
LineFairness ==
  /\ WF_lineVars(~crashed /\ LineQt)
  /\ WF_lineVars(~crashed /\ LineExecutor)
  /\ WF_lineVars(~crashed /\ LineWorks)
  /\ \A t \in Threads, c \in Clients : WF_lineVars(~crashed /\ Answers(t, c))
  /\ \A n \in Nodes : WF_lineVars(NodeSteps(n))

LineSpec == LineSafeSpec /\ LineFairness

-----------------------------------------------------------------------------
(* Properties.                                                              *)

View(n) == <<view_state[n], view_mode[n]>>

LineTypeOK ==
  /\ ManagerTypeOK
  /\ \A n \in Nodes : View(n) \in Statuses
  /\ waiting_state \in [Nodes -> BOOLEAN] /\ waiting_mode \in [Nodes -> BOOLEAN]
  /\ overdue \in [Nodes -> SUBSET Threads]
  /\ \A n \in Nodes : feed[n] \in Seq(Statuses) /\ Len(feed[n]) =< Depth
  /\ missed \in [Nodes -> BOOLEAN]

\* A node that has read all its messages, and has not lost the last, is at the
\* status last published: a queue that overflows loses old messages only, and
\* what a node did not hear it makes up for with the next message.
NodeUpToDate ==
  \A n \in Nodes : (feed[n] = <<>> /\ ~missed[n]) => View(n) = status

\* A node ends at the last status that was not lost on its way, however many
\* earlier ones it missed, whatever it and the others answered before and
\* whatever it takes itself to be waiting for: for this reason the code takes any
\* message ("currently a node cannot catch-up if it missed a state change").
NodeFollows ==
  \A n \in Nodes :
    []<>( \/ View(n) = status \/ missed[n]
          \/ \E t \in Threads : phase[t] \in {"Announcing", "Publishing"} )

\* A node that has heard of a mode and has no message to read says of itself that
\* it is switching mode (is_switching_mode) only while the manager changes the
\* mode: the code reads the flag as "mode change is still active".
ModeChangeActive ==
  \A n \in Nodes :
    (waiting_mode[n] /\ view_mode[n] # "UNDEFINED" /\ feed[n] = <<>>)
      => serving = "ChangeMode"

=============================================================================
