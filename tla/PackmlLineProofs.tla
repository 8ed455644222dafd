--------------------------- MODULE PackmlLineProofs ---------------------------
(***************************************************************************)
(* What holds of every line, whatever its nodes, the depth of their         *)
(* subscriptions and the nodes to which a message may be lost.              *)
(***************************************************************************)
EXTENDS PackmlLine, PackmlManagerProofs, QueueLemmas

-----------------------------------------------------------------------------
(* The manager in the line.                                                 *)

\* What a thread does in a round is a step of the manager, and only Publishes
\* sends anything.
LEMMA InRoundIsRound ==
  ASSUME NEW t \in Threads, InRound(t)
  PROVE  /\ Round(t)
         /\ Publishes(t) \/ UNCHANGED <<viewVars, feedVars, status>>
<1>1. CASE Exchange(t) /\ UNCHANGED nodeVars
  <2>1. UNCHANGED status
    BY <1>1 DEF Exchange, CallAll, SpinOnce, SpinClash, TakeResponse, TakeLeftover,
                LoopAgain, RoundSucceeds, ReadStatus, topicVars
  <2> QED BY <1>1, <2>1 DEF Round, nodeVars
<1>2. CASE Abandons(t)
  BY <1>2 DEF Abandons, Round, RoundFails, CallSome, topicVars
<1>3. CASE Publishes(t)
  BY <1>3 DEF Publishes, Round
<1> QED BY <1>1, <1>2, <1>3 DEF InRound

\* Every step of the line is a step of the manager or leaves it alone.
LEMMA LineStepsManager == [LineNext]_lineVars => [ManagerNext]_allVars
<1> SUFFICES ASSUME [LineNext]_lineVars PROVE [ManagerNext]_allVars
  OBVIOUS
<1>1. CASE ~crashed /\ LineQt
  BY <1>1, InRoundIsRound DEF LineQt, ManagerNext, QtSteps, Threads
<1>2. CASE ~crashed /\ LineExecutor
  BY <1>2, InRoundIsRound DEF LineExecutor, ManagerNext, ExecutorGoesOn, Threads
<1>3. CASE ~crashed /\ LineWorks
  BY <1>3 DEF LineWorks, ManagerNext
<1>4. ASSUME ~crashed, NEW c \in Requests, OnChangeState(c)
      PROVE  [ManagerNext]_allVars
  BY <1>4 DEF ManagerNext
<1>5. ASSUME ~crashed, NEW m \in ModeRequests, OnChangeMode(m)
      PROVE  [ManagerNext]_allVars
  BY <1>5 DEF ManagerNext
<1>6. ASSUME ~crashed, NEW t \in Threads, NEW c \in Clients, Answers(t, c)
      PROVE  [ManagerNext]_allVars
  BY <1>6 DEF Answers, NodeAnswers, ManagerNext
<1>7. ASSUME NEW n \in Nodes, NodeSteps(n)
      PROVE  [ManagerNext]_allVars
  BY <1>7 DEF NodeSteps, NodeHears, NodeAnswersLate
<1>8. CASE UNCHANGED lineVars
  BY <1>8 DEF lineVars
<1> QED BY <1>1, <1>2, <1>3, <1>4, <1>5, <1>6, <1>7, <1>8 DEF LineNext

\* The line leaves the manager free to do what it does alone: what is proved of
\* every manager, and of every machine, holds of the ones in the line.
THEOREM LineDrivesManager == LineSafeSpec => ManagerSafeSpec
<1>1. LineInit => ManagerInit
  BY DEF LineInit
<1> QED BY <1>1, LineStepsManager, PTL DEF LineSafeSpec, ManagerSafeSpec

\* In particular the manager keeps its types.
LEMMA LineManagerTyped == LineSafeSpec => []ManagerTyped
  BY LineDrivesManager, ManagerWellTyped, PTL

-----------------------------------------------------------------------------
(* The topic: what is sent, and what a node makes of it.                    *)

\* A step of the line publishes a message, or lets a node read one, or changes
\* neither the topic nor what a node takes for current.
LEMMA TopicSteps ==
  ASSUME [LineNext]_lineVars
  PROVE  \/ \E t \in Threads : Publishes(t)
         \/ \E n \in Nodes : NodeHears(n)
         \/ UNCHANGED <<viewVars, feedVars, status>>
<1> DEFINE Quiet == UNCHANGED <<viewVars, feedVars, status>>
           Sends == \E t \in Threads : Publishes(t)
<1> USE DEF nodeVars, topicVars, managerVars
<1>1. CASE LineQt
  <2>1. CASE InRound("Qt")
    BY <2>1, InRoundIsRound DEF Threads
  <2>2. CASE QtAlone /\ UNCHANGED nodeVars
    BY <2>2 DEF QtAlone, StateEntered, SetChangedPromise, MachineGoesOn
  <2> QED BY <1>1, <2>1, <2>2 DEF LineQt
<1>2. CASE LineExecutor
  <2>1. CASE InRound("Executor")
    BY <2>1, InRoundIsRound DEF Threads
  <2>2. CASE ExecutorAlone /\ UNCHANGED nodeVars
    BY <2>2 DEF ExecutorAlone, ChangeStateAnswers, GetFuture, FutureError,
                OnModeChanged, ConstructorSetsMode, ConstructorActivates
  <2> QED BY <1>2, <2>1, <2>2 DEF LineExecutor
<1>3. CASE LineWorks
  BY <1>3 DEF LineWorks, Works
<1>4. ASSUME NEW c \in Requests, OnChangeState(c), UNCHANGED nodeVars
      PROVE  Quiet
  BY <1>4 DEF OnChangeState
<1>5. ASSUME NEW m \in ModeRequests, OnChangeMode(m), UNCHANGED nodeVars
      PROVE  Quiet
  BY <1>5 DEF OnChangeMode
<1>6. ASSUME NEW t \in Threads, NEW c \in Clients, Answers(t, c)
      PROVE  Quiet
  BY <1>6 DEF Answers, NodeAnswers, Reply
<1>7. ASSUME NEW n \in Nodes, NodeSteps(n)
      PROVE  Quiet \/ NodeHears(n)
  BY <1>7 DEF NodeSteps, NodeAnswersLate, allVars
<1>8. CASE UNCHANGED lineVars
  BY <1>8 DEF lineVars, allVars
<1> QED BY <1>1, <1>2, <1>3, <1>4, <1>5, <1>6, <1>7, <1>8 DEF LineNext

\* What a node takes for current and the messages it still has to read.
FeedTyped ==
  /\ view_state \in [Nodes -> States \cup {"UNDEFINED"}]
  /\ view_mode \in [Nodes -> Modes \cup {"UNDEFINED"}]
  /\ feed \in [Nodes -> Seq(Statuses)]
  /\ \A n \in Nodes : Len(feed[n]) =< Depth
  /\ missed \in [Nodes -> BOOLEAN]

\* The queue of a subscription keeps to its depth, and ends in the newest message.
LEMMA DeliveredLast ==
  ASSUME NEW f \in Seq(Statuses), Len(f) =< Depth, NEW m \in Statuses
  PROVE  /\ Delivered(f, m) \in Seq(Statuses)
         /\ Len(Delivered(f, m)) \in 1..Depth
         /\ Delivered(f, m)[Len(Delivered(f, m))] = m
<1> DEFINE g == IF Len(f) < Depth THEN f ELSE Tail(f)
<1>1. g \in Seq(Statuses) /\ Len(g) < Depth
  BY LineAssumption
<1>2. Delivered(f, m) = Append(g, m)
  BY DEF Delivered
<1> HIDE DEF g
<1> QED BY <1>1, <1>2, LineAssumption

\* A message is read whole: the node goes by its state and by its mode.
LEMMA HearsHead ==
  ASSUME FeedTyped, NEW n \in Nodes, NodeHears(n)
  PROVE  /\ view_state' = [view_state EXCEPT ![n] = Head(feed[n])[1]]
         /\ view_mode' = [view_mode EXCEPT ![n] = Head(feed[n])[2]]
         /\ feed' = [feed EXCEPT ![n] = Tail(@)]
         /\ Head(feed[n]) \in Statuses
         /\ UNCHANGED <<status, missed>>
<1>1. /\ feed[n] # <<>> /\ TakesState(n, Head(feed[n])[1])
      /\ TakesMode(n, Head(feed[n])[2])
      /\ feed' = [feed EXCEPT ![n] = Tail(@)]
      /\ UNCHANGED <<allVars, overdue, missed>>
  BY DEF NodeHears
<1>2. view_state' = [view_state EXCEPT ![n] = Head(feed[n])[1]]
  BY <1>1 DEF TakesState, FeedTyped
<1>3. view_mode' = [view_mode EXCEPT ![n] = Head(feed[n])[2]]
  BY <1>1 DEF TakesMode, FeedTyped
<1>4. Head(feed[n]) \in Statuses
  BY <1>1 DEF FeedTyped
<1> QED BY <1>1, <1>2, <1>3, <1>4 DEF allVars, managerVars, topicVars

\* Every step keeps the types of the topic.
LEMMA FeedStepTyped ==
  ManagerTyped /\ FeedTyped /\ [LineNext]_lineVars => FeedTyped'
<1> SUFFICES ASSUME ManagerTyped, FeedTyped, [LineNext]_lineVars PROVE FeedTyped'
  OBVIOUS
<1>1. ASSUME NEW t \in Threads, Publishes(t) PROVE FeedTyped'
  <2>1. message[t] \in Statuses
    BY DEF ManagerTyped
  <2>2. ASSUME NEW n \in Nodes
        PROVE  /\ Delivered(feed[n], message[t]) \in Seq(Statuses)
               /\ Len(Delivered(feed[n], message[t])) =< Depth
    <3>1. feed[n] \in Seq(Statuses) /\ Len(feed[n]) =< Depth
      BY DEF FeedTyped
    <3>2. Len(Delivered(feed[n], message[t])) \in 1..Depth
      BY <2>1, <3>1, DeliveredLast
    <3> QED BY <2>1, <3>1, <3>2, DeliveredLast
  <2>3. PICK lost \in SUBSET Far :
          /\ missed' = [n \in Nodes |-> n \in lost]
          /\ feed' = [n \in Nodes |->
               IF n \in lost THEN feed[n] ELSE Delivered(feed[n], message[t])]
    BY <1>1 DEF Publishes
  <2>4. UNCHANGED <<view_state, view_mode>>
    BY <1>1 DEF Publishes, viewVars
  <2>5. feed' \in [Nodes -> Seq(Statuses)] /\ \A n \in Nodes : Len(feed'[n]) =< Depth
    BY <2>2, <2>3 DEF FeedTyped
  <2>6. missed' \in [Nodes -> BOOLEAN]
    BY <2>3
  <2> QED BY <2>4, <2>5, <2>6 DEF FeedTyped
<1>2. ASSUME NEW n \in Nodes, NodeHears(n) PROVE FeedTyped'
  <2>1. /\ Head(feed[n])[1] \in States \cup {"UNDEFINED"}
        /\ Head(feed[n])[2] \in Modes \cup {"UNDEFINED"}
    BY <1>2, HearsHead DEF Statuses
  <2>2. Tail(feed[n]) \in Seq(Statuses) /\ Len(Tail(feed[n])) =< Depth
    BY <1>2, LineAssumption DEF FeedTyped, NodeHears
  <2>3. /\ view_state' \in [Nodes -> States \cup {"UNDEFINED"}]
        /\ view_mode' \in [Nodes -> Modes \cup {"UNDEFINED"}]
    BY <1>2, <2>1, HearsHead DEF FeedTyped
  <2>4. feed' \in [Nodes -> Seq(Statuses)] /\ \A o \in Nodes : Len(feed'[o]) =< Depth
    <3>1. feed' = [feed EXCEPT ![n] = Tail(feed[n])]
      BY <1>2, HearsHead
    <3> QED BY <2>2, <3>1 DEF FeedTyped
  <2> QED BY <1>2, <2>3, <2>4, HearsHead DEF FeedTyped
<1>3. CASE UNCHANGED <<viewVars, feedVars, status>>
  BY <1>3 DEF FeedTyped, viewVars, feedVars
<1> QED BY <1>1, <1>2, <1>3, TopicSteps

-----------------------------------------------------------------------------
(* Type correctness of the line.                                            *)

\* What a node waits for and has not answered.
FlagsTyped ==
  /\ waiting_state \in [Nodes -> BOOLEAN]
  /\ waiting_mode \in [Nodes -> BOOLEAN]
  /\ overdue \in [Nodes -> SUBSET Threads]

\* A node that agrees waits for a state or for a mode.
LEMMA AgreesTyped ==
  ASSUME FlagsTyped, NEW t \in Threads, NEW n \in Nodes, AgreesTo(t, n)
  PROVE  /\ waiting_state' \in [Nodes -> BOOLEAN]
         /\ waiting_mode' \in [Nodes -> BOOLEAN]
  BY DEF FlagsTyped, AgreesTo

\* What a thread does in a round keeps the flags of the nodes.
LEMMA InRoundFlags ==
  ASSUME FlagsTyped, NEW t \in Threads, InRound(t)
  PROVE  FlagsTyped'
<1> USE DEF FlagsTyped, nodeVars, flagVars
<1>1. CASE Exchange(t) /\ UNCHANGED nodeVars
  BY <1>1
<1>2. CASE Abandons(t)
  BY <1>2 DEF Abandons
<1>3. CASE Publishes(t)
  BY <1>3 DEF Publishes
<1> QED BY <1>1, <1>2, <1>3 DEF InRound

\* Every step keeps the types of the flags.
LEMMA FlagsStepTyped == FlagsTyped /\ [LineNext]_lineVars => FlagsTyped'
<1> SUFFICES ASSUME FlagsTyped, [LineNext]_lineVars PROVE FlagsTyped'
  OBVIOUS
<1>1. CASE UNCHANGED nodeVars
  BY <1>1 DEF FlagsTyped, nodeVars, flagVars
<1>2. CASE LineQt \/ LineExecutor
  BY <1>1, <1>2, InRoundFlags DEF LineQt, LineExecutor, Threads
<1>3. CASE LineWorks
  BY <1>1, <1>3 DEF LineWorks
<1>4. ASSUME NEW t \in Threads, NEW c \in Clients, Answers(t, c)
      PROVE  FlagsTyped'
  BY <1>1, <1>4, AgreesTyped DEF Answers, NodeAnswers, FlagsTyped, flagVars
<1>5. ASSUME NEW n \in Nodes, NodeHears(n) PROVE FlagsTyped'
  BY <1>5 DEF NodeHears, TakesState, TakesMode, FlagsTyped
<1>6. ASSUME NEW n \in Nodes, NEW t \in Threads, NodeAnswersLate(t, n)
      PROVE  FlagsTyped'
  BY <1>6, AgreesTyped DEF NodeAnswersLate, FlagsTyped, flagVars
<1>7. CASE UNCHANGED lineVars
  BY <1>1, <1>7 DEF lineVars
<1> QED BY <1>1, <1>2, <1>3, <1>4, <1>5, <1>6, <1>7 DEF LineNext, NodeSteps

LineTyped == ManagerTyped /\ FeedTyped /\ FlagsTyped

\* The types of the line are kept: the invariant that NodeUpToDate rests on.
LEMMA LineWellTyped == LineSafeSpec => []LineTyped
<1>1. LineInit => FeedTyped
  BY LineAssumption DEF LineInit, FeedTyped
<1>2. LineInit => FlagsTyped
  BY DEF LineInit, FlagsTyped
<1> QED BY <1>1, <1>2, LineManagerTyped, FeedStepTyped, FlagsStepTyped, PTL
        DEF LineSafeSpec, LineTyped

\* Every variable of the line keeps its type, and no subscription holds more than
\* Depth messages, for any nodes and any depth.
THEOREM LineTypeCorrect == LineSafeSpec => []LineTypeOK
<1>1. ManagerTypeOK /\ LineTyped => LineTypeOK
  BY DEF LineTyped, FeedTyped, FlagsTyped, LineTypeOK, View, Statuses
<1> QED BY <1>1, LineWellTyped, LineDrivesManager, ManagerTypeCorrect, PTL

-----------------------------------------------------------------------------
(* A node that has read everything is up to date.                           *)

\* Where a node gets when it reads all its messages.
Latest(n) == IF feed[n] = <<>> THEN View(n) ELSE feed[n][Len(feed[n])]

\* The inductive form: it speaks of messages that are still to be read.
LatestCurrent == \A n \in Nodes : ~missed[n] => Latest(n) = status

\* Every step keeps LatestCurrent.
LEMMA LatestStep ==
  ManagerTyped /\ FeedTyped /\ LatestCurrent /\ [LineNext]_lineVars
    => LatestCurrent'
<1> SUFFICES ASSUME ManagerTyped, FeedTyped, LatestCurrent, [LineNext]_lineVars
             PROVE  LatestCurrent'
  OBVIOUS
<1>1. ASSUME NEW t \in Threads, Publishes(t) PROVE LatestCurrent'
  <2>1. message[t] \in Statuses /\ status' = message[t]
    BY <1>1 DEF ManagerTyped, Publishes, SendStatus
  <2>2. ASSUME NEW n \in Nodes, ~missed'[n]
        PROVE  feed'[n] = Delivered(feed[n], message[t])
    BY <1>1, <2>2 DEF Publishes
  <2>3. ASSUME NEW n \in Nodes, ~missed'[n]
        PROVE  feed'[n] # <<>> /\ feed'[n][Len(feed'[n])] = message[t]
    <3>1. feed[n] \in Seq(Statuses) /\ Len(feed[n]) =< Depth
      BY DEF FeedTyped
    <3>2. /\ Len(Delivered(feed[n], message[t])) \in 1..Depth
          /\ Delivered(feed[n], message[t])[Len(Delivered(feed[n], message[t]))]
               = message[t]
      BY <2>1, <3>1, DeliveredLast
    <3> QED BY <2>2, <2>3, <3>2
  <2> QED BY <2>1, <2>3 DEF LatestCurrent, Latest
<1>2. ASSUME NEW n \in Nodes, NodeHears(n) PROVE LatestCurrent'
  <2>1. ASSUME NEW o \in Nodes, o # n PROVE Latest(o)' = Latest(o)
    <3>1. feed'[o] = feed[o]
      BY <1>2, <2>1, HearsHead DEF FeedTyped
    <3>2. view_state'[o] = view_state[o] /\ view_mode'[o] = view_mode[o]
      BY <1>2, <2>1, HearsHead DEF FeedTyped
    <3> QED BY <3>1, <3>2 DEF Latest, View
  <2>2. Latest(n)' = Latest(n)
    <3>1. /\ feed[n] \in Seq(Statuses) /\ feed[n] # <<>>
          /\ feed'[n] = Tail(feed[n])
      BY <1>2, HearsHead DEF FeedTyped, NodeHears
    <3>2. View(n)' = Head(feed[n])
      BY <1>2, HearsHead DEF View, FeedTyped, Statuses
    <3> QED BY <3>1, <3>2, LastOfTail DEF Latest
  <2>3. UNCHANGED <<status, missed>>
    BY <1>2, HearsHead
  <2>4. ASSUME NEW o \in Nodes, ~missed'[o] PROVE Latest(o)' = status'
    <3>1. Latest(o)' = Latest(o)
      BY <2>1, <2>2
    <3>2. Latest(o) = status
      BY <2>3, <2>4 DEF LatestCurrent
    <3> QED BY <2>3, <3>1, <3>2
  <2> QED BY <2>4 DEF LatestCurrent
<1>3. CASE UNCHANGED <<viewVars, feedVars, status>>
  BY <1>3 DEF LatestCurrent, Latest, View, viewVars, feedVars
<1> QED BY <1>1, <1>2, <1>3, TopicSteps

\* A node that has read all its messages, and has not lost the last, is at the
\* status last published, for any number of nodes, any depth of the subscription
\* and any loss before.
THEOREM UpToDate == LineSafeSpec => []NodeUpToDate
<1>1. LineInit => LatestCurrent
  BY DEF LineInit, ManagerInit, LatestCurrent, Latest, View, Nothing
<1>2. LatestCurrent => NodeUpToDate
  BY DEF LatestCurrent, Latest, NodeUpToDate
<1> QED BY <1>1, <1>2, LatestStep, LineWellTyped, PTL DEF LineSafeSpec, LineTyped

=============================================================================
