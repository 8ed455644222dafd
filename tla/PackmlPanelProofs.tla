-------------------------- MODULE PackmlPanelProofs --------------------------
(***************************************************************************)
(* What the panel does with polls and answers, for any bound on the polls   *)
(* that it may give up, whatever service answers it.                        *)
(***************************************************************************)
EXTENDS PackmlPanel, QueueLemmas

\* The panel only enables buttons that there are.
LEMMA ButtonsAreCommands == \A s : Buttons(s) \subseteq Commands
  BY DEF Buttons, Commands

\* The types, and the room that a poll needs: a poll is given up only while there
\* is room for the next.
PanelOK ==
  /\ PanelTypeOK
  /\ ~polling => UnderWay < MaxPolls

\* The panel starts that way.
LEMMA PanelStarts == PanelInit => PanelOK
<1> SUFFICES ASSUME PanelInit PROVE PanelOK
  OBVIOUS
<1>1. UnderWay = 0 /\ MaxPolls \in Nat /\ MaxPolls > 0
  BY PanelAssumption, EmptySeq DEF PanelInit, UnderWay
<1>2. /\ asked \in 0..MaxPolls /\ answers \in Seq(SUBSET States)
      /\ UnderWay =< MaxPolls /\ UnderWay < MaxPolls
  BY <1>1, EmptySeq DEF PanelInit
<1>3. lit \subseteq States /\ buttons \subseteq Commands /\ polling \in BOOLEAN
  BY DEF PanelInit
<1> QED BY <1>2, <1>3 DEF PanelOK, PanelTypeOK

LastAnswer == answers[Len(answers)]

\* The poll of the panel is the last under way, so that once no poll waits for the
\* service the last answer is the answer to it.
Answering == polling /\ asked = 0 /\ answers # <<>>

\* A new poll is still to be answered.
LEMMA PollStep ==
  ASSUME PanelOK, Poll
  PROVE  PanelOK' /\ ~Answering'
  BY PanelAssumption DEF PanelOK, PanelTypeOK, Poll, UnderWay, Answering, screen

\* What the panel draws is the answer to its poll.
LEMMA TakesStep ==
  ASSUME PanelOK, Takes
  PROVE  PanelOK' /\ Answering /\ lit' = LastAnswer /\ ~Answering'
<1>1. /\ polling /\ answers # <<>> /\ asked + Len(answers) = 1
      /\ answers \in Seq(SUBSET States) /\ asked \in Nat
  BY PanelAssumption DEF Takes, UnderWay, PanelOK, PanelTypeOK
<1>2. Len(answers) = 1 /\ asked = 0
  <2>1. PICK k \in Nat \ {0} : k = Len(answers)
    BY <1>1, EmptySeq
  <2>2. asked + k = 1
    BY <1>1, <2>1
  <2>3. k = 1 /\ asked = 0
    BY <1>1, <2>2
  <2> QED BY <2>1, <2>3
<1>3. Head(answers) = LastAnswer /\ Head(answers) \subseteq States
  BY <1>1, <1>2 DEF LastAnswer
<1>4. lit' = LastAnswer /\ buttons' \subseteq Commands
  BY <1>3, ButtonsAreCommands DEF Takes, Draws
<1>5. answers' = <<>> /\ asked' = 0 /\ polling' = FALSE
  <2>1. Tail(answers) \in Seq(SUBSET States) /\ Len(Tail(answers)) = 0
    BY <1>1, <1>2
  <2> QED BY <1>2, <2>1, EmptySeq DEF Takes
<1>6. UnderWay' = 0 /\ MaxPolls \in Nat /\ MaxPolls > 0
  BY <1>5, EmptySeq, PanelAssumption DEF UnderWay
<1>7. /\ asked' \in 0..MaxPolls /\ answers' \in Seq(SUBSET States)
      /\ UnderWay' =< MaxPolls /\ UnderWay' < MaxPolls
  BY <1>5, <1>6, EmptySeq
<1>8. PanelOK'
  BY <1>3, <1>4, <1>5, <1>7 DEF PanelOK, PanelTypeOK
<1> QED BY <1>1, <1>2, <1>3, <1>4, <1>5, <1>8 DEF Answering

\* An answer that nobody waits for is not the last.
LEMMA TakesLateStep ==
  ASSUME PanelOK, TakesLate
  PROVE  /\ PanelOK' /\ UNCHANGED lit
         /\ Answering' => Answering /\ LastAnswer' = LastAnswer
<1>1. /\ answers \in Seq(SUBSET States) /\ answers # <<>> /\ polling
      /\ UNCHANGED <<screen, polling, asked>> /\ answers' = Tail(answers)
  BY DEF TakesLate, PanelOK, PanelTypeOK
<1>2. /\ answers' \in Seq(SUBSET States) /\ Len(answers') = Len(answers) - 1
      /\ Len(answers) \in Nat
  BY <1>1, HeadTailProperties, LenProperties
<1>3. PanelOK'
  BY <1>1, <1>2, PanelAssumption DEF PanelOK, PanelTypeOK, UnderWay, screen
<1>4. answers' # <<>> => LastAnswer' = LastAnswer
  BY <1>1, LastOfTail DEF LastAnswer
<1> QED BY <1>1, <1>3, <1>4 DEF Answering, screen

\* After a poll was given up the panel waits for nothing.
LEMMA GivesUpStep ==
  ASSUME PanelOK, GivesUp
  PROVE  PanelOK' /\ UNCHANGED lit /\ ~Answering'
  BY DEF PanelOK, PanelTypeOK, GivesUp, UnderWay, Answering, screen

\* The answer that is sent becomes the last.
LEMMA AnsweredStep ==
  ASSUME PanelOK, NEW s \in SUBSET States, Answered(s)
  PROVE  /\ PanelOK' /\ UNCHANGED <<lit, polling>>
         /\ asked > 0 /\ asked' = asked - 1
         /\ LastAnswer' = s
<1>1. answers \in Seq(SUBSET States) /\ answers' = Append(answers, s)
  BY DEF Answered, PanelOK, PanelTypeOK
<1>2. /\ answers' \in Seq(SUBSET States) /\ Len(answers') = Len(answers) + 1
      /\ Len(answers) \in Nat
      /\ LastAnswer' = s
  BY <1>1 DEF LastAnswer
<1> QED BY <1>2, PanelAssumption
        DEF Answered, PanelOK, PanelTypeOK, UnderWay, screen

\* What leaves the panel alone leaves its polls alone.
LEMMA PanelUnchanged ==
  ASSUME UNCHANGED panelVars
  PROVE  /\ PanelOK => PanelOK'
         /\ UNCHANGED <<lit, polling, asked>>
         /\ Answering' = Answering /\ LastAnswer' = LastAnswer
  BY DEF PanelOK, PanelTypeOK, UnderWay, Answering, LastAnswer, panelVars, screen, polls

=============================================================================
