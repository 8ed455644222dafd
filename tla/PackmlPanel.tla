----------------------------- MODULE PackmlPanel -----------------------------
(***************************************************************************)
(* The RViz panel (PackmlWidget).  Its timer asks for the status every      *)
(* 200 ms over a service and spins for at most 100 ms until it is answered;  *)
(* then it lights the states of the answer and enables their buttons.  A     *)
(* poll that is not answered in time is given up, and stays in the client:   *)
(* its answer comes in during a later poll, in which nobody waits for it.    *)
(* Clicks are handled between the timer events, by the same thread.          *)
(*                                                                          *)
(* The service is left to the module that extends this one.  Requests and    *)
(* answers keep their order, so that, while the panel polls, its poll is the *)
(* last one that is under way: polls need no names, counting them is enough. *)
(***************************************************************************)
EXTENDS PackmlDiagram, Naturals, Sequences

CONSTANT MaxPolls   \* bound: the polls under way at once

ASSUME PanelAssumption == MaxPolls \in Nat \ {0}

VARIABLES
  lit,       \* the states drawn in red
  buttons,   \* the buttons that are enabled
  polling,   \* whether the timer event is spinning for its poll
  asked,     \* the polls that the service has not answered
  answers    \* the answers on their way, each the set of states it names

screen == <<lit, buttons>>
polls == <<polling, asked, answers>>
panelVars == <<screen, polls>>

UnderWay == asked + Len(answers)

\* PackmlWidget and packml.ui: every button is enabled at first.
PanelInit ==
  /\ lit = {} /\ buttons = Commands
  /\ polling = FALSE /\ asked = 0 /\ answers = <<>>

\* timerEvent, up to the wait.
Poll ==
  /\ ~polling
  /\ polling' = TRUE
  /\ asked' = asked + 1
  /\ UNCHANGED <<screen, answers>>

\* updateButtonState: the buttons of every state that is named.
Draws(s) == lit' = s /\ buttons' = UNION {Buttons(x) : x \in s}

\* Mutant: the first answer that comes in is taken for that of the poll.
TakesAny ==
  /\ polling /\ answers # <<>>
  /\ Draws(Head(answers))
  /\ answers' = Tail(answers)
  /\ polling' = FALSE
  /\ UNCHANGED asked

\* The answer to the poll.
Takes ==
  /\ polling /\ answers # <<>> /\ UnderWay = 1
  /\ Draws(Head(answers))
  /\ answers' = Tail(answers)
  /\ polling' = FALSE
  /\ UNCHANGED asked

\* Mutant: a late answer ends the poll.
TakesLateEnds ==
  /\ polling /\ answers # <<>> /\ UnderWay > 1
  /\ answers' = Tail(answers)
  /\ polling' = FALSE
  /\ UNCHANGED <<screen, asked>>

\* The answer to a poll that was given up.
TakesLate ==
  /\ polling /\ answers # <<>> /\ UnderWay > 1
  /\ answers' = Tail(answers)
  /\ UNCHANGED <<screen, polling, asked>>

\* 100 ms are over.  MaxPolls bounds how many polls may be given up in a row.
GivesUp ==
  /\ polling /\ UnderWay < MaxPolls
  /\ polling' = FALSE
  /\ UNCHANGED <<screen, asked, answers>>

\* A click on a button, which the panel handles when it does not spin.
Clicks(c) == ~polling /\ c \in buttons /\ UNCHANGED panelVars

\* Mutant: the request stays with the service.
AnsweredAgain(s) ==
  /\ asked > 0
  /\ answers' = Append(answers, s)
  /\ UNCHANGED <<asked, screen, polling>>

\* The service sends its answer to the oldest poll.
Answered(s) ==
  /\ asked > 0
  /\ asked' = asked - 1
  /\ answers' = Append(answers, s)
  /\ UNCHANGED <<screen, polling>>

PanelTypeOK ==
  /\ lit \subseteq States /\ buttons \subseteq Commands
  /\ polling \in BOOLEAN
  /\ asked \in 0..MaxPolls
  /\ answers \in Seq(SUBSET States) /\ UnderWay =< MaxPolls

=============================================================================
