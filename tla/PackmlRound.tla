----------------------------- MODULE PackmlRound -----------------------------
(***************************************************************************)
(* What a line may rely on in its manager, when nothing is said of          *)
(* executors, futures, promises and messages: each of its two threads asks  *)
(* the clients in rounds of its own.                                        *)
(*                                                                          *)
(* The unit of the manager reports a state, and every report makes a round  *)
(* due; no other is reported until that round is over.  A mode is switched  *)
(* first and announced, and the clients are asked afterwards.  A client     *)
(* answers a request once.  A round that was begun fails only when a client *)
(* refuses, and what it is about is known to be agreed only when all have   *)
(* answered and the last of them accepted.                                  *)
(*                                                                          *)
(* PackmlManager implements it.                                             *)
(***************************************************************************)
EXTENDS Naturals

CONSTANTS
  NumClients,      \* the clients are numbered in the order they are asked
  States, Modes    \* what the unit reports, and what it can be switched to

Clients == 1..NumClients

Threads == {"Qt", "Executor"}

VARIABLES
  shown,    \* the state that the unit reported last
  agreed,   \* the state that the line agreed to last
  mode,     \* the mode that the manager takes for current
  stage,    \* where each thread is: Rest, Announcing, Due, Asking, Agreed
  said      \* what each client has said to each thread's request

rvars == <<shown, agreed, mode, stage, said>>

Silence == [c \in Clients |-> "Nothing"]

Goes(t, from, to) == stage[t] = from /\ stage' = [stage EXCEPT ![t] = to]

-----------------------------------------------------------------------------
Init ==
  /\ shown \in States \cup {"UNDEFINED"}
  /\ agreed = "UNDEFINED" /\ mode = "UNDEFINED"
  /\ stage = [t \in Threads |-> "Rest"]
  /\ said = [t \in Threads |-> Silence]

\* A state is reported, by the thread that then asks for it.
Report ==
  /\ Goes("Qt", "Rest", "Due")
  /\ shown' \in States
  /\ UNCHANGED <<agreed, mode, said>>

\* A mode is taken over, and announced; a mode that nobody requested, the first,
\* is not asked for.
Switch ==
  /\ Goes("Executor", "Rest", "Announcing")
  /\ mode' \in Modes
  /\ UNCHANGED <<shown, agreed, said>>

Announced ==
  /\ \/ Goes("Executor", "Announcing", "Due")
     \/ Goes("Executor", "Announcing", "Rest")
  /\ UNCHANGED <<shown, agreed, mode, said>>

\* The round begins, or a client is away and it does not.
Ask(t) ==
  /\ \/ Goes(t, "Due", "Asking")
     \/ Goes(t, "Due", "Rest")
  /\ UNCHANGED <<shown, agreed, mode, said>>

Answer(t, c) ==
  /\ stage[t] = "Asking" /\ said[t][c] = "Nothing"
  /\ \E a \in {"Yes", "No"} : said' = [said EXCEPT ![t][c] = a]
  /\ UNCHANGED <<shown, agreed, mode, stage>>

Refused(t) ==
  /\ Goes(t, "Asking", "Rest")
  /\ \E c \in Clients : said[t][c] = "No"
  /\ said' = [said EXCEPT ![t] = Silence]
  /\ UNCHANGED <<shown, agreed, mode>>

\* The state that was reported is agreed; a mode has been taken over before.
Accepted(t) ==
  /\ Goes(t, "Asking", "Agreed")
  /\ \A c \in Clients : said[t][c] # "Nothing"
  /\ NumClients > 0 /\ said[t][NumClients] = "Yes"
  /\ said' = [said EXCEPT ![t] = Silence]
  /\ agreed' = IF t = "Qt" THEN shown ELSE agreed
  /\ UNCHANGED <<shown, mode>>

Published(t) ==
  /\ Goes(t, "Agreed", "Rest")
  /\ UNCHANGED <<shown, agreed, mode, said>>

Round(t) ==
  \/ Ask(t) \/ Refused(t) \/ Accepted(t) \/ Published(t)
  \/ \E c \in Clients : Answer(t, c)

\* What else the threads do.  SafeSpec allows it anyway; named, it comes first and spares
\* TLC the other actions in most steps of an implementation.
Unnoticed == UNCHANGED rvars

Next ==
  \/ Unnoticed
  \/ Report \/ Switch \/ Announced
  \/ \E t \in Threads : Round(t)

SafeSpec == Init /\ [][Next]_rvars

=============================================================================
