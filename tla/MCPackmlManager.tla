--------------------------- MODULE MCPackmlManager ---------------------------
(***************************************************************************)
(* The manager for TLC, and what comments of the repository say of it that  *)
(* the code does not do.                                                    *)
(***************************************************************************)
EXTENDS PackmlManager

\* A round succeeds only if every client accepted ("We return success if all
\* on_value() callbacks returned true").
SuccessMeansAll ==
  [][ \A t \in Threads :
        (phase[t] # "Publish" /\ phase'[t] = "Publish")
          => \A c \in Clients : agrees[t][c] ]_allVars

=============================================================================
