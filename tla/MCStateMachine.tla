--------------------------- MODULE MCStateMachine ---------------------------
(***************************************************************************)
(* The state machine for TLC: values for its constants, and what the        *)
(* comments and the tests of the repository say of it that the code does    *)
(* not do.                                                                  *)
(***************************************************************************)
EXTENDS StateMachine

\* Every operation may fail, but that of ABORTING, which always succeeds: no
\* method can be installed there.
AllButAborting == ActingStates \ {"ABORTING"}

-----------------------------------------------------------------------------
\* setExecute binds the method of EXECUTE ("Function to bind the Execute state to
\* a function"): when the bound method fails, what EXECUTE posts is an error.
BoundMethodRuns ==
  [][ (op["EXECUTE"] = "Running" /\ op'["EXECUTE"] = "Posted"
         /\ user_method["EXECUTE"] = "Fails")
        => queue' = Posted(queue, "ERR") ]_vars

\* A machine that was activated accepts CLEAR in ABORTED, the state it starts in
\* ("bool answer1 = sm->clear(); ASSERT_TRUE(answer1 == true);"): the test calls
\* no changeMode before.
ClearAccepted ==
  [][ (conf = "ABORTED" /\ call = "CLEAR" /\ prom = "Unset")
        => prom' \in {"Unset", "Accepted"} ]_vars

\* The machine is never in a state its mode has disabled ("We disabled the state
\* completing here!"): a mode is only switched in IDLE.
ModeRespected ==
  (pc # "SetMode" /\ currentMode # NoMode /\ conf # NoState)
    => conf \in AvailableIn(currentMode)

=============================================================================
