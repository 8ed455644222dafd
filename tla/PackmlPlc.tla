------------------------------ MODULE PackmlPlc ------------------------------
(***************************************************************************)
(* A PLC that runs a PackML machine itself, the driver that listens to it   *)
(* (packml_plc_listener) and the panel that polls the driver.               *)
(*                                                                          *)
(* The PLC has a tag for each state.  A thread of the driver reads the tags  *)
(* one after the other and then replaces newvals, the values of the last     *)
(* scan; the thread that spins the node copies newvals to an answer field by *)
(* field.  Neither waits for the PLC or for the other thread: a scan may     *)
(* see two states or none, and an answer may be a part of one scan and a     *)
(* part of the next.  An error of the connection ends the listening thread,  *)
(* and the node goes on to answer with the values it has.                    *)
(***************************************************************************)
EXTENDS PackmlPanel

CONSTANT Tags   \* the states the PLC may be in, in the order of their tags

ASSUME TagsAssumption == Tags \in Seq(States) /\ Tags # <<>>

Tagged == {Tags[i] : i \in 1..Len(Tags)}

VARIABLES
  plc,        \* the state of the PLC
  listener,   \* the listening thread
  place,      \* the tag it reads next
  seen,       \* the tags it found set in this scan
  newvals,    \* the tags found set in the last scan
  field,      \* the field of the answer that is copied next
  copied,     \* the fields that were set
  inScan, inNewvals, recent   \* history: the states the PLC was in since the
                              \* scan began, since the scan of newvals began,
                              \* and since the latter when the panel polled

scanVars == <<listener, place, seen, newvals>>
copyVars == <<field, copied>>
history == <<inScan, inNewvals, recent>>
plcVars == <<panelVars, plc, scanVars, copyVars, history>>

PlcInit ==
  /\ PanelInit
  /\ plc \in Tagged
  /\ listener = "Timer" /\ place = 1 /\ seen = {} /\ newvals = {}
  /\ field = 1 /\ copied = {}
  /\ inScan = {plc} /\ inNewvals = {plc} /\ recent = {}

-----------------------------------------------------------------------------
(* The PLC: it follows the diagram by itself and at the buttons it is given. *)

Follows(s) ==
  {Leads[c] : c \in Buttons(s)} \cup {"ABORTING"}
    \cup (IF s \in ActingStates THEN {After[s]} ELSE {})

PlcMoves ==
  \E s \in (Follows(plc) \ {plc}) \cap Tagged :
    /\ plc' = s
    /\ inScan' = inScan \cup {s}
    /\ inNewvals' = inNewvals \cup {s}
    /\ recent' = recent \cup {s}
    /\ UNCHANGED <<panelVars, scanVars, copyVars>>

-----------------------------------------------------------------------------
(* The listening thread, which a Timer starts after a second.               *)

Connects ==
  /\ listener = "Timer"
  /\ listener' = "Listening"
  /\ inScan' = {plc}
  /\ UNCHANGED <<panelVars, plc, place, seen, newvals, copyVars, inNewvals,
                 recent>>

\* get_value of the next tag.
ReadsTag ==
  /\ listener = "Listening" /\ place =< Len(Tags)
  /\ seen' = IF plc = Tags[place] THEN seen \cup {plc} ELSE seen
  /\ place' = place + 1
  /\ UNCHANGED <<panelVars, plc, listener, newvals, copyVars, history>>

\* newvals is replaced by the list of this scan, and the next scan begins.
StoresScan ==
  /\ listener = "Listening" /\ place > Len(Tags)
  /\ newvals' = seen /\ inNewvals' = inScan
  /\ place' = 1 /\ seen' = {} /\ inScan' = {plc}
  /\ UNCHANGED <<panelVars, plc, listener, copyVars, recent>>

\* connect or get_value raises: the thread ends, whatever is half read is lost.
LosesConnection ==
  /\ listener # "Ended"
  /\ listener' = "Ended"
  /\ UNCHANGED <<panelVars, plc, place, seen, newvals, copyVars, history>>

Listens == Connects \/ ReadsTag \/ StoresScan

-----------------------------------------------------------------------------
(* The node: send_data.                                                     *)

CopiesField ==
  /\ asked > 0 /\ field =< Len(Tags)
  /\ copied' = copied \cup ({Tags[field]} \cap newvals)
  /\ field' = field + 1
  /\ UNCHANGED <<panelVars, plc, scanVars, history>>

SendsData ==
  /\ field > Len(Tags)
  /\ Answered(copied)
  /\ field' = 1 /\ copied' = {}
  /\ UNCHANGED <<plc, scanVars, history>>

Serves == CopiesField \/ SendsData

-----------------------------------------------------------------------------
Polls ==
  /\ Poll
  /\ recent' = inNewvals
  /\ UNCHANGED <<plc, scanVars, copyVars, inScan, inNewvals>>

PanelTakes == (Takes \/ TakesLate) /\ UNCHANGED <<plc, scanVars, copyVars, history>>

PanelGivesUp == GivesUp /\ UNCHANGED <<plc, scanVars, copyVars, history>>

PlcNext ==
  \/ PlcMoves
  \/ Connects \/ ReadsTag \/ StoresScan \/ LosesConnection
  \/ CopiesField \/ SendsData
  \/ Polls \/ PanelTakes \/ PanelGivesUp

\* The threads are scheduled and the timer goes off.
PlcFairness ==
  /\ WF_plcVars(Listens)
  /\ WF_plcVars(Serves)
  /\ WF_plcVars(Polls)
  /\ WF_plcVars(PanelTakes)

PlcSpec == PlcInit /\ [][PlcNext]_plcVars /\ PlcFairness

-----------------------------------------------------------------------------
(* Properties.                                                              *)

PlcTypeOK ==
  /\ PanelTypeOK
  /\ plc \in Tagged
  /\ listener \in {"Timer", "Listening", "Ended"}
  /\ place \in 1..Len(Tags) + 1 /\ field \in 1..Len(Tags) + 1
  /\ seen \subseteq Tagged /\ newvals \subseteq Tagged /\ copied \subseteq Tagged
  /\ inScan \subseteq Tagged /\ inNewvals \subseteq Tagged /\ recent \subseteq Tagged

\* What the panel lights is not older than the scan that the driver had when the
\* panel polled: it may be two states, or none, but never the answer to a poll
\* that was given up, and no state is taken over from one scan to the next.
LitRecently == [][ lit' # lit => lit' \subseteq recent ]_plcVars

\* When the PLC comes to rest, and the polls are answered in time from then on,
\* the panel ends up with its state and no other, unless the driver has lost the
\* PLC: answers to earlier polls, torn scans and torn answers leave no trace.
PanelFollows ==
  \/ []<><<PlcMoves \/ PanelGivesUp>>_plcVars
  \/ <>[](lit = {plc} \/ listener = "Ended")

=============================================================================
