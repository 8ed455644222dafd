---------------------------- MODULE PackmlPlcProofs ----------------------------
(***************************************************************************)
(* What holds of every PLC, driver and panel, whatever the tags and however *)
(* many polls the panel may give up.                                        *)
(***************************************************************************)
EXTENDS PackmlPlc, PackmlPanelProofs

\* Every tag is that of a state.
LEMMA TagsAreStates ==
  /\ Len(Tags) \in Nat /\ Tagged \subseteq States
  /\ \A i \in 1..Len(Tags) : Tags[i] \in Tagged
  BY TagsAssumption DEF Tagged

-----------------------------------------------------------------------------
(* The driver.                                                              *)

ScanTyped ==
  /\ plc \in Tagged
  /\ listener \in {"Timer", "Listening", "Ended"}
  /\ place \in 1..Len(Tags) + 1 /\ field \in 1..Len(Tags) + 1
  /\ seen \subseteq Tagged /\ newvals \subseteq Tagged /\ copied \subseteq Tagged
  /\ inScan \subseteq Tagged /\ inNewvals \subseteq Tagged /\ recent \subseteq Tagged

\* What a scan found was there during the scan, and a scan is not older than the
\* one that newvals holds.
ScansKnown ==
  /\ plc \in inScan /\ inScan \subseteq inNewvals
  /\ seen \subseteq inScan /\ newvals \subseteq inNewvals
  /\ listener = "Timer" => seen = {}

\* What is copied for the poll that the panel waits for, and the answer to it, are
\* not older than the scan that newvals held when the panel polled.
AnswerRecent ==
  /\ polling => inNewvals \subseteq recent
  /\ asked = 0 => copied = {}
  /\ polling /\ asked = 1 => copied \subseteq recent
  /\ Answering => LastAnswer \subseteq recent

PlcInv == PanelOK /\ ScanTyped /\ ScansKnown /\ AnswerRecent

\* A step of the PLC or of the listening thread keeps PlcInv.
LEMMA ScanStep ==
  ASSUME PlcInv, PlcMoves \/ Connects \/ ReadsTag \/ StoresScan \/ LosesConnection
  PROVE  PlcInv'
<1>1. UNCHANGED panelVars
  BY DEF PlcMoves, Connects, ReadsTag, StoresScan, LosesConnection
<1>2. /\ PanelOK' /\ UNCHANGED <<lit, polling, asked>>
      /\ Answering' = Answering /\ LastAnswer' = LastAnswer
  BY <1>1, PanelUnchanged DEF PlcInv
<1> USE DEF PlcInv, ScanTyped, ScansKnown, AnswerRecent, scanVars, copyVars, history
<1>3. CASE PlcMoves
  BY <1>2, <1>3 DEF PlcMoves
<1>4. CASE Connects
  BY <1>2, <1>4 DEF Connects
<1>5. CASE ReadsTag
  BY <1>2, <1>5, TagsAreStates DEF ReadsTag
<1>6. CASE StoresScan
  BY <1>2, <1>6, TagsAreStates DEF StoresScan
<1>7. CASE LosesConnection
  BY <1>2, <1>7 DEF LosesConnection
<1> QED BY <1>3, <1>4, <1>5, <1>6, <1>7

\* A step of the node keeps PlcInv.
LEMMA ServeStep ==
  ASSUME PlcInv, CopiesField \/ SendsData
  PROVE  PlcInv'
<1> USE DEF PlcInv, ScanTyped, ScansKnown, AnswerRecent, scanVars, copyVars, history
<1>1. CASE CopiesField
  <2>1. /\ PanelOK' /\ UNCHANGED <<lit, polling, asked>>
        /\ Answering' = Answering /\ LastAnswer' = LastAnswer
    BY <1>1, PanelUnchanged DEF CopiesField
  <2>2. /\ copied' \subseteq Tagged /\ copied' \subseteq copied \cup newvals
        /\ field' \in 1..Len(Tags) + 1 /\ asked # 0
    BY <1>1, TagsAreStates DEF CopiesField, PanelOK, PanelTypeOK
  <2> QED BY <1>1, <2>1, <2>2 DEF CopiesField
<1>2. CASE SendsData
  <2>1. /\ PanelOK' /\ UNCHANGED <<lit, polling>>
        /\ asked > 0 /\ asked' = asked - 1
        /\ LastAnswer' = copied
    BY <1>2, AnsweredStep, TagsAreStates DEF SendsData
  <2>2. asked \in Nat
    BY PanelAssumption DEF PanelOK, PanelTypeOK
  <2>3. Answering' => copied \subseteq recent
    BY <2>1, <2>2 DEF Answering
  <2> QED BY <1>2, <2>1, <2>3, TagsAreStates DEF SendsData
<1> QED BY <1>1, <1>2

\* A step of the panel keeps PlcInv, and what it draws is recent.
LEMMA PanelStep ==
  ASSUME PlcInv, Polls \/ PanelTakes \/ PanelGivesUp
  PROVE  PlcInv' /\ (lit' # lit => lit' \subseteq recent)
<1> USE DEF PlcInv, ScanTyped, ScansKnown, AnswerRecent, scanVars, copyVars, history
<1>1. CASE Polls
  <2>1. PanelOK' /\ ~Answering'
    BY <1>1, PollStep DEF Polls
  <2>2. asked \in Nat /\ asked' = asked + 1
    BY <1>1, PanelAssumption DEF Polls, Poll, PanelOK, PanelTypeOK
  <2>3. asked' # 0 /\ (asked' = 1 => copied = {})
    BY <2>2
  <2> QED BY <1>1, <2>1, <2>3 DEF Polls, Poll, screen
<1>2. CASE Takes /\ UNCHANGED <<plc, scanVars, copyVars, history>>
  <2>1. PanelOK' /\ Answering /\ lit' = LastAnswer /\ ~Answering'
    BY <1>2, TakesStep
  <2> QED BY <1>2, <2>1 DEF Takes
<1>3. CASE TakesLate /\ UNCHANGED <<plc, scanVars, copyVars, history>>
  <2>1. /\ PanelOK' /\ UNCHANGED lit
        /\ Answering' => Answering /\ LastAnswer' = LastAnswer
    BY <1>3, TakesLateStep
  <2> QED BY <1>3, <2>1 DEF TakesLate
<1>4. CASE PanelGivesUp
  <2>1. PanelOK' /\ UNCHANGED lit /\ ~Answering'
    BY <1>4, GivesUpStep DEF PanelGivesUp
  <2> QED BY <1>4, <2>1 DEF PanelGivesUp, GivesUp
<1> QED BY <1>1, <1>2, <1>3, <1>4 DEF PanelTakes

\* PlcInv is an invariant.
LEMMA PlcInvariant == PlcSpec => []PlcInv
<1>1. PlcInit => PlcInv
  <2> SUFFICES ASSUME PlcInit PROVE PlcInv
    OBVIOUS
  <2>1. PanelOK /\ ~Answering
    BY PanelStarts DEF PlcInit, PanelInit, Answering
  <2> QED BY <2>1, TagsAreStates
      DEF PlcInit, PanelInit, PlcInv, ScanTyped, ScansKnown, AnswerRecent
<1>2. PlcInv /\ [PlcNext]_plcVars => PlcInv'
  <2> SUFFICES ASSUME PlcInv, [PlcNext]_plcVars PROVE PlcInv'
    OBVIOUS
  <2>1. CASE UNCHANGED plcVars
    BY <2>1, PanelUnchanged
    DEF plcVars, PlcInv, ScanTyped, ScansKnown, AnswerRecent, scanVars, copyVars,
        history
  <2> QED BY <2>1, ScanStep, ServeStep, PanelStep DEF PlcNext
<1> QED BY <1>1, <1>2, PTL DEF PlcSpec

-----------------------------------------------------------------------------
\* Every variable keeps its type, and no more polls than MaxPolls are under way,
\* for any tags.
THEOREM PlcTypeCorrect == PlcSpec => []PlcTypeOK
<1>1. PlcInv => PlcTypeOK
  BY DEF PlcInv, PanelOK, ScanTyped, PlcTypeOK
<1> QED BY <1>1, PlcInvariant, PTL

\* What the panel lights is not older than the scan that the driver had when the
\* panel polled: for any tags, and however many polls were given up before.
THEOREM LightsRecent == PlcSpec => LitRecently
<1>1. PlcInv /\ [PlcNext]_plcVars => [lit' # lit => lit' \subseteq recent]_plcVars
  <2> SUFFICES ASSUME PlcInv, PlcNext PROVE lit' # lit => lit' \subseteq recent
    OBVIOUS
  <2>1. PlcMoves \/ Connects \/ ReadsTag \/ StoresScan \/ LosesConnection
          \/ CopiesField \/ SendsData => UNCHANGED lit
    BY DEF PlcMoves, Connects, ReadsTag, StoresScan, LosesConnection, CopiesField,
           SendsData, Answered, panelVars, screen
  <2> QED BY <2>1, PanelStep DEF PlcNext
<1> QED BY <1>1, PlcInvariant, PTL DEF PlcSpec, LitRecently

=============================================================================
