---------------------------- MODULE HaTask_proofs ----------------------------
(***************************************************************************)
(* What each step of mqtt_task and of ha_task preserves, for any number of *)
(* relays and inputs and queues of any length.  The modules that compose   *)
(* the two threads with different environments cite these lemmas.          *)
(***************************************************************************)
EXTENDS HaTask, TLAPS

\* What a step of mqtt_task may rely on and must keep.
BridgeTypeOK == ChannelsTypeOK /\ ClientTypeOK /\ HaTypeOK

\* The variables of mqtt_task that no other thread touches.
mqttVars == <<link, unread, mPc, subscribed, mConn, nextMid>>

\* Constants are in the ranges the assumptions give them.
LEMMA Ranges ==
  /\ 0 \in 0..(SeqMod - 1)
  /\ 1 \in 1..(MidMod - 1)
  /\ \A n \in Nat : n % SeqMod \in 0..(SeqMod - 1)
BY ChannelsAssumption, MqttClientAssumption

\* The threads start with every variable in its type.
LEMMA BridgeInitTypeOK ==
  ChannelsInit /\ ClientInit /\ HaInit => BridgeTypeOK
<1> SUFFICES ASSUME ChannelsInit, ClientInit, HaInit PROVE BridgeTypeOK
  OBVIOUS
<1>1. ChannelsTypeOK
  BY Ranges DEF ChannelsInit, ChannelsTypeOK, OutputsMsg, MqttStatusMsg
<1>2. ClientTypeOK
  <2>1. <<>> \in Seq(TxMsg) /\ <<>> \in Seq(RxMsg) /\ Len(<<>>) = 0
    OBVIOUS
  <2>2. 0 <= TxCap /\ 0 <= RxCap
    BY MqttClientAssumption
  <2> QED
    BY <2>1, <2>2, Ranges DEF ClientInit, ClientTypeOK
<1>3. HaTypeOK
  BY Ranges DEF HaInit, HaTypeOK, OutputsMsg
<1> QED
  BY <1>1, <1>2, <1>3 DEF BridgeTypeOK

-----------------------------------------------------------------------------
(* mqtt_task.                                                              *)

\* The event handler publishes complete status messages.
LEMMA PublishStatTypeOK ==
  ASSUME NEW c \in BOOLEAN, mqttStat \in MqttStatusMsg, PublishStat(c)
  PROVE  mqttStat' \in MqttStatusMsg
<1>1. StatusOf(c) \in MqttStatusMsg
  BY Zenon DEF StatusOf, MqttStatusMsg
<1> QED
  BY <1>1, Zenon DEF PublishStat

\* So do its two link events.
LEMMA EventTypeOK ==
  ASSUME mqttStat \in MqttStatusMsg, Dropped \/ ConnAck
  PROVE  /\ mqttStat' \in MqttStatusMsg
         /\ link' \in {"none", "up"}
         /\ Dropped => unread' = FALSE
BY PublishStatTypeOK DEF Dropped, ConnAck

\* Enqueue never outgrows the receive queue.
LEMMA EnqueueTypeOK ==
  ASSUME NEW cmd \in RxMsg, Enqueue(cmd), rx \in Seq(RxMsg), Len(rx) <= RxCap
  PROVE  rx' \in Seq(RxMsg) /\ Len(rx') <= RxCap
BY MqttClientAssumption DEF Enqueue

\* Packet identifiers stay in 1 .. MidMod - 1: 0 is skipped by the wrap.
LEMMA AllocMidTypeOK ==
  ASSUME AllocMid, nextMid \in 1..(MidMod - 1)
  PROVE  nextMid' \in 1..(MidMod - 1)
BY MqttClientAssumption DEF AllocMid

\* A read of the status leaves a truth value in the local copy.
LEMMA ReadStatusTypeOK ==
  ASSUME ReadStatus, mqttStat \in MqttStatusMsg, mConn \in BOOLEAN
  PROVE  mConn' \in BOOLEAN
<1>1. mqttStat.connected \in BOOLEAN
  BY DEF MqttStatusMsg
<1> QED
  BY <1>1, Zenon DEF ReadStatus

\* Every step of mqtt_task keeps the types of what it touches.
LEMMA ClientStepTypes ==
  ASSUME BridgeTypeOK, ClientStep
  PROVE  mqttStat' \in MqttStatusMsg /\ ClientTypeOK'
<1> USE DEF BridgeTypeOK, ChannelsTypeOK, ClientTypeOK
<1>2. CASE MConnectFails
  BY <1>2 DEF MConnectFails
<1>3. CASE MConnects
  BY <1>3, PublishStatTypeOK DEF MConnects
<1>4. CASE MInitialInput
  BY <1>4, EventTypeOK DEF MInitialInput
<1>5. CASE MInitialLive
  <2>1. /\ mqttStat' \in MqttStatusMsg /\ unread' \in BOOLEAN
        /\ link' \in {"none", "tcp", "up", "half", "left"}
    BY <1>5, EventTypeOK DEF MInitialLive
  <2>2. mConn' \in BOOLEAN
    BY <1>5, ReadStatusTypeOK DEF MInitialLive
  <2>3. /\ mPc' \in {"input1", "input2"}
        /\ subscribed' = IF mPc' = "input2" THEN FALSE ELSE subscribed
        /\ UNCHANGED <<tx, rx, nextMid, devId>>
    BY <1>5 DEF MInitialLive
  <2>4. subscribed' \in BOOLEAN
    BY <2>3, Zenon
  <2> QED
    BY <2>1, <2>2, <2>3, <2>4
<1>6. CASE MInput
  BY <1>6, EventTypeOK DEF MInput
<1>7. CASE \E cmd \in RxMsg : MReceives(cmd)
  <2>1. PICK cmd \in RxMsg : MReceives(cmd)
    BY <1>7
  <2>2. rx' \in Seq(RxMsg) /\ Len(rx') <= RxCap
    BY <2>1, EnqueueTypeOK DEF MReceives
  <2> QED
    BY <2>1, <2>2, EventTypeOK DEF MReceives
<1>8. CASE MLinkError \/ MBusy
  BY <1>8, EventTypeOK DEF MLinkError, MBusy
<1>9. CASE MLive
  <2>1. mConn' \in BOOLEAN
    BY <1>9, ReadStatusTypeOK DEF MLive
  <2> QED
    BY <1>9, <2>1 DEF MLive
<1>10. CASE MSubscribes
  BY <1>10 DEF MSubscribes, InitIdentifier
<1>11. CASE MSubscribeFails
  BY <1>11, EventTypeOK DEF MSubscribeFails, InitIdentifier, InitIdentifierFails
<1>12. CASE MNothingToSend
  BY <1>12 DEF MNothingToSend
<1>13. CASE MPublishes
  <2>1. tx' \in Seq(TxMsg) /\ Len(tx') <= TxCap
    BY <1>13, MqttClientAssumption DEF MPublishes
  <2> QED
    BY <1>13, <2>1, AllocMidTypeOK DEF MPublishes
<1>14. CASE MPublishFails
  BY <1>14, EventTypeOK, AllocMidTypeOK DEF MPublishFails
<1>15. CASE MWake
  BY <1>15 DEF MWake
<1> QED
  BY <1>2, <1>3, <1>4, <1>5, <1>6, <1>7, <1>8, <1>9, <1>10, <1>11, <1>12, <1>13, <1>14,
     <1>15 DEF ClientStep

\* With ha_task's variables and the relay command untouched, all types hold.
LEMMA ClientStepTypeOK ==
  ASSUME BridgeTypeOK, ClientStep, UNCHANGED <<outputs, haVars>>
  PROVE  BridgeTypeOK'
<1>1. HaTypeOK' /\ outputs' \in OutputsMsg
  BY DEF BridgeTypeOK, HaTypeOK, haVars, ChannelsTypeOK
<1> QED
  BY <1>1, ClientStepTypes DEF BridgeTypeOK, ChannelsTypeOK

\* So does the loss of a connection behind the client's back.
LEMMA LinkBreaksTypeOK ==
  ASSUME BridgeTypeOK, LinkBreaks, UNCHANGED <<outputs, haVars>>
  PROVE  BridgeTypeOK'
BY DEF BridgeTypeOK, ChannelsTypeOK, ClientTypeOK, HaTypeOK, LinkBreaks, haVars

-----------------------------------------------------------------------------
(* ha_task.                                                                *)

\* The devices and the messages about them.
LEMMA DeviceFacts ==
  /\ Inputs \subseteq Devices
  /\ \A r \in Relays : DeviceOf(r) \in Devices /\ RelayOf(DeviceOf(r)) = r
  /\ \A d \in Devices, on \in BOOLEAN, k \in {"config", "status"} :
       Message(k, d, on) \in TxMsg
<1>1. Inputs \subseteq Devices
  BY ChannelsAssumption, MqttClientAssumption DEF Inputs, Devices
<1>2. \A r \in Relays : DeviceOf(r) \in Devices /\ RelayOf(DeviceOf(r)) = r
  BY ChannelsAssumption, MqttClientAssumption DEF Relays, Devices, DeviceOf, RelayOf
<1>3. \A d \in Devices, on \in BOOLEAN, k \in {"config", "status"} :
        Message(k, d, on) \in TxMsg
  BY Zenon DEF Message, TxMsg
<1> QED
  BY <1>1, <1>2, <1>3

\* A put waits for room, so the transmit queue keeps to its capacity.
LEMMA PutTypeOK ==
  ASSUME NEW m \in TxMsg, Put(m), tx \in Seq(TxMsg), Len(tx) <= TxCap
  PROVE  tx' \in Seq(TxMsg) /\ Len(tx') <= TxCap /\ tx' = Append(tx, m)
BY MqttClientAssumption DEF Put

\* The next number of a relay command is in range.
LEMMA NextOutputsType ==
  ASSUME NEW old \in OutputsMsg, NEW s \in SUBSET Relays
  PROVE  NextOutputs(old, s) \in OutputsMsg
<1>1. (old.seq + 1) % SeqMod \in 0..(SeqMod - 1)
  BY ChannelsAssumption DEF OutputsMsg
<1> QED
  BY <1>1 DEF NextOutputs, OutputsMsg

\* A command moves no relay outside of the range.
LEMMA ObeyType ==
  ASSUME NEW s \in SUBSET Relays, NEW cmd PROVE Obey(s, cmd) \in SUBSET Relays
BY DEF Obey

\* Every step of ha_task keeps the types of what it touches.
LEMMA HaStepTypeOK ==
  ASSUME BridgeTypeOK, HaStep, UNCHANGED <<mqttStat, mqttVars>>
  PROVE  BridgeTypeOK'
<1> USE DEF BridgeTypeOK, ChannelsTypeOK, ClientTypeOK, HaTypeOK
<1>1. UNCHANGED <<mqttStat, link, unread, mPc, subscribed, mConn, nextMid>>
  BY DEF mqttVars
<1>2. CASE HaIdentifies \/ HaIdentified \/ HaNotIdentified
  BY <1>1, <1>2 DEF HaIdentifies, HaIdentified, HaNotIdentified, InitIdentifierFails
<1>3. CASE HaConnected /\ UNCHANGED devId
  BY <1>1, <1>3 DEF HaConnected
<1>4. CASE HaRegister /\ UNCHANGED devId
  <2>1. PICK d \in hTodo : Put(Message("config", d, FALSE)) /\ hTodo' = hTodo \ {d}
    BY <1>4 DEF HaRegister
  <2>2. tx' \in Seq(TxMsg) /\ Len(tx') <= TxCap
    BY <2>1, DeviceFacts, PutTypeOK
  <2> QED
    BY <1>1, <1>4, <2>1, <2>2 DEF HaRegister
<1>5. CASE HaRegisterCheck /\ UNCHANGED devId
  BY <1>1, <1>5 DEF HaRegisterCheck
<1>6. CASE HaLoop /\ UNCHANGED devId
  BY <1>1, <1>6, DeviceFacts DEF HaLoop
<1>7. CASE HaPutInput /\ UNCHANGED devId
  <2>1. PICK d \in hTodo : Put(Message("status", d, FALSE)) /\ hTodo' = hTodo \ {d}
    BY <1>7 DEF HaPutInput
  <2>2. tx' \in Seq(TxMsg) /\ Len(tx') <= TxCap
    BY <2>1, DeviceFacts, PutTypeOK
  <2> QED
    BY <1>1, <1>7, <2>1, <2>2 DEF HaPutInput
<1>8. CASE HaCommand /\ UNCHANGED devId
  <2>1. hOut' \in OutputsMsg /\ outputs' \in OutputsMsg
    <3>1. Obey(hOut.state, Head(rx)) \in SUBSET Relays
      BY ObeyType DEF OutputsMsg
    <3> QED
      BY <1>8, <3>1, NextOutputsType DEF HaCommand
  <2>2. rx' \in Seq(RxMsg) /\ Len(rx') <= RxCap
    BY <1>8, MqttClientAssumption DEF HaCommand
  <2> QED
    BY <1>1, <1>8, <2>1, <2>2 DEF HaCommand
<1>9. CASE HaReadOutputs /\ UNCHANGED devId
  <2>1. hOld' \in SUBSET Relays
    BY <1>9 DEF HaReadOutputs
  <2>2. outputs.state \in SUBSET Relays
    BY DEF OutputsMsg
  <2>3. hTodo' \in SUBSET Devices
    BY <1>9, <2>1, <2>2, DeviceFacts DEF HaReadOutputs
  <2> QED
    BY <1>1, <1>9, <2>1, <2>3 DEF HaReadOutputs
<1>10. CASE HaPutOutput /\ UNCHANGED devId
  <2>1. PICK d \in hTodo : /\ Put(Message("status", d, RelayOf(d) \in hOut.state))
                           /\ hTodo' = hTodo \ {d}
    BY <1>10 DEF HaPutOutput
  <2>2. tx' \in Seq(TxMsg) /\ Len(tx') <= TxCap
    <3>1. (RelayOf(d) \in hOut.state) \in BOOLEAN
      OBVIOUS
    <3>2. d \in Devices
      OBVIOUS
    <3>3. Message("status", d, RelayOf(d) \in hOut.state) \in TxMsg
      BY <3>1, <3>2, DeviceFacts, Zenon
    <3> QED
      BY <2>1, <3>3, PutTypeOK
  <2>3. hOld' \in SUBSET Relays /\ hPc' \in {"loop", "outPut"}
    BY <1>10 DEF HaPutOutput, OutputsMsg
  <2> QED
    BY <1>1, <1>10, <2>1, <2>2, <2>3 DEF HaPutOutput
<1> QED
  BY <1>2, <1>3, <1>4, <1>5, <1>6, <1>7, <1>8, <1>9, <1>10 DEF HaStep, HaWork

-----------------------------------------------------------------------------
(* The link as the threads see it.  All of it needs that no access to a    *)
(* channel fails, and that mqtt_task's 10 seconds of sleep are longer than *)
(* ha_task needs to look at the status (MqttStep).                         *)

\* The channel shows the state of the link as the client knows it, until
\* mqtt_task leaves its loop over an unread payload.
LinkShown == mqttStat.connected <=> link \in Announced

\* mqtt_task leaves its loops without a connection, or over a payload that is
\* in the socket of one.
ClosedWhenIdle ==
  /\ mPc \in {"wait", "connect"} => link \notin {"up", "half"}
  /\ link = "left" => mPc \in {"wait", "connect"}
  /\ unread => link \in {"up", "half"}

\* Before it tries to connect again, ha_task has noticed the loss that was
\* published, or waits for room in the transmit queue.
LossNoticed ==
  ~mqttStat.connected /\ mPc = "connect" => HaWaits \/ HaBlocked

LinkInv == ~Contention => LinkShown /\ ClosedWhenIdle /\ LossNoticed

\* The threads start without a connection.
LEMMA LinkInit == ChannelsInit /\ ClientInit /\ HaInit => LinkInv
BY DEF ChannelsInit, ClientInit, HaInit, LinkInv, LinkShown, ClosedWhenIdle, LossNoticed,
       Announced, HaWaits

\* What a step of mqtt_task can do to the link, if no access fails.
LEMMA ClientLinkSteps ==
  ASSUME ~Contention, BridgeTypeOK, ClientStep, LinkShown, ClosedWhenIdle
  PROVE  /\ LinkShown' /\ ClosedWhenIdle'
         /\ link' = "tcp" => link = "tcp" \/ mPc = "connect"
         /\ mPc' = "connect" => mPc = "wait" /\ UNCHANGED <<link, mqttStat>>
         /\ link' \in Announced => link # "none"
         /\ link \notin {"up", "half"} => tx' = tx
<1> USE DEF LinkShown, ClosedWhenIdle, Announced, PublishStat, StatusOf
<1>1. CASE MConnectFails
  BY <1>1 DEF MConnectFails
<1>2. CASE MConnects
  BY <1>2 DEF MConnects
<1>3. CASE MInitialInput
  BY <1>3 DEF MInitialInput, ConnAck, Dropped
<1>4. CASE MInitialLive
  BY <1>4 DEF MInitialLive, Dropped
<1>5. CASE MInput
  BY <1>5 DEF MInput, ConnAck
<1>6. CASE \E cmd \in RxMsg : MReceives(cmd)
  BY <1>6 DEF MReceives, Dropped
<1>7. CASE MLinkError \/ MBusy
  BY <1>7 DEF MLinkError, MBusy, Dropped
<1>8. CASE MLive
  BY <1>8 DEF MLive, ReadStatus
<1>9. CASE MSubscribes \/ MSubscribeFails
  BY <1>9 DEF MSubscribes, MSubscribeFails, Dropped
<1>10. CASE MNothingToSend \/ MPublishes \/ MPublishFails
  BY <1>10 DEF MNothingToSend, MPublishes, MPublishFails, Dropped
<1>11. CASE MWake
  BY <1>11 DEF MWake
<1> QED
  BY <1>1, <1>2, <1>3, <1>4, <1>5, <1>6, <1>7, <1>8, <1>9, <1>10, <1>11 DEF ClientStep

\* mqtt_task keeps the invariant of the link.
LEMMA ClientLinkInv ==
  ASSUME BridgeTypeOK, LinkInv, MqttStep, UNCHANGED haVars
  PROVE  LinkInv'
<1> SUFFICES ASSUME ~Contention PROVE (LinkShown /\ ClosedWhenIdle /\ LossNoticed)'
  BY DEF LinkInv
<1>1. LinkShown /\ ClosedWhenIdle /\ LossNoticed
  BY DEF LinkInv
<1>2. /\ LinkShown' /\ ClosedWhenIdle'
      /\ mPc' = "connect" => mPc = "wait" /\ UNCHANGED <<link, mqttStat>>
      /\ link \notin {"up", "half"} => tx' = tx
  BY <1>1, ClientLinkSteps DEF MqttStep
<1>3. LossNoticed'
  <2> SUFFICES ASSUME ~mqttStat'.connected, mPc' = "connect" PROVE (HaWaits \/ HaBlocked)'
    BY DEF LossNoticed
  <2>1. HaWaits \/ HaBlocked
    BY <1>2 DEF MqttStep, HaHasNoticed
  <2>2. UNCHANGED hPc /\ tx' = tx
    BY <1>1, <1>2 DEF haVars, ClosedWhenIdle
  <2> QED
    BY <2>1, <2>2 DEF HaWaits, HaBlocked
<1> QED
  BY <1>2, <1>3

\* A ha_task that waits for room takes no step.
LEMMA BlockedStays ==
  ASSUME BridgeTypeOK, HaStep
  PROVE  ~HaBlocked
<1> SUFFICES ASSUME hPc \in {"reg", "in", "outPut"} PROVE Len(tx) # TxCap
  BY DEF HaBlocked
<1>1. HaRegister \/ HaPutInput \/ HaPutOutput
  BY DEF HaStep, HaIdentifies, HaIdentified, HaNotIdentified, HaWork, HaConnected,
         HaRegisterCheck, HaLoop, HaCommand, HaReadOutputs
<1>2. Len(tx) < TxCap
  BY <1>1 DEF HaRegister, HaPutInput, HaPutOutput, Put
<1> QED
  BY <1>2, MqttClientAssumption DEF BridgeTypeOK, ClientTypeOK

\* ha_task does not touch the link.
LEMMA HaLinkInv ==
  ASSUME BridgeTypeOK, LinkInv, HaStep, UNCHANGED <<mqttStat, mqttVars>>
  PROVE  LinkInv'
<1> SUFFICES ASSUME ~Contention PROVE (LinkShown /\ ClosedWhenIdle /\ LossNoticed)'
  BY DEF LinkInv
<1>1. LinkShown /\ ClosedWhenIdle /\ LossNoticed
  BY DEF LinkInv
<1>2. UNCHANGED <<mqttStat, link, unread, mPc>>
  BY DEF mqttVars
<1>3. LossNoticed'
  <2> SUFFICES ASSUME ~mqttStat.connected, mPc = "connect" PROVE HaWaits'
    BY <1>2 DEF LossNoticed
  <2>1. hPc \in {"init", "ident", "wait"}
    BY <1>1, BlockedStays DEF LossNoticed, HaWaits
  <2> QED
    BY <2>1
    DEF HaWaits, HaStep, HaIdentifies, HaIdentified, HaNotIdentified, HaWork, HaConnected,
        HaRegister, HaRegisterCheck, HaLoop, HaPutInput, HaCommand, HaReadOutputs, HaPutOutput
<1> QED
  BY <1>1, <1>2, <1>3 DEF LinkShown, ClosedWhenIdle

\* A connection the broker has lost looks to the threads as it did before.
LEMMA LinkBreaksLinkInv ==
  ASSUME LinkInv, LinkBreaks, UNCHANGED haVars
  PROVE  LinkInv'
BY DEF LinkInv, LinkBreaks, LinkShown, ClosedWhenIdle, LossNoticed, Announced, HaWaits,
       HaBlocked, haVars
=============================================================================
