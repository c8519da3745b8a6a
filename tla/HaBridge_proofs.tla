--------------------------- MODULE HaBridge_proofs ---------------------------
(***************************************************************************)
(* Theorems about HaBridge, for any number of relays and inputs, queues of *)
(* any length and counters of any width.                                   *)
(***************************************************************************)
EXTENDS HaBridge, HaTask_proofs

\* The identifier is in part only while ha_task writes it, and set once
\* ha_task is past its first lines, unless it cannot be had.
IdentifierSet ==
  /\ hPc # "ident" => devId # "part"
  /\ hPc \notin {"init", "ident"} /\ devId = "none" => IdFails

\* Before a new connection can come up, a ha_task that registers has noticed
\* the loss of the last one, or waits for room in the transmit queue.
TcpNoticed ==
  Registers /\ ~mqttStat.connected /\ link = "tcp" => HaBlocked

\* When ha_task has left the registration early there is no connection, and
\* mqtt_task does not open one as long as ha_task stays there.
PartialIsOffline ==
  hPc = "loop" /\ hTodo # {} => link = "none" /\ mPc # "connect"

\* Both hold if the end of every connection is reported.
PartialInv == ~Contention /\ ~silent => TcpNoticed /\ PartialIsOffline

\* The inductive invariant.
BridgeInv == TypeOK /\ LinkInv /\ PartialInv /\ IdentifierSet

-----------------------------------------------------------------------------
\* The three kinds of steps of the whole.
LEMMA Steps ==
  ASSUME [Next]_vars
  PROVE  \/ MqttStep /\ UNCHANGED <<outputs, haVars>>
         \/ HaStep /\ UNCHANGED <<mqttStat, mqttVars>>
         \/ LinkBreaks /\ UNCHANGED <<outputs, haVars>>
         \/ (RestPost \/ UNCHANGED channelVars) /\ UNCHANGED <<mqttStat, clientVars, haVars>>
<1>1. CASE Client
  BY <1>1 DEF Client
<1>2. CASE Ha
  BY <1>2 DEF Ha, mqttVars
<1>3. CASE Environment
  BY <1>3 DEF Environment, RestPost
<1>4. CASE UNCHANGED vars
  BY <1>4 DEF vars, channelVars
<1> QED
  BY <1>1, <1>2, <1>3, <1>4 DEF Next

\* A REST request leaves a relay command in the channel.
LEMMA RestPostTypeOK ==
  ASSUME BridgeTypeOK, RestPost \/ UNCHANGED channelVars,
         UNCHANGED <<mqttStat, clientVars, haVars>>
  PROVE  BridgeTypeOK'
<1>1. outputs' \in OutputsMsg
  BY NextOutputsType DEF RestPost, channelVars, BridgeTypeOK, ChannelsTypeOK
<1> QED
  BY <1>1 DEF BridgeTypeOK, ChannelsTypeOK, ClientTypeOK, HaTypeOK, clientVars, haVars

\* What Home Assistant holds and the history variables have their types.
WorldTypeOK ==
  /\ registered \in SUBSET Devices
  /\ view \in [Relays -> {"unknown", "on", "off"}]
  /\ lost \in SUBSET Relays
  /\ stuck \in BOOLEAN
  /\ silent \in BOOLEAN

\* Home Assistant processes one message.
LEMMA ReceiveTypeOK ==
  ASSUME NEW m \in TxMsg, WorldTypeOK, Receive(m)
  PROVE  registered' \in SUBSET Devices /\ view' \in [Relays -> {"unknown", "on", "off"}]
BY DEF Receive, WorldTypeOK, TxMsg

\* A message that leaves the queue is its head.
LEMMA DeliveredIsHead ==
  ASSUME BridgeTypeOK, ClientStep, tx' # tx
  PROVE  /\ tx # <<>> /\ Head(tx) \in TxMsg /\ tx' = Tail(tx)
         /\ link \in {"up", "half"} /\ link' = link
<1>1. MPublishes
  BY DEF ClientStep, MConnectFails, MConnects, MInitialInput, MInitialLive, MInput, MReceives,
         MLinkError, MBusy, MLive, MSubscribes, MSubscribeFails, MNothingToSend, MPublishFails,
         MWake
<1>2. Head(tx) \in TxMsg
  BY <1>1 DEF MPublishes, BridgeTypeOK, ClientTypeOK
<1> QED
  BY <1>1, <1>2 DEF MPublishes

\* Every step keeps the types of what lies outside of the two threads.
LEMMA WorldTypeStep ==
  ASSUME BridgeTypeOK, WorldTypeOK, [Next]_vars PROVE WorldTypeOK'
<1>1. CASE Client
  <2>1. stuck' \in BOOLEAN /\ silent' \in BOOLEAN
    BY <1>1, Zenon DEF Client
  <2>2. CASE tx' = tx
    BY <1>1, <2>1, <2>2 DEF Client, Deliver, brokerVars, WorldTypeOK
  <2>3. CASE tx' # tx
    <3>1. Head(tx) \in TxMsg
      BY <1>1, <2>3, DeliveredIsHead DEF Client, MqttStep
    <3>2. CASE link = "up"
      <4>1. Receive(Head(tx)) /\ UNCHANGED lost
        BY <1>1, <2>3, <3>2 DEF Client, Deliver
      <4> QED
        BY <2>1, <3>1, <4>1, ReceiveTypeOK DEF WorldTypeOK
    <3>3. CASE link # "up"
      <4>1. lost' = lost \cup RelayStatusOf(Head(tx)) /\ UNCHANGED brokerVars
        BY <1>1, <2>3, <3>3 DEF Client, Deliver
      <4> QED
        BY <2>1, <4>1 DEF WorldTypeOK, RelayStatusOf, brokerVars
    <3> QED
      BY <3>2, <3>3
  <2> QED
    BY <2>2, <2>3
<1>2. CASE Ha
  <2>1. stuck' \in BOOLEAN /\ silent' \in BOOLEAN
    BY <1>2, Zenon DEF Ha
  <2> QED
    BY <1>2, <2>1 DEF Ha, WorldTypeOK, brokerVars
<1>3. CASE Environment \/ UNCHANGED vars
  BY <1>3 DEF Environment, RestPost, vars, brokerVars, historyVars, WorldTypeOK
<1> QED
  BY <1>1, <1>2, <1>3 DEF Next

\* The invariant holds initially.
LEMMA BridgeInit == Init => BridgeInv
<1> SUFFICES ASSUME Init PROVE BridgeInv
  OBVIOUS
<1>1. BridgeTypeOK /\ LinkInv
  BY BridgeInitTypeOK, LinkInit DEF Init
<1> QED
  BY <1>1
  DEF BridgeInv, TypeOK, BridgeTypeOK, IdentifierSet, PartialInv, TcpNoticed, PartialIsOffline,
      Registers, Init, BrokerInit, HistoryInit, HaInit, ClientInit

\* mqtt_task connects over a loss that ha_task has noticed, or over a
\* connection that it has left, which silent records.
LEMMA PartialClient ==
  ASSUME BridgeTypeOK, LinkInv, PartialInv, Client, ~Contention, ~silent'
  PROVE  TcpNoticed' /\ PartialIsOffline'
<1>1. /\ LinkShown /\ ClosedWhenIdle /\ LossNoticed /\ LinkShown'
      /\ link' = "tcp" => link = "tcp" \/ mPc = "connect"
      /\ mPc' = "connect" => mPc = "wait" /\ UNCHANGED <<link, mqttStat>>
      /\ link' \in Announced => link # "none"
      /\ link \notin {"up", "half"} => tx' = tx
  BY ClientLinkSteps DEF Client, MqttStep, LinkInv
<1>2. TcpNoticed /\ PartialIsOffline /\ UNCHANGED <<hPc, hTodo>>
  BY Zenon DEF PartialInv, Client, haVars
<1>3. TcpNoticed'
  <2> SUFFICES ASSUME Registers, link' = "tcp" PROVE HaBlocked'
    BY <1>2 DEF TcpNoticed, Registers
  <2>1. ~(mPc = "connect" /\ mPc' = "input1" /\ link = "left")
    BY Zenon DEF Client, Connects
  <2>2. CASE link = "tcp"
    <3>1. HaBlocked
      BY <1>1, <1>2, <2>2 DEF TcpNoticed, LinkShown, Announced
    <3> QED
      BY <1>1, <1>2, <2>2, <3>1 DEF HaBlocked
  <2>3. CASE link # "tcp"
    <3>1. mPc = "connect" /\ mPc' = "input1"
      BY <1>1, <2>3
      DEF Client, MqttStep, ClientStep, MConnectFails, MConnects, MInitialInput, MInitialLive,
          MInput, MReceives, MLinkError, MBusy, MLive, MSubscribes, MSubscribeFails,
          MNothingToSend, MPublishes, MPublishFails, MWake
    <3>2. link \notin Announced
      BY <1>1, <2>1, <3>1 DEF ClosedWhenIdle, Announced
    <3>3. HaBlocked
      BY <1>1, <3>1, <3>2 DEF LossNoticed, LinkShown, Registers, HaWaits
    <3> QED
      BY <1>1, <1>2, <3>2, <3>3 DEF HaBlocked, Announced
  <2> QED
    BY <2>2, <2>3
<1>4. PartialIsOffline'
  <2> SUFFICES ASSUME hPc = "loop", hTodo # {} PROVE link' = "none" /\ mPc' # "connect"
    BY <1>2 DEF PartialIsOffline
  <2>1. link = "none" /\ mPc # "connect"
    BY <1>2 DEF PartialIsOffline
  <2>2. ~HaHasNoticed
    BY <1>1, <2>1 DEF HaHasNoticed, HaWaits, HaBlocked, LinkShown, Announced
  <2>3. link' \in {"none", "tcp"} \cup Announced
    BY ClientStepTypes DEF Client, MqttStep, ClientTypeOK, Announced
  <2> QED
    BY <1>1, <2>1, <2>2, <2>3 DEF Client, MqttStep
<1> QED
  BY <1>3, <1>4

\* ha_task leaves a registration early only when it sees no connection.
LEMMA PartialHa ==
  ASSUME BridgeTypeOK, LinkInv, PartialInv, Ha, ~Contention, ~silent'
  PROVE  TcpNoticed' /\ PartialIsOffline'
<1>1. LinkShown /\ ClosedWhenIdle /\ LossNoticed /\ ~HaBlocked
  BY BlockedStays DEF LinkInv, Ha
<1>2. UNCHANGED <<mqttStat, link, mPc>> /\ HaStep
  BY DEF Ha
<1>3. silent => ~Registers
  BY Zenon DEF Ha
<1>4. TcpNoticed'
  <2> SUFFICES ASSUME Registers', ~mqttStat.connected, link = "tcp" PROVE FALSE
    BY <1>2 DEF TcpNoticed
  <2>1. HaRegister
    BY <1>2
    DEF Registers, HaStep, HaIdentifies, HaIdentified, HaNotIdentified, HaWork, HaConnected,
        HaRegister, HaRegisterCheck, HaLoop, HaPutInput, HaCommand, HaReadOutputs, HaPutOutput
  <2>2. Registers
    BY <2>1 DEF HaRegister, Registers
  <2> QED
    BY <1>1, <1>3, <2>2 DEF PartialInv, TcpNoticed
<1>5. PartialIsOffline'
  <2> SUFFICES ASSUME hPc' = "loop", hTodo' # {} PROVE link = "none" /\ mPc # "connect"
    BY <1>2 DEF PartialIsOffline
  <2>1. HaRegisterCheck
    BY <1>2
    DEF HaStep, HaIdentifies, HaIdentified, HaNotIdentified, HaWork, HaConnected, HaRegister,
        HaRegisterCheck, HaLoop, HaPutInput, HaCommand, HaReadOutputs, HaPutOutput
  <2>2. hPc = "regCheck" /\ ~mqttStat.connected /\ Registers
    BY <2>1 DEF HaRegisterCheck, Registers
  <2>3. mPc # "connect" /\ link # "tcp"
    BY <1>1, <1>3, <2>2 DEF LossNoticed, HaWaits, PartialInv, TcpNoticed
  <2> QED
    BY <1>1, <2>2, <2>3 DEF LinkShown, Announced, BridgeTypeOK, ClientTypeOK
<1> QED
  BY <1>4, <1>5

\* The network and the REST endpoint do not matter to it.
LEMMA PartialEnvironment ==
  ASSUME BridgeTypeOK, PartialInv, Environment \/ UNCHANGED vars
  PROVE  PartialInv'
<1>1. /\ UNCHANGED <<mqttStat, tx, mPc, hPc, hTodo, silent>>
      /\ (link' = link \/ (link = "up" /\ link' = "half"))
  <2>1. CASE RestPost
    BY <2>1 DEF RestPost, clientVars, haVars, historyVars
  <2>2. CASE LinkBreaks /\ UNCHANGED <<outputs, haVars, brokerVars, historyVars>>
    BY <2>2 DEF LinkBreaks, haVars, historyVars
  <2>3. CASE UNCHANGED vars
    BY <2>3 DEF vars, channelVars, clientVars, haVars, historyVars
  <2> QED
    BY <2>1, <2>2, <2>3 DEF Environment
<1>2. ASSUME TcpNoticed PROVE TcpNoticed'
  BY <1>1, <1>2 DEF TcpNoticed, Registers, HaBlocked
<1>3. ASSUME PartialIsOffline PROVE PartialIsOffline'
  BY <1>1, <1>3 DEF PartialIsOffline
<1> QED
  BY <1>1, <1>2, <1>3 DEF PartialInv

\* Every step keeps it.
LEMMA BridgeNext == BridgeInv /\ [Next]_vars => BridgeInv'
<1> SUFFICES ASSUME BridgeInv, [Next]_vars PROVE BridgeInv'
  OBVIOUS
<1>1. BridgeTypeOK /\ WorldTypeOK /\ LinkInv /\ PartialInv /\ IdentifierSet
  BY DEF BridgeInv, TypeOK, BridgeTypeOK, WorldTypeOK
<1>2. BridgeTypeOK'
  BY <1>1, Steps, ClientStepTypeOK, HaStepTypeOK, LinkBreaksTypeOK, RestPostTypeOK DEF MqttStep
<1>3. WorldTypeOK'
  BY <1>1, WorldTypeStep
<1>4. LinkInv'
  <2>1. CASE UNCHANGED <<mqttStat, clientVars, haVars>>
    BY <1>1, <2>1
    DEF LinkInv, LinkShown, ClosedWhenIdle, LossNoticed, Announced, HaWaits, HaBlocked,
        clientVars, haVars
  <2> QED
    BY <1>1, <2>1, Steps, ClientLinkInv, HaLinkInv, LinkBreaksLinkInv
<1>5. PartialInv'
  <2>1. CASE Client \/ Ha
    BY <1>1, <2>1, PartialClient, PartialHa DEF PartialInv
  <2> QED
    BY <1>1, <2>1, PartialEnvironment DEF Next
<1>6. IdentifierSet'
  <2>1. CASE MqttStep /\ UNCHANGED haVars
    <3>1. devId' \in {devId, "whole"}
      BY <2>1
      DEF MqttStep, ClientStep, MConnectFails, MConnects, MInitialInput, MInitialLive, MInput,
          MReceives, MLinkError, MBusy, MLive, MSubscribes, MSubscribeFails, InitIdentifier,
          InitIdentifierFails, MNothingToSend, MPublishes, MPublishFails, MWake
    <3> QED
      BY <1>1, <2>1, <3>1 DEF IdentifierSet, haVars
  <2>2. CASE HaStep
    BY <1>1, <2>2
    DEF IdentifierSet, HaStep, HaIdentifies, HaIdentified, HaNotIdentified, InitIdentifierFails,
        HaWork, HaConnected, HaRegister, HaRegisterCheck, HaLoop, HaPutInput, HaCommand,
        HaReadOutputs, HaPutOutput
  <2>3. CASE LinkBreaks /\ UNCHANGED haVars
    BY <1>1, <2>3 DEF LinkBreaks, IdentifierSet, haVars
  <2>4. CASE UNCHANGED <<clientVars, haVars>>
    BY <1>1, <2>4 DEF IdentifierSet, clientVars, haVars
  <2> QED
    BY <2>1, <2>2, <2>3, <2>4, Steps
<1> QED
  BY <1>2, <1>3, <1>4, <1>5, <1>6 DEF BridgeInv, TypeOK, BridgeTypeOK, WorldTypeOK

\* The inductive invariant holds in every reachable state.
THEOREM BridgeInvariant == Spec => []BridgeInv
BY BridgeInit, BridgeNext, PTL DEF Spec

\* Every variable of the bridge keeps its type; the queues keep to their
\* capacities and no packet identifier is 0.
THEOREM BridgeTypeCorrect == Spec => []TypeOK
<1>1. BridgeInv => TypeOK
  BY DEF BridgeInv
<1> QED
  BY <1>1, BridgeInvariant, PTL

\* Without contention the published status is the state of the link, until
\* mqtt_task leaves it over an unread payload.
THEOREM StatusIsLink == Spec => []StatusMatchesLink
<1>1. BridgeInv => StatusMatchesLink
  BY DEF BridgeInv, LinkInv, LinkShown, ClosedWhenIdle, StatusMatchesLink
<1> QED
  BY <1>1, BridgeInvariant, PTL

\* mqtt_task gives up a connection that works only over an unread payload.
THEOREM ConnectionKept == Spec => OpenConnectionNotForgotten
<1>1. BridgeInv /\ [Next]_vars
        => [~Contention /\ mPc' \in {"wait", "connect"} /\ link \in {"up", "half"}
              => link' = "none" \/ (unread /\ link' = "left")]_vars
  <2> SUFFICES ASSUME BridgeInv, Next, ~Contention, mPc' \in {"wait", "connect"},
                      link \in {"up", "half"}
               PROVE  link' = "none" \/ (unread /\ link' = "left")
    OBVIOUS
  <2>1. LinkShown /\ ClosedWhenIdle
    BY DEF BridgeInv, LinkInv
  <2>2. mPc \notin {"wait", "connect"}
    BY <2>1 DEF ClosedWhenIdle
  <2>3. MLinkError \/ MBusy \/ MLive
    BY <2>2
    DEF Next, Ha, Environment, RestPost, LinkBreaks, clientVars, Client, MqttStep, ClientStep,
        MConnectFails, MConnects, MInitialInput, MInitialLive, MInput, MReceives, MSubscribes,
        MSubscribeFails, MNothingToSend, MPublishes, MPublishFails, MWake
  <2> QED
    BY <2>1, <2>2, <2>3
    DEF MLinkError, MBusy, MLive, ReadStatus, Dropped, LinkShown, Announced
<1> QED
  BY <1>1, BridgeInvariant, PTL DEF Spec, OpenConnectionNotForgotten

\* No status follows a registration that a disconnection has cut short, if
\* the end of every connection is reported.
THEOREM RegistrationRepeated == Spec => NoStatusAfterPartialRegistration
<1>1. BridgeInv /\ [Next]_vars
        => [~Contention /\ ~silent /\ hPc = "loop" /\ hPc' \in {"in", "rx"} => hTodo = {}]_vars
  <2> SUFFICES ASSUME BridgeInv, Next, ~Contention, ~silent, hPc = "loop", hPc' \in {"in", "rx"}
               PROVE  hTodo = {}
    OBVIOUS
  <2>1. HaLoop
    BY DEF Next, Client, Environment, RestPost, haVars, Ha, HaStep, HaIdentifies, HaIdentified,
           HaNotIdentified, HaWork, HaConnected, HaRegister, HaRegisterCheck, HaPutInput, HaCommand,
           HaReadOutputs, HaPutOutput
  <2>2. mqttStat.connected
    BY <2>1 DEF HaLoop
  <2> QED
    BY <2>2 DEF BridgeInv, LinkInv, LinkShown, PartialInv, PartialIsOffline, Announced
<1> QED
  BY <1>1, BridgeInvariant, PTL DEF Spec, NoStatusAfterPartialRegistration

\* What ha_task does to the transmit queue.
LEMMA HaPuts ==
  ASSUME BridgeTypeOK, HaStep, tx' # tx
  PROVE  \E m \in TxMsg : Put(m)
<1>1. CASE HaRegister
  BY <1>1, DeviceFacts DEF HaRegister, BridgeTypeOK, HaTypeOK
<1>2. CASE HaPutInput
  BY <1>2, DeviceFacts DEF HaPutInput, BridgeTypeOK, HaTypeOK
<1>3. CASE HaPutOutput
  <2>1. PICK d \in hTodo : Put(Message("status", d, RelayOf(d) \in hOut.state))
    BY <1>3 DEF HaPutOutput
  <2>2. (RelayOf(d) \in hOut.state) \in BOOLEAN
    OBVIOUS
  <2>3. d \in Devices
    BY DEF BridgeTypeOK, HaTypeOK
  <2> QED
    BY <2>1, <2>2, <2>3, DeviceFacts, Zenon
<1> QED
  BY <1>1, <1>2, <1>3
  DEF HaStep, HaIdentifies, HaIdentified, HaNotIdentified, HaWork, HaConnected, HaRegisterCheck,
      HaLoop, HaCommand, HaReadOutputs

\* A message leaves the transmit queue only when it was published.
THEOREM UnsentIsKept == Spec => QueueKeepsUnsent
<1>1. BridgeInv /\ [Next]_vars
        => [tx' # tx => \/ \E m \in TxMsg : tx' = Append(tx, m)
                        \/ tx # <<>> /\ tx' = Tail(tx) /\ link' \in {"up", "half"}]_vars
  <2> SUFFICES ASSUME BridgeInv, Next, tx' # tx
               PROVE  \/ \E m \in TxMsg : tx' = Append(tx, m)
                      \/ tx # <<>> /\ tx' = Tail(tx) /\ link' \in {"up", "half"}
    OBVIOUS
  <2>1. BridgeTypeOK
    BY DEF BridgeInv, TypeOK, BridgeTypeOK
  <2>2. CASE ClientStep
    BY <2>1, <2>2, DeliveredIsHead
  <2>3. CASE HaStep
    BY <2>1, <2>3, HaPuts DEF Put
  <2> QED
    BY <2>2, <2>3 DEF Next, Client, MqttStep, Ha, Environment, RestPost, LinkBreaks, clientVars
<1> QED
  BY <1>1, BridgeInvariant, PTL DEF Spec, QueueKeepsUnsent

\* Topics are built from the complete identifier, or from none.
THEOREM WholeTopics == Spec => TopicsAreWhole
<1>1. BridgeInv /\ [Next]_vars
        => [/\ Len(tx') > Len(tx) => devId = "whole" \/ (IdFails /\ devId = "none")
            /\ subscribed' /\ ~subscribed => devId' = "whole"]_vars
  <2> SUFFICES ASSUME BridgeInv, Next
               PROVE  /\ Len(tx') > Len(tx) => devId = "whole" \/ (IdFails /\ devId = "none")
                      /\ subscribed' /\ ~subscribed => devId' = "whole"
    OBVIOUS
  <2>1. BridgeTypeOK /\ IdentifierSet
    BY DEF BridgeInv, TypeOK, BridgeTypeOK
  <2>2. CASE ClientStep
    <3>1. ~(Len(tx') > Len(tx))
      BY <2>1, <2>2, DeliveredIsHead DEF BridgeTypeOK, ClientTypeOK
    <3>2. subscribed' /\ ~subscribed => MSubscribes
      BY <2>2
      DEF ClientStep, MConnectFails, MConnects, MInitialInput, MInitialLive, MInput, MReceives,
          MLinkError, MBusy, MLive, MSubscribeFails, MNothingToSend, MPublishes, MPublishFails,
          MWake
    <3> QED
      BY <3>1, <3>2 DEF MSubscribes, InitIdentifier
  <2>3. CASE Ha
    <3>1. UNCHANGED subscribed
      BY <2>3 DEF Ha
    <3>2. tx' # tx => hPc \notin {"init", "ident"}
      BY <2>3
      DEF Ha, HaStep, HaIdentifies, HaIdentified, HaNotIdentified, HaWork, HaConnected,
          HaRegister, HaRegisterCheck, HaLoop, HaPutInput, HaCommand, HaReadOutputs, HaPutOutput
    <3>3. Len(tx') > Len(tx) => tx' # tx
      BY <2>1 DEF BridgeTypeOK, ClientTypeOK
    <3> QED
      BY <2>1, <3>1, <3>2, <3>3 DEF IdentifierSet, BridgeTypeOK, ClientTypeOK
  <2>4. CASE Environment
    <3>1. UNCHANGED <<tx, subscribed>>
      BY <2>4 DEF Environment, RestPost, LinkBreaks, clientVars
    <3> QED
      BY <2>1, <3>1 DEF BridgeTypeOK, ClientTypeOK
  <2> QED
    BY <2>2, <2>3, <2>4 DEF Next, Client, MqttStep
<1> QED
  BY <1>1, BridgeInvariant, PTL DEF Spec, TopicsAreWhole

-----------------------------------------------------------------------------
(* The relay channel and ha_task's copy of it implement RelayRegister.     *)

\* The initial messages are the register's.
LEMMA RegisterInit == Init => Register!Init
BY DEF Init, ChannelsInit, HaInit, Register!Init

\* Every step is a write, a read or a command, or leaves both alone.
LEMMA RegisterStep ==
  TypeOK /\ [Next]_vars => [Register!Next]_(Register!vars)
<1> SUFFICES ASSUME TypeOK, [Next]_vars
             PROVE  Register!Next \/ UNCHANGED <<outputs, hOut>>
  BY DEF Register!vars
<1>1. CASE RestPost
  <2>1. UNCHANGED hOut
    BY <1>1 DEF RestPost, haVars
  <2>2. CASE UNCHANGED outputs
    BY <2>1, <2>2
  <2>3. CASE \E s \in SUBSET Relays : outputs' = NextOutputs(outputs, s)
    <3>1. PICK s \in SUBSET (1..NRelays) : outputs' = NextOutputs(outputs, s)
      BY <2>3 DEF Relays
    <3>2. Register!Write(s)
      BY <1>1, <2>1, <3>1 DEF RestPost, NextOutputs, Register!Write, Register!After
    <3> QED
      BY <3>2 DEF Register!Next
  <2> QED
    BY <1>1, <2>2, <2>3 DEF RestPost
<1>2. CASE HaReadOutputs
  <2>1. Register!Fetch
    BY <1>2 DEF HaReadOutputs, Register!Fetch
  <2> QED
    BY <2>1 DEF Register!Next
<1>3. CASE HaCommand
  <2>1. CASE rx # <<>> /\ Head(rx).relay \in Relays
    <3> DEFINE cmd == Head(rx)
    <3>1. cmd \in RxMsg
      BY <2>1 DEF TypeOK, ClientTypeOK
    <3>2. cmd.relay \in 1..NRelays /\ cmd.on \in BOOLEAN
      BY <2>1, <3>1 DEF RxMsg, Relays
    <3>3. hOut' = NextOutputs(hOut, Obey(hOut.state, cmd)) /\ outputs' = hOut'
      BY <1>3, <2>1 DEF HaCommand
    <3>4. Obey(hOut.state, cmd) = Register!With(hOut.state, cmd.relay, cmd.on)
      BY <3>2 DEF Obey, Relays, Register!With
    <3>5. Register!SetRelay(cmd.relay, cmd.on)
      BY <3>3, <3>4 DEF NextOutputs, Register!SetRelay, Register!After
    <3> QED
      BY <3>2, <3>5 DEF Register!Next
  <2>2. CASE ~(rx # <<>> /\ Head(rx).relay \in Relays)
    BY <1>3, <2>2 DEF HaCommand
  <2> QED
    BY <2>1, <2>2
<1>4. CASE Ha /\ ~HaReadOutputs /\ ~HaCommand
  BY <1>4
  DEF Ha, HaStep, HaIdentifies, HaIdentified, HaNotIdentified, HaWork, HaConnected, HaRegister,
      HaRegisterCheck, HaLoop, HaPutInput, HaPutOutput
<1>5. CASE Client \/ (Environment /\ ~RestPost) \/ UNCHANGED vars
  BY <1>5 DEF Client, Environment, haVars, vars, channelVars
<1> QED
  BY <1>1, <1>2, <1>3, <1>4, <1>5 DEF Next, Environment

\* The refinement: whatever the two threads, the broker and the link do, the
\* channel and the copy behave like the register.
THEOREM ChannelIsRegister == Spec => RegisterImplemented
BY RegisterInit, RegisterStep, BridgeTypeCorrect, PTL
DEF Spec, RegisterImplemented, Register!Spec

\* Without REST requests the copy is the register, so that every command is
\* applied to the state the relays have been commanded to at that moment.
COROLLARY CommandsAreAtomic ==
  ASSUME ~Rest PROVE Spec => Register!AtomicCommands
<1>1. Init => outputs = hOut
  BY DEF Init, ChannelsInit, HaInit
<1>2. outputs = hOut /\ [Register!Next]_(Register!vars) => (outputs = hOut)'
  BY DEF Register!Next, Register!vars, Register!Write, Register!Fetch, Register!SetRelay
<1>3. outputs = hOut /\ [Register!Next]_(Register!vars)
        => [\E r \in 1..NRelays, on \in BOOLEAN :
              outputs' = Register!After(outputs, Register!With(outputs.state, r, on))]_outputs
  BY DEF Register!Next, Register!vars, Register!Write, Register!Fetch, Register!SetRelay
<1> QED
  BY <1>1, <1>2, <1>3, RegisterStep, BridgeTypeCorrect, PTL
  DEF Spec, Register!AtomicCommands

\* The number after one in range is a different one in range.
LEMMA NextNumberDiffers ==
  ASSUME NEW n \in 0..(SeqMod - 1), SeqMod > 1
  PROVE  (n + 1) % SeqMod # n
<1>1. SeqMod \in Nat \ {0} /\ n \in Nat
  BY ChannelsAssumption
<1>2. CASE n = SeqMod - 1
  <2>1. (n + 1) % SeqMod = 0
    BY <1>1, <1>2
  <2> QED
    BY <1>1, <1>2, <2>1
<1>3. CASE n # SeqMod - 1
  <2>1. (n + 1) % SeqMod = n + 1
    BY <1>1, <1>3
  <2> QED
    BY <1>1, <2>1
<1> QED
  BY <1>2, <1>3

\* Nor does a number then stay when the message changes: that two messages
\* can share one takes a REST request between ha_task's read and its command.
COROLLARY NumbersIdentifyCommands ==
  ASSUME ~Rest, SeqMod > 1 PROVE Spec => SeqIdentifiesMessage
<1> DEFINE Same == outputs = hOut
<1>1. Init => Same
  BY DEF Init, ChannelsInit, HaInit
<1>2. Same /\ [Register!Next]_(Register!vars) => Same'
  BY DEF Register!Next, Register!vars, Register!Write, Register!Fetch, Register!SetRelay
<1>3. TypeOK /\ Same /\ [Register!Next]_(Register!vars)
        => [outputs' # outputs => outputs'.seq # outputs.seq]_vars
  <2> SUFFICES ASSUME TypeOK, Same, Register!Next, outputs' # outputs
               PROVE  outputs'.seq # outputs.seq
    BY DEF Register!vars
  <2>1. PICK r \in 1..NRelays, on \in BOOLEAN : Register!SetRelay(r, on)
    BY DEF Register!Next, Register!Write, Register!Fetch
  <2>2. outputs'.seq = (outputs.seq + 1) % SeqMod
    BY <2>1 DEF Register!SetRelay, Register!After
  <2>3. outputs.seq \in 0..(SeqMod - 1)
    BY DEF TypeOK, ChannelsTypeOK, OutputsMsg
  <2> QED
    BY <2>2, <2>3, NextNumberDiffers
<1> HIDE DEF Same
<1> QED
  BY <1>1, <1>2, <1>3, RegisterStep, BridgeTypeCorrect, PTL DEF Spec, SeqIdentifiesMessage

-----------------------------------------------------------------------------
(* Change detection.  The status queued last for a relay is looked up in   *)
(* the queue by its position; the invariant carries along that a relay     *)
(* with a queued status has a last one.                                    *)

IsStatusOf(m, r) == m.kind = "status" /\ m.dev = DeviceOf(r)

Queued(q, r) == {i \in DOMAIN q : IsStatusOf(q[i], r)}

IsLast(i, q, r) == i \in Queued(q, r) /\ \A j \in Queued(q, r) : j <= i

HasLast(q, r) == Queued(q, r) # {} => \E i \in Queued(q, r) : IsLast(i, q, r)

OnOff(on) == IF on THEN "on" ELSE "off"

\* Reported, for any queue q and any view v.
ReportedBy(q, v, r) ==
  IF Queued(q, r) = {} THEN v[r] ELSE OnOff(q[CHOOSE i \in Queued(q, r) :
                                               \A j \in Queued(q, r) : j <= i].on)

\* The last queued status is what will be believed.
LEMMA LastIsReported ==
  ASSUME NEW q \in Seq(TxMsg), NEW v, NEW r \in Relays, NEW i, IsLast(i, q, r)
  PROVE  ReportedBy(q, v, r) = OnOff(q[i].on)
<1> DEFINE last == CHOOSE k \in Queued(q, r) : \A j \in Queued(q, r) : j <= k
<1>1. i \in Queued(q, r) /\ \A j \in Queued(q, r) : j <= i
  BY DEF IsLast
<1>2. last \in Queued(q, r) /\ \A j \in Queued(q, r) : j <= last
  BY <1>1
<1>3. i \in Nat /\ last \in Nat
  BY <1>1, <1>2 DEF Queued
<1>4. last = i
  BY <1>1, <1>2, <1>3
<1> QED
  BY <1>1, <1>4 DEF ReportedBy

\* Which relay a message is about, as the broker sees it.
LEMMA StatusRelay ==
  ASSUME NEW m \in TxMsg, NEW r \in Relays
  PROVE  r \in RelayStatusOf(m) <=> IsStatusOf(m, r)
BY ChannelsAssumption, MqttClientAssumption
DEF RelayStatusOf, IsStatusOf, RelayOf, DeviceOf, Relays, TxMsg, Devices

\* A message that is queued replaces what is believed of its relay only.
LEMMA AppendReports ==
  ASSUME NEW q \in Seq(TxMsg), NEW v, NEW r \in Relays, NEW m \in TxMsg, HasLast(q, r)
  PROVE  /\ HasLast(Append(q, m), r)
         /\ ReportedBy(Append(q, m), v, r) =
              IF IsStatusOf(m, r) THEN OnOff(m.on) ELSE ReportedBy(q, v, r)
<1> DEFINE p == Append(q, m)
           n == Len(q) + 1
<1>1. /\ p \in Seq(TxMsg) /\ DOMAIN p = 1..n /\ DOMAIN q = 1..Len(q)
      /\ p[n] = m /\ \A i \in DOMAIN q : p[i] = q[i]
  OBVIOUS
<1>2. CASE IsStatusOf(m, r)
  <2>1. IsLast(n, p, r)
    BY <1>1, <1>2 DEF IsLast, Queued
  <2> QED
    BY <1>1, <1>2, <2>1, LastIsReported DEF HasLast, IsLast
<1>3. CASE ~IsStatusOf(m, r)
  <2>1. Queued(p, r) = Queued(q, r)
    BY <1>1, <1>3 DEF Queued
  <2>2. CASE Queued(q, r) = {}
    BY <1>3, <2>1, <2>2 DEF ReportedBy, HasLast
  <2>3. CASE Queued(q, r) # {}
    <3>1. PICK i \in Queued(q, r) : IsLast(i, q, r)
      BY <2>3 DEF HasLast
    <3>2. IsLast(i, p, r) /\ p[i] = q[i]
      BY <1>1, <2>1, <3>1 DEF IsLast, Queued
    <3>3. ReportedBy(p, v, r) = ReportedBy(q, v, r)
      BY <1>1, <3>1, <3>2, LastIsReported
    <3> QED
      BY <1>3, <3>2, <3>3 DEF HasLast, IsLast
  <2> QED
    BY <2>2, <2>3
<1> QED
  BY <1>2, <1>3

\* A message that leaves the queue and is received changes nothing in what
\* is believed in the end; neither does one about something else.
LEMMA TailReports ==
  ASSUME NEW q \in Seq(TxMsg), NEW v, NEW w, NEW r \in Relays, q # <<>>, HasLast(q, r),
         w[r] = IF IsStatusOf(Head(q), r) THEN OnOff(Head(q).on) ELSE v[r]
  PROVE  HasLast(Tail(q), r) /\ ReportedBy(Tail(q), w, r) = ReportedBy(q, v, r)
<1> DEFINE p == Tail(q)
<1>1. /\ p \in Seq(TxMsg) /\ Len(q) \in Nat \ {0} /\ DOMAIN q = 1..Len(q)
      /\ DOMAIN p = 1..(Len(q) - 1)
      /\ Head(q) = q[1] /\ \A i \in DOMAIN p : p[i] = q[i + 1]
  OBVIOUS
<1>2. \A i \in Queued(p, r) : i \in Nat \ {0} /\ i + 1 \in Queued(q, r)
  BY <1>1 DEF Queued
<1>3. \A i \in Queued(q, r) : i = 1 \/ (i - 1 \in Queued(p, r) /\ i \in Nat /\ p[i - 1] = q[i])
  BY <1>1 DEF Queued
<1>4. CASE Queued(q, r) = {}
  <2>1. Queued(p, r) = {} /\ ~IsStatusOf(Head(q), r)
    BY <1>1, <1>2, <1>4 DEF Queued
  <2> QED
    BY <1>4, <2>1 DEF ReportedBy, HasLast
<1>5. CASE Queued(q, r) # {}
  <2>1. PICK k \in Queued(q, r) : IsLast(k, q, r)
    BY <1>5 DEF HasLast
  <2>2. ReportedBy(q, v, r) = OnOff(q[k].on)
    BY <2>1, LastIsReported
  <2>3. k \in Nat
    BY <1>1 DEF Queued
  <2>4. CASE k = 1
    <3>1. Queued(p, r) = {}
      <4> SUFFICES ASSUME NEW j \in Queued(p, r) PROVE FALSE
        OBVIOUS
      <4>1. j \in Nat \ {0} /\ j + 1 <= 1
        BY <1>2, <2>1, <2>4 DEF IsLast
      <4> QED
        BY <4>1
    <3>2. IsStatusOf(Head(q), r)
      BY <1>1, <2>4 DEF Queued
    <3> QED
      BY <1>1, <2>2, <2>4, <3>1, <3>2 DEF ReportedBy, HasLast
  <2>5. CASE k # 1
    <3>1. k - 1 \in Queued(p, r) /\ p[k - 1] = q[k]
      BY <1>3, <2>5
    <3>2. IsLast(k - 1, p, r)
      <4> SUFFICES ASSUME NEW j \in Queued(p, r) PROVE j <= k - 1
        BY <3>1 DEF IsLast
      <4>1. j \in Nat /\ j + 1 <= k
        BY <1>2, <2>1 DEF IsLast
      <4> QED
        BY <2>3, <4>1
    <3>3. HasLast(p, r)
      BY <3>1, <3>2 DEF HasLast
    <3>4. p \in Seq(TxMsg)
      BY <1>1
    <3> HIDE DEF p
    <3>5. ReportedBy(p, w, r) = OnOff(p[k - 1].on)
      BY <3>2, <3>4, LastIsReported
    <3>6. ReportedBy(p, w, r) = ReportedBy(q, v, r)
      BY <2>2, <3>1, <3>5
    <3> QED
      BY <3>3, <3>6 DEF p
  <2> QED
    BY <2>4, <2>5
<1> QED
  BY <1>4, <1>5

\* The inductive invariant behind OldIsReported: while ha_task queues the
\* statuses of the relays that changed, those done show the state it read.
Believed(r) == ReportedBy(tx, view, r)

ReportsInv ==
  \A r \in Relays :
    /\ HasLast(tx, r)
    /\ r \notin lost /\ Believed(r) # "unknown" =>
         /\ hPc # "outPut" => (Believed(r) = "on" <=> r \in hOld)
         /\ hPc = "outPut" /\ DeviceOf(r) \notin hTodo
              => (Believed(r) = "on" <=> r \in hOut.state)

\* The loop over the inputs queues nothing about relays.
InputsOnly == hPc = "in" => hTodo \subseteq Inputs

OldInv == ReportsInv /\ InputsOnly

\* Nothing is queued and nothing believed at the start.
LEMMA OldInit == Init => OldInv
<1> SUFFICES ASSUME Init, NEW r \in Relays PROVE HasLast(tx, r) /\ Believed(r) = "unknown"
  BY DEF OldInv, ReportsInv, InputsOnly, Init, HaInit
<1>1. Queued(tx, r) = {}
  BY DEF Init, ClientInit, Queued
<1> QED
  BY <1>1 DEF HasLast, Believed, ReportedBy, Init, BrokerInit

\* What mqtt_task sends is received or remembered as lost.
LEMMA ClientReports ==
  ASSUME BridgeTypeOK, OldInv, Client, NEW r \in Relays
  PROVE  /\ HasLast(tx', r)
         /\ r \notin lost' => r \notin lost /\ Believed(r)' = Believed(r)
<1>1. tx \in Seq(TxMsg) /\ HasLast(tx, r)
  BY DEF BridgeTypeOK, ClientTypeOK, OldInv, ReportsInv
<1>2. CASE tx' = tx
  BY <1>1, <1>2 DEF Client, Deliver, brokerVars, Believed
<1>3. CASE tx' # tx
  <2> DEFINE m == Head(tx)
  <2>1. tx # <<>> /\ m \in TxMsg /\ tx' = Tail(tx)
    BY <1>3, DeliveredIsHead DEF Client, MqttStep
  <2>2. CASE link = "up"
    <3>1. Receive(m) /\ UNCHANGED lost
      BY <1>3, <2>2 DEF Client, Deliver
    <3>2. view'[r] = IF IsStatusOf(m, r) THEN OnOff(m.on) ELSE view[r]
      BY <2>1, <3>1, StatusRelay DEF Receive, OnOff
    <3> QED
      BY <1>1, <2>1, <3>1, <3>2, TailReports DEF Believed
  <2>3. CASE link # "up"
    <3>1. lost' = lost \cup RelayStatusOf(m) /\ UNCHANGED view
      BY <1>3, <2>3 DEF Client, Deliver, brokerVars
    <3>2. HasLast(tx', r)
      <4> DEFINE w == [s \in Relays |-> IF IsStatusOf(m, s) THEN OnOff(m.on) ELSE view[s]]
      <4>1. w[r] = IF IsStatusOf(m, r) THEN OnOff(m.on) ELSE view[r]
        OBVIOUS
      <4> HIDE DEF w
      <4> QED
        BY <1>1, <2>1, <4>1, TailReports
    <3>3. CASE IsStatusOf(m, r)
      BY <2>1, <3>1, <3>2, <3>3, StatusRelay
    <3>4. CASE ~IsStatusOf(m, r)
      BY <1>1, <2>1, <3>1, <3>4, TailReports DEF Believed
    <3> QED
      BY <3>3, <3>4
  <2> QED
    BY <2>2, <2>3
<1> QED
  BY <1>2, <1>3

\* So it changes nothing in what will be believed.
LEMMA OldClient ==
  ASSUME BridgeTypeOK, OldInv, Client PROVE OldInv'
BY ClientReports DEF OldInv, ReportsInv, InputsOnly, Client, haVars

\* What ha_task queues about a relay is the state it has read; its other
\* messages are about other devices.
LEMMA HaReports ==
  ASSUME BridgeTypeOK, OldInv, Ha, NEW r \in Relays
  PROVE  /\ HasLast(tx', r)
         /\ CASE HaPutOutput /\ DeviceOf(r) \in hTodo \ hTodo' ->
                   Believed(r)' = OnOff(r \in hOut.state)
              [] OTHER -> Believed(r)' = Believed(r) /\ (r \in lost' <=> r \in lost)
<1> USE DEF BridgeTypeOK, ChannelsTypeOK, HaTypeOK
<1>1. tx \in Seq(TxMsg) /\ view' = view /\ HasLast(tx, r)
  BY DEF ClientTypeOK, Ha, brokerVars, OldInv, ReportsInv
<1>2. CASE tx' = tx /\ ~HaPutOutput
  BY <1>1, <1>2
  DEF Ha, HaStep, HaIdentifies, HaIdentified, HaNotIdentified, HaWork, HaConnected, HaRegister,
      HaRegisterCheck, HaLoop, HaPutInput, HaCommand, HaReadOutputs, Believed
<1>3. CASE HaRegister \/ HaPutInput
  <2>1. PICK d \in hTodo, k \in {"config", "status"} :
          /\ Put(Message(k, d, FALSE))
          /\ k = "status" => d \in Inputs
    <3>1. CASE HaRegister
      BY <3>1 DEF HaRegister
    <3>2. CASE HaPutInput
      BY <3>2 DEF HaPutInput, OldInv, InputsOnly
    <3> QED
      BY <1>3, <3>1, <3>2
  <2> DEFINE m == Message(k, d, FALSE)
  <2>2. m \in TxMsg /\ tx' = Append(tx, m)
    BY <2>1, DeviceFacts DEF Put
  <2>3. ~IsStatusOf(m, r)
    BY <2>1, ChannelsAssumption, MqttClientAssumption
    DEF IsStatusOf, Message, DeviceOf, Inputs, Relays
  <2>4. lost' = lost /\ ~HaPutOutput
    BY <1>3 DEF HaRegister, HaPutInput, HaPutOutput, Ha
  <2> HIDE DEF m
  <2> QED
    BY <1>1, <2>2, <2>3, <2>4, AppendReports DEF Believed
<1>4. CASE HaPutOutput
  <2>1. PICK d \in hTodo : /\ Put(Message("status", d, RelayOf(d) \in hOut.state))
                           /\ hTodo' = hTodo \ {d}
    BY <1>4 DEF HaPutOutput
  <2> DEFINE m == Message("status", d, RelayOf(d) \in hOut.state)
  <2>2. m \in TxMsg /\ tx' = Append(tx, m)
    <3>1. (RelayOf(d) \in hOut.state) \in BOOLEAN
      OBVIOUS
    <3>2. d \in Devices
      OBVIOUS
    <3>3. m \in TxMsg
      BY <3>1, <3>2, DeviceFacts, Zenon
    <3> QED
      BY <2>1, <3>3 DEF Put
  <2>3. lost' = lost \ {RelayOf(d)}
    BY <1>4, <2>1 DEF HaPutOutput, Ha
  <2>4. /\ HasLast(tx', r)
        /\ Believed(r)' = IF IsStatusOf(m, r) THEN OnOff(m.on) ELSE Believed(r)
    <3> HIDE DEF m
    <3> QED
      BY <1>1, <2>2, AppendReports DEF Believed
  <2>5. CASE d = DeviceOf(r)
    <3>1. RelayOf(d) = r
      BY <2>5, DeviceFacts
    <3>2. IsStatusOf(m, r) /\ (m.on <=> r \in hOut.state)
      BY <2>5, <3>1 DEF IsStatusOf, Message
    <3> QED
      BY <1>4, <2>1, <2>4, <2>5, <3>2 DEF OnOff
  <2>6. CASE d # DeviceOf(r)
    <3>1. ~IsStatusOf(m, r) /\ RelayOf(d) # r
      BY <2>6, ChannelsAssumption, MqttClientAssumption
      DEF IsStatusOf, Message, DeviceOf, RelayOf, Relays, Devices
    <3> QED
      BY <2>1, <2>3, <2>4, <2>6, <3>1
  <2> QED
    BY <2>5, <2>6
<1> QED
  BY <1>2, <1>3, <1>4
  DEF Ha, HaStep, HaIdentifies, HaIdentified, HaNotIdentified, HaWork, HaConnected,
      HaRegisterCheck, HaLoop, HaCommand, HaReadOutputs

\* ha_task keeps it: what it compares with changes together with what it
\* has queued.
LEMMA OldHa ==
  ASSUME BridgeTypeOK, OldInv, Ha PROVE OldInv'
<1> USE DEF BridgeTypeOK, ChannelsTypeOK, HaTypeOK
<1>0. InputsOnly'
  BY
  DEF OldInv, InputsOnly, Ha, HaStep, HaIdentifies, HaIdentified, HaNotIdentified, HaWork,
      HaConnected, HaRegister, HaRegisterCheck, HaLoop, HaPutInput, HaCommand, HaReadOutputs,
      HaPutOutput
<1> SUFFICES ReportsInv'
  BY <1>0 DEF OldInv
<1>1. CASE hPc # "outPut" /\ hPc' # "outPut" /\ hOld' = hOld
  <2>1. ~HaPutOutput
    BY <1>1 DEF HaPutOutput
  <2> QED
    BY <1>1, <2>1, HaReports DEF OldInv, ReportsInv
<1>2. CASE HaReadOutputs
  <2>1. UNCHANGED <<tx, lost>> /\ hPc = "out" /\ hOut' = outputs
    BY <1>2 DEF HaReadOutputs, Ha
  <2> SUFFICES ASSUME NEW r \in Relays
               PROVE  /\ hPc' # "outPut" => ~hRefresh /\ (r \in hOld' <=> r \in hOld)
                      /\ hPc' = "outPut" /\ DeviceOf(r) \notin hTodo'
                           => ~hRefresh /\ (r \in hOut'.state <=> r \in hOld)
    <3>1. ~HaPutOutput
      BY <2>1 DEF HaPutOutput
    <3> QED
      BY <2>1, <3>1, HaReports DEF OldInv, ReportsInv
  <2>2. DeviceOf(r) \notin hTodo'
          => r \notin (outputs.state \ hOld') \cup (hOld' \ outputs.state)
    BY <1>2 DEF HaReadOutputs
  <2>3. hPc' # "outPut" => hTodo' = {}
    BY <1>2 DEF HaReadOutputs
  <2>4. hOld' = IF hRefresh THEN Relays \ outputs.state ELSE hOld
    BY <1>2 DEF HaReadOutputs
  <2> QED
    BY <2>1, <2>2, <2>3, <2>4
<1>3. CASE HaPutOutput
  <2>1. /\ hPc = "outPut" /\ UNCHANGED hOut
        /\ hTodo' = {} => hOld' = hOut.state /\ hPc' = "loop"
        /\ hTodo' # {} => hPc' = "outPut"
    BY <1>3 DEF HaPutOutput
  <2> SUFFICES ASSUME NEW r \in Relays
               PROVE  /\ HasLast(tx', r)
                      /\ r \notin lost' /\ Believed(r)' # "unknown" /\ DeviceOf(r) \notin hTodo'
                           => (Believed(r)' = "on" <=> r \in hOut.state)
    BY <2>1 DEF ReportsInv
  <2>2. CASE DeviceOf(r) \in hTodo \ hTodo'
    BY <1>3, <2>2, HaReports DEF OnOff
  <2>3. CASE DeviceOf(r) \notin hTodo \ hTodo'
    BY <2>1, <2>3, HaReports DEF OldInv, ReportsInv
  <2> QED
    BY <2>2, <2>3
<1> QED
  BY <1>1, <1>2, <1>3
  DEF Ha, HaStep, HaIdentifies, HaIdentified, HaNotIdentified, HaWork, HaConnected, HaRegister,
      HaRegisterCheck, HaLoop, HaPutInput, HaCommand

\* The other steps touch neither the queue nor what ha_task remembers.
LEMMA OldNext == BridgeTypeOK /\ OldInv /\ [Next]_vars => OldInv'
<1> SUFFICES ASSUME BridgeTypeOK, OldInv, [Next]_vars PROVE OldInv'
  OBVIOUS
<1>1. CASE Environment \/ UNCHANGED vars
  <2>1. UNCHANGED <<tx, haVars, view, lost>>
    BY <1>1 DEF Environment, RestPost, LinkBreaks, clientVars, brokerVars, historyVars, vars
  <2> QED
    BY <2>1 DEF OldInv, ReportsInv, InputsOnly, Believed, haVars
<1> QED
  BY <1>1, OldClient, OldHa DEF Next

\* The state against which ha_task detects changes is what Home Assistant
\* knows or will know, where no connection has lost a status.
THEOREM NoChangeMissed == Spec => []OldIsReported
<1>1. BridgeInv /\ OldInv => OldIsReported
  <2> SUFFICES ASSUME OldInv, NEW r \in Relays PROVE Reported(r) = Believed(r)
    BY DEF OldInv, ReportsInv, OldIsReported
  <2> QED
    BY DEF Reported, Believed, ReportedBy, Queued, IsStatusOf, OnOff
<1>2. BridgeInv => BridgeTypeOK
  BY DEF BridgeInv, TypeOK, BridgeTypeOK
<1> QED
  BY <1>1, <1>2, OldInit, OldNext, BridgeInvariant, PTL DEF Spec

\* A relay about which Home Assistant was never told anything has been on
\* since the first iteration: outputs_state_old starts with all bits set, so
\* this is all that the absence of a status can mean.
SilentInv ==
  \A r \in Relays \ lost :
    Believed(r) = "unknown" =>
      /\ hPc # "outPut" => r \in hOld
      /\ hPc = "outPut" => DeviceOf(r) \in hTodo \/ r \in hOut.state

\* A refresh queues all relays, and a change of a relay is never taken for
\* none.
LEMMA SilentStep == BridgeTypeOK /\ OldInv /\ SilentInv /\ [Next]_vars => SilentInv'
<1> SUFFICES ASSUME BridgeTypeOK, OldInv, SilentInv, [Next]_vars PROVE SilentInv'
  OBVIOUS
<1>1. CASE Environment \/ UNCHANGED vars
  <2>1. UNCHANGED <<tx, haVars, view, lost>>
    BY <1>1 DEF Environment, RestPost, LinkBreaks, clientVars, brokerVars, historyVars, vars
  <2> QED
    BY <2>1 DEF SilentInv, Believed, haVars
<1>2. CASE Client
  BY <1>2, ClientReports DEF SilentInv, Client, haVars
<1>3. CASE Ha
  <2>1. CASE hPc # "outPut" /\ hPc' # "outPut" /\ hOld' = hOld
    <3>1. ~HaPutOutput
      BY <2>1 DEF HaPutOutput
    <3> QED
      BY <1>3, <2>1, <3>1, HaReports DEF SilentInv
  <2>2. CASE HaReadOutputs
    <3>1. ~HaPutOutput /\ hPc = "out" /\ hOut' = outputs
      BY <2>2 DEF HaReadOutputs, HaPutOutput
    <3>2. hOld' = IF hRefresh THEN Relays \ outputs.state ELSE hOld
      BY <2>2 DEF HaReadOutputs
    <3>3. /\ hTodo' = {DeviceOf(r) : r \in (outputs.state \ hOld') \cup (hOld' \ outputs.state)}
          /\ hPc' = IF hTodo' = {} THEN "loop" ELSE "outPut"
      BY <2>2 DEF HaReadOutputs
    <3> SUFFICES ASSUME NEW r \in Relays, hRefresh \/ r \in hOld
                 PROVE  /\ hPc' # "outPut" => r \in hOld'
                        /\ hPc' = "outPut" => DeviceOf(r) \in hTodo' \/ r \in outputs.state
      BY <1>3, <3>1, HaReports DEF SilentInv
    <3> QED
      BY <3>2, <3>3
  <2>3. CASE HaPutOutput
    <3>1. /\ hPc = "outPut" /\ UNCHANGED hOut /\ hTodo' \subseteq hTodo
          /\ hTodo' = {} => hOld' = hOut.state /\ hPc' = "loop"
          /\ hTodo' # {} => hPc' = "outPut"
      BY <2>3 DEF HaPutOutput
    <3> SUFFICES ASSUME NEW r \in Relays, r \notin lost', Believed(r)' = "unknown"
                 PROVE  DeviceOf(r) \in hTodo' \/ r \in hOut.state
      BY <3>1 DEF SilentInv
    <3>2. CASE DeviceOf(r) \in hTodo \ hTodo'
      BY <1>3, <2>3, <3>2, HaReports DEF OnOff
    <3>3. CASE DeviceOf(r) \notin hTodo \ hTodo'
      BY <1>3, <3>1, <3>3, HaReports DEF SilentInv
    <3> QED
      BY <3>2, <3>3
  <2> QED
    BY <1>3, <2>1, <2>2, <2>3
    DEF Ha, HaStep, HaIdentifies, HaIdentified, HaNotIdentified, HaWork, HaConnected, HaRegister,
        HaRegisterCheck, HaLoop, HaPutInput, HaCommand
<1> QED
  BY <1>1, <1>2, <1>3 DEF Next

\* What Home Assistant knows or will know of the relays is the state that
\* ha_task has read in the iteration that ends: a relay is off exactly if its
\* last status says so.  A relay whose last status was lost is left out, and
\* one that is on may never have been reported.
IterationReported ==
  [][(hPc \in {"out", "outPut"} /\ hPc' = "loop") =>
       (\A r \in Relays \ lost : Reported(r) = "off" <=> r \notin hOut.state)']_vars

\* Every change is detected and queued, whatever the queue and the link do.
THEOREM IterationsReport == Spec => IterationReported
<1>1. Init => SilentInv
  BY DEF Init, HaInit, SilentInv
<1>2. BridgeInv => BridgeTypeOK
  BY DEF BridgeInv, TypeOK, BridgeTypeOK
<1>3. /\ BridgeTypeOK /\ TypeOK' /\ OldInv' /\ SilentInv' /\ [Next]_vars
      => [(hPc \in {"out", "outPut"} /\ hPc' = "loop") =>
            (\A r \in Relays \ lost : Reported(r) = "off" <=> r \notin hOut.state)']_vars
  <2> SUFFICES ASSUME BridgeTypeOK, TypeOK', OldInv', SilentInv', Next,
                      hPc \in {"out", "outPut"}, hPc' = "loop",
                      NEW r \in Relays, r \notin lost'
               PROVE  Reported(r)' = "off" <=> r \notin hOut'.state
    OBVIOUS
  <2>1. HaReadOutputs \/ HaPutOutput
    BY
    DEF Next, Client, Ha, HaStep, HaIdentifies, HaIdentified, HaNotIdentified, HaWork,
        HaConnected, HaRegister, HaRegisterCheck, HaLoop, HaPutInput, HaCommand, Environment,
        RestPost, haVars
  <2>2. r \in hOld' <=> r \in hOut'.state
    BY <2>1 DEF HaReadOutputs, HaPutOutput
  <2>3. Believed(r)' # "unknown" => (Believed(r)' = "on" <=> r \in hOld')
    BY DEF OldInv, ReportsInv
  <2>4. Believed(r)' = "unknown" => r \in hOld'
    BY DEF SilentInv
  <2>5. Believed(r)' \in {"unknown", "on", "off"}
    BY DEF Believed, ReportedBy, OnOff, TypeOK
  <2>6. Reported(r)' = Believed(r)'
    BY DEF Reported, Believed, ReportedBy, Queued, IsStatusOf, OnOff
  <2> QED
    BY <2>2, <2>3, <2>4, <2>5, <2>6
<1> QED
  BY <1>1, <1>2, <1>3, OldInit, OldNext, SilentStep, BridgeInvariant, BridgeTypeCorrect, PTL
  DEF Spec, IterationReported

\* A status is lost only with a connection that the broker has given up
\* behind the client's back.
LostWithConnection == [][lost' \ lost # {} => link = "half" /\ tx' = Tail(tx)]_vars

\* A publication on a closed connection fails and keeps the message.
THEOREM OnlyHalfOpenLoses == Spec => LostWithConnection
<1>1. BridgeInv /\ [Next]_vars => [lost' \ lost # {} => link = "half" /\ tx' = Tail(tx)]_vars
  <2> SUFFICES ASSUME BridgeInv, Next, lost' \ lost # {}
               PROVE  link = "half" /\ tx' = Tail(tx)
    OBVIOUS
  <2>1. Client
    BY DEF Next, Ha, Environment, RestPost, historyVars
  <2>2. tx' # tx /\ link # "up"
    BY <2>1 DEF Client, Deliver
  <2>3. BridgeTypeOK /\ ClientStep
    BY <2>1 DEF BridgeInv, TypeOK, BridgeTypeOK, Client, MqttStep
  <2> QED
    BY <2>2, <2>3, DeliveredIsHead
<1> QED
  BY <1>1, BridgeInvariant, PTL DEF Spec, LostWithConnection

\* So with connections that break only where the client can see it, Home
\* Assistant knows or will know every relay it knows anything about as
\* ha_task remembers it, without exception.
COROLLARY NoChangeMissedAtAll ==
  Spec /\ [](link # "half")
    => [](\A r \in Relays : hPc # "outPut" /\ Reported(r) # "unknown"
                              => (Reported(r) = "on" <=> r \in hOld))
<1> DEFINE Whole == link # "half"
           NoneLost == lost = {}
           Known == \A r \in Relays : hPc # "outPut" /\ Reported(r) # "unknown"
                                        => (Reported(r) = "on" <=> r \in hOld)
<1>1. Init => NoneLost
  BY DEF Init, HistoryInit
<1>2. Whole /\ NoneLost /\ [Next]_vars
        /\ [lost' \ lost # {} => link = "half" /\ tx' = Tail(tx)]_vars => NoneLost'
  BY DEF vars, historyVars
<1>3. NoneLost /\ OldIsReported => Known
  BY DEF OldIsReported
<1> HIDE DEF Whole, NoneLost, Known
<1>4. Spec /\ []Whole => []Known
  BY <1>1, <1>2, <1>3, OnlyHalfOpenLoses, NoChangeMissed, PTL DEF Spec, LostWithConnection
<1> QED
  BY <1>4 DEF Whole, Known

\* mqtt_task can reconnect unnoticed only while ha_task waits for room in a
\* full transmit queue, or over a connection whose end was not reported, if
\* no access to a channel fails: there is no other way to miss the
\* registration that a new connection needs.
UnnoticedWhenBlocked ==
  [][~Contention /\ ~stuck /\ stuck' => HaBlocked \/ link = "left"]_vars

\* ha_task has the ten seconds of mqtt_task's sleep to look at the status.
THEOREM ReconnectionNoticed == Spec => UnnoticedWhenBlocked
<1>1. BridgeInv /\ [Next]_vars
      => [~Contention /\ ~stuck /\ stuck' => HaBlocked \/ link = "left"]_vars
  <2> SUFFICES ASSUME BridgeInv, Next, ~Contention, ~stuck, stuck', link # "left"
               PROVE  HaBlocked
    OBVIOUS
  <2>1. mPc = "connect" /\ ~HaWaits
    BY Zenon DEF Next, Client, Connects, Ha, Environment, RestPost, historyVars
  <2>2. LinkShown /\ ClosedWhenIdle /\ LossNoticed
    BY DEF BridgeInv, LinkInv
  <2>3. ~mqttStat.connected
    BY <2>1, <2>2 DEF LinkShown, ClosedWhenIdle, Announced
  <2> QED
    BY <2>1, <2>2, <2>3 DEF LossNoticed
<1> QED
  BY <1>1, BridgeInvariant, PTL DEF Spec, UnnoticedWhenBlocked
=============================================================================
