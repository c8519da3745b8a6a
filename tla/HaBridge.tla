------------------------------ MODULE HaBridge ------------------------------
(***************************************************************************)
(* The path between Home Assistant and the relay channel: mqtt_task,       *)
(* ha_task, the queues between them, the broker, and the REST endpoint     *)
(* /api/relays/state (relays_state.c), which writes the same channel.      *)
(***************************************************************************)
EXTENDS HaTask

CONSTANT Rest    \* is the REST endpoint used?

ASSUME HaBridgeAssumption == Rest \in BOOLEAN

VARIABLES
  registered,   \* devices whose (retained) configuration reached the broker
  view,         \* what Home Assistant was told last about each relay
  lost,         \* history: relays whose status queued last was lost with a
                \*   connection
  stuck,        \* history: has MQTT reconnected since ha_task began to
                \*   register, so that it did not notice?
  silent        \* history: has MQTT reconnected during this registration,
                \*   after a connection whose end was never reported?

brokerVars == <<registered, view>>

historyVars == <<lost, stuck, silent>>

vars == <<channelVars, clientVars, haVars, brokerVars, historyVars>>

BrokerInit == registered = {} /\ view = [r \in Relays |-> "unknown"]

HistoryInit == lost = {} /\ stuck = FALSE /\ silent = FALSE

Init == ChannelsInit /\ ClientInit /\ HaInit /\ BrokerInit /\ HistoryInit

-----------------------------------------------------------------------------
\* relays_state_update: the channel is read, the counter is incremented and
\* all relays are set.  The HTTP thread is not preempted in between; when a
\* preempted thread holds the channel, both accesses fail.
RestPost ==
  /\ Rest
  /\ \/ \E s \in SUBSET Relays : outputs' = NextOutputs(outputs, s)
     \/ Contention /\ UNCHANGED outputs
  /\ UNCHANGED <<mqttStat, clientVars, haVars, brokerVars, historyVars>>

RelayStatusOf(m) == IF m.kind = "status" THEN {RelayOf(m.dev)} \cap Relays ELSE {}

\* Home Assistant processes a message.
Receive(m) ==
  /\ registered' = IF m.kind = "config" THEN registered \cup {m.dev} ELSE registered
  /\ view' = [r \in Relays |->
                IF r \in RelayStatusOf(m) THEN IF m.on THEN "on" ELSE "off" ELSE view[r]]

\* A message that mqtt_publish accepted arrives, unless the broker has lost
\* the connection; nothing else removes a message from its queue.
Deliver ==
  LET m == Head(tx) IN
  CASE tx' = tx -> UNCHANGED <<brokerVars, lost>>
    [] tx' # tx /\ link = "up" -> Receive(m) /\ UNCHANGED lost
    [] OTHER -> lost' = lost \cup RelayStatusOf(m) /\ UNCHANGED brokerVars

\* Only a connection is followed by the wait for the CONNACK.
Connects == mPc = "connect" /\ mPc' = "input1"

Registers == hPc \in {"reg", "regCheck"}

\* mqtt_task.
Client ==
  /\ MqttStep
  /\ Deliver
  /\ stuck' = (stuck \/ (Connects /\ ~HaWaits))
  /\ silent' = (silent \/ (Connects /\ Registers /\ link = "left"))
  /\ UNCHANGED <<outputs, haVars>>

Ha ==
  /\ HaStep
  /\ lost' = IF hPc = "outPut" THEN lost \ {RelayOf(d) : d \in hTodo \ hTodo'} ELSE lost
  /\ stuck' = (stuck /\ ~HaWaits)
  /\ silent' = (silent /\ Registers)
  /\ UNCHANGED <<mqttStat, link, unread, mPc, subscribed, mConn, nextMid, brokerVars>>

Environment ==
  \/ RestPost
  \/ LinkBreaks /\ UNCHANGED <<outputs, haVars, brokerVars, historyVars>>

Next == Client \/ Ha \/ Environment

Spec == Init /\ [][Next]_vars

\* Both threads run whenever they are ready, and the refresh period passes
\* again and again: not every pass of the main loop comes before it.
Fairness ==
  /\ WF_vars(Client)
  /\ WF_vars(Ha)
  /\ SF_vars(Ha /\ HaLoop /\ hRefresh')

FairSpec == Spec /\ Fairness

-----------------------------------------------------------------------------
TypeOK ==
  /\ ChannelsTypeOK
  /\ ClientTypeOK
  /\ HaTypeOK
  /\ registered \in SUBSET Devices
  /\ view \in [Relays -> {"unknown", "on", "off"}]
  /\ lost \in SUBSET Relays
  /\ stuck \in BOOLEAN
  /\ silent \in BOOLEAN

\* Without contention the status every thread reads is the state of the
\* link as the client knows it, in every state, with one exception: when
\* mqtt_task has left its loop over an unread payload (ha_mqtt.c 190 to 194)
\* the status stays "connected" until it has opened the next connection.
StatusMatchesLink ==
  ~Contention =>
    /\ mqttStat.connected <=> link \in Announced
    /\ link = "left" => mPc \in {"wait", "connect"}

\* What Home Assistant will believe of relay r once the queue is empty.
Reported(r) ==
  LET queued == {i \in DOMAIN tx : tx[i].kind = "status" /\ tx[i].dev = DeviceOf(r)}
      last == CHOOSE i \in queued : \A j \in queued : j <= i
  IN IF queued = {} THEN view[r] ELSE IF tx[last].on THEN "on" ELSE "off"

\* outputs_state_old, against which changes are detected, is what Home
\* Assistant knows or will know, except where a connection lost a status:
\* no change can be missed because an older status was believed delivered.
OldIsReported ==
  \A r \in Relays :
    hPc # "outPut" /\ r \notin lost /\ Reported(r) # "unknown"
      => (Reported(r) = "on" <=> r \in hOld)

\* A registration cut short by a disconnection is never followed by status
\* messages: the main loop finds the link down as well.  Only a connection
\* whose end was not reported breaks this: "not connected" is published after
\* the next mqtt_connect, and its CONNACK can come between the two looks.
NoStatusAfterPartialRegistration ==
  [][~Contention /\ ~silent /\ hPc = "loop" /\ hPc' \in {"in", "rx"} => hTodo = {}]_vars

\* A message leaves the transmit queue only by a publication that succeeded,
\* from its head, whatever happens to the connection.
QueueKeepsUnsent ==
  [][tx' # tx => \/ \E m \in TxMsg : tx' = Append(tx, m)
                 \/ tx # <<>> /\ tx' = Tail(tx) /\ link' \in {"up", "half"}]_vars

\* The counter identifies the message (zbus_topics.h line 21): a message
\* that replaces a different one has a different number.
SeqIdentifiesMessage ==
  [][outputs' # outputs => outputs'.seq # outputs.seq]_vars

\* The relay channel is the register of RelayRegister, and ha_task's
\* outputs_state the copy its commands are applied to: a REST request is one
\* write, a command of Home Assistant one SetRelay (ha_task.c 194 to 202,
\* relays_state.c 25 to 33).
Register == INSTANCE RelayRegister
              WITH register <- outputs, copy <- hOut, Writers <- Rest

RegisterImplemented == Register!Spec

\* Messages and subscriptions are made from the complete device identifier,
\* although both threads rewrite it and one can interrupt the other; never
\* from a part of it, and messages from none only if ha_task could not have
\* it (ha_task.c 95 ignores that).
TopicsAreWhole ==
  [][/\ Len(tx') > Len(tx) => devId = "whole" \/ (IdFails /\ devId = "none")
     /\ subscribed' /\ ~subscribed => devId' = "whole"]_vars

\* mqtt_task leaves a loop, to forget the socket in client_init, only when
\* the connection is closed or was never acknowledged, or when the handler
\* could not read a payload: nothing else makes it give up one that works.
OpenConnectionNotForgotten ==
  [][~Contention /\ mPc' \in {"wait", "connect"} /\ link \in {"up", "half"}
       => link' = "none" \/ (unread /\ link' = "left")]_vars

\* Once the link stays up and the commanded state stays put, Home Assistant
\* learns that state for good, whatever was lost before.
HomeAssistantConverges ==
  \A s \in SUBSET Relays :
    <>[](link = "up" /\ outputs.state = s)
      => <>[](\A r \in Relays : view[r] = IF r \in s THEN "on" ELSE "off")

\* Once the link stays up, and unless ha_task did not notice that it is a new
\* one, the configuration of every device reaches the broker.
EventuallyRegistered ==
  <>[](link = "up" /\ ~stuck) => <>(registered = Devices)

\* While the link stays up, commands are looked for again and again: a put
\* on a full transmit queue does not hold ha_task for ever.
HaKeepsServing ==
  <>[](link = "up") => []<>(hPc = "rx")
=============================================================================
