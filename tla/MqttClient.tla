----------------------------- MODULE MqttClient -----------------------------
(***************************************************************************)
(* mqtt_task (ha_mqtt.c), its event handler (ha_mqtt_callback.c) and the   *)
(* pump that empties the transmit queue (ha_mqtt_adapter.c).  The handler  *)
(* runs inside the calls mqtt_task makes to the MQTT library, so this one  *)
(* thread is the only publisher of mqtt_stat_zbus_topik.                   *)
(*                                                                         *)
(* The library and the broker are external.  What the code relies on:      *)
(*   - a call that meets a broken connection closes it, reports DISCONNECT *)
(*     to the handler and returns an error;                                *)
(*   - a call on a client that is not connected fails without an event;    *)
(*   - mqtt_read_publish_payload does not wait: it may return -EAGAIN with *)
(*     the payload still in the socket, and mqtt_input then returns -EBUSY *)
(*     without an event until the payload has been read;                   *)
(*   - mqtt_client_init forgets the connection the client had, if any;     *)
(*   - a publication the socket accepted may still be lost with the link;  *)
(*   - the session is clean: a new connection has no subscription.         *)
(***************************************************************************)
EXTENDS Channels, Sequences

CONSTANTS
  NInputs,      \* digital inputs; devices are the inputs, then the relays
  TxCap,        \* capacity of MQTT_MSGQ_TX (16)
  RxCap,        \* capacity of MQTT_MSGQ_RX (16)
  MidMod,       \* packet identifiers are counted modulo MidMod (2^16)
  IdFails       \* may hwinfo_get_device_id or set_device_id fail?

ASSUME MqttClientAssumption ==
  /\ NInputs \in Nat
  /\ TxCap \in Nat \ {0}
  /\ RxCap \in Nat \ {0}
  /\ MidMod \in Nat \ {0, 1}
  /\ IdFails \in BOOLEAN

VARIABLES
  tx,           \* MQTT_MSGQ_TX
  rx,           \* MQTT_MSGQ_RX
  link,         \* state of the library's client; "half" is a connection the
                \*   broker has lost and the client still believes in, "left"
                \*   one that mqtt_task will not use again, open or forgotten,
                \*   and whose end nobody has reported
  unread,       \* is the payload of a PUBLISH still in the socket?
  mPc,          \* where mqtt_task is
  subscribed,   \* mqtt_subscrabed
  mConn,        \* connected in its local mqtt_conn_status
  nextMid,      \* next_mid
  devId         \* ha_mqtt_dev_identifier: not set, cut short by a rewrite
                \*   that was preempted, or complete

clientVars == <<tx, rx, link, unread, mPc, subscribed, mConn, nextMid, devId>>

Devices == 1..(NInputs + NRelays)
Inputs == 1..NInputs
RelayOf(d) == d - NInputs
DeviceOf(r) == r + NInputs
RelayDevices == {DeviceOf(r) : r \in Relays}

\* mqtt_msg_t in the transmit queue: a registration or a status.
TxMsg == [kind : {"config", "status"}, dev : Devices, on : BOOLEAN]

\* mqtt_msg_t in the receive queue: a command for a relay, or (relay 0) one
\* that parse_incoming_message rejects.
RxMsg == [relay : Relays, on : BOOLEAN] \cup [relay : {0}, on : {FALSE}]

ClientInit ==
  /\ tx = <<>>
  /\ rx = <<>>
  /\ link = "none"
  /\ unread = FALSE
  /\ mPc = "connect"
  /\ subscribed = FALSE
  /\ mConn = FALSE
  /\ nextMid = 1
  /\ devId = "none"

-----------------------------------------------------------------------------
(* The event handler and the library.                                      *)

\* Mutant: a publication copies the channel's member enabled.
PublishStat_KeepsEnabled(connected) ==
  mqttStat' = [mqttStat EXCEPT !.connected = connected]

\* zbus_chan_pub(&mqtt_stat_zbus_topik, ..., K_NO_WAIT), result ignored.
PublishStat(connected) ==
  \/ mqttStat' = StatusOf(connected)
  \/ Contention /\ UNCHANGED mqttStat

\* Mutant: the handler publishes nothing on a disconnection.
Dropped_Silent ==
  /\ link # "none"
  /\ link' = "none"
  /\ unread' = FALSE
  /\ UNCHANGED mqttStat

\* The library meets a broken connection: MQTT_EVT_DISCONNECT.
Dropped ==
  /\ link # "none"
  /\ link' = "none"
  /\ unread' = FALSE
  /\ PublishStat(FALSE)

\* MQTT_EVT_CONNACK with result 0.
ConnAck ==
  /\ link = "tcp"
  /\ link' = "up"
  /\ PublishStat(TRUE)

\* Mutant: a full queue makes room by dropping its oldest message.
Enqueue_DropsOldest(cmd) ==
  rx' = IF Len(rx) < RxCap THEN Append(rx, cmd) ELSE Append(Tail(rx), cmd)

\* MQTT_EVT_PUBLISH: the message is put without waiting, a full queue drops
\* it, and it is acknowledged in either case.
Enqueue(cmd) == rx' = IF Len(rx) < RxCap THEN Append(rx, cmd) ELSE rx

\* Mutant: the wrap to 0 is not skipped.
AllocMid_NoSkip == nextMid' = (nextMid + 1) % MidMod

\* alloc_mid: the identifier 0 is skipped.
AllocMid == nextMid' = IF (nextMid + 1) % MidMod = 0 THEN 1 ELSE (nextMid + 1) % MidMod

-----------------------------------------------------------------------------
(* The steps of mqtt_task.                                                 *)

\* dns_query fails, or client_init has forgotten whatever connection there
\* was and mqtt_connect fails; the thread sleeps for 10 seconds and publishes
\* nothing.
MConnectFails ==
  /\ mPc = "connect"
  /\ link' = IF link = "left" THEN link ELSE "none"
  /\ unread' = FALSE
  /\ mPc' = "wait"
  /\ UNCHANGED <<mqttStat, tx, rx, subscribed, mConn, nextMid, devId>>

\* client_init forgets whatever connection there was, mqtt_connect opens a
\* new one, and the thread publishes "enabled, not connected".
MConnects ==
  /\ mPc = "connect"
  /\ link' = "tcp"
  /\ unread' = FALSE
  /\ mConn' = FALSE
  /\ PublishStat(FALSE)
  /\ mPc' = "input1"
  /\ UNCHANGED <<tx, rx, subscribed, nextMid, devId>>

\* mqtt_input in the loop that waits for the CONNACK.
MInitialInput ==
  /\ mPc = "input1"
  /\ \/ UNCHANGED <<link, unread, mqttStat, subscribed>> /\ mPc' = "live1"
     \/ ConnAck /\ mPc' = "live1" /\ UNCHANGED <<unread, subscribed>>
     \/ Dropped /\ mPc' = "input2" /\ subscribed' = FALSE
  /\ UNCHANGED <<tx, rx, mConn, nextMid, devId>>

\* A failing K_NO_WAIT read leaves the local copy as it was.
ReadStatus == mConn' = mqttStat.connected \/ (Contention /\ UNCHANGED mConn)

\* mqtt_live, k_sleep and the read of the status.  The loop ends when the
\* link is reported, when mqtt_live fails (a client that is not connected
\* has nothing to keep alive: no event) or after its 100 iterations.
MInitialLive ==
  /\ mPc = "live1"
  /\ \/ /\ ReadStatus
        /\ mPc' = IF mConn' THEN "input2" ELSE "input1"
        /\ UNCHANGED <<link, unread, mqttStat>>
     \/ /\ ReadStatus
        /\ mPc' = "input2"
        /\ UNCHANGED <<link, unread, mqttStat>>
     \/ Dropped /\ mPc' = "input2" /\ UNCHANGED mConn
     \/ link = "tcp" /\ mPc' = "input2" /\ UNCHANGED <<mConn, link, unread, mqttStat>>
  /\ subscribed' = IF mPc' = "input2" THEN FALSE ELSE subscribed
  /\ UNCHANGED <<tx, rx, nextMid, devId>>

\* mqtt_input in the main loop: nothing to read, or a CONNACK.
MInput ==
  /\ mPc = "input2"
  /\ link # "none" /\ ~unread
  /\ (UNCHANGED <<link, mqttStat>> \/ ConnAck)
  /\ mPc' = "live2"
  /\ UNCHANGED <<tx, rx, unread, subscribed, mConn, nextMid, devId>>

\* mqtt_input delivers a PUBLISH of the broker: cmd is what the payload, as
\* far as it could be read, says to ha_task.  The handler queues that and
\* acknowledges it even if a read has failed: the rest may stay unread, and a
\* read or the acknowledgement may meet a broken connection.
MReceives(cmd) ==
  /\ mPc = "input2"
  /\ link = "up" /\ ~unread
  /\ subscribed
  /\ Enqueue(cmd)
  /\ \/ UNCHANGED <<link, mqttStat>> /\ unread' \in BOOLEAN
     \/ Dropped
  /\ mPc' = "live2"
  /\ UNCHANGED <<tx, subscribed, mConn, nextMid, devId>>

\* mqtt_input or mqtt_live fails and the loop is left for a sleep of 10 s; a
\* client that is already disconnected, or not yet connected, reports
\* nothing.
MLinkError ==
  /\ mPc \in {"input2", "live2"}
  /\ \/ (mPc = "live2" \/ ~unread) /\ Dropped
     \/ mPc = "input2" /\ link = "none" /\ UNCHANGED <<link, unread, mqttStat>>
     \/ mPc = "live2" /\ link \in {"none", "tcp"} /\ UNCHANGED <<link, unread, mqttStat>>
  /\ mPc' = "wait"
  /\ UNCHANGED <<tx, rx, subscribed, mConn, nextMid, devId>>

\* mqtt_input returns -EBUSY, for a payload is unread: the loop is left
\* without mqtt_disconnect, and the status published stays.
MBusy ==
  /\ mPc = "input2"
  /\ unread
  /\ link' = "left"
  /\ unread' = FALSE
  /\ mPc' = "wait"
  /\ UNCHANGED <<mqttStat, tx, rx, subscribed, mConn, nextMid, devId>>

\* Mutant: the main loop trusts the status the first loop has read.
MLive_StaleStatus ==
  /\ mPc = "live2"
  /\ mPc' = IF mConn THEN "work" ELSE "wait"
  /\ UNCHANGED <<mqttStat, tx, rx, link, unread, subscribed, mConn, nextMid, devId>>

\* mqtt_live succeeds; the status decides whether the loop goes on.
MLive ==
  /\ mPc = "live2"
  /\ ReadStatus
  /\ mPc' = IF mConn' THEN "work" ELSE "wait"
  /\ UNCHANGED <<mqttStat, tx, rx, link, unread, subscribed, nextMid, devId>>

\* ha_mqtt_init, called by the thread of the higher priority: nobody sees the
\* identifier half written.  It is complete even when the address is not.
InitIdentifier == devId' = "whole"

\* ha_mqtt_init fails on the chip's identifier: ours stays as it was.
InitIdentifierFails == IdFails /\ UNCHANGED devId

\* Mutant: the thread relies on the identifier ha_task sets.
MSubscribes_NoInit ==
  /\ mPc = "work"
  /\ ~subscribed
  /\ link \in {"up", "half"}
  /\ subscribed' = TRUE
  /\ mPc' = "input2"
  /\ UNCHANGED <<mqttStat, tx, rx, link, unread, mConn, nextMid, devId>>

\* ha_mqtt_init and ha_mqtt_subscribe_topiks succeed.
MSubscribes ==
  /\ mPc = "work"
  /\ ~subscribed
  /\ InitIdentifier
  /\ link \in {"up", "half"}
  /\ subscribed' = TRUE
  /\ mPc' = "input2"
  /\ UNCHANGED <<mqttStat, tx, rx, link, unread, mConn, nextMid>>

\* One of them fails: mqtt_disconnect, which needs a connected client.
MSubscribeFails ==
  /\ mPc = "work"
  /\ ~subscribed
  /\ (InitIdentifier \/ InitIdentifierFails)
  /\ \/ link \in {"up", "half"} /\ Dropped
     \/ link \in {"none", "tcp"} /\ UNCHANGED <<link, unread, mqttStat>>
  /\ mPc' = "input2"
  /\ UNCHANGED <<tx, rx, subscribed, mConn, nextMid>>

\* ha_send_data_from_q_to_mqtt finds the queue empty.
MNothingToSend ==
  /\ mPc = "work"
  /\ subscribed
  /\ tx = <<>>
  /\ mPc' = "input2"
  /\ UNCHANGED <<mqttStat, tx, rx, link, unread, subscribed, mConn, nextMid, devId>>

\* Mutant: the published message is not removed.
MPublishes_KeepsHead ==
  /\ mPc = "work"
  /\ subscribed
  /\ tx # <<>>
  /\ link \in {"up", "half"}
  /\ AllocMid
  /\ mPc' = "input2"
  /\ UNCHANGED <<mqttStat, tx, rx, link, unread, subscribed, mConn, devId>>

\* mqtt_publish accepts the message at the head, which is then removed.
MPublishes ==
  /\ mPc = "work"
  /\ subscribed
  /\ tx # <<>>
  /\ link \in {"up", "half"}
  /\ AllocMid
  /\ tx' = Tail(tx)
  /\ mPc' = "input2"
  /\ UNCHANGED <<mqttStat, rx, link, unread, subscribed, mConn, devId>>

\* Mutant: the message is removed before the publication is attempted.
MPublishFails_Removes ==
  /\ mPc = "work"
  /\ subscribed
  /\ tx # <<>>
  /\ AllocMid
  /\ \/ link \in {"up", "half"} /\ Dropped
     \/ link \in {"none", "tcp"} /\ UNCHANGED <<link, unread, mqttStat>>
  /\ tx' = Tail(tx)
  /\ mPc' = "input2"
  /\ UNCHANGED <<rx, subscribed, mConn, devId>>

\* mqtt_publish fails: the message stays at the head of the queue.
MPublishFails ==
  /\ mPc = "work"
  /\ subscribed
  /\ tx # <<>>
  /\ AllocMid
  /\ \/ link \in {"up", "half"} /\ Dropped
     \/ link \in {"none", "tcp"} /\ UNCHANGED <<link, unread, mqttStat>>
  /\ mPc' = "input2"
  /\ UNCHANGED <<tx, rx, subscribed, mConn, devId>>

\* k_sleep(K_SECONDS(10)) ends.
MWake ==
  /\ mPc = "wait"
  /\ mPc' = "connect"
  /\ UNCHANGED <<mqttStat, tx, rx, link, unread, subscribed, mConn, nextMid, devId>>

ClientStep ==
  \/ MConnectFails
  \/ MConnects
  \/ MInitialInput
  \/ MInitialLive
  \/ MInput
  \/ \E cmd \in RxMsg : MReceives(cmd)
  \/ MLinkError
  \/ MBusy
  \/ MLive
  \/ MSubscribes
  \/ MSubscribeFails
  \/ MNothingToSend
  \/ MPublishes
  \/ MPublishFails
  \/ MWake

\* The broker or the network drops the connection without the client
\* noticing.
LinkBreaks ==
  /\ link = "up"
  /\ link' = "half"
  /\ UNCHANGED <<mqttStat, tx, rx, unread, mPc, subscribed, mConn, nextMid, devId>>

\* The connections that were announced and whose end was not.
Announced == {"up", "half", "left"}

ClientTypeOK ==
  /\ tx \in Seq(TxMsg) /\ Len(tx) <= TxCap
  /\ rx \in Seq(RxMsg) /\ Len(rx) <= RxCap
  /\ link \in {"none", "tcp", "up", "half", "left"}
  /\ unread \in BOOLEAN
  /\ mPc \in {"connect", "wait", "input1", "live1", "input2", "live2", "work"}
  /\ subscribed \in BOOLEAN
  /\ mConn \in BOOLEAN
  /\ nextMid \in 1..(MidMod - 1)
  /\ devId \in {"none", "part", "whole"}
=============================================================================
