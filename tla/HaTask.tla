------------------------------- MODULE HaTask -------------------------------
(***************************************************************************)
(* ha_mqtt_task (ha_task.c): the bridge between the relays and Home        *)
(* Assistant.  It sets the device identifier, and once MQTT is connected   *)
(* it queues one registration for each device, then it loops: queue the    *)
(* inputs, execute one received command, queue the status of each relay    *)
(* that changed.  A put on the transmit queue waits for ever when the      *)
(* queue is full.                                                          *)
(*                                                                         *)
(* No code publishes inputs_zbus_topik, so the inputs never change and     *)
(* their status is queued only by the periodic refresh.  Both refresh      *)
(* timers are read and set with the same `now` and period: they are one.   *)
(* The thread has the lowest priority of the users of its channels, so     *)
(* its K_NO_WAIT accesses find nobody inside them and do not fail.         *)
(***************************************************************************)
EXTENDS MqttClient

VARIABLES
  hPc,          \* where ha_task is
  hTodo,        \* devices the current loop over device[] has still to queue
  hOut,         \* outputs_state
  hOld,         \* outputs_state_old.state
  hRefresh      \* does this iteration refresh (now > next_update_output)?

haVars == <<hPc, hTodo, hOut, hOld, hRefresh>>

HaInit ==
  /\ hPc = "init"
  /\ hTodo = {}
  /\ hOut = [seq |-> 0, state |-> {}]
  /\ hOld = Relays
  /\ hRefresh = FALSE

NextDevice(d) == d \in hTodo /\ \A e \in hTodo : d <= e

\* ha_mqtt_init rewrites the identifier two characters at a time, and each
\* sprintf ends the string behind them: mqtt_task may run with the identifier
\* cut short, even after it has itself completed it.
HaIdentifies ==
  /\ hPc \in {"init", "ident"}
  /\ devId' = "part"
  /\ hPc' = "ident"
  /\ UNCHANGED <<outputs, tx, rx, hTodo, hOut, hOld, hRefresh>>

HaIdentified ==
  /\ hPc = "ident"
  /\ devId' = "whole"
  /\ hPc' = "wait"
  /\ UNCHANGED <<outputs, tx, rx, hTodo, hOut, hOld, hRefresh>>

\* ha_mqtt_init fails before it writes the identifier, and its result is
\* ignored.
HaNotIdentified ==
  /\ hPc = "init"
  /\ InitIdentifierFails
  /\ hPc' = "wait"
  /\ UNCHANGED <<outputs, tx, rx, hTodo, hOut, hOld, hRefresh>>

\* The wait for the connection ends: register every device.
HaConnected ==
  /\ hPc = "wait"
  /\ mqttStat.connected
  /\ hPc' = "reg"
  /\ hTodo' = Devices
  /\ UNCHANGED <<outputs, tx, rx, hOut, hOld, hRefresh>>

\* Mutant: the put does not wait; a full queue drops the message.
Put_NoWait(m) == tx' = IF Len(tx) < TxCap THEN Append(tx, m) ELSE tx

\* k_msgq_put(&MQTT_MSGQ_TX, ..., K_FOREVER): waits while the queue is full.
Put(m) == Len(tx) < TxCap /\ tx' = Append(tx, m)

Message(kind, d, on) == [kind |-> kind, dev |-> d, on |-> on]

\* One registration; then the thread sleeps for a second.
HaRegister ==
  /\ hPc = "reg"
  /\ \E d \in hTodo :
       /\ NextDevice(d)
       /\ Put(Message("config", d, FALSE))
       /\ hTodo' = hTodo \ {d}
  /\ hPc' = "regCheck"
  /\ UNCHANGED <<outputs, rx, hOut, hOld, hRefresh>>

\* After each registration the status is read; the loop over the devices is
\* left when the link is down, and the main loop below looks again.
HaRegisterCheck ==
  /\ hPc = "regCheck"
  /\ hPc' = IF mqttStat.connected /\ hTodo # {} THEN "reg" ELSE "loop"
  /\ UNCHANGED <<outputs, tx, rx, hTodo, hOut, hOld, hRefresh>>

\* Mutant: the main loop does not look at the status itself.
HaLoop_NoCheck ==
  /\ hPc = "loop"
  /\ hRefresh' \in BOOLEAN
  /\ hTodo' = IF hRefresh' THEN Inputs ELSE {}
  /\ hPc' = IF hTodo' = {} THEN "rx" ELSE "in"
  /\ UNCHANGED <<outputs, tx, rx, hOut, hOld>>

\* Mutant: there is no periodic refresh.
HaLoop_NoRefresh ==
  /\ hPc = "loop"
  /\ IF mqttStat.connected
       THEN hRefresh' = FALSE /\ hTodo' = {} /\ hPc' = "rx"
       ELSE hPc' = "init" /\ UNCHANGED <<hTodo, hRefresh>>
  /\ UNCHANGED <<outputs, tx, rx, hOut, hOld>>

\* The head of the main loop; UPDATE_PERIOD_SEC may have passed since the
\* last refresh.
HaLoop ==
  /\ hPc = "loop"
  /\ IF mqttStat.connected
       THEN /\ hRefresh' \in BOOLEAN
            /\ hTodo' = IF hRefresh' THEN Inputs ELSE {}
            /\ hPc' = IF hTodo' = {} THEN "rx" ELSE "in"
       ELSE /\ hPc' = "init"
            /\ UNCHANGED <<hTodo, hRefresh>>
  /\ UNCHANGED <<outputs, tx, rx, hOut, hOld>>

\* The status of one input.
HaPutInput ==
  /\ hPc = "in"
  /\ \E d \in hTodo :
       /\ NextDevice(d)
       /\ Put(Message("status", d, FALSE))
       /\ hTodo' = hTodo \ {d}
  /\ hPc' = IF hTodo' = {} THEN "rx" ELSE "in"
  /\ UNCHANGED <<outputs, rx, hOut, hOld, hRefresh>>

\* The relay state s after a command; one that was rejected changes nothing.
Obey(s, cmd) ==
  IF cmd.relay \notin Relays THEN s
  ELSE IF cmd.on THEN s \cup {cmd.relay} ELSE s \ {cmd.relay}

\* Mutant: the publication of the command is lost.
HaCommand_NotPublished ==
  /\ hPc = "rx"
  /\ hOut' = IF rx # <<>> /\ Head(rx).relay \in Relays
               THEN NextOutputs(hOut, Obey(hOut.state, Head(rx))) ELSE hOut
  /\ rx' = IF rx = <<>> THEN rx ELSE Tail(rx)
  /\ hPc' = "out"
  /\ UNCHANGED <<outputs, tx, hTodo, hOld, hRefresh>>

\* A command is applied to the relay state read in an earlier iteration.
HaCommand ==
  /\ hPc = "rx"
  /\ IF rx # <<>> /\ Head(rx).relay \in Relays
       THEN /\ hOut' = NextOutputs(hOut, Obey(hOut.state, Head(rx)))
            /\ outputs' = hOut'
       ELSE UNCHANGED <<hOut, outputs>>
  /\ rx' = IF rx = <<>> THEN rx ELSE Tail(rx)
  /\ hPc' = "out"
  /\ UNCHANGED <<tx, hTodo, hOld, hRefresh>>

\* The relay state is read; a refresh first inverts the state reported last.
HaReadOutputs ==
  /\ hPc = "out"
  /\ hOut' = outputs
  /\ hOld' = IF hRefresh THEN Relays \ outputs.state ELSE hOld
  /\ hTodo' = {DeviceOf(r) : r \in (outputs.state \ hOld') \cup (hOld' \ outputs.state)}
  /\ hRefresh' = FALSE
  /\ hPc' = IF hTodo' = {} THEN "loop" ELSE "outPut"
  /\ UNCHANGED <<outputs, tx, rx>>

\* The status of one relay that changed.
HaPutOutput ==
  /\ hPc = "outPut"
  /\ \E d \in hTodo :
       /\ NextDevice(d)
       /\ Put(Message("status", d, RelayOf(d) \in hOut.state))
       /\ hTodo' = hTodo \ {d}
  /\ IF hTodo' = {}
       THEN hOld' = hOut.state /\ hPc' = "loop"
       ELSE UNCHANGED <<hOld, hPc>>
  /\ UNCHANGED <<outputs, rx, hOut, hRefresh>>

HaWork ==
  \/ HaConnected
  \/ HaRegister
  \/ HaRegisterCheck
  \/ HaLoop
  \/ HaPutInput
  \/ HaCommand
  \/ HaReadOutputs
  \/ HaPutOutput

HaStep == HaIdentifies \/ HaIdentified \/ HaNotIdentified \/ (HaWork /\ UNCHANGED devId)

-----------------------------------------------------------------------------
(* Timing.  mqtt_task sleeps for 10 seconds before it connects again.      *)
(* ha_task reads the status at least every 2 seconds unless it waits for   *)
(* room in the transmit queue, so by then it has noticed a disconnection   *)
(* that was published.                                                     *)

\* ha_task waits for room in the transmit queue.
HaBlocked == hPc \in {"reg", "in", "outPut"} /\ Len(tx) = TxCap

\* ha_task is outside of its loops, or knows of no connection to lose.
HaWaits == hPc \in {"init", "ident", "wait"}

HaHasNoticed == HaWaits \/ HaBlocked \/ mqttStat.connected

\* A step of mqtt_task beside ha_task.
MqttStep == ClientStep /\ (mPc = "wait" => HaHasNoticed)

HaTypeOK ==
  /\ hPc \in {"init", "ident", "wait", "reg", "regCheck", "loop", "in", "rx", "out", "outPut"}
  /\ hTodo \in SUBSET Devices
  /\ hOut \in OutputsMsg
  /\ hOld \in SUBSET Relays
  /\ hRefresh \in BOOLEAN
=============================================================================
