----------------------------- MODULE CedarSwitch -----------------------------
(***************************************************************************)
(* The switch from Home Assistant's commands to the relay pins: mqtt_task, *)
(* ha_task and io_task over the two channels and the two queues, with the  *)
(* broker and the network as their environment.  MQTT is enabled (else     *)
(* there are no MQTT threads), the default relay state is enabled and the  *)
(* REST endpoint is not used.                                              *)
(***************************************************************************)
EXTENDS IoTask, HaTask

CONSTANT Default    \* the default relay state in the settings partition

ASSUME CedarSwitchAssumption == Default \subseteq Relays

VARIABLE
  asked         \* history: the relay state that the commands accepted into
                \*   the receive queue so far call for

vars == <<channelVars, clientVars, haVars, ioVars, asked>>

Init ==
  /\ ChannelsInit
  /\ ClientInit
  /\ HaInit
  /\ IoInit
  /\ portReady /\ nvEnabled
  /\ def = [enabled |-> TRUE, state |-> Default]
  /\ asked = {}

-----------------------------------------------------------------------------
\* io_task has the highest priority and none of the calls between two of its
\* sleeps blocks, except the load from flash before its loop.
OthersRun == ioPc \in {"boot", "sleep"}

Io ==
  /\ IoStep
  /\ UNCHANGED <<channelVars, clientVars, haVars, asked>>

Client ==
  /\ OthersRun
  /\ MqttStep
  /\ asked' = IF Len(rx') > Len(rx) THEN Obey(asked, rx'[Len(rx')]) ELSE asked
  /\ UNCHANGED <<outputs, haVars, ioVars>>

Ha ==
  /\ OthersRun
  /\ HaStep
  /\ UNCHANGED <<mqttStat, link, unread, mPc, subscribed, mConn, nextMid, ioVars, asked>>

Network ==
  /\ LinkBreaks
  /\ UNCHANGED <<outputs, haVars, ioVars, asked>>

Next == Io \/ Client \/ Ha \/ Network

Spec == Init /\ [][Next]_vars

\* The client meets a connection that the broker has lost.
Detects == Client /\ link = "half" /\ link' = "none"

\* io_task runs whenever it is ready.  It sleeps for 250 ms after each of its
\* short iterations, which stop the other threads again and again but leave
\* them time to run (strong fairness: they are ready between iterations).
\* What is sent on a lost connection (at least a PINGREQ every 30 seconds)
\* runs out of TCP retransmissions in the end.
Fairness ==
  /\ WF_vars(Io)
  /\ SF_vars(Client)
  /\ SF_vars(Ha)
  /\ SF_vars(Detects)

FairSpec == Spec /\ Fairness

-----------------------------------------------------------------------------
\* The relay state s after the commands of a queue.
StateAfter(s, cmds) ==
  LET after[n \in 0..Len(cmds)] == IF n = 0 THEN s ELSE Obey(after[n - 1], cmds[n])
  IN after[Len(cmds)]

\* A command in the receive queue is executed once, in the order of arrival
\* and on top of all the others, whatever outages come first; one that found
\* the queue full leaves no trace (ha_mqtt_callback.c 130, ha_task.c 177 to
\* 202).
CommandsNotLost == StateAfter(outputs.state, rx) = asked

\* Once the link stays up and no more commands come, the pins show what the
\* commands asked for, whatever happened before.
PinsObey ==
  \A s \in SUBSET Relays :
    <>[](link = "up" /\ asked = s) => <>[](pins = s)

\* Once the broker stays out of reach, an armed failsafe puts the relays into
\* the default state and keeps them there, queued commands and connections
\* without a CONNACK notwithstanding (io.c 85 to 104), unless mqtt_task has
\* left the last connection over an unread payload and still announces it.
FailsafeEndToEnd ==
  <>[](link \notin {"up", "left"} /\ FailsafeArmed) => <>[](pins = def.state)
=============================================================================
