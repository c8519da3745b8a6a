------------------------------ MODULE Channels ------------------------------
(***************************************************************************)
(* The zbus channels through which the threads of the firmware exchange    *)
(* the relay command and the state of the MQTT link (zbus_topics.c,        *)
(* zbus_topics.h).  A channel holds one message; a publication overwrites  *)
(* it.  The relay byte of outputs_msg_t is the set of relays that are ON.  *)
(*                                                                         *)
(* Every access in the code passes K_NO_WAIT: it fails at once when the    *)
(* thread that holds the channel's semaphore has been preempted.  A thread *)
(* of a higher priority than some other user of the channel can meet that  *)
(* failure; Contention = FALSE is the system in which it never happens.    *)
(***************************************************************************)
EXTENDS Naturals

CONSTANTS
  NRelays,      \* device_relay_count: relays are numbered 1..NRelays
  SeqMod,       \* outputs_msg_t.seq is counted modulo SeqMod (2^32)
  Contention    \* may a K_NO_WAIT access find the channel held?

ASSUME ChannelsAssumption ==
  /\ NRelays \in Nat \ {0}
  /\ SeqMod \in Nat \ {0}
  /\ Contention \in BOOLEAN

VARIABLES
  outputs,      \* outputs_zbus_topik: the relay state commanded last
  mqttStat      \* mqtt_stat_zbus_topik: what MQTT published last about itself

channelVars == <<outputs, mqttStat>>

Relays == 1..NRelays

OutputsMsg == [seq : 0..(SeqMod - 1), state : SUBSET Relays]

\* mqtt_status_msg_t without its time stamp, which no code reads.
MqttStatusMsg == [enabled : BOOLEAN, connected : BOOLEAN]

\* The initial values given to ZBUS_CHAN_DEFINE.
ChannelsInit ==
  /\ outputs = [seq |-> 0, state |-> {}]
  /\ mqttStat = [enabled |-> FALSE, connected |-> FALSE]

\* The message a read-modify-write of `old` publishes for the relays `s`.
NextOutputs(old, s) == [seq |-> (old.seq + 1) % SeqMod, state |-> s]

\* Every publisher of mqtt_stat_zbus_topik sets enabled to true.
StatusOf(connected) == [enabled |-> TRUE, connected |-> connected]

ChannelsTypeOK ==
  /\ outputs \in OutputsMsg
  /\ mqttStat \in MqttStatusMsg
=============================================================================
