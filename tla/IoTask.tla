------------------------------- MODULE IoTask -------------------------------
(***************************************************************************)
(* io_task (io.c): the thread that drives the relay pins.  Every 250 ms it *)
(* reads the commanded state from outputs_zbus_topik and, when both MQTT   *)
(* and the "default relay state" function are enabled, the state of the    *)
(* MQTT link, and then writes the pins one after the other.                *)
(*                                                                         *)
(* The thread runs from "boot" to its first "read"; other threads publish  *)
(* between any two of its steps.                                           *)
(***************************************************************************)
EXTENDS Channels

VARIABLES
  portReady,    \* device_is_ready() of the three GPIO ports
  nvEnabled,    \* mqtt_enabled in the settings partition when io_task starts
  def,          \* relays_default_state, loaded by io_init before the thread
  ioPc,         \* where io_task is
  ioMsg,        \* msg.state of the last successful read
  ioSeen,       \* has a read of the commanded state succeeded yet?
  ioStat,       \* its local mqtt_status_msg
  applied,      \* applied_state
  pins,         \* relays whose pin is driven active
  unwritten     \* relays write_relays_once has not written yet

ioVars == <<portReady, nvEnabled, def, ioPc, ioMsg, ioSeen, ioStat, applied,
            pins, unwritten>>

DefaultState == [enabled : BOOLEAN, state : SUBSET Relays]

IoInit ==
  /\ portReady \in BOOLEAN
  /\ nvEnabled \in BOOLEAN
  /\ def \in DefaultState
  /\ ioPc = "boot"
  /\ ioMsg = {}
  /\ ioSeen = FALSE
  /\ ioStat = [enabled |-> FALSE, connected |-> FALSE]
  /\ applied = {}
  /\ pins = {}
  /\ unwritten = {}

\* Mutant: the member enabled of the default state is not looked at.
FailsafeArmed_IgnoresDefault == ioStat.enabled

\* "mqtt function is enabled and we set default relay state if lost".
FailsafeArmed == ioStat.enabled /\ def.enabled

\* Mutant: the default state is built with bits numbered from zero.
Target_ZeroBased(st, msg) ==
  IF st.connected THEN msg ELSE {r - 1 : r \in def.state}

\* Mutant: the state of the link makes no difference.
Target_IgnoresLink(st, msg) == msg

\* What io_task means to show for the status st and the command msg.
Target(st, msg) == IF st.connected THEN msg ELSE def.state

-----------------------------------------------------------------------------
(* The steps of the thread.                                                *)

\* A port that is not ready ends the thread; otherwise the pins start
\* inactive and settings_load_one reads mqtt_enabled.
IoStart ==
  /\ ioPc = "boot"
  /\ IF portReady
       THEN /\ pins' = {}
            /\ ioStat' = [enabled |-> nvEnabled, connected |-> FALSE]
            /\ ioPc' = "read"
       ELSE /\ ioPc' = "dead"
            /\ UNCHANGED <<pins, ioStat>>
  /\ UNCHANGED <<portReady, nvEnabled, def, ioMsg, ioSeen, applied, unwritten>>

\* if (msg.state != applied_state) { applied_state = ...; write_relays_once }
Apply(target) ==
  IF target # applied
    THEN /\ applied' = target
         /\ unwritten' = Relays
         /\ ioPc' = "write"
    ELSE /\ ioPc' = "sleep"
         /\ UNCHANGED <<applied, unwritten>>

\* Mutant: the status is read whether or not the failsafe is armed.
IoReadOutputs_AlwaysStatus ==
  /\ ioPc = "read"
  /\ ioMsg' = outputs.state
  /\ ioSeen' = TRUE
  /\ ioPc' = "stat"
  /\ UNCHANGED <<portReady, nvEnabled, def, ioStat, applied, pins, unwritten>>

\* The read of outputs_zbus_topik succeeds.
IoReadOutputs ==
  /\ ioPc = "read"
  /\ ioMsg' = outputs.state
  /\ ioSeen' = TRUE
  /\ IF FailsafeArmed
       THEN ioPc' = "stat" /\ UNCHANGED <<applied, unwritten>>
       ELSE Apply(outputs.state)
  /\ UNCHANGED <<portReady, nvEnabled, def, ioStat, pins>>

\* The read fails with -EBUSY: the iteration does nothing.
IoOutputsBusy ==
  /\ Contention
  /\ ioPc = "read"
  /\ ioPc' = "sleep"
  /\ UNCHANGED <<portReady, nvEnabled, def, ioMsg, ioSeen, ioStat, applied,
                 pins, unwritten>>

\* Mutant: the decision uses the status of the previous iteration.
IoReadStatus_DecidesFirst ==
  /\ ioPc = "stat"
  /\ \/ ioStat' = mqttStat
     \/ Contention /\ ioStat' = ioStat
  /\ Apply(Target(ioStat, ioMsg))
  /\ UNCHANGED <<portReady, nvEnabled, def, ioMsg, ioSeen, pins>>

\* Mutant: the local message is cleared before a read that may fail.
IoReadStatus_ClearedOnFailure ==
  /\ ioPc = "stat"
  /\ \/ ioStat' = mqttStat
     \/ Contention /\ ioStat' = [enabled |-> FALSE, connected |-> FALSE]
  /\ Apply(Target(ioStat', ioMsg))
  /\ UNCHANGED <<portReady, nvEnabled, def, ioMsg, ioSeen, pins>>

\* The read of mqtt_stat_zbus_topik overwrites the whole local message,
\* its member enabled included; a failed read leaves it as it was.
IoReadStatus ==
  /\ ioPc = "stat"
  /\ \/ ioStat' = mqttStat
     \/ Contention /\ ioStat' = ioStat
  /\ Apply(Target(ioStat', ioMsg))
  /\ UNCHANGED <<portReady, nvEnabled, def, ioMsg, ioSeen, pins>>

\* Mutant: only the first relay is written.
IoWritePin_FirstOnly ==
  /\ ioPc = "write"
  /\ pins' = (pins \ {1}) \cup (applied \cap {1})
  /\ unwritten' = {}
  /\ ioPc' = "sleep"
  /\ UNCHANGED <<portReady, nvEnabled, def, ioMsg, ioSeen, ioStat, applied>>

\* One gpio_pin_set_dt of write_relays_once, in the order of the relays.
IoWritePin ==
  /\ ioPc = "write"
  /\ \E r \in unwritten :
       /\ \A q \in unwritten : r <= q
       /\ pins' = IF r \in applied THEN pins \cup {r} ELSE pins \ {r}
       /\ unwritten' = unwritten \ {r}
       /\ ioPc' = IF unwritten = {r} THEN "sleep" ELSE "write"
  /\ UNCHANGED <<portReady, nvEnabled, def, ioMsg, ioSeen, ioStat, applied>>

\* k_sleep(K_MSEC(250)) ends.
IoWake ==
  /\ ioPc = "sleep"
  /\ ioPc' = "read"
  /\ UNCHANGED <<portReady, nvEnabled, def, ioMsg, ioSeen, ioStat, applied,
                 pins, unwritten>>

IoStep ==
  \/ IoStart
  \/ IoReadOutputs
  \/ IoOutputsBusy
  \/ IoReadStatus
  \/ IoWritePin
  \/ IoWake

-----------------------------------------------------------------------------
(* The other threads, seen from here: any of them may publish any relay    *)
(* state, under a number derived from a copy it read earlier, and the MQTT *)
(* thread reports its link, at any moment.                                 *)

PublishOutputs ==
  /\ outputs' \in OutputsMsg
  /\ UNCHANGED <<mqttStat, ioVars>>

PublishStatus ==
  /\ \E c \in BOOLEAN : mqttStat' = StatusOf(c)
  /\ UNCHANGED <<outputs, ioVars>>

IoAloneInit == ChannelsInit /\ IoInit

IoAloneNext == (IoStep /\ UNCHANGED channelVars) \/ PublishOutputs \/ PublishStatus

ioAloneVars == <<channelVars, ioVars>>

IoSpec == IoAloneInit /\ [][IoAloneNext]_ioAloneVars

\* A thread of priority 2 runs whenever it is ready.  A read can only fail
\* while a preempted thread holds the channel, which releases it as soon as
\* io_task sleeps, so reads do not fail forever.
IoFairness ==
  /\ WF_ioAloneVars(IoStep /\ UNCHANGED channelVars)
  /\ SF_ioAloneVars(IoReadOutputs /\ UNCHANGED channelVars)
  /\ SF_ioAloneVars(IoReadStatus /\ ioStat' = mqttStat /\ UNCHANGED channelVars)

IoFairSpec == IoSpec /\ IoFairness

-----------------------------------------------------------------------------
(* Correctness.                                                            *)

IoTypeOK ==
  /\ ChannelsTypeOK
  /\ portReady \in BOOLEAN
  /\ nvEnabled \in BOOLEAN
  /\ def \in DefaultState
  /\ ioPc \in {"boot", "dead", "read", "stat", "write", "sleep"}
  /\ ioMsg \in SUBSET Relays
  /\ ioSeen \in BOOLEAN
  /\ ioStat \in MqttStatusMsg
  /\ applied \in SUBSET Relays
  /\ pins \in SUBSET Relays
  /\ unwritten \in SUBSET Relays

\* While the failsafe is armed, between two iterations the pins show the
\* default state if the link was down when io_task looked, and the command
\* it read in the same iteration if the link was up (lines 88 to 104).
ShownWhenArmed ==
  ioPc = "sleep" /\ FailsafeArmed /\ ioSeen
    => pins = Target(ioStat, ioMsg)

\* When one of the two functions is disabled the pins follow the command
\* read last, whatever MQTT reports ("not follow for mqtt connection").
ShownWhenNeverArmed ==
  ioPc = "sleep" /\ (~nvEnabled \/ ~def.enabled) /\ ioSeen
    => pins = ioMsg

\* Line 88 reads into the message whose member enabled guards that very
\* read: once it is false, the failsafe stays off until the next boot.
DisarmIsFinal ==
  [][ioPc # "boot" /\ ~ioStat.enabled => ~ioStat'.enabled]_ioAloneVars

\* Only the initial message of the channel can disarm the failsafe: if MQTT
\* has published while io_task is still armed, it stays armed for ever.
ArmedOncePublished ==
  [](FailsafeArmed /\ mqttStat.enabled => []FailsafeArmed)

\* A command that stays, and that the failsafe does not override, is shown
\* on the pins from some moment on.
CommandShown ==
  \A s \in SUBSET Relays :
    portReady /\ <>[](outputs.state = s /\ (FailsafeArmed => mqttStat.connected))
      => <>[](pins = s)

\* While the failsafe is armed and MQTT reports no connection, the default
\* state is shown from some moment on.
DefaultShown ==
  <>[](FailsafeArmed /\ ~mqttStat.connected) => <>[](pins = def.state)

\* What lines 85 to 89 say of the program: with both functions enabled, a
\* connection that is lost for good leaves the relays in the default state.
FailsafeOnLostConnection ==
  portReady /\ nvEnabled /\ def.enabled
    /\ <>[](mqttStat.enabled /\ ~mqttStat.connected)
    => <>[](pins = def.state)
=============================================================================
