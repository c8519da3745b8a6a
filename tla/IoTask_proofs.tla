---------------------------- MODULE IoTask_proofs ----------------------------
(***************************************************************************)
(* Proofs about IoTask, for any number of relays.  IoInv is the inductive  *)
(* invariant behind the two statements on what the pins show.              *)
(***************************************************************************)
EXTENDS IoTask, TLAPS

\* The places between two iterations where the pins belong to the last one.
Settled == {"read", "write", "sleep"}

\* write_relays_once is the only writer: the pins it has passed show the
\* applied state, and outside of it that is all of them.
PinsInv ==
  /\ ioPc # "write" => unwritten = {}
  /\ \A r \in Relays \ unwritten : r \in pins <=> r \in applied

\* The status is read only while the failsafe is armed, and it can be armed
\* only if mqtt_enabled was set at boot.
ArmedInv ==
  /\ ioPc = "stat" => FailsafeArmed
  /\ ioStat.enabled => nvEnabled
  /\ ioPc = "boot" => ~ioStat.enabled

\* Before the loop starts no command has been read or applied.
BootInv == ioPc = "boot" => ~ioSeen /\ applied = {}

\* What the applied state is between two iterations.
AppliedInv ==
  ioSeen /\ ioPc \in Settled =>
    /\ FailsafeArmed => applied = Target(ioStat, ioMsg)
    /\ ~nvEnabled \/ ~def.enabled => applied = ioMsg

\* The inductive invariant.
IoInv == IoTypeOK /\ PinsInv /\ ArmedInv /\ BootInv /\ AppliedInv

-----------------------------------------------------------------------------
\* Initially every variable has its type.
LEMMA IoInitTypeOK == IoAloneInit => IoTypeOK
<1> SUFFICES ASSUME IoAloneInit PROVE IoTypeOK
  OBVIOUS
<1>1. outputs \in OutputsMsg
  <2>1. 0 \in 0..(SeqMod - 1)
    BY ChannelsAssumption
  <2> QED
    BY <2>1 DEF IoAloneInit, ChannelsInit, OutputsMsg
<1>2. mqttStat \in MqttStatusMsg
  BY DEF IoAloneInit, ChannelsInit, MqttStatusMsg
<1> QED
  BY <1>1, <1>2 DEF IoAloneInit, IoInit, IoTypeOK, ChannelsTypeOK, MqttStatusMsg

\* Every step of the thread and of its environment keeps the types.
LEMMA IoNextTypeOK == IoTypeOK /\ [IoAloneNext]_ioAloneVars => IoTypeOK'
<1> SUFFICES ASSUME IoTypeOK, [IoAloneNext]_ioAloneVars PROVE IoTypeOK'
  OBVIOUS
<1> USE DEF IoTypeOK, ChannelsTypeOK, MqttStatusMsg, DefaultState
<1>1. CASE IoStart /\ UNCHANGED channelVars
  <2>1. [enabled |-> nvEnabled, connected |-> FALSE] \in MqttStatusMsg
    BY Zenon
  <2>2. ioStat' \in MqttStatusMsg
    BY <1>1, <2>1, Zenon DEF IoStart
  <2> QED
    BY <1>1, <2>2 DEF IoStart, channelVars
<1>2. CASE IoReadOutputs /\ UNCHANGED channelVars
  BY <1>2 DEF IoReadOutputs, Apply, channelVars, OutputsMsg
<1>3. CASE IoOutputsBusy /\ UNCHANGED channelVars
  BY <1>3 DEF IoOutputsBusy, channelVars
<1>4. CASE IoReadStatus /\ UNCHANGED channelVars
  <2>1. ioStat' \in MqttStatusMsg
    BY <1>4 DEF IoReadStatus
  <2>2. Target(ioStat', ioMsg) \in SUBSET Relays
    BY DEF Target
  <2> QED
    BY <1>4, <2>1, <2>2 DEF IoReadStatus, Apply, channelVars
<1>5. CASE IoWritePin /\ UNCHANGED channelVars
  BY <1>5 DEF IoWritePin, channelVars
<1>6. CASE IoWake /\ UNCHANGED channelVars
  BY <1>6 DEF IoWake, channelVars
<1>7. CASE PublishOutputs
  BY <1>7 DEF PublishOutputs, ioVars
<1>8. CASE PublishStatus
  BY <1>8 DEF PublishStatus, StatusOf, ioVars
<1>9. CASE UNCHANGED ioAloneVars
  BY <1>9 DEF ioAloneVars, channelVars, ioVars
<1> QED
  BY <1>1, <1>2, <1>3, <1>4, <1>5, <1>6, <1>7, <1>8, <1>9 DEF IoAloneNext, IoStep

\* Every variable of io_task and of the channels keeps its type.
THEOREM IoTypeCorrect == IoSpec => []IoTypeOK
BY IoInitTypeOK, IoNextTypeOK, PTL DEF IoSpec

-----------------------------------------------------------------------------
\* The invariant holds when the thread is created.
LEMMA IoInitInv == IoAloneInit => IoInv
BY IoInitTypeOK
DEF IoAloneInit, IoInit, IoInv, PinsInv, ArmedInv, BootInv, AppliedInv, Settled

\* The decision of an iteration, taken for the target it wants to show.
LEMMA ApplyShows ==
  ASSUME NEW target, Apply(target), unwritten = {},
         \A r \in Relays : r \in pins <=> r \in applied,
         pins' = pins
  PROVE  /\ applied' = target
         /\ ioPc' \in {"write", "sleep"}
         /\ ioPc' # "write" => unwritten' = {}
         /\ \A r \in Relays \ unwritten' : r \in pins' <=> r \in applied'
BY DEF Apply

\* Every step keeps the invariant.
LEMMA IoNextInv == IoInv /\ [IoAloneNext]_ioAloneVars => IoInv'
<1> SUFFICES ASSUME IoInv, [IoAloneNext]_ioAloneVars
             PROVE  PinsInv' /\ ArmedInv' /\ BootInv' /\ AppliedInv'
  BY IoNextTypeOK DEF IoInv
<1> USE DEF IoInv, BootInv
<1>1. CASE IoStart /\ UNCHANGED channelVars
  <2>1. /\ ioPc = "boot" /\ ioPc' \in {"read", "dead"}
        /\ UNCHANGED <<nvEnabled, applied, unwritten, ioSeen>>
        /\ ioStat'.enabled => nvEnabled
        /\ pins' = {} \/ pins' = pins
    BY <1>1 DEF IoStart, ArmedInv
  <2> QED
    BY <2>1 DEF PinsInv, ArmedInv, AppliedInv
<1>2. CASE IoReadOutputs /\ UNCHANGED channelVars
  <2>1. CASE FailsafeArmed
    BY <1>2, <2>1 DEF IoReadOutputs, PinsInv, ArmedInv, AppliedInv, Settled, FailsafeArmed
  <2>2. CASE ~FailsafeArmed
    <3>1. Apply(outputs.state) /\ unwritten = {} /\ pins' = pins
      BY <1>2, <2>2 DEF IoReadOutputs, PinsInv
    <3>2. \A r \in Relays : r \in pins <=> r \in applied
      BY <3>1 DEF PinsInv
    <3>3. /\ applied' = outputs.state
          /\ ioPc' \in {"write", "sleep"}
          /\ ioPc' # "write" => unwritten' = {}
          /\ \A r \in Relays \ unwritten' : r \in pins' <=> r \in applied'
      BY <3>1, <3>2, ApplyShows
    <3> QED
      BY <1>2, <2>2, <3>3
      DEF IoReadOutputs, PinsInv, ArmedInv, AppliedInv, FailsafeArmed
  <2> QED
    BY <2>1, <2>2
<1>3. CASE IoOutputsBusy /\ UNCHANGED channelVars
  BY <1>3 DEF IoOutputsBusy, PinsInv, ArmedInv, AppliedInv, Settled, FailsafeArmed, Target
<1>4. CASE IoReadStatus /\ UNCHANGED channelVars
  <2>1. /\ Apply(Target(ioStat', ioMsg))
        /\ unwritten = {} /\ pins' = pins
        /\ UNCHANGED <<nvEnabled, def, ioMsg>>
    BY <1>4 DEF IoReadStatus, PinsInv
  <2>2. \A r \in Relays : r \in pins <=> r \in applied
    BY <2>1 DEF PinsInv
  <2>3. /\ applied' = Target(ioStat', ioMsg)
        /\ ioPc' \in {"write", "sleep"}
        /\ ioPc' # "write" => unwritten' = {}
        /\ \A r \in Relays \ unwritten' : r \in pins' <=> r \in applied'
    BY <2>1, <2>2, ApplyShows
  <2>4. FailsafeArmed /\ nvEnabled /\ def.enabled
    BY <1>4 DEF IoReadStatus, ArmedInv, FailsafeArmed
  <2>5. PinsInv'
    BY <2>3 DEF PinsInv
  <2>6. ArmedInv'
    BY <2>1, <2>3, <2>4 DEF ArmedInv
  <2>7. AppliedInv'
    BY <2>1, <2>3, <2>4 DEF AppliedInv, Target
  <2> QED
    BY <2>3, <2>5, <2>6, <2>7
<1>5. CASE IoWritePin /\ UNCHANGED channelVars
  <2>1. PICK q \in unwritten :
          /\ pins' = IF q \in applied THEN pins \cup {q} ELSE pins \ {q}
          /\ unwritten' = unwritten \ {q}
          /\ ioPc' = IF unwritten = {q} THEN "sleep" ELSE "write"
    BY <1>5 DEF IoWritePin
  <2>2. /\ ioPc = "write"
        /\ UNCHANGED <<nvEnabled, def, ioMsg, ioSeen, ioStat, applied>>
    BY <1>5 DEF IoWritePin
  <2>3. PinsInv'
    BY <2>1, <2>2 DEF PinsInv
  <2>4. ArmedInv'
    BY <2>1, <2>2 DEF ArmedInv, FailsafeArmed
  <2>5. AppliedInv'
    BY <2>1, <2>2 DEF AppliedInv, Settled, FailsafeArmed, Target
  <2> QED
    BY <2>1, <2>3, <2>4, <2>5
<1>6. CASE IoWake /\ UNCHANGED channelVars
  BY <1>6 DEF IoWake, PinsInv, ArmedInv, AppliedInv, Settled, FailsafeArmed, Target
<1>7. CASE PublishOutputs \/ PublishStatus \/ UNCHANGED ioAloneVars
  <2>1. UNCHANGED ioVars
    BY <1>7 DEF PublishOutputs, PublishStatus, ioAloneVars
  <2> QED
    BY <2>1 DEF ioVars, PinsInv, ArmedInv, AppliedInv, FailsafeArmed, Target
<1> QED
  BY <1>1, <1>2, <1>3, <1>4, <1>5, <1>6, <1>7 DEF IoAloneNext, IoStep

\* The inductive invariant holds in every reachable state.
THEOREM IoInvariant == IoSpec => []IoInv
BY IoInitInv, IoNextInv, PTL DEF IoSpec

\* When no write is in progress the pins are the applied state.
LEMMA PinsAreApplied == IoInv /\ ioPc # "write" => pins = applied
BY DEF IoInv, PinsInv, IoTypeOK

\* Between two iterations an armed io_task shows what the status and the
\* command it read call for.
THEOREM PinsShowTarget == IoSpec => []ShownWhenArmed
<1>1. IoInv => ShownWhenArmed
  BY PinsAreApplied DEF IoInv, AppliedInv, Settled, ShownWhenArmed
<1> QED
  BY <1>1, IoInvariant, PTL

\* With MQTT or the default state disabled the pins follow the command.
THEOREM PinsFollowCommand == IoSpec => []ShownWhenNeverArmed
<1>1. IoInv => ShownWhenNeverArmed
  BY PinsAreApplied DEF IoInv, AppliedInv, Settled, ShownWhenNeverArmed
<1> QED
  BY <1>1, IoInvariant, PTL

\* A failsafe that has been disarmed is not armed again before a restart.
THEOREM DisarmedForEver == IoSpec => DisarmIsFinal
<1>1. IoInv /\ [IoAloneNext]_ioAloneVars
        => [ioPc # "boot" /\ ~ioStat.enabled => ~ioStat'.enabled]_ioAloneVars
  <2> SUFFICES ASSUME IoInv, IoAloneNext, ioPc # "boot", ~ioStat.enabled
               PROVE  ~ioStat'.enabled
    OBVIOUS
  <2>1. ioPc # "stat"
    BY DEF IoInv, ArmedInv, FailsafeArmed
  <2>2. ioStat' = ioStat
    BY <2>1 DEF IoAloneNext, IoStep, IoStart, IoReadOutputs, IoOutputsBusy, IoReadStatus,
                IoWritePin, IoWake, PublishOutputs, PublishStatus, ioVars
  <2> QED
    BY <2>2
<1> QED
  BY <1>1, IoInvariant, PTL DEF IoSpec, DisarmIsFinal

\* Once MQTT has published its status, an armed failsafe stays armed.
THEOREM ArmedForEver == IoSpec => ArmedOncePublished
<1> DEFINE P == FailsafeArmed /\ mqttStat.enabled
<1>1. IoInv /\ P /\ [IoAloneNext]_ioAloneVars => P'
  <2> SUFFICES ASSUME IoInv, P, [IoAloneNext]_ioAloneVars PROVE P'
    OBVIOUS
  <2>1. mqttStat'.enabled
    BY DEF IoAloneNext, PublishOutputs, PublishStatus, StatusOf, channelVars, ioAloneVars
  <2>2. def' = def
    BY DEF IoAloneNext, IoStep, IoStart, IoReadOutputs, IoOutputsBusy, IoReadStatus,
           IoWritePin, IoWake, PublishOutputs, PublishStatus, ioVars, ioAloneVars
  <2>3. ioPc # "boot"
    BY DEF IoInv, ArmedInv, FailsafeArmed
  <2>4. ioStat' = ioStat \/ ioStat' = mqttStat
    BY <2>3 DEF IoAloneNext, IoStep, IoStart, IoReadOutputs, IoOutputsBusy, IoReadStatus,
                IoWritePin, IoWake, PublishOutputs, PublishStatus, ioVars, ioAloneVars
  <2> QED
    BY <2>1, <2>2, <2>4 DEF FailsafeArmed
<1> QED
  BY <1>1, IoInvariant, PTL DEF IoSpec, ArmedOncePublished

-----------------------------------------------------------------------------
(* How a failsafe can be lost (io.c 85 to 89 promises the default state    *)
(* when the connection is lost).                                           *)

\* Before MQTT publishes for the first time, the channel holds the message
\* it was defined with.
InitialOrPublished ==
  mqttStat.enabled \/ mqttStat = [enabled |-> FALSE, connected |-> FALSE]

\* Every publisher says "enabled".
LEMMA InitialUntilPublished == IoSpec => []InitialOrPublished
<1>1. IoAloneInit => InitialOrPublished
  BY DEF IoAloneInit, ChannelsInit, InitialOrPublished
<1>2. InitialOrPublished /\ [IoAloneNext]_ioAloneVars => InitialOrPublished'
  BY DEF InitialOrPublished, IoAloneNext, PublishOutputs, PublishStatus, StatusOf, channelVars,
         ioAloneVars
<1> QED
  BY <1>1, <1>2, PTL DEF IoSpec

\* The failsafe is armed by the boot alone, and disarmed by nothing but a
\* read of the message the channel was defined with.
DisarmedByInitialMessage ==
  [][/\ ~FailsafeArmed /\ FailsafeArmed' => ioPc = "boot"
     /\ FailsafeArmed /\ ~FailsafeArmed' =>
          ioPc = "stat" /\ mqttStat = [enabled |-> FALSE, connected |-> FALSE]]_ioAloneVars

\* So the promise is broken only where io_task looks before MQTT has
\* published anything.
THEOREM OnlyInitialDisarms == IoSpec => DisarmedByInitialMessage
<1>1. IoInv /\ InitialOrPublished /\ [IoAloneNext]_ioAloneVars
        => [/\ ~FailsafeArmed /\ FailsafeArmed' => ioPc = "boot"
            /\ FailsafeArmed /\ ~FailsafeArmed' =>
                 /\ ioPc = "stat"
                 /\ mqttStat = [enabled |-> FALSE, connected |-> FALSE]]_ioAloneVars
  <2> SUFFICES ASSUME IoInv, InitialOrPublished, IoAloneNext, ioPc # "boot",
                      FailsafeArmed # FailsafeArmed'
               PROVE  /\ FailsafeArmed /\ ~FailsafeArmed' /\ ioPc = "stat"
                      /\ mqttStat = [enabled |-> FALSE, connected |-> FALSE]
    BY DEF IoInv, ArmedInv, FailsafeArmed
  <2>1. def' = def
    BY DEF IoAloneNext, IoStep, IoStart, IoReadOutputs, IoOutputsBusy, IoReadStatus,
           IoWritePin, IoWake, PublishOutputs, PublishStatus, ioVars
  <2>2. CASE ioStat' = ioStat
    BY <2>1, <2>2 DEF FailsafeArmed
  <2>3. CASE ioStat' # ioStat
    <3>1. IoReadStatus
      BY <2>3 DEF IoAloneNext, IoStep, IoStart, IoReadOutputs, IoOutputsBusy, IoWritePin, IoWake,
                  PublishOutputs, PublishStatus, ioVars
    <3>2. ioPc = "stat" /\ ioStat' = mqttStat
      BY <2>3, <3>1 DEF IoReadStatus
    <3>3. FailsafeArmed
      BY <3>2 DEF IoInv, ArmedInv
    <3> QED
      BY <2>1, <3>2, <3>3 DEF FailsafeArmed, InitialOrPublished
  <2> QED
    BY <2>2, <2>3
<1> QED
  BY <1>1, IoInvariant, InitialUntilPublished, PTL DEF IoSpec, DisarmedByInitialMessage
=============================================================================
