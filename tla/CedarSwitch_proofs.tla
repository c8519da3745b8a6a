------------------------- MODULE CedarSwitch_proofs --------------------------
(***************************************************************************)
(* The whole switch is one of the environments IoTask was proved in, so    *)
(* that what is proved of the relay thread alone holds in it.              *)
(***************************************************************************)
EXTENDS CedarSwitch, IoTask_proofs, HaTask_proofs, NumberLemmas

\* Every variable the MQTT threads use keeps its type.
LEMMA SwitchTypeOK == Spec => []BridgeTypeOK
<1>1. Init => BridgeTypeOK
  BY BridgeInitTypeOK DEF Init
<1>2. BridgeTypeOK /\ [Next]_vars => BridgeTypeOK'
  <2> SUFFICES ASSUME BridgeTypeOK, [Next]_vars PROVE BridgeTypeOK'
    OBVIOUS
  <2>1. CASE Client
    BY <2>1, ClientStepTypeOK DEF Client, MqttStep
  <2>2. CASE Ha
    BY <2>2, HaStepTypeOK DEF Ha, mqttVars
  <2>3. CASE Network
    BY <2>3, LinkBreaksTypeOK DEF Network
  <2>4. CASE Io \/ UNCHANGED vars
    BY <2>4
    DEF Io, vars, channelVars, clientVars, haVars, BridgeTypeOK, ChannelsTypeOK, ClientTypeOK,
        HaTypeOK
  <2> QED
    BY <2>1, <2>2, <2>3, <2>4 DEF Next
<1> QED
  BY <1>1, <1>2, PTL DEF Spec

\* mqtt_task publishes its status as "enabled", or does not publish.
LEMMA ClientPublishes ==
  ASSUME ClientStep
  PROVE  mqttStat' = mqttStat \/ \E c \in BOOLEAN : mqttStat' = StatusOf(c)
<1>1. \A c \in BOOLEAN :
        PublishStat(c) => mqttStat' = mqttStat \/ \E b \in BOOLEAN : mqttStat' = StatusOf(b)
  BY Zenon DEF PublishStat
<1>2. Dropped \/ ConnAck => \E c \in BOOLEAN : PublishStat(c)
  BY DEF Dropped, ConnAck
<1>3. mqttStat' = mqttStat \/ Dropped \/ ConnAck \/ \E c \in BOOLEAN : PublishStat(c)
  BY DEF ClientStep, MConnectFails, MConnects, MInitialInput, MInitialLive, MInput, MReceives,
         MLinkError, MBusy, MLive, MSubscribes, MSubscribeFails, MNothingToSend, MPublishes,
         MPublishFails, MWake
<1> QED
  BY <1>1, <1>2, <1>3

\* Every step of the switch is a step of IoTask with its environment.
LEMMA SwitchStep ==
  BridgeTypeOK /\ BridgeTypeOK' /\ [Next]_vars => [IoAloneNext]_ioAloneVars
<1> SUFFICES ASSUME BridgeTypeOK, BridgeTypeOK', [Next]_vars
             PROVE  IoAloneNext \/ UNCHANGED ioAloneVars
  OBVIOUS
<1>1. CASE Io
  BY <1>1 DEF Io, IoAloneNext
<1>2. CASE Client
  <2>1. UNCHANGED <<outputs, ioVars>>
    BY <1>2 DEF Client
  <2>2. mqttStat' = mqttStat \/ \E c \in BOOLEAN : mqttStat' = StatusOf(c)
    BY <1>2, ClientPublishes DEF Client, MqttStep
  <2> QED
    BY <2>1, <2>2 DEF IoAloneNext, PublishStatus, ioAloneVars, channelVars
<1>3. CASE Ha
  <2>1. UNCHANGED <<mqttStat, ioVars>>
    BY <1>3 DEF Ha
  <2>2. outputs' \in OutputsMsg
    BY DEF BridgeTypeOK, ChannelsTypeOK
  <2> QED
    BY <2>1, <2>2 DEF IoAloneNext, PublishOutputs
<1>4. CASE Network
  BY <1>4 DEF Network, LinkBreaks, ioAloneVars, channelVars
<1>5. CASE UNCHANGED vars
  BY <1>5 DEF vars, ioAloneVars
<1> QED
  BY <1>1, <1>2, <1>3, <1>4, <1>5 DEF Next

\* In the whole switch the relay thread behaves as its own module says.
THEOREM SwitchRunsIoTask == Spec => IoSpec
<1>1. Init => IoAloneInit
  BY DEF Init, IoAloneInit
<1> QED
  BY <1>1, SwitchStep, SwitchTypeOK, PTL DEF Spec, IoSpec

\* So the pins show what the failsafe and the last command call for, and a
\* failsafe is armed or disarmed for good, with the real threads around it;
\* it is disarmed only by a read before mqtt_task has published anything.
COROLLARY SwitchPins ==
  Spec => /\ []ShownWhenArmed /\ []ShownWhenNeverArmed
          /\ DisarmIsFinal /\ ArmedOncePublished /\ DisarmedByInitialMessage
BY SwitchRunsIoTask, PinsShowTarget, PinsFollowCommand, DisarmedForEver, ArmedForEver,
   OnlyInitialDisarms, PTL

-----------------------------------------------------------------------------
(* What the three threads know of the link, and what an iteration of       *)
(* io_task makes of it.                                                    *)

\* The invariant of the link holds around io_task as well.
LEMMA SwitchLinkInv ==
  BridgeTypeOK /\ LinkInv /\ [Next]_vars => LinkInv'
<1> SUFFICES ASSUME BridgeTypeOK, LinkInv, [Next]_vars PROVE LinkInv'
  OBVIOUS
<1>1. CASE Client
  BY <1>1, ClientLinkInv DEF Client
<1>2. CASE Ha
  BY <1>2, HaLinkInv DEF Ha, mqttVars
<1>3. CASE Network
  BY <1>3, LinkBreaksLinkInv DEF Network
<1>4. CASE Io \/ UNCHANGED vars
  BY <1>4
  DEF Io, vars, channelVars, clientVars, haVars, LinkInv, LinkShown, ClosedWhenIdle,
      LossNoticed, Announced, HaWaits, HaBlocked
<1> QED
  BY <1>1, <1>2, <1>3, <1>4 DEF Next

\* Without contention the status that io_task reads is the state of the
\* link, where a connection that mqtt_task left without a word counts as one
\* that is up, and every other end of a connection is published at least ten
\* seconds before the next one.
THEOREM SwitchLink == Spec => []LinkInv
<1>1. Init => LinkInv
  BY LinkInit DEF Init
<1> QED
  BY <1>1, SwitchLinkInv, SwitchTypeOK, PTL DEF Spec

\* Nobody publishes a command within an iteration of io_task, and a status
\* only before it is read: what the iteration shows is not out of date when
\* it ends.
IterationInv ==
  /\ ioPc \in {"stat", "write"} => ioSeen /\ ioMsg = outputs.state
  /\ ioPc = "write" /\ FailsafeArmed /\ ~Contention
       => (ioStat.connected <=> link \in Announced)

\* io_task reads first, decides and then writes; the network can break the
\* link meanwhile but the client will not know.
LEMMA IterationStep ==
  LinkInv /\ IterationInv /\ [Next]_vars => IterationInv'
<1> SUFFICES ASSUME LinkInv, IterationInv, [Next]_vars PROVE IterationInv'
  OBVIOUS
<1>1. CASE IoReadOutputs /\ UNCHANGED <<channelVars, clientVars>>
  BY <1>1 DEF IoReadOutputs, Apply, channelVars, IterationInv, FailsafeArmed
<1>2. CASE IoReadStatus /\ UNCHANGED <<channelVars, clientVars>>
  BY <1>2 DEF IoReadStatus, Apply, channelVars, clientVars, IterationInv, LinkInv, LinkShown
<1>3. CASE IoWritePin /\ UNCHANGED <<channelVars, clientVars>>
  BY <1>3 DEF IoWritePin, channelVars, clientVars, IterationInv, FailsafeArmed
<1>4. CASE IoStart \/ IoOutputsBusy \/ IoWake
  BY <1>4 DEF IoStart, IoOutputsBusy, IoWake, IterationInv
<1>5. CASE Client \/ Ha
  BY <1>5 DEF Client, Ha, OthersRun, ioVars, IterationInv
<1>6. CASE Network
  BY <1>6 DEF Network, LinkBreaks, ioVars, IterationInv, FailsafeArmed, Announced
<1>7. CASE UNCHANGED vars
  BY <1>7 DEF vars, channelVars, clientVars, ioVars, IterationInv, FailsafeArmed
<1> QED
  BY <1>1, <1>2, <1>3, <1>4, <1>5, <1>6, <1>7 DEF Next, Io, IoStep

\* Whenever io_task goes to sleep after an iteration with the failsafe armed
\* and no access that failed, the pins show the state the relays have been
\* commanded to if the client has a connection at that moment, or has left
\* its last one over an unread payload, and the default state otherwise:
\* three threads agree on what is shown.
IterationShowsLink ==
  [][~Contention /\ ioPc # "sleep" /\ ioPc' = "sleep" /\ FailsafeArmed'
       => pins' = IF link' \in Announced THEN outputs'.state ELSE def'.state]_vars

\* The relays show the link as it is, and the command as it stands.
THEOREM IterationsShowLink == Spec => IterationShowsLink
<1>1. Init => IterationInv
  BY DEF Init, IoInit, IterationInv
<1>2. LinkInv /\ IterationInv /\ ShownWhenArmed' /\ [Next]_vars
        => [~Contention /\ ioPc # "sleep" /\ ioPc' = "sleep" /\ FailsafeArmed'
              => pins' = IF link' \in Announced THEN outputs'.state ELSE def'.state]_vars
  <2> SUFFICES ASSUME LinkInv, IterationInv, ShownWhenArmed', Next, ~Contention,
                      ioPc # "sleep", ioPc' = "sleep", FailsafeArmed'
               PROVE  pins' = IF link' \in Announced THEN outputs'.state ELSE def'.state
    OBVIOUS
  <2>1. (IoReadOutputs \/ IoReadStatus \/ IoWritePin) /\ UNCHANGED <<channelVars, clientVars>>
    BY DEF Next, Io, Client, Ha, Network, ioVars, IoStep, IoStart, IoOutputsBusy, IoWake
  <2>2. /\ ioSeen' /\ ioMsg' = outputs'.state
        /\ ioStat'.connected <=> link' \in Announced
    <3>1. CASE IoReadOutputs
      BY <3>1 DEF IoReadOutputs, FailsafeArmed
    <3>2. CASE IoReadStatus
      BY <2>1, <3>2
      DEF IoReadStatus, channelVars, clientVars, IterationInv, LinkInv, LinkShown
    <3>3. CASE IoWritePin
      BY <2>1, <3>3 DEF IoWritePin, channelVars, clientVars, IterationInv, FailsafeArmed
    <3> QED
      BY <2>1, <3>1, <3>2, <3>3
  <2>3. pins' = IF ioStat'.connected THEN ioMsg' ELSE def'.state
    BY <2>2 DEF ShownWhenArmed, Target
  <2> QED
    BY <2>2, <2>3
<1> QED
  BY <1>1, <1>2, IterationStep, SwitchLink, SwitchRunsIoTask, PinsShowTarget, PTL
  DEF Spec, IterationShowsLink

-----------------------------------------------------------------------------
(* Executing a queue of commands, one after the other.                     *)

\* f gives the relay state after each number of commands of the queue.
Runs(s, cmds, f) ==
  f = [n \in 0..Len(cmds) |-> IF n = 0 THEN s ELSE Obey(f[n - 1], cmds[n])]

\* There is such a function.
LEMMA RunExists ==
  ASSUME NEW s, NEW cmds \in Seq(RxMsg)
  PROVE  \E f : Runs(s, cmds, f)
<1> DEFINE Upto(n, g) == g = [i \in 0..n |-> IF i = 0 THEN s ELSE Obey(g[i - 1], cmds[i])]
           D == {n \in Nat : \E g : Upto(n, g)}
<1>1. 0 \in D
  <2>1. Upto(0, [i \in 0..0 |-> s])
    OBVIOUS
  <2> QED
    BY <2>1
<1>2. ASSUME NEW n \in D PROVE n + 1 \in D
  <2>1. PICK g : Upto(n, g)
    OBVIOUS
  <2> DEFINE h == [i \in 0..(n + 1) |-> IF i = n + 1 THEN Obey(g[n], cmds[n + 1]) ELSE g[i]]
  <2>2. \A i \in 0..n : g[i] = IF i = 0 THEN s ELSE Obey(g[i - 1], cmds[i])
    BY <2>1
  <2>3. \A i \in 0..(n + 1) : h[i] = IF i = 0 THEN s ELSE Obey(h[i - 1], cmds[i])
    <3> SUFFICES ASSUME NEW i \in 0..(n + 1)
                 PROVE  h[i] = IF i = 0 THEN s ELSE Obey(h[i - 1], cmds[i])
      OBVIOUS
    <3>1. CASE i = n + 1
      BY <3>1
    <3>2. CASE i # n + 1
      <4>1. i \in 0..n /\ h[i] = g[i] /\ (i # 0 => h[i - 1] = g[i - 1])
        BY <3>2
      <4> QED
        BY <2>2, <4>1
    <3> QED
      BY <3>1, <3>2
  <2>4. Upto(n + 1, h)
    BY <2>3
  <2>5. n + 1 \in Nat
    OBVIOUS
  <2> HIDE DEF Upto, h
  <2>6. \E k : Upto(n + 1, k)
    BY <2>4, Zenon
  <2> QED
    BY <2>5, <2>6
<1>3. Len(cmds) \in D
  <2>1. D \in SUBSET Nat /\ Len(cmds) \in Nat
    OBVIOUS
  <2> HIDE DEF D
  <2> QED
    BY <1>1, <1>2, <2>1, SetInduction
<1> QED
  BY <1>3 DEF Runs

\* And only one.
LEMMA RunUnique ==
  ASSUME NEW s, NEW cmds \in Seq(RxMsg), NEW f, Runs(s, cmds, f), NEW g, Runs(s, cmds, g)
  PROVE  f[Len(cmds)] = g[Len(cmds)]
<1> DEFINE D == {n \in Nat : n <= Len(cmds) => f[n] = g[n]}
<1>1. \A n \in 0..Len(cmds) : /\ f[n] = IF n = 0 THEN s ELSE Obey(f[n - 1], cmds[n])
                              /\ g[n] = IF n = 0 THEN s ELSE Obey(g[n - 1], cmds[n])
  BY DEF Runs
<1>2. 0 \in D
  BY <1>1
<1>3. ASSUME NEW n \in D PROVE n + 1 \in D
  <2> SUFFICES ASSUME n + 1 <= Len(cmds) PROVE f[n + 1] = g[n + 1]
    OBVIOUS
  <2>1. n \in Nat /\ n + 1 \in 0..Len(cmds) /\ n + 1 # 0 /\ (n + 1) - 1 = n
    OBVIOUS
  <2>2. f[n] = g[n]
    OBVIOUS
  <2> QED
    BY <1>1, <2>1, <2>2
<1>4. Len(cmds) \in D
  <2>1. D \in SUBSET Nat /\ Len(cmds) \in Nat
    OBVIOUS
  <2> HIDE DEF D
  <2> QED
    BY <1>2, <1>3, <2>1, SetInduction
<1> QED
  BY <1>4

\* StateAfter is where it ends.
LEMMA StateAfterRun ==
  ASSUME NEW s, NEW cmds \in Seq(RxMsg), NEW f, Runs(s, cmds, f)
  PROVE  StateAfter(s, cmds) = f[Len(cmds)]
<1> DEFINE g == CHOOSE h : Runs(s, cmds, h)
<1>1. StateAfter(s, cmds) = g[Len(cmds)]
  BY DEF StateAfter, Runs
<1>2. Runs(s, cmds, g)
  OBVIOUS
<1> HIDE DEF g
<1> QED
  BY <1>1, <1>2, RunUnique

\* A command behind the others is executed after them.
LEMMA CommandAppended ==
  ASSUME NEW s, NEW cmds \in Seq(RxMsg), NEW c \in RxMsg
  PROVE  StateAfter(s, Append(cmds, c)) = Obey(StateAfter(s, cmds), c)
<1>1. PICK f : Runs(s, cmds, f)
  BY RunExists
<1> DEFINE L == Len(cmds)
           q == Append(cmds, c)
           g == [n \in 0..(L + 1) |-> IF n = L + 1 THEN Obey(f[L], c) ELSE f[n]]
<1>2. /\ q \in Seq(RxMsg) /\ Len(q) = L + 1 /\ L \in Nat
      /\ q[L + 1] = c /\ \A n \in 1..L : q[n] = cmds[n]
  OBVIOUS
<1>3. \A n \in 0..L : f[n] = IF n = 0 THEN s ELSE Obey(f[n - 1], cmds[n])
  BY <1>1 DEF Runs
<1>4. \A n \in 0..(L + 1) : g[n] = IF n = 0 THEN s ELSE Obey(g[n - 1], q[n])
  <2> SUFFICES ASSUME NEW n \in 0..(L + 1)
               PROVE  g[n] = IF n = 0 THEN s ELSE Obey(g[n - 1], q[n])
    OBVIOUS
  <2>1. CASE n = L + 1
    BY <1>2, <2>1
  <2>2. CASE n # L + 1
    <3>1. n \in 0..L /\ g[n] = f[n] /\ (n # 0 => g[n - 1] = f[n - 1] /\ q[n] = cmds[n])
      BY <1>2, <2>2
    <3> QED
      BY <1>3, <3>1
  <2> QED
    BY <2>1, <2>2
<1>5. Runs(s, q, g)
  BY <1>2, <1>4 DEF Runs
<1>6. StateAfter(s, q) = g[L + 1]
  BY <1>2, <1>5, StateAfterRun
<1> QED
  BY <1>1, <1>2, <1>6, StateAfterRun

\* Executing the first command of a queue leaves the rest to be executed.
LEMMA CommandTaken ==
  ASSUME NEW s, NEW cmds \in Seq(RxMsg), cmds # <<>>
  PROVE  StateAfter(Obey(s, Head(cmds)), Tail(cmds)) = StateAfter(s, cmds)
<1>1. PICK f : Runs(s, cmds, f)
  BY RunExists
<1> DEFINE L == Len(cmds)
           q == Tail(cmds)
           g == [n \in 0..(L - 1) |-> f[n + 1]]
<1>2. /\ q \in Seq(RxMsg) /\ Len(q) = L - 1 /\ L \in Nat \ {0}
      /\ Head(cmds) = cmds[1] /\ \A n \in 1..(L - 1) : q[n] = cmds[n + 1]
  OBVIOUS
<1>3. \A n \in 0..L : f[n] = IF n = 0 THEN s ELSE Obey(f[n - 1], cmds[n])
  BY <1>1 DEF Runs
<1>4. f[1] = Obey(s, Head(cmds))
  BY <1>2, <1>3
<1>5. \A n \in 0..(L - 1) :
        g[n] = IF n = 0 THEN Obey(s, Head(cmds)) ELSE Obey(g[n - 1], q[n])
  <2> SUFFICES ASSUME NEW n \in 0..(L - 1)
               PROVE  g[n] = IF n = 0 THEN Obey(s, Head(cmds)) ELSE Obey(g[n - 1], q[n])
    OBVIOUS
  <2>1. CASE n = 0
    BY <1>2, <1>4, <2>1
  <2>2. CASE n # 0
    <3>1. f[n + 1] = Obey(f[n], cmds[n + 1])
      BY <1>2, <1>3, <2>2
    <3>2. g[n - 1] = f[n] /\ q[n] = cmds[n + 1] /\ g[n] = f[n + 1]
      BY <1>2, <2>2
    <3> QED
      BY <2>2, <3>1, <3>2
  <2> QED
    BY <2>1, <2>2
<1>6. Runs(Obey(s, Head(cmds)), q, g)
  BY <1>2, <1>5 DEF Runs
<1>7. StateAfter(Obey(s, Head(cmds)), q) = g[L - 1]
  BY <1>2, <1>6, StateAfterRun
<1>8. g[L - 1] = f[L]
  BY <1>2
<1> QED
  BY <1>1, <1>7, <1>8, StateAfterRun

\* An empty queue changes nothing.
LEMMA NothingQueued == \A s : StateAfter(s, <<>>) = s
<1> SUFFICES ASSUME NEW s PROVE StateAfter(s, <<>>) = s
  OBVIOUS
<1>1. <<>> \in Seq(RxMsg) /\ Len(<<>>) = 0
  OBVIOUS
<1>2. PICK f : Runs(s, <<>>, f)
  BY <1>1, RunExists
<1>3. \A n \in 0..0 : f[n] = IF n = 0 THEN s ELSE Obey(f[n - 1], <<>>[n])
  BY <1>1, <1>2 DEF Runs
<1>4. f[0] = s
  BY <1>3
<1> QED
  BY <1>1, <1>2, <1>4, StateAfterRun

-----------------------------------------------------------------------------
(* No command is lost.                                                     *)

\* What is in the queue brings the commanded state to what was asked for;
\* nobody but ha_task writes the channel, so its copy is the channel.
CommandInv ==
  /\ hOut = outputs
  /\ CommandsNotLost

\* At power-on nothing is queued and nothing is asked for.
LEMMA CommandInit == Init => CommandInv
<1> SUFFICES ASSUME Init PROVE CommandInv
  OBVIOUS
<1>1. outputs = [seq |-> 0, state |-> {}] /\ hOut = outputs /\ rx = <<>> /\ asked = {}
  BY DEF Init, ChannelsInit, HaInit, ClientInit
<1>2. outputs.state = {}
  BY <1>1
<1> QED
  BY <1>1, <1>2, NothingQueued DEF CommandInv, CommandsNotLost

\* mqtt_task puts a command behind the others, or none.
LEMMA ClientQueues ==
  ASSUME BridgeTypeOK, ClientStep
  PROVE  rx' = rx \/ \E cmd \in RxMsg : rx' = Append(rx, cmd)
<1>1. rx' = rx \/ \E cmd \in RxMsg : Enqueue(cmd)
  BY DEF ClientStep, MConnectFails, MConnects, MInitialInput, MInitialLive, MInput, MReceives,
         MLinkError, MBusy, MLive, MSubscribes, MSubscribeFails, MNothingToSend, MPublishes,
         MPublishFails, MWake
<1> QED
  BY <1>1 DEF Enqueue

\* A step of mqtt_task: a command behind the others adds what it asks for.
LEMMA CommandClient ==
  ASSUME BridgeTypeOK, CommandInv, Client PROVE CommandInv'
<1>1. rx \in Seq(RxMsg) /\ UNCHANGED <<outputs, hOut>>
  BY DEF BridgeTypeOK, ClientTypeOK, Client, haVars
<1>2. CASE rx' = rx
  <2>1. asked' = asked
    BY <1>1, <1>2 DEF Client
  <2> QED
    BY <1>1, <1>2, <2>1 DEF CommandInv, CommandsNotLost
<1>3. CASE \E cmd \in RxMsg : rx' = Append(rx, cmd)
  <2>1. PICK cmd \in RxMsg : rx' = Append(rx, cmd)
    BY <1>3
  <2>2. Len(rx') > Len(rx) /\ rx'[Len(rx')] = cmd
    BY <1>1, <2>1
  <2>3. asked' = Obey(asked, cmd)
    BY <2>2 DEF Client
  <2>4. StateAfter(outputs.state, rx') = Obey(StateAfter(outputs.state, rx), cmd)
    BY <1>1, <2>1, CommandAppended
  <2> QED
    BY <1>1, <2>3, <2>4 DEF CommandInv, CommandsNotLost
<1> QED
  BY <1>2, <1>3, ClientQueues DEF Client, MqttStep

\* ha_task executes the first command on the state that all before it left.
LEMMA CommandHa ==
  ASSUME BridgeTypeOK, CommandInv, Ha PROVE CommandInv'
<1>1. rx \in Seq(RxMsg) /\ UNCHANGED asked /\ hOut = outputs
  BY DEF BridgeTypeOK, ClientTypeOK, Ha, CommandInv
<1>2. CASE HaCommand
  <2>1. CASE rx = <<>>
    BY <1>1, <1>2, <2>1 DEF HaCommand, CommandInv, CommandsNotLost
  <2>2. CASE rx # <<>>
    <3>1. rx' = Tail(rx) /\ hOut' = outputs' /\ outputs'.state = Obey(outputs.state, Head(rx))
      <4>1. CASE Head(rx).relay \in Relays
        <5>1. outputs' = NextOutputs(outputs, Obey(outputs.state, Head(rx)))
          BY <1>1, <1>2, <2>2, <4>1 DEF HaCommand
        <5>2. outputs'.state = Obey(outputs.state, Head(rx))
          BY <5>1 DEF NextOutputs
        <5> QED
          BY <1>2, <2>2, <4>1, <5>2 DEF HaCommand
      <4>2. CASE Head(rx).relay \notin Relays
        BY <1>1, <1>2, <2>2, <4>2 DEF HaCommand, Obey
      <4> QED
        BY <4>1, <4>2
    <3>2. StateAfter(outputs'.state, rx') = StateAfter(outputs.state, rx)
      BY <1>1, <2>2, <3>1, CommandTaken
    <3> QED
      BY <1>1, <3>1, <3>2 DEF CommandInv, CommandsNotLost
  <2> QED
    BY <2>1, <2>2
<1>3. CASE ~HaCommand
  <2>1. UNCHANGED <<outputs, rx>> /\ hOut' \in {hOut, outputs}
    BY <1>3 DEF Ha, HaStep, HaIdentifies, HaIdentified, HaNotIdentified, HaWork,
                HaConnected, HaRegister, HaRegisterCheck, HaLoop, HaPutInput, HaReadOutputs, HaPutOutput
  <2> QED
    BY <1>1, <2>1 DEF CommandInv, CommandsNotLost
<1> QED
  BY <1>2, <1>3

\* Whatever the lengths of the queues and the number of relays, each command
\* that was accepted is executed once and in order.
THEOREM NoCommandLost == Spec => []CommandsNotLost
<1>1. BridgeTypeOK /\ CommandInv /\ [Next]_vars => CommandInv'
  <2> SUFFICES ASSUME BridgeTypeOK, CommandInv, [Next]_vars PROVE CommandInv'
    OBVIOUS
  <2>1. CASE Io \/ Network \/ UNCHANGED vars
    <3>1. UNCHANGED <<outputs, hOut, rx, asked>>
      BY <2>1 DEF Io, Network, LinkBreaks, vars, channelVars, clientVars, haVars
    <3> QED
      BY <3>1 DEF CommandInv, CommandsNotLost
  <2> QED
    BY <2>1, CommandClient, CommandHa DEF Next
<1>2. CommandInv => CommandsNotLost
  BY DEF CommandInv
<1> QED
  BY <1>1, <1>2, CommandInit, SwitchTypeOK, PTL DEF Spec

\* End to end: at the same moments, with a connection, what the pins show
\* lacks exactly the commands that still wait in the receive queue.
PinsLackOnlyQueued ==
  [][~Contention /\ ioPc # "sleep" /\ ioPc' = "sleep" /\ FailsafeArmed' /\ link' \in Announced
       => StateAfter(pins', rx') = asked']_vars

\* Without a command in the queue the pins show what was asked for.
COROLLARY PinsShowWhatWasAsked == Spec => PinsLackOnlyQueued
<1>1. CommandsNotLost'
        /\ [~Contention /\ ioPc # "sleep" /\ ioPc' = "sleep" /\ FailsafeArmed'
              => pins' = IF link' \in Announced THEN outputs'.state ELSE def'.state]_vars
        => [~Contention /\ ioPc # "sleep" /\ ioPc' = "sleep" /\ FailsafeArmed'
              /\ link' \in Announced => StateAfter(pins', rx') = asked']_vars
  BY DEF CommandsNotLost
<1> QED
  BY <1>1, NoCommandLost, IterationsShowLink, PTL DEF IterationShowsLink, PinsLackOnlyQueued
=============================================================================
