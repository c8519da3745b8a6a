# Formal model of the Cedar switch firmware

The repository is the Zephyr firmware of a three relay, three input power switch.
It drives the relays from three sources (a REST interface, Home Assistant over
MQTT, and a stored default state for when MQTT is lost), keeps accounts and sessions
for its web interface, stores its configuration in flash and takes uploads of a web UI
onto a LittleFS partition. This directory holds TLA+ modules for the parts that carry
logic, TLC configurations that check them on small instances, and TLAPS proofs of almost
every safety property the configurations check. Line numbers refer to files below `src/src/`.

## Inventory

| Component | Source | State it keeps | Operations | What makes it correct |
|---|---|---|---|---|
| Channels and queues | `zbus_topics.c/.h`, `msgq_topiks.c` | last message of `outputs_zbus_topik`, `mqtt_stat_zbus_topik`, `inputs_zbus_topik`; two queues of 16 messages | publish, read, put, peek, get | a channel is one register; a queue loses nothing it accepted |
| Relay driver `io_task` | `io/io.c` | default state, local copies of both messages, applied state, pins | read, decide, write pins, sleep 250 ms | pins show the command, or the default state when MQTT is lost |
| MQTT client `mqtt_task` | `mqtt/ha_mqtt.c`, `ha_mqtt_callback.c`, `ha_mqtt_adapter.c` | library client, `mqtt_subscrabed`, local status, next packet identifier | resolve, connect, input, keep-alive, subscribe, publish, retry after 10 s | the published status is the link's; nothing unsent is dropped; it reconnects |
| Bridge `ha_mqtt_task` | `mqtt/ha_task.c` | copy of the relay state, state reported last, refresh timer | register devices, execute commands, report changes | Home Assistant and the relays agree in the end |
| Topics and payloads | `mqtt/ha_mqtt_helpers.c` | device identifier | format, parse | a command names an existing relay or is rejected |
| REST relay state | `web/REST_endpoints/relays_state.c` | none | read and write `outputs_zbus_topik` | a request is one atomic change |
| Accounts | `web/authentication.c`, `web_user_mgmt.c` | table in RAM and in flash | initialise, list, add, delete | nobody is locked out, deletions and additions are durable |
| Sessions | `web/authentication.c`, `login.c` | ten slots with token and expiry | login, check, clear | valid sessions are honoured, expired ones are not |
| Configuration | `default_relay_state.c`, `mqtt_settings.c`, `settings_status.c`, `http_common.c`; `io_init`, `app_mqtt_ha_client_init` | flash keys, RAM copies, "reboot required" | save key by key, load at boot | what was answered is stored, what differs from RAM is reported |
| Web UI upload | `webui_upload.c`, `http_upload` in `http_common.c` | static buffer and cursor, file contents | receive parts, truncate, open, append | a 200 means the file holds what was sent |
| Web UI directories | `webui_mkdir.c`, `webui_delete.c`, `littlefs/filesystem_helpers.c` | directory tree | mkdir, delete everything | `/lfs/www` always exists; a 200 means everything is gone |
| Boot and network | `main.c`, `test_functions.c` | none of its own | load settings, start drivers, create the page; start server and MQTT on an address | later parts find what earlier ones prepared |
| Reboot endpoint | `system_reboot.c` | none | sleep 5 s in the HTTP thread, reset | nothing in progress becomes inconsistent |
| File system mount | `littlefs/littlefs_mount.c` | none of its own | mount, or format and mount | what later parts need exists after every boot |
| HTTP set-up, static pages, diagnostics, display | `http_server_init.c`, `static_resources.c`, `diag_report.c`, `display.c` | none | calls into Zephyr | not modelled, see the end |

**Interaction.** Four kinds of threads matter. `io_task` (priority 2), `mqtt_task` (4) and
`ha_mqtt_task` (5) are preemptive; the HTTP server thread is cooperative and handles
requests one by one. `io_task` only reads channels. `mqtt_task` is the only publisher
of `mqtt_stat_zbus_topik`: the MQTT event handler runs inside the library calls that thread
makes. REST and `ha_mqtt_task` both write `outputs_zbus_topik`; `mqtt_task` and
`ha_mqtt_task` exchange messages over the two queues. An IPv4 address event (a thread of the
network stack) starts the HTTP server, loads accounts and MQTT settings, and creates the two
MQTT threads.

```
 REST --write--> outputs_zbus_topik --read--> io_task --> pins
                   ^ |                           ^
            write  | v read                      | read
              ha_mqtt_task <--read-- mqtt_stat_zbus_topik
                   | ^                           ^ publish
          TX queue v | RX queue                  |
                 mqtt_task <==== broker ==== Home Assistant
```

**What is hard.** Every channel access passes `K_NO_WAIT` and almost no result is checked.
`ha_mqtt_task` modifies a copy of the relay state it read an iteration earlier. A put on the
transmit queue waits for ever. A broken TCP connection is noticed late, and what was sent on
it is lost. Flash is written key by key, table by table and directory by directory, and power
may go at any point. Buffers and cursors are static and outlive a request. The `hazards` of
`PROJECT.json` list these places line by line with the properties that cover them.

## Modules

`EXTENDS` composes: the variables of a component are declared in its module and its actions
say what they leave unchanged; a composing module adds the interleaving.

* **Channels**: the two channels as registers. `Contention` says whether a `K_NO_WAIT`
  access may find the channel's semaphore taken. The relay byte is the set of relays that are
  on.
* **IoTask** (`EXTENDS Channels`): `io_task`. `IoStart` is lines 50-72, `IoReadOutputs` and
  `IoOutputsBusy` the first read, `IoReadStatus` the second read with the decision, one `IoWritePin`
  per relay, `IoWake` the end of the sleep. `IoSpec` composes the thread with an environment
  that publishes anything at any moment, so what is shown about it holds in the whole system.
  `FailsafeArmed` is the negation of the condition of line 79.
* **MqttClient** (`EXTENDS Channels`): `mqtt_task`, its event handler, the send pump, and the
  library as the code uses it. `link` is the library's client: `none`, `tcp`
  (connected, no CONNACK), `up`, `half` (the broker is gone and the client does not know), or `left`: `mqtt_task` has left its loop
  over a payload it could not read and will not use the connection again (`unread`, `MBusy`; see "What the violations say").
  `mPc` follows the two loops: `input1`/`live1` is the wait for the CONNACK, whose 100 iterations are
  abstracted to "may end at any iteration"; `input2`/`live2`/`work` is the main loop. `devId` is
  `ha_mqtt_dev_identifier`: absent, cut short or whole. `mqtt_task` rewrites it in one step, since it has the higher
  priority of the two threads that do.
* **HaTask** (`EXTENDS MqttClient`): `ha_mqtt_task`, one action per place where another
  thread can run. `HaIdentifies` and `HaIdentified` are `ha_mqtt_init`, whose `sprintf`s leave the identifier cut short in
  between, and `HaNotIdentified` is its failure, which line 95 ignores (`IdFails`). `hTodo` holds the devices the current loop has still to queue. Input channels
  never change because nothing publishes them, so inputs are queued by the refresh alone. The
  refresh timer is a choice in every iteration. `HaHasNoticed` is the one assumption on timing: `mqtt_task` sleeps 10 s
  before it connects again, and `ha_mqtt_task` reads the status at least every 2 s unless a put blocks it, so by then it
  has seen a published disconnection. `MqttStep` is a step of `mqtt_task` under that assumption.
* **HaBridge** (`EXTENDS HaTask`): both threads, REST, link failures and the broker. `registered` and `view` are what the
  broker and Home Assistant were told; a message that leaves the transmit queue is received when the link is `up` and lost when it is
  `half`. `lost`, `stuck` and `silent` are history variables.
* **RelayRegister**: the abstract specification of the relay channel: a register with
  a counter, a client that fetches a copy and applies commands to the copy, and other writers. `HaBridge` instantiates it
  with `outputs`, `hOut` and `Rest` (`RegisterImplemented`). It allows a command to overwrite what another
  writer did after the fetch, since the code does (`ha_task.c:194`); without other writers it implies
  `AtomicCommands`.
* **CedarSwitch** (`EXTENDS IoTask, HaTask`): the switch from the broker's commands to the pins, the three threads over the same channels and
  queues. MQTT and the default state are enabled, REST is not used. `OthersRun`: `io_task` has the highest priority
  and does not block between two sleeps, so the other threads run only while it sleeps or loads from flash. `asked` is the
  history of the accepted commands.
* **WebAccess** (`EXTENDS WebUsers, WebSessions`): access to the web interface. **WebUsers** is the table of
  accounts in RAM and flash, where saves and loads may fail; **WebSessions** is the table of sessions and the clock.
  Each request of the cooperative HTTP thread is one step. `WebAccess` joins them where the code does:
  `AuthenticationInit`, called at every IPv4 address event, reloads the accounts and clears the sessions; a
  login needs an account; a reset loses both tables. Tokens are numbered as they are issued, so two are never equal.
* **SessionRegistry**: the abstract specification of the sessions: the set of tokens that are honoured, without slots. A login
  adds its token and may drop one only if enough others are as young; the end of the lifetime removes it; nothing brings one back. `WebAccess`
  instantiates it with the tokens that `check_token_valid` accepts (`RegistryImplemented`).
* **WebFiles** (`EXTENDS WebUpload, WebTree`, which both `EXTENDS WebStore`): **WebStore** is the tree of paths with the
  contents of the files, the LittleFS calls on it and what a boot makes of it: `Mounted` is `mount_or_mkfs`, which formats a partition
  it cannot mount, `BootTree` is `/lfs/www` and the page. **WebUpload** is one request at a time, its
  body in parts, then `Truncate`, `Open` and `Write` as the three flash operations of `http_upload`. `FlashFails` lets the `fs_unlink`, `fs_sync` and `fs_close` fail whose results
  `http_upload` ignores; the history `ignored` says which did. **WebTree** is
  mkdir and the recursion of `fs_delete_tree` as a stack; `AfterDir` is lines 71-87: on success of the inner call the
  *outer* directory is unlinked, and the loop is left. `WebFiles` lets other requests run between two parts of a body but not
  inside `http_upload` or a deletion (one server thread), and a reset between any two flash operations.
* **Settings**: the configuration. A request's body comes in pieces into a static buffer (`Piece`, `Overflow`, `Abort`),
  the last piece sets the flag, parses and starts the saves (`Post`), each key's save is a step of its own (`SaveOne`), and the
  answer is 200 or, for settings too long to be repeated, 500 (`Answer`). Parsing yields what the request meant if the buffer held only its own pieces, and
  anything otherwise. `IoLoad` is one key of `io_init`, `IoTaskLoad` the copy of `mqtt_enabled` that `io_task` loads for itself, `IpEvent`
  the load by `app_mqtt_ha_client_init`, which starts the MQTT thread. `IoTaskReads` is `io.c:88`: until `MqttPublishes` the whole initial message, with `enabled = false`, replaces that
  copy. Pieces for the two endpoints may come in turn from two clients. `Reboot` keeps the HTTP thread busy until `PowerOff`, which may also come at any other moment.
* **IoTask_proofs, HaTask_proofs, HaBridge_proofs, CedarSwitch_proofs, WebAccess_proofs, WebFiles_proofs, Settings_proofs,
  NumberLemmas**: the theorems, see "Proofs".

### How code maps to steps

A step is what runs between two points where another thread, an interrupt of power or a
failure can be seen. A request of the HTTP thread is one step where it touches only RAM and one table,
and several steps where it makes several flash operations. `ha_mqtt_task` has the lowest
priority among the users of its channels: nobody it could find inside a channel is ever preempted by it, so
its own `K_NO_WAIT` accesses do not fail. `io_task`, the event handler and REST can preempt such a user, so theirs
may fail under `Contention`. In REST, the read and the publication run without preemption, so they
fail together.

## Runs

| Run | Bounds | What it shows |
|---|---|---|
| `IoTask` | 2 relays, contention | `ShownWhenArmed`, `ShownWhenNeverArmed`: pins between iterations; `DisarmIsFinal`, `ArmedOncePublished`: only the channel's initial message can disarm the failsafe, and then for ever; `CommandShown`, `DefaultShown`: liveness |
| `IoTaskFailsafe` (violation) | 1 relay | the failsafe is lost when the first status read comes before MQTT's first publication |
| `HaBridge` | 1 relay, 1 input, queues of 1, no contention, fair | `StatusMatchesLink`; `OpenConnectionNotForgotten`: `client_init` meets no connection that works, except over an unread payload; `NoStatusAfterPartialRegistration`; liveness: `HomeAssistantConverges`, `EventuallyRegistered`, `HaKeepsServing` |
| `HaBridgeBusy` | 1 relay, TX 2, RX 1, contention, the chip's identifier may be unreadable | `OldIsReported`: change detection compares with what Home Assistant was told; `QueueKeepsUnsent`; `TopicsAreWhole`: no message or subscription is made from a part of the identifier; `RegisterImplemented`: refinement of `RelayRegister` (only the theorem exercises several relays and the counter) |
| `HaBridgeSeq` (violation) | 2 relays, counter modulo 8 | two different messages carry one number |
| `CedarSwitch` | 1 relay, no input, queues of 1, default state on, no contention, fair | `CommandsNotLost`: each accepted command is executed once and in order; `IoSpec`: the relay thread behaves as specified alone; liveness: `PinsObey` (the pins show what was asked for once the link stays up), `FailsafeEndToEnd` (they show the default state once the broker stays out of reach, unless the last connection was left over an unread payload) |
| `WebAccess` | 2 slots, 2 names and the empty one, 2 passwords, failing flash; 2 sessions, lifetime 2, clock to 4, 4 logins | `SomebodyCanLogIn`, `ListedIsEffective`, `DeletedIsGone`, `AddedIsKept`, `LiveUnlessSuperseded`; `RegistryImplemented`: refinement of `SessionRegistry` |
| `WebAccessUnique` (violation) | 2 slots, flash works | a name can be stored twice |
| `WebFiles` | 2 names, depth 2, files to 2 units, buffer of 2, full flash, ignored errors (a failed unlink keeps files of 1 unit), a partition that may be corrupted | `SizeBounded`, `CleanUploadIsExact`, `AnsweredSizeIsNext`, `RootIsThere`, `DeletedMeansEmpty`, `DeletionProgresses` |
| `WebFilesTruncate` (violation) | the same, flash has room and no ignored errors | the cursor survives a request |
| `WebFilesDelete` (violation) | the same, flash has room and no ignored errors | a deletion stops after the first subdirectory |
| `Settings` | 2 keys of the default state, 1 of MQTT, bodies of 2 pieces, failing flash | `RebootReported` and `AppliedAfterReboot`, both but for `io_task`'s copy once `io.c:88` has overwritten it; `AnsweredIsStored` |

**Why the bounds are enough.** Two relays are needed where pins are written one by one and where a
command could disturb the other relay; elsewhere relays do not interact and one shows every interleaving of the
threads. A queue of one or two is full, empty and in between with one or two messages per loop, which is
what capacity 16 can do with six devices; the interesting case, a put that blocks through an outage, happens. The packet
counter wraps at once with `MidMod = 2`. Two account slots give a free slot before, behind and beside an
account. `DeletedIsGone` needs this bound: with three slots or more, the duplicates of
`WebAccessUnique` survive the deletion of one of them. Two sessions give ties and evictions; four logins reuse every
slot twice. A buffer and files of two units reach both sides of both limits (offset 2 with a body of 1, an old body of 1 or 2 before
a new one). One unit of data suffices since no property of the passing run tells two contents of equal length apart by
anything but their length: uploads append whole buffers and never mix data. Depth two gives `fs_delete_tree` an outer, a
middle and an inner call (`/lfs/www`, a directory, a directory in it). Two keys of the default state have a save before and one after the cut; the saves of the MQTT
settings are the same action, so their one key, `mqtt_enabled`, is the one that two threads load. `CedarSwitch` has one relay
because the order of commands for one relay is what matters, a receive queue of one so that it is empty or full and commands are dropped (the order of several commands in a longer queue is the theorem `NoCommandLost`),
and no input because inputs only add messages to the transmit queue; the default state is the opposite of the relay's first state.
`MaxKept` = 1 bounds the file that a failed unlink keeps in `WebFiles`:
one unit and a body of two exceed the limit of two, and a file that is too long can no longer be appended to. The theorems below remove these bounds for all safety properties.

**Deadlock** is checked in every run.

**Fairness.** `IoTask`: weak fairness of the thread, which has the highest priority of all; strong fairness of its
successful reads, since a semaphore it finds held is released as soon as it sleeps. `HaBridge`: weak
fairness of both threads; strong fairness of an iteration with the refresh, whose timer passes again and again. `CedarSwitch`: weak
fairness of `io_task`, and strong fairness of the other two, which `io_task` stops in every iteration but which are ready and run in each of
its sleeps of 250 ms; strong fairness of the detection of a dead connection, since what is sent on it, a PINGREQ every 30 s at least, runs out of TCP
retransmissions (the library itself does not count missing PINGRESPs). Neither
the network nor a command is assumed: the liveness properties say "once the link stays up" in their antecedents. `EventuallyRegistered`
also excludes `stuck`, the case in which a put blocked `ha_mqtt_task` through the whole outage and it never saw the
connection was a new one; the broker then keeps the retained configurations it has.

**History variables** (`ioSeen`, `lost`, `stuck`, `silent`, `asked` and `sent`, `reply`, `drift`, `issued`, `answer`, `stale`, `old`,
`ignored`, `before`, `deleted`, `posted`, `faulty`, `overwritten`) record what the properties speak of; no step of the program depends on them
(`Parsed` uses `sent` and `asked` to say what a body is; the numbers of tokens and the bound on logins use the length of `issued`).

## What the violations say

Five runs show that the program does not do what a text of the repository says; each is a finding in
`PROJECT.json` with the quotation. In short: (1) the failsafe disarms itself when `io_task` reads the
channel's initial message (`io.c:88`); (2) the counter of `outputs_msg_t` is not unique, and the state a REST
request wrote in between is overwritten (`ha_task.c:194`); (3) account names can be stored twice
(`authentication.c:313`); (4) uploads carry the bytes of earlier uploads (`webui_upload.c:48`); (5) the recursive
deletion stops early (`filesystem_helpers.c:83`).

Four disagreements are plain from the text and have no run of their own:

* **A payload that is not read.** `ha_mqtt_callback.c:99` promises "полное чтение payload (+drain)" (complete reading of the payload, with drain), but
  both loops end at the first `mqtt_read_publish_payload` that finds nothing yet (lines 110 and 122), since that call does not wait. With the rest
  still in the socket the next `mqtt_input` returns `-EBUSY` without an event, `mqtt_task` leaves its loop without `mqtt_disconnect` (`ha_mqtt.c:190-194`), and the status stays
  `connected` for at least ten seconds, and for as long as the name is not resolved or no connection succeeds: an armed `io_task` does not show the default state although there is no connection
  in use. The models contain this (`MReceives`, `MBusy`, link `left`); `StatusMatchesLink`, `OpenConnectionNotForgotten`, `NoStatusAfterPartialRegistration` and `FailsafeEndToEnd` name it as their one exception, so nothing
  else has this effect. `ha_mqtt_task` may also miss the reconnection that follows: `silent` marks the case in which it was registering.
* **`io_task`'s copy.** `io.c:88` also means that after an ordinary boot with both functions stored as enabled `io_task` may work with `enabled = false` while flash holds `true` and no reboot is
  reported as required. This is the first violation seen from the configuration; `InRam` in `Settings` leaves the copy out once it is overwritten.
* `authentication.h:16` documents the cookie `session=<token>` while `authentication.c:226` looks for `session_token=`.
* `test_functions.c:120` speaks of overwriting while line 121 opens `index.html` without truncating it, so a boot leaves the tail of a longer page (`WithPage` in `WebStore`).

Other behaviours the models contain and no text denies: under contention a lost DISCONNECT publication
lets every thread believe in the old link (hence `~Contention` in `StatusMatchesLink` and
`NoStatusAfterPartialRegistration`); statuses queued before an outage leave first on the new connection; a command
that finds the receive queue full is acknowledged and dropped; any load error at boot, not only a missing key, overwrites a stored
default relay state (`io.c:114-133`); an upload is answered with 200 and its size although `fs_sync` or `fs_close` failed and nothing may be stored (`http_common.c:219-220`), and is appended to the old file, beyond
`MAX_SIZE` even, when the `fs_unlink` of line 158 failed: `CleanUploadIsExact`, `AnsweredSizeIsNext` and `SizeBounded` say that these are the only exceptions and what each leaves; `ha_mqtt_init` may fail on the chip's identifier, which `ha_task.c:95` ignores, and
messages are then built from no identifier until `mqtt_task` has set it (`TopicsAreWhole`).

## Proofs

Each theorem holds for every value of the constants that the named assumptions of the modules allow (positive numbers of relays, slots, keys, capacities, a
packet counter of two values or more, any `Contention`, `IdFails`, `FlashFails`, `FlashFull`, `MountFails`), except where the table says more.

| Module | Theorem | States |
|---|---|---|
| `IoTask_proofs` | `IoTypeCorrect`, `PinsShowTarget`, `PinsFollowCommand`, `DisarmedForEver`, `ArmedForEver` | `IoTypeOK`, `ShownWhenArmed`, `ShownWhenNeverArmed`, `DisarmIsFinal`, `ArmedOncePublished` |
| | `OnlyInitialDisarms` | the failsafe is armed by a boot alone and disarmed only by a read of the channel's initial message |
| `HaBridge_proofs` | `BridgeTypeCorrect`, `StatusIsLink`, `ConnectionKept` | `TypeOK`, `StatusMatchesLink`, `OpenConnectionNotForgotten`, the last two with their exception for an unread payload |
| | `RegistrationRepeated`, `UnsentIsKept`, `WholeTopics` | `NoStatusAfterPartialRegistration`, `QueueKeepsUnsent`, `TopicsAreWhole` |
| | `ChannelIsRegister`, `CommandsAreAtomic` (without REST) | `RegisterImplemented`, `Register!AtomicCommands` |
| | `NoChangeMissed` | `OldIsReported` |
| | `IterationsReport` | what Home Assistant knows or will know at the end of an iteration is the state the iteration has read, except for lost statuses |
| | `OnlyHalfOpenLoses`, `NoChangeMissedAtAll` (if the link is never `half`) | a status is lost only on a half-open connection; without one `OldIsReported` has no exception |
| | `NumbersIdentifyCommands` (without REST, counter of two values or more) | `SeqIdentifiesMessage`, false with REST |
| `CedarSwitch_proofs` | `SwitchRunsIoTask`, `SwitchPins` | `IoSpec`; so the theorems of `IoTask_proofs` hold in the whole switch |
| | `SwitchLink`, `IterationsShowLink`, `PinsShowWhatWasAsked` | `LinkInv` in the switch; what the pins show at the end of an iteration of an armed `io_task` without contention: the command if a connection is announced (up, half open or left over an unread payload), else the default state; the command, up to what is still queued, is what was asked for |
| | `NoCommandLost` | `CommandsNotLost` |
| `WebAccess_proofs` | `WebTypeCorrect`, `NobodyLockedOut`, `ListIsTruthful`, `AdditionsAreKept` | `TypeOK`, `SomebodyCanLogIn`, `ListedIsEffective`, `AddedIsKept` |
| | `DeletionsAreFinal` (`MaxUsers <= 2`; `MAX_USERS` is 2, `settings_topics.h:40`) | `DeletedIsGone`, false for three slots |
| | `DeletionsAreFinalIfUnique` (if `NamesAreUnique` holds throughout), `NamesUniqueWithoutHoles` (flash works, no free slot before an account) | `DeletedIsGone` and `NamesAreUnique` for any number of slots |
| | `NothingStaleIsAccepted`, `SessionsAreHonoured` | `AcceptedIsFresh`, `LiveUnlessSuperseded` |
| | `SessionsAreRegistry`, `RefusedForEver` | `RegistryImplemented`; a token refused once is refused until the table is cleared |
| `WebFiles_proofs` | `FilesTypeCorrect`, `FilesAreBounded`, `UploadsAreExact`, `SizesAreTrue`, `RootIsKept`, `DeletionsAreTruthful` | `TypeOK`, `SizeBounded`, `CleanUploadIsExact`, `AnsweredSizeIsNext`, `RootIsThere`, `DeletedMeansEmpty` |
| | `DeletionsProgress`, `DeletionsEnd` | `DeletionProgresses`; every step while a deletion runs lowers `Effort`, a natural number |
| | `TruncatesUnlessStale` (in states with `stale = 0` and no ignored error), `CompleteWithoutDirectories` (while `/lfs/www` has no directory in it) | `TruncateSemantics`, `DeletionIsComplete`, both false without the condition |
| `Settings_proofs` | `SettingsTypeCorrect`, `AnswersAreKept`, `RebootIsReported`, `RebootApplies` | `TypeOK`, `AnsweredIsStored`, `RebootReported`, `AppliedAfterReboot` |
| | `CutsLeavePrefix` | after a power cut the keys the loop has passed are new and all others old, except keys that an earlier cut or failure left unknown |
| | `NothingLostBetweenRequests` (flash works, power is cut only between requests) | `AnsweredIsStored` and `AppliedAfterReboot` for every key; of `io_task`'s copy the latter still speaks only until it is overwritten |

Hardly any of these properties is inductive as it stands. What carries them:

* **The relay thread.** The properties speak of the moment between two iterations, and the pins come from a decision several steps back. `IoInv`
  adds the links of that chain: the pins `write_relays_once` has passed show `applied_state` (`PinsInv`), `applied_state` is the target of the messages read last
  unless a read is half done (`AppliedInv`), the status is read only while the failsafe is armed (`ArmedInv`).
* **The bridge.** `LinkInv` (in `HaTask_proofs`) ties the published status to the link (`LinkShown`), the link to the program counter of `mqtt_task` (`ClosedWhenIdle`), and both to `ha_mqtt_task`:
  before a connection is opened after a loss that was published it has noticed that loss or is blocked in a put (`LossNoticed`), and, as long as no connection was left without a report (`silent`), a registration left early happens without a connection
  (`PartialIsOffline`). `BridgeInv` adds the types and the identifier, which is never cut short outside `ha_mqtt_init` and absent after it only if that may fail (`IdentifierSet`). The refinement needs that `hOut` and the channel have their types, nothing more. `OldInv`, for `NoChangeMissed`, says
  which statuses of the current loop are still to be queued while `hOld` is half updated, and what the last status of a relay in the queue is after a put and after a removal. `SilentInv`, for
  `IterationsReport`, adds that a relay never reported is on, as `outputs_state_old` is at the start. `UnnoticedWhenBlocked` says that the timing assumption
  `HaHasNoticed` leaves two ways only to miss a reconnection: a put blocked on the full transmit queue, and a connection left without a report.
* **The switch.** `CommandInv` adds that nobody but `ha_mqtt_task` writes the relay channel, so the copy is the channel. That a queue with one command more leads to one `Obey` more is
  an induction over the queue. `IterationsShowLink` joins three threads: `LinkInv`, shown again for the composed switch, says that the status is the link or the one left over an unread payload, `IterationInv` that what
  an iteration has read is still what the channels hold when it goes to sleep, since nobody runs in between, and `ShownWhenArmed` that the pins show what was read.
* **Accounts and sessions.** `AccountInv` joins the types, `SomebodyCanLogIn` and `ListedIsEffective`, which need each other: an account is stored only as the table in RAM, whose first slot is used.
  `SessionInv`: each slot holds a token that was issued, with its time; a token stands in at most one slot; a session that lost its slot before it expired has at
  least as many rivals, issued no earlier, as the table has slots (`LostToRivals`). The last part is a pigeonhole argument on an injection of slots into tokens; it is also what lets a login of the registry drop
  a token. That no login brings one back needs that tokens stand in one slot and that slots hold the time of their own token.
* **Files.** `FilesInv`: the tree is closed under parents (`TreeOK`); the file of an upload holds the old content before the truncation, the base of the answer between the flash operations
  and base and buffer after a 200, with what `ignored` takes from them (`UploadInv`); between deletions `/lfs/www` exists, and after a 200 it is all there is (`DeleteInv`). `RootIsKept` uses that `fs_mkdir` refuses `/lfs/www` only if it is there,
  `DeletionsAreTruthful` that a closed tree without `/lfs/www` is empty, so that a creation that succeeds finds nothing else. `ProgressInv`, for `DeletionsProgress`, says that every call on the stack is in a directory that exists, and that
  once a call has returned, or failed, there is less than at the beginning. `Effort` adds what is left in the tree to the calls still to be entered or left.
* **Configuration.** `SettingsInv`: a buffer holds the pieces of its own endpoint's request, and while keys are saved the flag is set and the values parsed are those that were sent (`RequestInv`); an
  answered value is stored unless its key is being saved again, and the keys the loop has passed have the new value (`SavedInv`; `OwedInv`: those it has not reached have the old one); a copy in RAM is what is stored unless the flag is set or the copy was overwritten (`LoadedInv`).

**Causes of the findings.** Each of the five promises that the code breaks is proved under the condition that excludes its causes, so that
there is no other: the initial message of the channel (`OnlyInitialDisarms`), a REST request between the fetch and the command
(`NumbersIdentifyCommands`), a free slot before an account or a failed save (`NamesUniqueWithoutHoles`), bytes of an earlier upload or an error that `http_upload` ignores (`TruncatesUnlessStale`), a
directory below `/lfs/www` (`CompleteWithoutDirectories`).

**Induction over data.** The prover cannot instantiate an induction theorem with an operator. `NumberLemmas` states induction for a *set* of numbers instead (`SetInduction`, and `SmallestElement` from which it
follows); the property proved is the set of numbers that have it. `CommandsNotLost` is proved this way; `SmallestElement` also gives the first free
slot of the accounts and the shortest path of a tree.

**Only model-checked:** everything with fairness (`CommandShown`, `DefaultShown`, `HomeAssistantConverges`, `EventuallyRegistered`, `HaKeepsServing`, `PinsObey`, `FailsafeEndToEnd`), which is
out of the prover's reach together with `ENABLED`. `DeletionsEnd` is the safety half of one such property: it bounds the steps of a deletion, so that weak fairness of
the HTTP thread would bring each to its end.

## Plan

Done: `Channels`, `IoTask`, `MqttClient`, `HaTask`, `HaBridge`, `RelayRegister`, `CedarSwitch`, `WebAccess`
(`WebUsers`, `WebSessions`, `SessionRegistry`), `WebFiles` (`WebStore`, `WebUpload`, `WebTree`), `Settings`, and the proof modules. Left, most important first:

1. REST in `CedarSwitch`: commands from two sides with liveness; `CommandsNotLost` then needs a weaker form, as the counter-example of `HaBridgeSeq` shows.
2. `parse_incoming_message` and the topic builders as operators over tokens, checked to be inverse to each other.
3. The pool of TLS contexts (`prj.conf:70`) under connections that never get a CONNACK.

## Not modelled

Hashing, token generation, Base64 and the texts of answers and topics are data that no property
distinguishes; the request of `web_user_mgmt.c` is taken whole (its buffer works like those of `Settings`). TLS set-up, the interface's address and `fs_calc_dir_size` keep
no state that another part reads. The QoS 2 handshake runs inside the library's callbacks and changes nothing of the program's own. `http_server_init.c` only calls `authentication_init` and starts the server,
and `static_resources.c` holds tables for it. `diag_report.c` is not compiled and `display.c` is empty. `main.c` also has an erase
function that nothing calls, and creates `/lfs/test1`, which nothing reads. In `WebFiles` the unlinks of a recursive deletion and a format are assumed to succeed (the one of an upload may fail), and
the directory that has just been removed can be created again. A second address event creates the MQTT
threads on stacks that are in use (`ha_mqtt.c:249`), and a connection made before the first `ha_mqtt_init` passes a null identifier to `strlen` (`ha_mqtt.c:94`): no outcome can be stated for
either, and the modules are about one creation and a connection that does not need the identifier; topics and messages built without it are in the model. `mqtt_sett` is also read by `mqtt_task` while a later address event may be reloading it (`ha_mqtt.c:88`); `Settings` models the
reload, no module the reader.
