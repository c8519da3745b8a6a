------------------------------ MODULE Settings ------------------------------
(***************************************************************************)
(* The stored configuration: the relays' default state                     *)
(* (default_relay_state.c, io_init in io.c), the MQTT settings             *)
(* (mqtt_settings.c, app_mqtt_ha_client_init in ha_mqtt.c, io_task) and    *)
(* the "reboot required" flag (http_common.c, settings_status.c).          *)
(*                                                                         *)
(* A request's body arrives in pieces that a static buffer collects.  Each *)
(* key is then written by a settings_save_one of its own whose result is   *)
(* ignored, and power may be cut between any two steps.                    *)
(*                                                                         *)
(* A value is 0 or 1: enough to tell an old one from a new one; 0 is also  *)
(* what an absent one is taken for.                                        *)
(* A key that was never written is absent from flash.                      *)
(***************************************************************************)
EXTENDS Naturals

CONSTANTS
  NDef,         \* keys under /settings/relays/default: enabled, 1, 2, 3
  NMqtt,        \* keys under /settings/mqtt, the first is enabled
  BodyCap,      \* pieces that post_request_buff holds
  FlashFails    \* may settings_save_one or settings_load_one fail?

ASSUME SettingsAssumption ==
  /\ NDef \in Nat \ {0}
  /\ NMqtt \in Nat \ {0}
  /\ BodyCap \in Nat \ {0}
  /\ FlashFails \in BOOLEAN

VARIABLES
  flash,        \* the keys that are stored, with their values
  boot,         \* how far the boot is
  relayDef,     \* relays_default_state of io.c, in RAM
  mqttSett,     \* mqtt_sett of ha_mqtt.c, in RAM
  ioSett,       \* io_task's own copy of mqtt_enabled
  mqttStatus,   \* has the MQTT thread been started, and has it published?
  updated,      \* "reboot required"
  request,      \* the endpoint whose keys the HTTP thread saves, or the
                \*   reboot that it sleeps for
  cursor,       \* for each endpoint, the pieces in its static buffer
  tmp,          \* the values parsed from the body
  next,         \* number of the key to save next, 0 when nothing is saved
  sent,         \* history: for each endpoint, the pieces its request has sent
  asked,        \* history: the values meant by the request being saved
  posted,       \* history: for each key, the value answered with 200 last
  overwritten,  \* history: io_task took its copy from the status channel's
                \*   initial message since it was started
  faulty        \* history: keys with a load or a save that failed, or whose
                \*   request was cut short, since they were last saved

ramVars == <<relayDef, mqttSett, ioSett, mqttStatus, overwritten>>
requestVars == <<request, cursor, tmp, next, sent, asked>>
vars == <<flash, boot, ramVars, updated, requestVars, posted, faulty>>

Endpoints == {"def", "mqtt"}
NKeys(g) == IF g = "def" THEN NDef ELSE NMqtt

\* The keys of an endpoint, in the order they are saved and loaded.
KeysOf(g) == {g} \X (1..NKeys(g))
Keys == KeysOf("def") \cup KeysOf("mqtt")
Enabled == <<"mqtt", 1>>

Values == {0, 1}
Partial(S) == UNION {[T -> Values] : T \in SUBSET S}
With(f, k, v) == [l \in DOMAIN f \cup {k} |-> IF l = k THEN v ELSE f[l]]

\* What an absent key is taken for: both memset and the fallbacks say 0.
Stored(f, k) == IF k \in DOMAIN f THEN f[k] ELSE 0

NoValues == [k \in {} |-> 0]
NoPieces == [g \in Endpoints |-> 0]

Init ==
  /\ flash = NoValues
  /\ boot = "off"
  /\ relayDef = NoValues /\ mqttSett = NoValues /\ ioSett = NoValues
  /\ mqttStatus = "none" /\ overwritten = FALSE
  /\ updated = FALSE
  /\ request = "none"
  /\ cursor = NoPieces
  /\ tmp = NoValues
  /\ next = 0
  /\ sent = NoPieces
  /\ asked = NoValues
  /\ posted = NoValues
  /\ faulty = {}

-----------------------------------------------------------------------------
(* Booting: io_init, io_task, then the first IPv4 address.                 *)

\* settings_load_one of key k finds it, or returns an error.
Finds(k) == k \in DOMAIN flash
MayFail(k) == k \notin DOMAIN flash \/ FlashFails

\* The keys whose failing load is more than an absent key.
Lost(ks) == {k \in ks : Finds(k)}

PowerOn ==
  /\ boot = "off"
  /\ boot' = "io"
  /\ UNCHANGED <<flash, ramVars, updated, requestVars, posted, faulty>>

\* Mutant: the value is loaded from the first key of the group.
IoLoad_FirstKey(i) ==
  LET k == <<"def", i>> IN
  /\ boot = "io"
  /\ DOMAIN relayDef = {<<"def", j>> : j \in 1..(i - 1)}
  /\ \/ /\ Finds(k)
        /\ relayDef' = With(relayDef, k, Stored(flash, <<"def", 1>>))
        /\ UNCHANGED <<flash, faulty>>
     \/ /\ MayFail(k)
        /\ relayDef' = With(relayDef, k, 0)
        /\ flash' \in {With(flash, k, 0)} \cup (IF FlashFails THEN {flash} ELSE {})
        /\ faulty' = faulty \cup Lost({k})
  /\ boot' = IF i = NDef THEN "net" ELSE "io"
  /\ UNCHANGED <<mqttSett, ioSett, mqttStatus, overwritten, updated, requestVars, posted>>

\* io_init, one key: an error of any kind, and not only a missing key, puts
\* the default in RAM and writes it over whatever is stored.
IoLoad(i) ==
  LET k == <<"def", i>> IN
  /\ boot = "io"
  /\ DOMAIN relayDef = {<<"def", j>> : j \in 1..(i - 1)}
  /\ \/ /\ Finds(k)
        /\ relayDef' = With(relayDef, k, flash[k])
        /\ UNCHANGED <<flash, faulty>>
     \/ /\ MayFail(k)
        /\ relayDef' = With(relayDef, k, 0)
        /\ flash' \in {With(flash, k, 0)} \cup (IF FlashFails THEN {flash} ELSE {})
        /\ faulty' = faulty \cup Lost({k})
  /\ boot' = IF i = NDef THEN "net" ELSE "io"
  /\ UNCHANGED <<mqttSett, ioSett, mqttStatus, overwritten, updated, requestVars, posted>>

\* io_task, created at the end of io_init, loads whether MQTT is enabled.
IoTaskLoad ==
  /\ boot \in {"net", "up"}
  /\ ioSett = NoValues
  /\ \/ Finds(Enabled) /\ ioSett' = With(ioSett, Enabled, flash[Enabled]) /\ UNCHANGED faulty
     \/ /\ MayFail(Enabled)
        /\ ioSett' = With(ioSett, Enabled, 0)
        /\ faulty' = faulty \cup Lost({Enabled})
  /\ UNCHANGED <<flash, boot, relayDef, mqttSett, mqttStatus, overwritten, updated, requestVars,
                 posted>>

\* io_task's loop, with both functions enabled: the whole status message is
\* read over the copy.  Every published one says enabled, the channel's
\* initial one does not.
IoTaskReads ==
  /\ ioSett # NoValues /\ ioSett[Enabled] = 1
  /\ relayDef[<<"def", 1>>] = 1
  /\ mqttStatus # "published"
  /\ ioSett' = With(ioSett, Enabled, 0)
  /\ overwritten' = TRUE
  /\ UNCHANGED <<flash, boot, relayDef, mqttSett, mqttStatus, updated, requestVars, posted, faulty>>

\* mqtt_task, once mqtt_connect has succeeded.
MqttPublishes ==
  /\ mqttStatus = "started"
  /\ mqttStatus' = "published"
  /\ UNCHANGED <<flash, boot, relayDef, mqttSett, ioSett, overwritten, updated, requestVars, posted,
                 faulty>>

\* NET_EVENT_IPV4_ADDR_ADD: app_mqtt_ha_client_init loads its keys; a load
\* that fails leaves the value in RAM.  If MQTT is enabled its thread is
\* started.  The event may come again.
IpEvent ==
  /\ boot \in {"net", "up"}
  /\ boot' = "up"
  /\ \E failed \in SUBSET KeysOf("mqtt") :
       /\ failed # {} => FlashFails
       /\ mqttSett' = [k \in KeysOf("mqtt") |->
                         IF Finds(k) /\ k \notin failed THEN flash[k] ELSE Stored(mqttSett, k)]
       /\ faulty' = faulty \cup Lost(failed)
  /\ mqttStatus' = IF mqttSett'[Enabled] = 1 /\ mqttStatus = "none" THEN "started" ELSE mqttStatus
  /\ UNCHANGED <<flash, relayDef, ioSett, overwritten, updated, requestVars, posted>>

-----------------------------------------------------------------------------
(* Requests, in the HTTP thread: between two pieces of a body it may serve *)
(* the other endpoint's client, but not between two saves.                 *)

\* May the server hand over a piece?
Listens == boot = "up" /\ request = "none"

Fits(g) == cursor[g] + 1 <= BodyCap

Empty(g) == cursor' = [cursor EXCEPT ![g] = 0]
Ends(g) == sent' = [sent EXCEPT ![g] = 0]

\* Mutant: the size of the buffer is not looked at.
Piece_NoLimit(g) ==
  /\ Listens
  /\ cursor' = [cursor EXCEPT ![g] = @ + 1]
  /\ sent' = [sent EXCEPT ![g] = @ + 1]
  /\ UNCHANGED <<flash, boot, ramVars, updated, request, tmp, next, asked, posted, faulty>>

\* A piece that is not the last one.
Piece(g) ==
  /\ Listens
  /\ Fits(g)
  /\ cursor' = [cursor EXCEPT ![g] = @ + 1]
  /\ sent' = [sent EXCEPT ![g] = @ + 1]
  /\ UNCHANGED <<flash, boot, ramVars, updated, request, tmp, next, asked, posted, faulty>>

\* A piece, the last one or another, finds no room: -ENOMEM.
Overflow(g) ==
  /\ Listens
  /\ ~Fits(g)
  /\ Empty(g)
  /\ Ends(g)
  /\ UNCHANGED <<flash, boot, ramVars, updated, request, tmp, next, asked, posted, faulty>>

\* Mutant: what was collected stays in front of the next request.
Abort_KeepsCursor(g) ==
  /\ Listens
  /\ sent[g] > 0
  /\ Ends(g)
  /\ UNCHANGED <<flash, boot, ramVars, updated, request, cursor, tmp, next, asked, posted, faulty>>

\* The client is gone before the end: HTTP_SERVER_DATA_ABORTED.
Abort(g) ==
  /\ Listens
  /\ sent[g] > 0
  /\ Empty(g)
  /\ Ends(g)
  /\ UNCHANGED <<flash, boot, ramVars, updated, request, tmp, next, asked, posted, faulty>>

\* What json_obj_parse may find: the values meant, or any, if the buffer held
\* anything before this request.
Parsed(g, meant) == IF cursor[g] = sent[g] THEN {meant} ELSE [KeysOf(g) -> Values]

\* Mutant: the flag is not set.
Post_NoFlag(g) ==
  /\ Listens
  /\ Fits(g)
  /\ Empty(g)
  /\ Ends(g)
  /\ asked' \in [KeysOf(g) -> Values]
  /\ tmp' \in Parsed(g, asked')
  /\ next' = 1
  /\ request' = g
  /\ UNCHANGED <<flash, boot, ramVars, updated, posted, faulty>>

\* The last piece: the flag is set before the body is parsed.  A body that
\* is not valid is answered with 400, of the others each key is saved.
Post(g) ==
  /\ Listens
  /\ Fits(g)
  /\ updated' = TRUE
  /\ Empty(g)
  /\ Ends(g)
  /\ \/ UNCHANGED <<request, tmp, next, asked>>
     \/ /\ asked' \in [KeysOf(g) -> Values]
        /\ tmp' \in Parsed(g, asked')
        /\ next' = 1
        /\ request' = g
  /\ UNCHANGED <<flash, boot, ramVars, posted, faulty>>

\* One settings_save_one, result ignored.
SaveOne ==
  LET k == <<request, next>> IN
  /\ next \in 1..NKeys(request)
  /\ \/ flash' = With(flash, k, tmp[k]) /\ faulty' = faulty \ {k}
     \/ FlashFails /\ UNCHANGED flash /\ faulty' = faulty \cup {k}
  /\ next' = next + 1
  /\ UNCHANGED <<boot, ramVars, updated, request, cursor, tmp, sent, asked, posted>>

\* The answer: 200, or, if the MQTT settings are too long to be repeated in
\* it, 500 although they are saved.
Answer ==
  /\ next > NKeys(request)
  /\ \/ posted' = [k \in DOMAIN posted \cup DOMAIN asked |->
                     IF k \in DOMAIN asked THEN asked[k] ELSE posted[k]]
     \/ request = "mqtt" /\ posted' = [k \in DOMAIN posted \ DOMAIN asked |-> posted[k]]
  /\ request' = "none"
  /\ next' = 0
  /\ tmp' = NoValues
  /\ asked' = NoValues
  /\ UNCHANGED <<flash, boot, ramVars, updated, cursor, sent, faulty>>

\* POST /api/system/reboot: the HTTP thread sleeps for five seconds.
Reboot ==
  /\ Listens
  /\ request' = "reboot"
  /\ UNCHANGED <<flash, boot, ramVars, updated, cursor, tmp, next, sent, asked, posted, faulty>>

\* sys_reboot, or power is cut: RAM is lost, and so are the saves owed.
PowerOff ==
  /\ boot # "off"
  /\ boot' = "off"
  /\ relayDef' = NoValues /\ mqttSett' = NoValues /\ ioSett' = NoValues
  /\ mqttStatus' = "none" /\ overwritten' = FALSE
  /\ updated' = FALSE
  /\ request' = "none"
  /\ cursor' = NoPieces
  /\ tmp' = NoValues
  /\ next' = 0
  /\ sent' = NoPieces
  /\ asked' = NoValues
  /\ faulty' = faulty \cup DOMAIN asked
  /\ UNCHANGED <<flash, posted>>

Next ==
  \/ PowerOn
  \/ \E i \in 1..NDef : IoLoad(i)
  \/ IoTaskLoad
  \/ IoTaskReads
  \/ MqttPublishes
  \/ IpEvent
  \/ \E g \in Endpoints : Piece(g) \/ Overflow(g) \/ Abort(g) \/ Post(g)
  \/ SaveOne
  \/ Answer
  \/ Reboot
  \/ PowerOff

Spec == Init /\ [][Next]_vars

-----------------------------------------------------------------------------
TypeOK ==
  /\ flash \in Partial(Keys)
  /\ boot \in {"off", "io", "net", "up"}
  /\ relayDef \in Partial(KeysOf("def"))
  /\ mqttSett \in Partial(KeysOf("mqtt"))
  /\ ioSett \in Partial({Enabled})
  /\ mqttStatus \in {"none", "started", "published"}
  /\ overwritten \in BOOLEAN
  /\ updated \in BOOLEAN
  /\ request \in Endpoints \cup {"none", "reboot"}
  /\ cursor \in [Endpoints -> 0..BodyCap]
  /\ tmp \in Partial(Keys)
  /\ next \in Nat
  /\ sent \in [Endpoints -> Nat]
  /\ asked \in Partial(Keys)
  /\ posted \in Partial(Keys)
  /\ faulty \in SUBSET Keys

\* The values of k that the program works with: the MQTT threads and io_task
\* have loaded "enabled" each on their own.  Left out is io_task's copy once
\* the loop took it from the status channel's initial message: it says
\* disabled then whatever is stored, and no flag reports it.
InRam(k) ==
  (IF k \in KeysOf("def") THEN {Stored(relayDef, k)} ELSE {Stored(mqttSett, k)})
    \cup {ioSett[l] : l \in IF overwritten THEN {} ELSE DOMAIN ioSett \cap {k}}

\* Whenever the program works with a value that is not the stored one, it
\* reports that a reboot is required: no save precedes the flag, and neither
\* a boot nor a later address event brings back an old value.  The exception
\* is the copy that io.c:88 overwrites with the initial message.
RebootReported ==
  boot = "up" => \A k \in Keys \ faulty : InRam(k) # {Stored(flash, k)} => updated

\* What was answered with 200 stays stored across resets, later requests for
\* other keys and requests that were refused, too long or cut short: nothing
\* of theirs is left in the static buffers.
AnsweredIsStored ==
  next = 0 => \A k \in DOMAIN posted \ faulty : k \in DOMAIN flash /\ flash[k] = posted[k]

\* After a reboot the program works with what was answered last; io_task
\* does so with "enabled" until it reads the initial message over it.
AppliedAfterReboot ==
  boot = "up" /\ ~updated => \A k \in DOMAIN posted \ faulty : InRam(k) = {posted[k]}
=============================================================================
