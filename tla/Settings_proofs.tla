--------------------------- MODULE Settings_proofs ---------------------------
(***************************************************************************)
(* Theorems about the stored configuration, for any number of keys and a   *)
(* buffer of any size.                                                     *)
(***************************************************************************)
EXTENDS Settings, TLAPS

\* A buffer holds the pieces of its endpoint's request and nothing else;
\* while keys are saved the flag is set, and the values parsed are those
\* that were meant.
RequestInv ==
  /\ cursor = sent
  /\ next # 0 => /\ request \in Endpoints /\ DOMAIN asked = KeysOf(request) /\ tmp = asked
                 /\ boot = "up" /\ updated
  /\ next = 0 => DOMAIN asked = {}

\* What was answered is stored, except for the keys that are being saved
\* again; and of those, the ones the loop has passed are stored.
SavedInv ==
  /\ \A k \in DOMAIN posted \ (faulty \cup DOMAIN asked) :
       k \in DOMAIN flash /\ flash[k] = posted[k]
  /\ \A k \in DOMAIN asked \ faulty :
       k[2] < next => k \in DOMAIN flash /\ flash[k] = asked[k]

\* What was loaded is what is stored, until a request sets the flag or, of
\* io_task's copy, until it is overwritten.
LoadedInv ==
  /\ boot \in {"net", "up"} => DOMAIN relayDef = KeysOf("def")
  /\ boot = "up" => DOMAIN mqttSett = KeysOf("mqtt")
  /\ ~updated => \A k \in Keys \ faulty :
       /\ k \in DOMAIN relayDef => relayDef[k] = Stored(flash, k)
       /\ k \in DOMAIN mqttSett => mqttSett[k] = Stored(flash, k)
       /\ k \in DOMAIN ioSett /\ ~overwritten => ioSett[k] = Stored(flash, k)

SettingsInv == TypeOK /\ RequestInv /\ SavedInv /\ LoadedInv

-----------------------------------------------------------------------------
(* Keys and partial functions on them.                                     *)

\* The keys of the two endpoints are different pairs.
LEMMA KeyFacts ==
  /\ Endpoints = {"def", "mqtt"}
  /\ NDef \in Nat \ {0} /\ NMqtt \in Nat \ {0} /\ BodyCap \in Nat \ {0}
  /\ \A g \in Endpoints : NKeys(g) \in Nat \ {0} /\ KeysOf(g) \subseteq Keys
  /\ \A g \in Endpoints : \A k : k \in KeysOf(g) <=> \E i \in 1..NKeys(g) : k = <<g, i>>
  /\ \A k \in KeysOf("def") : k \notin KeysOf("mqtt")
  /\ Enabled \in KeysOf("mqtt")
  /\ \A k \in Keys : k \in KeysOf("def") \/ k \in KeysOf("mqtt")
<1>1. NDef \in Nat \ {0} /\ NMqtt \in Nat \ {0} /\ BodyCap \in Nat \ {0}
  BY SettingsAssumption, Zenon
<1>2. \A g \in Endpoints : NKeys(g) \in Nat \ {0}
  BY <1>1 DEF NKeys
<1>3. \A g \in Endpoints : \A k : k \in KeysOf(g) <=> \E i \in 1..NKeys(g) : k = <<g, i>>
  BY DEF KeysOf
<1>4. \A k \in KeysOf("def") : k \notin KeysOf("mqtt")
  BY <1>3 DEF Endpoints
<1>5. Enabled \in KeysOf("mqtt")
  BY <1>2, <1>3 DEF Enabled, Endpoints
<1>6. \A g \in Endpoints : KeysOf(g) \subseteq Keys
  BY DEF Keys, Endpoints
<1>7. \A k \in Keys : k \in KeysOf("def") \/ k \in KeysOf("mqtt")
  BY DEF Keys
<1> QED
  BY <1>1, <1>2, <1>3, <1>4, <1>5, <1>6, <1>7, Zenon DEF Endpoints

\* 0 is a value.
LEMMA ZeroIs == 0 \in Values
BY DEF Values

\* The partial functions from S to the values.
LEMMA PartialIs ==
  ASSUME NEW S, NEW f
  PROVE  f \in Partial(S) <=> /\ DOMAIN f \subseteq S
                              /\ f \in [DOMAIN f -> Values]
<1>1. ASSUME f \in Partial(S) PROVE DOMAIN f \subseteq S /\ f \in [DOMAIN f -> Values]
  <2>1. PICK T \in SUBSET S : f \in [T -> Values]
    BY <1>1, Zenon DEF Partial
  <2>2. DOMAIN f = T
    BY <2>1, Zenon
  <2> QED
    BY <2>1, <2>2, Zenon
<1>2. ASSUME DOMAIN f \subseteq S, f \in [DOMAIN f -> Values] PROVE f \in Partial(S)
  <2> DEFINE T == DOMAIN f
  <2>1. T \in SUBSET S /\ f \in [T -> Values]
    BY <1>2, Zenon
  <2> HIDE DEF T
  <2> QED
    BY <2>1, Zenon DEF Partial
<1> QED
  BY <1>1, <1>2, Zenon

\* A total function on a smaller set is a partial one.
LEMMA PartialTotal ==
  ASSUME NEW S, NEW T \in SUBSET S, NEW f \in [T -> Values]
  PROVE  f \in Partial(S)
<1>1. DOMAIN f = T
  BY Zenon
<1> QED
  BY <1>1, PartialIs, Zenon

\* With writes one key.
LEMMA WithAt ==
  ASSUME NEW f, NEW k, NEW v
  PROVE  /\ With(f, k, v)[k] = v
         /\ \A l \in DOMAIN f : l # k => With(f, k, v)[l] = f[l]
BY Zenon DEF With

\* What it writes is stored from then on.
LEMMA WithDomain ==
  ASSUME NEW f, NEW k, NEW v
  PROVE  DOMAIN With(f, k, v) = DOMAIN f \cup {k}
BY Zenon DEF With

\* A value written leaves a partial function.
LEMMA WithPartial ==
  ASSUME NEW S, NEW f \in Partial(S), NEW k \in S, NEW v \in Values
  PROVE  With(f, k, v) \in Partial(S)
<1> DEFINE D == DOMAIN f \cup {k}
           w == [l \in D |-> IF l = k THEN v ELSE f[l]]
<1>1. With(f, k, v) = w
  BY Zenon DEF With
<1>2. DOMAIN f \subseteq S /\ f \in [DOMAIN f -> Values]
  BY PartialIs, Zenon
<1>3. w \in [D -> Values]
  <2>1. \A l \in D : (IF l = k THEN v ELSE f[l]) \in Values
    <3> TAKE l \in D
    <3>1. CASE l = k
      BY <3>1, Zenon
    <3>2. CASE l # k
      BY <1>2, <3>2, Zenon
    <3> QED
      BY <3>1, <3>2, Zenon
  <2> QED
    BY <2>1, Zenon
<1>4. D \in SUBSET S
  BY <1>2, Zenon
<1>5. w \in Partial(S)
  <2> HIDE DEF w, D
  <2> QED
    BY <1>3, <1>4, PartialTotal, Zenon
<1> QED
  BY <1>1, <1>5, Zenon

\* What is stored for a key is a value.
LEMMA StoredIs ==
  ASSUME NEW S, NEW f \in Partial(S), NEW k
  PROVE  /\ Stored(f, k) \in Values
         /\ k \in DOMAIN f => Stored(f, k) = f[k] /\ f[k] \in Values
         /\ k \notin DOMAIN f => Stored(f, k) = 0
<1>1. f \in [DOMAIN f -> Values]
  BY PartialIs, Zenon
<1>2. CASE k \in DOMAIN f
  <2>1. f[k] \in Values
    BY <1>1, <1>2, Zenon
  <2>2. Stored(f, k) = f[k]
    BY <1>2, Zenon DEF Stored
  <2> QED
    BY <1>2, <2>1, <2>2, Zenon
<1>3. CASE k \notin DOMAIN f
  <2>1. Stored(f, k) = 0
    BY <1>3, Zenon DEF Stored
  <2> QED
    BY <1>3, <2>1, ZeroIs, Zenon
<1> QED
  BY <1>2, <1>3

\* Nothing is a partial function.
LEMMA NoValuesIs == DOMAIN NoValues = {} /\ \A S : NoValues \in Partial(S)
<1>1. DOMAIN NoValues = {} /\ NoValues \in [{} -> Values]
  BY Zenon DEF NoValues
<1> QED
  BY <1>1, PartialIs, Zenon

-----------------------------------------------------------------------------
(* The invariant, action by action.                                        *)

\* The device starts with nothing stored and nothing loaded.
LEMMA StartsRight == Init => SettingsInv
<1> SUFFICES ASSUME Init PROVE SettingsInv
  OBVIOUS
<1> USE DEF Init
<1>1. TypeOK
  <2>1. cursor \in [Endpoints -> 0..BodyCap] /\ sent \in [Endpoints -> Nat]
    BY KeyFacts DEF NoPieces
  <2> QED
    BY <2>1, NoValuesIs, Zenon DEF TypeOK
<1>2. RequestInv
  BY NoValuesIs DEF RequestInv
<1>3. SavedInv
  BY NoValuesIs DEF SavedInv
<1>4. LoadedInv
  BY NoValuesIs DEF LoadedInv
<1> QED
  BY <1>1, <1>2, <1>3, <1>4 DEF SettingsInv

\* Power alone loads nothing.
LEMMA KeptByPowerOn ==
  ASSUME SettingsInv, PowerOn PROVE SettingsInv'
<1> USE DEF SettingsInv, PowerOn, ramVars, requestVars
<1>1. TypeOK'
  BY DEF TypeOK
<1>2. RequestInv'
  BY DEF RequestInv
<1>3. SavedInv'
  BY DEF SavedInv
<1>4. LoadedInv'
  BY DEF LoadedInv
<1> QED
  BY <1>1, <1>2, <1>3, <1>4

\* A key that is found is loaded; of one that is not, RAM gets the default
\* and flash the default or nothing.
LEMMA KeptByIoLoad ==
  ASSUME SettingsInv, NEW i \in 1..NDef, IoLoad(i) PROVE SettingsInv'
<1> DEFINE k == <<"def", i>>
<1> USE DEF SettingsInv
<1>1. k \in KeysOf("def") /\ k \in Keys
  BY KeyFacts DEF NKeys, Endpoints
<1>2. /\ boot = "io" /\ boot' \in {"io", "net"}
      /\ DOMAIN relayDef = {<<"def", j>> : j \in 1..(i - 1)}
      /\ i = NDef \/ boot' = "io"
      /\ UNCHANGED <<mqttSett, ioSett, mqttStatus, overwritten, updated, request, cursor, tmp,
                     next, sent, asked, posted>>
  BY DEF IoLoad, requestVars
<1>3. \/ /\ k \in DOMAIN flash
         /\ relayDef' = With(relayDef, k, flash[k])
         /\ flash' = flash /\ faulty' = faulty
      \/ /\ relayDef' = With(relayDef, k, 0)
         /\ flash' = With(flash, k, 0) \/ flash' = flash
         /\ faulty' = faulty \cup Lost({k})
  BY Zenon DEF IoLoad, Finds
<1>4. Lost({k}) = IF k \in DOMAIN flash THEN {k} ELSE {}
  BY DEF Lost, Finds
<1> HIDE DEF k
<1>5. flash \in Partial(Keys) /\ relayDef \in Partial(KeysOf("def")) /\ faulty \in SUBSET Keys
  BY DEF TypeOK
<1> DEFINE zero == With(flash, k, 0)
           reset == With(relayDef, k, 0)
           copy == With(relayDef, k, flash[k])
<1>3a. \/ k \in DOMAIN flash /\ relayDef' = copy /\ flash' = flash /\ faulty' = faulty
       \/ /\ relayDef' = reset
          /\ flash' = zero \/ flash' = flash
          /\ faulty' = faulty \cup Lost({k})
  BY <1>3
<1>z. /\ zero \in Partial(Keys) /\ DOMAIN zero = DOMAIN flash \cup {k} /\ zero[k] = 0
      /\ \A l \in DOMAIN flash \ {k} : zero[l] = flash[l]
  <2>1. zero \in Partial(Keys)
    BY <1>1, <1>5, ZeroIs, WithPartial
  <2>2. zero[k] = 0 /\ \A l \in DOMAIN flash : l # k => zero[l] = flash[l]
    BY WithAt
  <2>3. DOMAIN zero = DOMAIN flash \cup {k}
    BY WithDomain
  <2> HIDE DEF zero
  <2> QED
    BY <2>1, <2>2, <2>3, Zenon
<1>r. /\ reset \in Partial(KeysOf("def")) /\ DOMAIN reset = DOMAIN relayDef \cup {k}
      /\ reset[k] = 0
      /\ \A l \in DOMAIN relayDef \ {k} : reset[l] = relayDef[l]
  <2>1. reset \in Partial(KeysOf("def"))
    BY <1>1, <1>5, ZeroIs, WithPartial
  <2>2. reset[k] = 0 /\ \A l \in DOMAIN relayDef : l # k => reset[l] = relayDef[l]
    BY WithAt
  <2>3. DOMAIN reset = DOMAIN relayDef \cup {k}
    BY WithDomain
  <2> HIDE DEF reset
  <2> QED
    BY <2>1, <2>2, <2>3, Zenon
<1>c. k \in DOMAIN flash =>
        /\ copy \in Partial(KeysOf("def")) /\ DOMAIN copy = DOMAIN relayDef \cup {k}
        /\ copy[k] = flash[k] /\ flash[k] = Stored(flash, k)
        /\ \A l \in DOMAIN relayDef \ {k} : copy[l] = relayDef[l]
  <2>1. k \in DOMAIN flash => flash[k] \in Values /\ flash[k] = Stored(flash, k)
    BY <1>5, StoredIs
  <2>2. k \in DOMAIN flash => copy \in Partial(KeysOf("def"))
    BY <1>1, <1>5, <2>1, WithPartial
  <2>3. copy[k] = flash[k] /\ \A l \in DOMAIN relayDef : l # k => copy[l] = relayDef[l]
    BY WithAt
  <2>4. DOMAIN copy = DOMAIN relayDef \cup {k}
    BY WithDomain
  <2> HIDE DEF copy
  <2> QED
    BY <2>1, <2>2, <2>3, <2>4, Zenon
<1> HIDE DEF zero, reset, copy
<1>6. /\ flash' \in Partial(Keys)
      /\ \A l \in DOMAIN flash \ {k} : l \in DOMAIN flash' /\ flash'[l] = flash[l]
      /\ DOMAIN flash' \subseteq DOMAIN flash \cup {k}
      /\ k \in DOMAIN flash => k \in DOMAIN flash'
  BY <1>5, <1>z, <1>3a, Zenon
<1>7. /\ relayDef' \in Partial(KeysOf("def"))
      /\ DOMAIN relayDef' = DOMAIN relayDef \cup {k}
      /\ \A l \in DOMAIN relayDef \ {k} : relayDef'[l] = relayDef[l]
  BY <1>3a, <1>r, <1>c, Zenon
<1>8. faulty' \in SUBSET Keys /\ faulty \subseteq faulty'
  BY <1>1, <1>3, <1>4, <1>5
<1>9. k \notin faulty' => relayDef'[k] = Stored(flash', k)
  <2>1. CASE k \in DOMAIN flash /\ relayDef' = copy /\ flash' = flash
    BY <1>c, <2>1, Zenon
  <2>2. CASE relayDef' = reset /\ flash' = flash /\ k \notin DOMAIN flash
    BY <1>5, <1>r, <2>2, StoredIs, Zenon
  <2>3. CASE relayDef' = reset /\ flash' = zero
    <3>1. Stored(zero, k) = 0
      BY <1>z, Zenon DEF Stored
    <3> QED
      BY <1>r, <2>3, <3>1, Zenon
  <2>4. CASE k \in faulty'
    BY <2>4
  <2> QED
    BY <1>3a, <1>4, <2>1, <2>2, <2>3, <2>4
<1>10. TypeOK'
  BY <1>2, <1>6, <1>7, <1>8 DEF TypeOK
<1>11. next = 0 /\ DOMAIN asked = {}
  BY <1>2 DEF RequestInv
<1>12. RequestInv'
  BY <1>2, <1>11, Zenon DEF RequestInv
<1>13. SavedInv'
  <2>1. k \in DOMAIN posted \ faulty' => k \in DOMAIN flash /\ k \in DOMAIN flash'
                                      /\ flash'[k] = flash[k]
    <3> SUFFICES ASSUME k \in DOMAIN posted \ faulty'
                 PROVE  k \in DOMAIN flash /\ k \in DOMAIN flash' /\ flash'[k] = flash[k]
      OBVIOUS
    <3>1. k \in DOMAIN flash
      BY <1>8, <1>11 DEF SavedInv
    <3>2. flash' = flash
      BY <1>3, <1>4, <3>1
    <3> QED
      BY <3>1, <3>2
  <2> QED
    BY <1>2, <1>6, <1>8, <1>11, <2>1 DEF SavedInv
<1>14. LoadedInv'
  <2>1. i = NDef => DOMAIN relayDef' = KeysOf("def")
    <3> SUFFICES ASSUME i = NDef PROVE DOMAIN relayDef' = KeysOf("def")
      OBVIOUS
    <3>1. \A j \in 1..NDef : j = i \/ j \in 1..(i - 1)
      OBVIOUS
    <3>2. \A j \in 1..(i - 1) : j \in 1..NDef
      BY KeyFacts
    <3>3. \A l : l \in KeysOf("def") <=> \E j \in 1..NDef : l = <<"def", j>>
      BY KeyFacts DEF NKeys, Endpoints
    <3> QED
      BY <1>2, <1>7, <3>1, <3>2, <3>3 DEF k
  <2>2. boot' \in {"net", "up"} => DOMAIN relayDef' = KeysOf("def")
    BY <1>2, <2>1
  <2>3. \A l \in Keys \ faulty' : l # k => Stored(flash', l) = Stored(flash, l)
    BY <1>6, Zenon DEF Stored
  <2>4. k \notin DOMAIN mqttSett /\ k \notin DOMAIN ioSett
    <3>1. DOMAIN mqttSett \subseteq KeysOf("mqtt") /\ DOMAIN ioSett \subseteq {Enabled}
      BY PartialIs DEF TypeOK
    <3> QED
      BY <1>1, <3>1, KeyFacts
  <2>5. ~updated' => \A l \in Keys \ faulty' :
          /\ l \in DOMAIN relayDef' => relayDef'[l] = Stored(flash', l)
          /\ l \in DOMAIN mqttSett' => mqttSett'[l] = Stored(flash', l)
          /\ l \in DOMAIN ioSett' /\ ~overwritten' => ioSett'[l] = Stored(flash', l)
    <3> SUFFICES ASSUME ~updated, NEW l \in Keys \ faulty'
                 PROVE  /\ l \in DOMAIN relayDef' => relayDef'[l] = Stored(flash', l)
                        /\ l \in DOMAIN mqttSett => mqttSett[l] = Stored(flash', l)
                        /\ l \in DOMAIN ioSett /\ ~overwritten => ioSett[l] = Stored(flash', l)
      BY <1>2, Zenon
    <3>1. CASE l = k
      BY <1>9, <2>4, <3>1, Zenon
    <3>2. CASE l # k
      BY <1>7, <1>8, <2>3, <3>2, Zenon DEF LoadedInv
    <3> QED
      BY <3>1, <3>2
  <2>6. boot' # "up"
    BY <1>2
  <2> QED
    BY <2>2, <2>5, <2>6, Zenon DEF LoadedInv
<1> QED
  BY <1>10, <1>12, <1>13, <1>14

\* io_task's own copy is what is stored, or a load failed.
LEMMA KeptByIoTaskLoad ==
  ASSUME SettingsInv, IoTaskLoad PROVE SettingsInv'
<1> USE DEF SettingsInv
<1>1. UNCHANGED <<flash, boot, relayDef, mqttSett, mqttStatus, overwritten, updated, request,
                  cursor, tmp, next, sent, asked, posted>>
  BY DEF IoTaskLoad, requestVars
<1>2. /\ flash \in Partial(Keys) /\ faulty \in SUBSET Keys /\ Enabled \in Keys
      /\ ioSett = NoValues
  BY KeyFacts DEF TypeOK, IoTaskLoad, Endpoints
<1>3. Lost({Enabled}) = IF Enabled \in DOMAIN flash THEN {Enabled} ELSE {}
  BY DEF Lost, Finds
<1>4. PICK v \in Values :
        /\ ioSett' = With(ioSett, Enabled, v)
        /\ \/ v = Stored(flash, Enabled) /\ faulty' = faulty
           \/ Enabled \in DOMAIN flash /\ faulty' = faulty \cup {Enabled}
  <2>1. CASE Finds(Enabled) /\ ioSett' = With(ioSett, Enabled, flash[Enabled]) /\ faulty' = faulty
    BY <1>2, <2>1, StoredIs DEF Finds
  <2>2. CASE /\ ioSett' = With(ioSett, Enabled, 0)
             /\ faulty' = faulty \cup Lost({Enabled})
    <3>1. CASE Enabled \in DOMAIN flash
      BY <1>3, <2>2, <3>1, ZeroIs
    <3>2. CASE Enabled \notin DOMAIN flash
      <4>1. Stored(flash, Enabled) = 0 /\ faulty' = faulty
        BY <1>2, <1>3, <2>2, <3>2, StoredIs
      <4> QED
        BY <2>2, <4>1, ZeroIs
    <3> QED
      BY <3>1, <3>2
  <2> QED
    BY <2>1, <2>2 DEF IoTaskLoad
<1>5. /\ ioSett' \in Partial({Enabled}) /\ DOMAIN ioSett' = {Enabled} /\ ioSett'[Enabled] = v
  <2>1. ioSett \in Partial({Enabled}) /\ DOMAIN ioSett = {}
    BY <1>2, NoValuesIs
  <2>2. ioSett' \in Partial({Enabled})
    BY <1>4, <2>1, WithPartial
  <2>3. ioSett'[Enabled] = v
    BY <1>4, WithAt
  <2>4. DOMAIN ioSett' = DOMAIN ioSett \cup {Enabled}
    BY <1>4, WithDomain
  <2> QED
    BY <2>1, <2>2, <2>3, <2>4
<1>6. faulty \subseteq faulty' /\ faulty' \in SUBSET Keys
  BY <1>2, <1>4
<1>7. TypeOK'
  BY <1>1, <1>5, <1>6 DEF TypeOK
<1>8. RequestInv'
  BY <1>1 DEF RequestInv
<1>9. SavedInv'
  BY <1>1, <1>6 DEF SavedInv
<1>10. LoadedInv'
  <2>1. ~updated => \A k \in Keys \ faulty' :
                      k \in DOMAIN ioSett' => ioSett'[k] = Stored(flash, k)
    BY <1>4, <1>5
  <2> QED
    BY <1>1, <1>6, <2>1 DEF LoadedInv, Stored
<1> QED
  BY <1>7, <1>8, <1>9, <1>10

\* The copy that is overwritten is left out from then on, and a status that
\* is published changes no copy.
LEMMA KeptByStatus ==
  ASSUME SettingsInv, IoTaskReads \/ MqttPublishes PROVE SettingsInv'
<1> USE DEF SettingsInv
<1>1. UNCHANGED <<flash, boot, relayDef, mqttSett, updated, request, cursor, tmp, next, sent,
                  asked, posted, faulty>>
  BY DEF IoTaskReads, MqttPublishes, requestVars
<1>2. \/ ioSett' = With(ioSett, Enabled, 0) /\ overwritten' = TRUE /\ mqttStatus' = mqttStatus
      \/ ioSett' = ioSett /\ overwritten' = overwritten /\ mqttStatus' = "published"
  BY DEF IoTaskReads, MqttPublishes
<1>3. TypeOK'
  <2>1. ioSett' \in Partial({Enabled})
    BY <1>2, ZeroIs, WithPartial DEF TypeOK
  <2> QED
    BY <1>1, <1>2, <2>1 DEF TypeOK
<1>4. RequestInv'
  BY <1>1 DEF RequestInv
<1>5. SavedInv'
  BY <1>1 DEF SavedInv
<1>6. LoadedInv'
  BY <1>1, <1>2 DEF LoadedInv, Stored
<1> QED
  BY <1>3, <1>4, <1>5, <1>6

\* A key that cannot be loaded keeps the value in RAM.
LEMMA KeptByIpEvent ==
  ASSUME SettingsInv, IpEvent PROVE SettingsInv'
<1> USE DEF SettingsInv
<1>1. /\ UNCHANGED <<flash, relayDef, ioSett, overwritten, updated, request, cursor, tmp, next,
                     sent, asked, posted>>
      /\ boot \in {"net", "up"} /\ boot' = "up"
  BY DEF IpEvent, requestVars
<1>2. PICK failed \in SUBSET KeysOf("mqtt") :
        /\ mqttSett' = [k \in KeysOf("mqtt") |->
                          IF Finds(k) /\ k \notin failed THEN flash[k] ELSE Stored(mqttSett, k)]
        /\ faulty' = faulty \cup Lost(failed)
  BY DEF IpEvent
<1>3. Lost(failed) = {k \in failed : k \in DOMAIN flash}
  BY DEF Lost, Finds
<1>4. flash \in Partial(Keys) /\ mqttSett \in Partial(KeysOf("mqtt")) /\ faulty \in SUBSET Keys
  BY DEF TypeOK
<1>5. KeysOf("mqtt") \subseteq Keys
  BY KeyFacts DEF Endpoints
<1>6. faulty \subseteq faulty' /\ faulty' \in SUBSET Keys
  BY <1>2, <1>3, <1>4, <1>5
<1>7. DOMAIN mqttSett' = KeysOf("mqtt")
  BY <1>2
<1>8. \A k \in KeysOf("mqtt") :
        mqttSett'[k] = IF k \in DOMAIN flash /\ k \notin failed THEN Stored(flash, k)
                                                             ELSE Stored(mqttSett, k)
  BY <1>2 DEF Finds, Stored
<1>9. mqttSett' \in Partial(KeysOf("mqtt"))
  <2>1. \A k \in KeysOf("mqtt") : mqttSett'[k] \in Values
    BY <1>4, <1>8, StoredIs
  <2>2. mqttSett' = [k \in KeysOf("mqtt") |-> mqttSett'[k]]
    BY <1>2
  <2>3. mqttSett' \in [KeysOf("mqtt") -> Values]
    BY <2>1, <2>2
  <2> QED
    BY <2>3, PartialTotal
<1>10. TypeOK'
  <2>1. mqttStatus' \in {"none", "started", "published"}
    BY DEF IpEvent, TypeOK
  <2> QED
    BY <1>1, <1>6, <1>9, <2>1 DEF TypeOK
<1>11. RequestInv'
  BY <1>1 DEF RequestInv
<1>12. SavedInv'
  BY <1>1, <1>6 DEF SavedInv
<1>13. LoadedInv'
  <2>1. ASSUME ~updated, NEW k \in Keys \ faulty', k \in KeysOf("mqtt")
        PROVE  mqttSett'[k] = Stored(flash, k)
    <3>1. CASE k \in DOMAIN flash
      BY <1>2, <1>3, <1>8, <2>1, <3>1
    <3>2. CASE k \notin DOMAIN flash
      <4>1. mqttSett'[k] = Stored(mqttSett, k)
        BY <1>8, <2>1, <3>2
      <4>2. Stored(flash, k) = 0
        BY <1>4, <3>2, StoredIs
      <4>3. Stored(mqttSett, k) = 0
        BY <1>6, <2>1, <4>2 DEF LoadedInv, Stored
      <4> QED
        BY <4>1, <4>2, <4>3
    <3> QED
      BY <3>1, <3>2
  <2>2. DOMAIN relayDef = KeysOf("def")
    BY <1>1 DEF LoadedInv
  <2>3. ASSUME ~updated', NEW k \in Keys \ faulty'
        PROVE  /\ k \in DOMAIN relayDef' => relayDef'[k] = Stored(flash', k)
               /\ k \in DOMAIN mqttSett' => mqttSett'[k] = Stored(flash', k)
               /\ k \in DOMAIN ioSett' /\ ~overwritten' => ioSett'[k] = Stored(flash', k)
    <3>1. ~updated /\ k \in Keys \ faulty /\ Stored(flash', k) = Stored(flash, k)
      BY <1>1, <1>6, <2>3 DEF Stored
    <3> QED
      BY <1>1, <1>7, <2>1, <2>3, <3>1 DEF LoadedInv
  <2> QED
    BY <1>1, <1>7, <2>2, <2>3, Zenon DEF LoadedInv
<1> QED
  BY <1>10, <1>11, <1>12, <1>13

\* The requests that save nothing: pieces and what ends them.
LEMMA KeptByPiece ==
  ASSUME SettingsInv, NEW g \in Endpoints, Piece(g) \/ Overflow(g) \/ Abort(g)
  PROVE  SettingsInv'
<1> USE DEF SettingsInv
<1>1. UNCHANGED <<flash, boot, relayDef, mqttSett, ioSett, mqttStatus, overwritten, updated,
                  request, tmp, next, asked, posted, faulty>>
  BY DEF Piece, Overflow, Abort, ramVars
<1>2. \/ /\ cursor' = [cursor EXCEPT ![g] = cursor[g] + 1] /\ sent' = [sent EXCEPT ![g] = sent[g] + 1]
         /\ cursor[g] + 1 <= BodyCap
      \/ cursor' = [cursor EXCEPT ![g] = 0] /\ sent' = [sent EXCEPT ![g] = 0]
  BY DEF Piece, Overflow, Abort, Empty, Ends, Fits
<1>3. cursor \in [Endpoints -> 0..BodyCap] /\ sent \in [Endpoints -> Nat] /\ cursor = sent
  BY DEF TypeOK, RequestInv
<1>4. cursor' \in [Endpoints -> 0..BodyCap] /\ sent' \in [Endpoints -> Nat]
  BY <1>2, <1>3, KeyFacts
<1>5. TypeOK'
  BY <1>1, <1>4 DEF TypeOK
<1>6. RequestInv'
  BY <1>1, <1>2, <1>3 DEF RequestInv
<1>7. SavedInv'
  BY <1>1 DEF SavedInv
<1>8. LoadedInv'
  BY <1>1 DEF LoadedInv, Stored
<1> QED
  BY <1>5, <1>6, <1>7, <1>8

\* The last piece sets the flag before anything is saved, and what is parsed
\* is the body of this request alone.
LEMMA KeptByPost ==
  ASSUME SettingsInv, NEW g \in Endpoints, Post(g) PROVE SettingsInv'
<1> USE DEF SettingsInv
<1>1. /\ UNCHANGED <<flash, boot, relayDef, mqttSett, ioSett, mqttStatus, overwritten, posted,
                     faulty>>
      /\ boot = "up" /\ request = "none" /\ updated' = TRUE
      /\ cursor' = [cursor EXCEPT ![g] = 0] /\ sent' = [sent EXCEPT ![g] = 0]
  BY DEF Post, Listens, Empty, Ends, ramVars
<1>2. next = 0 /\ DOMAIN asked = {} /\ cursor[g] = sent[g] /\ g # "none"
  BY <1>1 DEF RequestInv, Endpoints
<1>3. \/ request' = "none" /\ tmp' = tmp /\ next' = next /\ asked' = asked
      \/ /\ asked' \in [KeysOf(g) -> Values] /\ tmp' = asked' /\ next' = 1 /\ request' = g
  BY <1>1, <1>2 DEF Post, Parsed
<1>4. cursor \in [Endpoints -> 0..BodyCap] /\ sent \in [Endpoints -> Nat] /\ cursor = sent
  BY DEF TypeOK, RequestInv
<1>5. cursor' = sent'
  BY <1>1, <1>4
<1>6. cursor' \in [Endpoints -> 0..BodyCap] /\ sent' \in [Endpoints -> Nat]
  BY <1>1, <1>4, KeyFacts
<1>7. KeysOf(g) \in SUBSET Keys
  BY KeyFacts
<1>8. /\ asked' \in Partial(Keys) /\ tmp' \in Partial(Keys) /\ next' \in Nat
      /\ request' \in Endpoints \cup {"none"}
  <2>1. CASE asked' \in [KeysOf(g) -> Values] /\ tmp' = asked' /\ next' = 1 /\ request' = g
    BY <1>7, <2>1, PartialTotal
  <2>2. CASE request' = "none" /\ tmp' = tmp /\ next' = next /\ asked' = asked
    BY <2>2 DEF TypeOK
  <2> QED
    BY <1>3, <2>1, <2>2
<1>9. TypeOK'
  BY <1>1, <1>6, <1>8 DEF TypeOK
<1>10. RequestInv'
  <2>1. CASE request' = "none" /\ next' = next /\ asked' = asked
    BY <1>2, <1>5, <2>1, Zenon DEF RequestInv
  <2>2. CASE asked' \in [KeysOf(g) -> Values] /\ tmp' = asked' /\ next' = 1 /\ request' = g
    <3>1. DOMAIN asked' = KeysOf(request') /\ next' # 0 /\ request' \in Endpoints
      BY <2>2
    <3> QED
      BY <1>1, <1>5, <2>2, <3>1, Zenon DEF RequestInv
  <2> QED
    BY <1>3, <2>1, <2>2
<1>11. SavedInv'
  <2>1. \A k \in DOMAIN asked' : ~(k[2] < next')
    <3>1. CASE DOMAIN asked' = {}
      BY <3>1
    <3>2. CASE DOMAIN asked' = KeysOf(g) /\ next' = 1
      <4> SUFFICES ASSUME NEW k \in KeysOf(g) PROVE ~(k[2] < 1)
        BY <3>2
      <4>1. PICK i \in 1..NKeys(g) : k = <<g, i>>
        BY KeyFacts
      <4> QED
        BY <4>1, KeyFacts
    <3> QED
      BY <1>2, <1>3, <3>1, <3>2
  <2> QED
    BY <1>1, <1>2, <2>1 DEF SavedInv
<1>12. LoadedInv'
  BY <1>1 DEF LoadedInv
<1> QED
  BY <1>9, <1>10, <1>11, <1>12

\* One key is written, or its save failed; the flag is already set.
LEMMA KeptBySaveOne ==
  ASSUME SettingsInv, SaveOne PROVE SettingsInv'
<1> DEFINE k == <<request, next>>
<1> USE DEF SettingsInv
<1>1. /\ UNCHANGED <<boot, relayDef, mqttSett, ioSett, mqttStatus, overwritten, updated, request,
                     cursor, tmp, sent, asked, posted>>
      /\ next' = next + 1 /\ next \in 1..NKeys(request)
  BY DEF SaveOne, ramVars
<1>2. next \in Nat /\ flash \in Partial(Keys) /\ asked \in Partial(Keys) /\ faulty \in SUBSET Keys
  BY DEF TypeOK
<1>3. next # 0 /\ next' # 0 /\ next' \in Nat
  <2>1. request = "def" \/ request = "mqtt" \/ request \notin Endpoints
    BY DEF Endpoints
  <2>2. NKeys(request) \in Nat
    BY KeyFacts DEF NKeys
  <2> QED
    BY <1>1, <1>2, <2>2
<1>4. /\ request \in Endpoints /\ DOMAIN asked = KeysOf(request) /\ tmp = asked /\ updated
      /\ boot = "up"
  BY <1>3 DEF RequestInv
<1>5. k \in KeysOf(request) /\ k \in Keys
  BY <1>1, <1>4, KeyFacts
<1>6. \A l \in KeysOf(request) : l[2] = next => l = k
  BY <1>4, KeyFacts
<1>7. \A l \in KeysOf(request) : l[2] \in Nat
  BY <1>4, KeyFacts
<1>8. k[2] = next
  OBVIOUS
<1>9. \/ flash' = With(flash, k, asked[k]) /\ faulty' = faulty \ {k}
      \/ flash' = flash /\ faulty' = faulty \cup {k}
  BY <1>4, Zenon DEF SaveOne
<1> HIDE DEF k
<1>10. asked[k] \in Values
  BY <1>2, <1>4, <1>5, StoredIs
<1>11. flash' \in Partial(Keys)
  BY <1>2, <1>5, <1>9, <1>10, WithPartial
<1>12. k \notin faulty' => k \in DOMAIN flash' /\ flash'[k] = asked[k]
  <2>1. CASE flash' = With(flash, k, asked[k])
    <3>1. flash'[k] = asked[k]
      BY <2>1, WithAt
    <3>2. DOMAIN flash' = DOMAIN flash \cup {k}
      BY <2>1, WithDomain
    <3> QED
      BY <3>1, <3>2
  <2> QED
    BY <1>9, <2>1
<1>13. \A l \in DOMAIN flash : l # k => l \in DOMAIN flash' /\ flash'[l] = flash[l]
  <2>1. CASE flash' = With(flash, k, asked[k])
    <3>1. \A l \in DOMAIN flash : l # k => flash'[l] = flash[l]
      BY <2>1, WithAt
    <3>2. DOMAIN flash' = DOMAIN flash \cup {k}
      BY <2>1, WithDomain
    <3> QED
      BY <3>1, <3>2
  <2> QED
    BY <1>9, <2>1
<1>14. \A l : l # k => (l \in faulty' <=> l \in faulty)
  BY <1>9
<1>15. TypeOK'
  <2>1. faulty' \in SUBSET Keys
    BY <1>2, <1>5, <1>9
  <2> QED
    BY <1>1, <1>3, <1>11, <2>1 DEF TypeOK
<1>16. RequestInv'
  BY <1>1, <1>3, <1>4 DEF RequestInv
<1>17. SavedInv'
  <2>1. ASSUME NEW l \in DOMAIN posted \ (faulty' \cup DOMAIN asked)
        PROVE  l \in DOMAIN flash' /\ flash'[l] = posted[l]
    <3>1. l # k /\ l \notin faulty
      BY <1>4, <1>5, <1>14, <2>1
    <3>2. l \in DOMAIN flash /\ flash[l] = posted[l]
      BY <2>1, <3>1 DEF SavedInv
    <3> QED
      BY <1>13, <3>1, <3>2
  <2>2. ASSUME NEW l \in DOMAIN asked \ faulty', l[2] < next'
        PROVE  l \in DOMAIN flash' /\ flash'[l] = asked[l]
    <3>1. CASE l = k
      BY <1>12, <2>2, <3>1
    <3>2. CASE l # k
      <4>1. l[2] \in Nat /\ l[2] # next /\ l \notin faulty
        BY <1>4, <1>6, <1>7, <1>14, <2>2, <3>2
      <4>2. l[2] < next
        BY <1>1, <1>2, <2>2, <4>1
      <4>3. l \in DOMAIN flash /\ flash[l] = asked[l]
        BY <2>2, <4>1, <4>2 DEF SavedInv
      <4> QED
        BY <1>13, <3>2, <4>3
    <3> QED
      BY <3>1, <3>2
  <2> QED
    BY <1>1, <2>1, <2>2, Zenon DEF SavedInv
<1>18. LoadedInv'
  BY <1>1, <1>4 DEF LoadedInv
<1> QED
  BY <1>15, <1>16, <1>17, <1>18

\* All keys have been passed: the answer is the truth.
LEMMA KeptByAnswer ==
  ASSUME SettingsInv, Answer PROVE SettingsInv'
<1> USE DEF SettingsInv
<1>1. /\ UNCHANGED <<flash, boot, relayDef, mqttSett, ioSett, mqttStatus, overwritten, updated,
                     cursor, sent, faulty>>
      /\ next > NKeys(request) /\ next' = 0 /\ request' = "none"
      /\ tmp' = NoValues /\ asked' = NoValues
  BY DEF Answer, ramVars
<1>2. /\ next \in Nat /\ asked \in Partial(Keys) /\ posted \in Partial(Keys)
  BY DEF TypeOK
<1>3. next # 0
  <2>1. NKeys(request) \in Nat
    BY KeyFacts DEF NKeys
  <2> QED
    BY <1>1, <1>2, <2>1
<1>4. request \in Endpoints /\ DOMAIN asked = KeysOf(request)
  BY <1>3 DEF RequestInv
<1>5. \A k \in DOMAIN asked : k[2] < next
  <2> SUFFICES ASSUME NEW k \in KeysOf(request) PROVE k[2] < next
    BY <1>4
  <2>1. PICK i \in 1..NKeys(request) : k = <<request, i>>
    BY <1>4, KeyFacts
  <2>2. NKeys(request) \in Nat
    BY <1>4, KeyFacts
  <2> QED
    BY <1>1, <1>2, <2>1, <2>2
<1>6. DOMAIN asked' = {} /\ asked' \in Partial(Keys) /\ tmp' \in Partial(Keys)
  BY <1>1, NoValuesIs
<1>7. /\ posted' \in Partial(Keys)
      /\ \A k \in DOMAIN posted' :
           \/ k \in DOMAIN asked /\ posted'[k] = asked[k]
           \/ k \in DOMAIN posted \ DOMAIN asked /\ posted'[k] = posted[k]
  <2>1. /\ DOMAIN asked \subseteq Keys /\ DOMAIN posted \subseteq Keys
        /\ \A k \in DOMAIN asked : asked[k] \in Values
        /\ \A k \in DOMAIN posted : posted[k] \in Values
    BY <1>2, PartialIs, Zenon
  <2>2. CASE posted' = [k \in DOMAIN posted \cup DOMAIN asked |->
                          IF k \in DOMAIN asked THEN asked[k] ELSE posted[k]]
    <3>1. /\ DOMAIN posted' = DOMAIN posted \cup DOMAIN asked
          /\ \A k \in DOMAIN posted' :
               posted'[k] = IF k \in DOMAIN asked THEN asked[k] ELSE posted[k]
      BY <2>2, Zenon
    <3>2. \A k \in DOMAIN posted' :
           \/ k \in DOMAIN asked /\ posted'[k] = asked[k]
           \/ k \in DOMAIN posted \ DOMAIN asked /\ posted'[k] = posted[k]
      BY <3>1
    <3>3. \A k \in DOMAIN posted' : posted'[k] \in Values
      BY <2>1, <3>2
    <3>4. posted' \in [DOMAIN posted' -> Values]
      BY <2>2, <3>3
    <3> QED
      BY <2>1, <3>1, <3>2, <3>4, PartialIs
  <2>3. CASE posted' = [k \in DOMAIN posted \ DOMAIN asked |-> posted[k]]
    <3>1. /\ DOMAIN posted' = DOMAIN posted \ DOMAIN asked
          /\ \A k \in DOMAIN posted' : posted'[k] = posted[k]
      BY <2>3, Zenon
    <3>2. \A k \in DOMAIN posted' : posted'[k] \in Values
      BY <2>1, <3>1
    <3>3. posted' \in [DOMAIN posted' -> Values]
      BY <2>3, <3>2
    <3> QED
      BY <2>1, <3>1, <3>3, PartialIs
  <2> QED
    BY <2>2, <2>3 DEF Answer
<1>8. TypeOK'
  BY <1>1, <1>6, <1>7 DEF TypeOK
<1>9. RequestInv'
  BY <1>1, <1>6 DEF RequestInv
<1>10. SavedInv'
  BY <1>1, <1>5, <1>6, <1>7 DEF SavedInv
<1>11. LoadedInv'
  BY <1>1 DEF LoadedInv, Stored
<1> QED
  BY <1>8, <1>9, <1>10, <1>11

\* A request for a reboot changes nothing yet.
LEMMA KeptByReboot ==
  ASSUME SettingsInv, Reboot PROVE SettingsInv'
<1> USE DEF SettingsInv
<1>1. /\ UNCHANGED <<flash, boot, relayDef, mqttSett, ioSett, mqttStatus, overwritten, updated,
                     cursor, tmp, next, sent, asked, posted, faulty>>
      /\ request = "none" /\ request' = "reboot"
  BY DEF Reboot, Listens, ramVars
<1>2. request' \notin Endpoints /\ request \notin Endpoints
  BY <1>1 DEF Endpoints
<1>3. TypeOK'
  BY <1>1 DEF TypeOK
<1>4. RequestInv'
  BY <1>1, <1>2 DEF RequestInv
<1>5. SavedInv'
  BY <1>1 DEF SavedInv
<1>6. LoadedInv'
  BY <1>1 DEF LoadedInv, Stored
<1> QED
  BY <1>3, <1>4, <1>5, <1>6

\* A reset leaves the keys it kept from being saved without a promise.
LEMMA KeptByPowerOff ==
  ASSUME SettingsInv, PowerOff PROVE SettingsInv'
<1> USE DEF SettingsInv
<1>1. /\ boot' = "off" /\ updated' = FALSE /\ request' = "none" /\ next' = 0
      /\ relayDef' = NoValues /\ mqttSett' = NoValues /\ ioSett' = NoValues
      /\ mqttStatus' = "none" /\ overwritten' = FALSE
      /\ tmp' = NoValues /\ asked' = NoValues
      /\ cursor' = NoPieces /\ sent' = NoPieces
      /\ faulty' = faulty \cup DOMAIN asked
      /\ flash' = flash /\ posted' = posted
  BY DEF PowerOff
<1>2. DOMAIN asked \subseteq Keys /\ faulty \subseteq Keys
  BY PartialIs DEF TypeOK
<1>3. /\ DOMAIN relayDef' = {} /\ DOMAIN mqttSett' = {} /\ DOMAIN ioSett' = {} /\ DOMAIN asked' = {}
  BY <1>1, NoValuesIs
<1>4. TypeOK'
  <2>1. cursor' \in [Endpoints -> 0..BodyCap] /\ sent' \in [Endpoints -> Nat]
    BY <1>1, KeyFacts DEF NoPieces
  <2> QED
    BY <1>1, <1>2, <2>1, NoValuesIs DEF TypeOK
<1>5. RequestInv'
  BY <1>1, <1>3 DEF RequestInv
<1>6. SavedInv'
  BY <1>1, <1>3 DEF SavedInv
<1>7. LoadedInv'
  BY <1>1, <1>3 DEF LoadedInv
<1> QED
  BY <1>4, <1>5, <1>6, <1>7

-----------------------------------------------------------------------------
(* What follows.                                                           *)

\* The invariant holds always.
LEMMA SettingsKept == Spec => []SettingsInv
<1>1. SettingsInv /\ [Next]_vars => SettingsInv'
  <2> SUFFICES ASSUME SettingsInv, [Next]_vars PROVE SettingsInv'
    OBVIOUS
  <2>1. CASE UNCHANGED vars
    <3> USE <2>1 DEF vars, ramVars, requestVars, SettingsInv
    <3>1. TypeOK'
      BY DEF TypeOK
    <3>2. RequestInv'
      BY DEF RequestInv
    <3>3. SavedInv'
      BY DEF SavedInv
    <3>4. LoadedInv'
      BY DEF LoadedInv, Stored
    <3> QED
      BY <3>1, <3>2, <3>3, <3>4
  <2> QED
    BY <2>1, KeptByPowerOn, KeptByIoLoad, KeptByIoTaskLoad, KeptByStatus, KeptByIpEvent, KeptByPiece,
       KeptByPost, KeptBySaveOne, KeptByAnswer, KeptByReboot, KeptByPowerOff DEF Next
<1> QED
  BY <1>1, StartsRight, PTL DEF Spec

\* Every variable keeps its type; the cursors stay inside their buffers.
THEOREM SettingsTypeCorrect == Spec => []TypeOK
<1>1. SettingsInv => TypeOK
  BY DEF SettingsInv
<1> QED
  BY <1>1, SettingsKept, PTL

\* What was answered with 200 is what is stored.
THEOREM AnswersAreKept == Spec => []AnsweredIsStored
<1>1. SettingsInv => AnsweredIsStored
  BY DEF SettingsInv, RequestInv, SavedInv, AnsweredIsStored
<1> QED
  BY <1>1, SettingsKept, PTL

\* A value in use that is not the stored one is reported.
THEOREM RebootIsReported == Spec => []RebootReported
<1>1. SettingsInv => RebootReported
  <2> SUFFICES ASSUME SettingsInv, boot = "up", NEW k \in Keys \ faulty, ~updated
               PROVE  InRam(k) = {Stored(flash, k)}
    BY Zenon DEF RebootReported
  <2> USE DEF SettingsInv, LoadedInv
  <2>1. k \in KeysOf("def") => Stored(relayDef, k) = Stored(flash, k)
    <3>1. k \in KeysOf("def") => k \in DOMAIN relayDef /\ relayDef[k] = Stored(flash, k)
      OBVIOUS
    <3> QED
      BY <3>1, Zenon DEF Stored
  <2>2. k \notin KeysOf("def") => Stored(mqttSett, k) = Stored(flash, k)
    <3>1. k \notin KeysOf("def") => k \in DOMAIN mqttSett /\ mqttSett[k] = Stored(flash, k)
      BY KeyFacts
    <3> QED
      BY <3>1, Zenon DEF Stored
  <2>3. ~overwritten => \A l \in DOMAIN ioSett \cap {k} : ioSett[l] = Stored(flash, k)
    OBVIOUS
  <2> QED
    BY <2>1, <2>2, <2>3, Zenon DEF InRam
<1> QED
  BY <1>1, SettingsKept, PTL

\* After a reboot the values in use are the ones answered with 200 last.
THEOREM RebootApplies == Spec => []AppliedAfterReboot
<1>1. SettingsInv /\ RebootReported /\ AnsweredIsStored => AppliedAfterReboot
  <2> SUFFICES ASSUME SettingsInv, RebootReported, AnsweredIsStored, boot = "up", ~updated,
                      NEW k \in DOMAIN posted \ faulty
               PROVE  InRam(k) = {posted[k]}
    BY Zenon DEF AppliedAfterReboot
  <2>1. next = 0
    BY DEF SettingsInv, RequestInv
  <2>2. k \in Keys
    <3>1. DOMAIN posted \subseteq Keys
      BY PartialIs, Zenon DEF SettingsInv, TypeOK
    <3> QED
      BY <3>1
  <2>3. k \in DOMAIN flash /\ flash[k] = posted[k]
    BY <2>1 DEF AnsweredIsStored
  <2>4. Stored(flash, k) = posted[k]
    BY <2>3 DEF Stored
  <2>5. InRam(k) = {Stored(flash, k)}
    BY <2>2, Zenon DEF RebootReported
  <2> QED
    BY <2>4, <2>5, Zenon
<1> QED
  BY <1>1, SettingsKept, RebootIsReported, AnswersAreKept, PTL

-----------------------------------------------------------------------------
(* A save that is cut.                                                     *)

\* The keys that the loop has not reached still have the old value.
OwedInv ==
  \A k \in (DOMAIN posted \cap DOMAIN asked) \ faulty :
    ~(k[2] < next) => k \in DOMAIN flash /\ flash[k] = posted[k]

\* The loop saves the keys one by one; nothing else is stored meanwhile.
LEMMA OwedStep ==
  SettingsInv /\ SettingsInv' /\ OwedInv /\ [Next]_vars => OwedInv'
<1> SUFFICES ASSUME SettingsInv, SettingsInv', OwedInv, [Next]_vars, next' # 0 PROVE OwedInv'
  <2>1. SettingsInv' /\ next' = 0 => OwedInv'
    BY DEF SettingsInv, RequestInv, OwedInv
  <2> QED
    BY <2>1
<1>1. next # 0 => boot = "up" /\ DOMAIN asked = KeysOf(request) /\ tmp = asked
                  /\ request \in Endpoints
  BY DEF SettingsInv, RequestInv
<1>2. CASE UNCHANGED <<flash, posted, asked, next>> /\ faulty \subseteq faulty'
  BY <1>2 DEF OwedInv
<1>3. CASE \E g \in Endpoints : Post(g)
  <2>1. UNCHANGED <<flash, posted, faulty>> /\ next = 0
    BY <1>3 DEF Post, Listens, SettingsInv, RequestInv, Endpoints
  <2>2. DOMAIN asked = {}
    BY <2>1 DEF SettingsInv, RequestInv
  <2> QED
    BY <2>1, <2>2 DEF SettingsInv, SavedInv, OwedInv
<1>4. CASE SaveOne
  <2> DEFINE k == <<request, next>>
  <2>1. UNCHANGED <<request, asked, posted>> /\ next' = next + 1 /\ next \in Nat
    BY <1>4 DEF SaveOne, SettingsInv, TypeOK
  <2>2. next # 0
    <3>1. next \in 1..NKeys(request) /\ NKeys(request) \in Nat
      BY <1>4, KeyFacts DEF SaveOne, NKeys
    <3> QED
      BY <3>1
  <2>3. \/ flash' = With(flash, k, tmp[k]) /\ faulty' = faulty \ {k}
        \/ flash' = flash /\ faulty' = faulty \cup {k}
    BY <1>4, Zenon DEF SaveOne
  <2>4. \A l \in DOMAIN asked : l[2] \in Nat
    BY <1>1, <2>2, KeyFacts
  <2>5. k[2] = next
    OBVIOUS
  <2> HIDE DEF k
  <2> SUFFICES ASSUME NEW l \in (DOMAIN posted \cap DOMAIN asked) \ faulty', ~(l[2] < next')
               PROVE  l \in DOMAIN flash' /\ flash'[l] = posted[l]
    BY <2>1 DEF OwedInv
  <2>6. ~(l[2] < next) /\ l # k
    BY <2>1, <2>4, <2>5
  <2>7. l \in DOMAIN flash /\ flash[l] = posted[l]
    BY <2>3, <2>6 DEF OwedInv
  <2>8. CASE flash' = With(flash, k, tmp[k])
    <3>1. flash'[l] = flash[l]
      BY <2>6, <2>7, <2>8, WithAt
    <3>2. DOMAIN flash' = DOMAIN flash \cup {k}
      BY <2>8, WithDomain
    <3> QED
      BY <2>7, <3>1, <3>2
  <2>9. CASE flash' = flash
    BY <2>7, <2>9
  <2> QED
    BY <2>3, <2>8, <2>9
<1>5. CASE UNCHANGED vars
  BY <1>5 DEF vars, requestVars, OwedInv
<1>6. CASE IoTaskLoad \/ IpEvent \/ IoTaskReads \/ MqttPublishes
  <2>1. UNCHANGED <<flash, posted, asked, next>>
    BY <1>6 DEF IoTaskLoad, IpEvent, IoTaskReads, MqttPublishes, requestVars
  <2>2. faulty \subseteq faulty'
    BY <1>6 DEF IoTaskLoad, IpEvent, IoTaskReads, MqttPublishes
  <2> QED
    BY <1>2, <2>1, <2>2
<1>7. ~(PowerOn \/ \E i \in 1..NDef : IoLoad(i))
  BY <1>1 DEF PowerOn, IoLoad, requestVars
<1>8. ~(\E g \in Endpoints : Piece(g) \/ Overflow(g) \/ Abort(g))
  BY <1>1 DEF Piece, Overflow, Abort, Listens, Endpoints
<1>9. ~(Answer \/ Reboot \/ PowerOff)
  BY <1>1 DEF Answer, Reboot, PowerOff, Listens, Endpoints
<1> QED
  BY <1>3, <1>4, <1>5, <1>6, <1>7, <1>8, <1>9 DEF Next

\* What power leaves behind when it is cut between two settings_save_one of
\* a request: the values of the request for the keys its loop has passed,
\* those answered before for all other keys.
CutLeavesPrefix ==
  [][boot # "off" /\ boot' = "off" =>
       \A k \in DOMAIN posted \ faulty :
         /\ k \in DOMAIN flash'
         /\ flash'[k] = IF k \in DOMAIN asked /\ k[2] < next THEN asked[k] ELSE posted[k]]_vars

\* No other mixture is stored, whatever the numbers of keys.
THEOREM CutsLeavePrefix == Spec => CutLeavesPrefix
<1>1. Init => OwedInv
  BY NoValuesIs DEF Init, OwedInv
<1>2. SettingsInv /\ OwedInv /\ [Next]_vars
        => [boot # "off" /\ boot' = "off" =>
              \A k \in DOMAIN posted \ faulty :
                /\ k \in DOMAIN flash'
                /\ flash'[k] = IF k \in DOMAIN asked /\ k[2] < next
                                 THEN asked[k] ELSE posted[k]]_vars
  <2> SUFFICES ASSUME SettingsInv, OwedInv, Next, boot # "off", boot' = "off",
                      NEW k \in DOMAIN posted \ faulty
               PROVE  /\ k \in DOMAIN flash'
                      /\ flash'[k] = IF k \in DOMAIN asked /\ k[2] < next
                                       THEN asked[k] ELSE posted[k]
    OBVIOUS
  <2>1. flash' = flash
    BY
    DEF Next, PowerOn, IoLoad, IoTaskLoad, IoTaskReads, MqttPublishes, IpEvent, Piece, Overflow,
        Abort, Post, SaveOne, Answer, Reboot, PowerOff
  <2>2. CASE k \notin DOMAIN asked
    BY <2>1, <2>2 DEF SettingsInv, SavedInv
  <2>3. CASE k \in DOMAIN asked /\ k[2] < next
    BY <2>1, <2>3 DEF SettingsInv, SavedInv
  <2>4. CASE k \in DOMAIN asked /\ ~(k[2] < next)
    BY <2>1, <2>4 DEF OwedInv
  <2> QED
    BY <2>2, <2>3, <2>4
<1> QED
  BY <1>1, <1>2, OwedStep, SettingsKept, PTL DEF Spec, CutLeavesPrefix

\* While the flash works and no reset comes between the saves of a request
\* (POST /api/system/reboot cannot: the HTTP thread is busy), nothing is
\* ever lost: the exception that the other theorems make is empty.
CutBetweenRequests == [][boot # "off" /\ boot' = "off" => next = 0]_vars

\* What was answered is stored, and what is stored is used after a reboot,
\* but for io_task's copy of "enabled" once it is overwritten (InRam).
THEOREM NothingLostBetweenRequests ==
  ASSUME ~FlashFails
  PROVE  Spec /\ CutBetweenRequests =>
           /\ [](next = 0 => \A k \in DOMAIN posted : k \in DOMAIN flash /\ flash[k] = posted[k])
           /\ [](boot = "up" /\ ~updated => \A k \in DOMAIN posted : InRam(k) = {posted[k]})
<1> DEFINE Faultless == faulty = {}
           Cut == boot # "off" /\ boot' = "off" => next = 0
           Kept == next = 0 => \A k \in DOMAIN posted : k \in DOMAIN flash /\ flash[k] = posted[k]
           Used == boot = "up" /\ ~updated => \A k \in DOMAIN posted : InRam(k) = {posted[k]}
<1>1. Init => Faultless
  BY DEF Init
<1>2. SettingsInv /\ Faultless /\ [Next]_vars /\ [Cut]_vars => Faultless'
  <2> SUFFICES ASSUME SettingsInv, Faultless, [Next]_vars, [Cut]_vars PROVE Faultless'
    OBVIOUS
  <2>1. CASE PowerOff
    <3>1. next = 0
      BY <2>1 DEF PowerOff, vars
    <3>2. DOMAIN asked = {}
      BY <3>1 DEF SettingsInv, RequestInv
    <3> QED
      BY <2>1, <3>2 DEF PowerOff
  <2>2. CASE IpEvent
    <3>1. PICK failed \in SUBSET KeysOf("mqtt") :
            (failed # {} => FlashFails) /\ faulty' = faulty \cup Lost(failed)
      BY <2>2 DEF IpEvent
    <3>2. Lost(failed) = {}
      BY <3>1 DEF Lost
    <3> QED
      BY <3>1, <3>2
  <2>3. CASE IoTaskLoad \/ \E i \in 1..NDef : IoLoad(i)
    BY <2>3 DEF IoTaskLoad, IoLoad, MayFail, Lost, Finds
  <2>4. CASE SaveOne
    BY <2>4 DEF SaveOne
  <2> QED
    BY <2>1, <2>2, <2>3, <2>4
    DEF Next, PowerOn, IoTaskReads, MqttPublishes, Piece, Overflow, Abort, Post, Answer, Reboot,
        vars
<1>3. Faultless /\ AnsweredIsStored => Kept
  BY DEF AnsweredIsStored
<1>4. Faultless /\ AppliedAfterReboot => Used
  BY DEF AppliedAfterReboot
<1>5. Spec => []SettingsInv
  BY SettingsKept
<1>6. Spec => []AnsweredIsStored /\ []AppliedAfterReboot
  BY AnswersAreKept, RebootApplies
<1>7. CutBetweenRequests <=> [][Cut]_vars
  BY DEF CutBetweenRequests
<1> HIDE DEF Faultless, Cut, Kept, Used
<1>8. Spec /\ CutBetweenRequests => []Kept /\ []Used
  BY <1>1, <1>2, <1>3, <1>4, <1>5, <1>6, <1>7, PTL DEF Spec
<1> QED
  BY <1>8 DEF Kept, Used
=============================================================================
