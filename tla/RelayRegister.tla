---------------------------- MODULE RelayRegister ----------------------------
(***************************************************************************)
(* What the users of outputs_zbus_topik may rely on: one register with the *)
(* commanded state of all relays, and one client that works on a copy of   *)
(* it.  A client's command for one relay is applied to its copy, and the   *)
(* result replaces the register; other writers replace the whole state.    *)
(* Each takes the number after the one it has read ("a unique number or a  *)
(* counter of the message", zbus_topics.h).                                *)
(***************************************************************************)
EXTENDS Naturals

CONSTANTS NRelays, SeqMod,
  Writers       \* does anybody else write the register?

VARIABLES register, copy

vars == <<register, copy>>

Message == [seq : 0..(SeqMod - 1), state : SUBSET (1..NRelays)]

After(m, s) == [seq |-> (m.seq + 1) % SeqMod, state |-> s]

\* A command for one relay leaves the others as they are.
With(s, r, on) == IF on THEN s \cup {r} ELSE s \ {r}

Init ==
  /\ register = [seq |-> 0, state |-> {}]
  /\ copy = register

\* Somebody else sets all relays.
Write(s) ==
  /\ Writers
  /\ register' = After(register, s)
  /\ UNCHANGED copy

\* The client reads the register.
Fetch ==
  /\ copy' = register
  /\ UNCHANGED register

\* The client executes a command.
SetRelay(r, on) ==
  /\ copy' = After(copy, With(copy.state, r, on))
  /\ register' = copy'

Next ==
  \/ \E s \in SUBSET (1..NRelays) : Write(s)
  \/ Fetch
  \/ \E r \in 1..NRelays, on \in BOOLEAN : SetRelay(r, on)

Spec == Init /\ [][Next]_vars

\* A command changes the state the register has at that moment, and nothing
\* but the relay it names.
AtomicCommands ==
  [][\E r \in 1..NRelays, on \in BOOLEAN :
        register' = After(register, With(register.state, r, on))]_register
=============================================================================
