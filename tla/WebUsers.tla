------------------------------ MODULE WebUsers ------------------------------
(***************************************************************************)
(* The accounts of the web interface (authentication.c, web_user_mgmt.c):  *)
(* a table of MAX_USERS slots in RAM and its copy in the settings          *)
(* partition.  Requests come from the HTTP server's one thread, so each is *)
(* one step.  A slot whose name is empty is free; a hash is identified     *)
(* with its password.  WebAccess composes them with the sessions.          *)
(***************************************************************************)
EXTENDS Naturals, FiniteSets

CONSTANTS
  MaxUsers,     \* MAX_USERS
  Names,        \* user names a request can carry, the empty one included
  Passwords,    \* passwords a request can carry
  DefaultName,  \* DEFAULT_USERNAME
  DefaultPass,  \* DEFAULT_PASSWORD
  FlashFails    \* may an access to the settings partition fail?

ASSUME WebUsersAssumption ==
  /\ MaxUsers \in Nat \ {0}
  /\ DefaultName \in Names \ {""}
  /\ DefaultPass \in Passwords
  /\ "" \notin Passwords
  /\ FlashFails \in BOOLEAN

VARIABLES
  ram,          \* web_users_list
  flash,        \* the value of web_users_settings; all slots free: not set
  up,           \* has the HTTP server been started?
  reply,        \* history: the request just answered and its result
  drift         \* history: has a change failed to reach flash since the two
                \*   were last written or read together?

userVars == <<ram, flash, up, reply, drift>>

UserSlots == 1..MaxUsers
Free == [name |-> "", pass |-> ""]
Account == [name : Names \ {""}, pass : Passwords] \cup {Free}
NoUsers == [i \in UserSlots |-> Free]

First(S) == CHOOSE i \in S : \A j \in S : i <= j

Used(list) == {i \in UserSlots : list[i].name # ""}
Named(list, n) == {i \in UserSlots : list[i].name = n}

Answer(op, n, p, result) == reply' = [op |-> op, name |-> n, pass |-> p, result |-> result]

NoReply == [op |-> "none", name |-> "", pass |-> "", result |-> "none"]

UsersInit ==
  /\ ram = NoUsers
  /\ flash = NoUsers
  /\ up = FALSE
  /\ reply = NoReply
  /\ drift = FALSE

-----------------------------------------------------------------------------
\* settings_save_one succeeds or, when flash accesses may fail, does not.
Save(list, saved) ==
  \/ saved /\ flash' = list /\ drift' = FALSE
  \/ FlashFails /\ ~saved /\ drift' = TRUE /\ UNCHANGED flash

\* Mutant: a refused list is taken for a saved one.
UpdateUsers_Silent(list, saved) ==
  IF list[1].name = "" THEN saved /\ UNCHANGED <<flash, drift>> ELSE Save(list, saved)

\* update_users: a list whose first slot is free is refused.
UpdateUsers(list, saved) ==
  IF list[1].name = ""
    THEN ~saved /\ drift' = TRUE /\ UNCHANGED flash
    ELSE Save(list, saved)

\* The first part of authentication_init: the stored table replaces the one
\* in RAM, and when nothing can be loaded the default account is put into
\* the first slot and saved, result ignored.
LoadUsers ==
  /\ up' = TRUE
  /\ reply' = NoReply
  /\ \/ /\ flash # NoUsers
        /\ ram' = flash
        /\ drift' = FALSE
        /\ UNCHANGED flash
     \/ /\ flash = NoUsers \/ FlashFails
        /\ ram' = [ram EXCEPT ![1] = [name |-> DefaultName, pass |-> DefaultPass]]
        /\ \E saved \in BOOLEAN : Save(ram', saved)

\* Mutant: the result of the save is ignored.
AddUser_IgnoresSave(n, p) ==
  LET stops == Named(ram, n) \cup Named(ram, "") IN
  /\ up
  /\ stops # {} /\ First(stops) \notin Named(ram, n)
  /\ ram' = [ram EXCEPT ![First(stops)] = [name |-> n, pass |-> p]]
  /\ \E saved \in BOOLEAN : UpdateUsers(ram', saved)
  /\ Answer("add", n, p, "ok")
  /\ UNCHANGED up

\* add_web_user: one pass over the slots stops at the first that has the
\* name or is free.
AddUser(n, p) ==
  LET stops == Named(ram, n) \cup Named(ram, "") IN
  /\ up
  /\ \/ /\ stops = {}
        /\ Answer("add", n, p, "no space")
        /\ UNCHANGED <<ram, flash, drift>>
     \/ /\ stops # {} /\ First(stops) \in Named(ram, n)
        /\ Answer("add", n, p, "exists")
        /\ UNCHANGED <<ram, flash, drift>>
     \/ /\ stops # {} /\ First(stops) \notin Named(ram, n)
        /\ ram' = [ram EXCEPT ![First(stops)] = [name |-> n, pass |-> p]]
        /\ \E saved \in BOOLEAN :
             /\ UpdateUsers(ram', saved)
             /\ Answer("add", n, p, IF saved THEN "ok" ELSE "error")
  /\ UNCHANGED up

\* Mutant: the hash of a deleted account stays in its slot.
DeleteUser_NameOnly(n) ==
  /\ up
  /\ Named(ram, n) # {} /\ Cardinality(Used(ram)) # 1
  /\ ram' = [ram EXCEPT ![First(Named(ram, n))].name = ""]
  /\ \E saved \in BOOLEAN :
       /\ UpdateUsers(ram', saved)
       /\ Answer("delete", n, "", IF saved THEN "ok" ELSE "error")
  /\ UNCHANGED up

\* Mutant: the last account can be deleted.
DeleteUser_Last(n) ==
  /\ up
  /\ Named(ram, n) # {}
  /\ ram' = [ram EXCEPT ![First(Named(ram, n))] = Free]
  /\ \E saved \in BOOLEAN :
       /\ UpdateUsers(ram', saved)
       /\ Answer("delete", n, "", IF saved THEN "ok" ELSE "error")
  /\ UNCHANGED up

\* delete_web_user: the first slot with the name is cleared, unless it is
\* the only account left.
DeleteUser(n) ==
  /\ up
  /\ \/ /\ Named(ram, n) = {}
        /\ Answer("delete", n, "", "not found")
        /\ UNCHANGED <<ram, flash, drift>>
     \/ /\ Named(ram, n) # {} /\ Cardinality(Used(ram)) = 1
        /\ Answer("delete", n, "", "last user")
        /\ UNCHANGED <<ram, flash, drift>>
     \/ /\ Named(ram, n) # {} /\ Cardinality(Used(ram)) # 1
        /\ ram' = [ram EXCEPT ![First(Named(ram, n))] = Free]
        /\ \E saved \in BOOLEAN :
             /\ UpdateUsers(ram', saved)
             /\ Answer("delete", n, "", IF saved THEN "ok" ELSE "error")
  /\ UNCHANGED up

\* A reset loses the table in RAM.
LoseUsers ==
  /\ up
  /\ up' = FALSE
  /\ ram' = NoUsers
  /\ reply' = NoReply
  /\ UNCHANGED <<flash, drift>>

\* check_user_credentials.
Accepts(list, n, p) == \E i \in UserSlots : list[i].name = n /\ list[i].pass = p

UsersTypeOK ==
  /\ ram \in [UserSlots -> Account]
  /\ flash \in [UserSlots -> Account]
  /\ up \in BOOLEAN
  /\ reply.op \in {"none", "add", "delete"}
  /\ drift \in BOOLEAN
=============================================================================
