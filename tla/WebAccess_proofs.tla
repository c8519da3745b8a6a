--------------------------- MODULE WebAccess_proofs --------------------------
(***************************************************************************)
(* Theorems about the accounts and the sessions, for tables of any size    *)
(* and any names, passwords and lifetimes.                                 *)
(***************************************************************************)
EXTENDS WebAccess, NumberLemmas

-----------------------------------------------------------------------------
(* The accounts.                                                           *)

\* What is stored starts with an account, and so somebody can log in; RAM
\* and flash agree unless a save failed.
AccountInv ==
  /\ UsersTypeOK
  /\ SomebodyCanLogIn
  /\ ListedIsEffective

\* A free slot is not an account.
LEMMA SlotFacts ==
  /\ NoUsers \in [UserSlots -> Account]
  /\ Free \in Account /\ Free.name = ""
  /\ 1 \in UserSlots
  /\ UserSlots \subseteq Nat
  /\ \A n \in Names \ {""}, p \in Passwords : [name |-> n, pass |-> p] \in Account
<1>1. Free \in Account /\ Free.name = ""
  BY DEF Free, Account
<1>2. 1 \in UserSlots /\ UserSlots \subseteq Nat
  <2>1. MaxUsers \in Nat \ {0}
    BY WebUsersAssumption, Zenon
  <2> QED
    BY <2>1 DEF UserSlots
<1>3. \A n \in Names \ {""}, p \in Passwords : [name |-> n, pass |-> p] \in Account
  BY DEF Account
<1> QED
  BY <1>1, <1>2, <1>3 DEF NoUsers

\* The first slot of a set of slots is one of them, and the smallest.
LEMMA FirstSlot ==
  ASSUME NEW S \in SUBSET UserSlots, S # {}
  PROVE  First(S) \in S /\ \A j \in S : First(S) <= j
<1>1. \E i \in S : \A j \in S : i <= j
  BY SmallestElement, SlotFacts
<1> QED
  BY <1>1 DEF First

\* A table that is saved starts with an account.
LEMMA UpdateSaves ==
  ASSUME NEW list, NEW saved \in BOOLEAN, UpdateUsers(list, saved)
  PROVE  /\ saved => flash' = list /\ drift' = FALSE /\ list[1].name # ""
         /\ ~saved => flash' = flash /\ drift' = TRUE
BY DEF UpdateUsers, Save

\* A request that changes the table leaves it with an account, saved or not.
LEMMA AccountChange ==
  ASSUME AccountInv, up, up' = up, reply'.op \in {"add", "delete"},
         ram' \in [UserSlots -> Account], Used(ram)' # {},
         \E saved \in BOOLEAN : UpdateUsers(ram', saved)
  PROVE  AccountInv'
<1>1. \/ flash' = ram' /\ drift' = FALSE /\ ram'[1].name # ""
      \/ flash' = flash /\ drift' = TRUE
  BY UpdateSaves
<1>2. UsersTypeOK'
  BY <1>1 DEF AccountInv, UsersTypeOK
<1>3. SomebodyCanLogIn'
  BY <1>1 DEF AccountInv, SomebodyCanLogIn
<1>4. ListedIsEffective'
  BY <1>1 DEF ListedIsEffective
<1> QED
  BY <1>2, <1>3, <1>4 DEF AccountInv

\* Initially no server runs and nothing is stored.
LEMMA AccountInit == UsersInit => AccountInv
<1> SUFFICES ASSUME UsersInit PROVE AccountInv
  OBVIOUS
<1>1. UsersTypeOK
  BY SlotFacts DEF UsersInit, UsersTypeOK, NoReply
<1> QED
  BY <1>1 DEF UsersInit, AccountInv, SomebodyCanLogIn, ListedIsEffective

\* authentication_init leaves an account in RAM, whatever the flash does.
LEMMA AccountLoad ==
  ASSUME AccountInv, LoadUsers PROVE AccountInv'
<1> USE DEF AccountInv, UsersTypeOK
<1>1. up' = TRUE /\ reply' = NoReply /\ reply'.op = "none"
  BY DEF LoadUsers, NoReply
<1>2. CASE flash # NoUsers /\ ram' = flash /\ drift' = FALSE /\ UNCHANGED flash
  <2>1. 1 \in Used(flash)
    BY <1>2, SlotFacts DEF SomebodyCanLogIn, Used
  <2> QED
    BY <1>1, <1>2, <2>1 DEF SomebodyCanLogIn, ListedIsEffective
<1>3. CASE /\ ram' = [ram EXCEPT ![1] = [name |-> DefaultName, pass |-> DefaultPass]]
           /\ \E saved \in BOOLEAN : Save(ram', saved)
  <2>1. [name |-> DefaultName, pass |-> DefaultPass] \in Account
    BY WebUsersAssumption, SlotFacts
  <2>2. ram' \in [UserSlots -> Account]
    BY <1>3, <2>1
  <2>3. ram'[1].name # ""
    BY <1>3, SlotFacts, WebUsersAssumption
  <2>4. 1 \in Used(ram)'
    BY <2>3, SlotFacts DEF Used
  <2>5. \/ flash' = ram' /\ drift' = FALSE
        \/ flash' = flash /\ drift' = TRUE
    BY <1>3 DEF Save
  <2> QED
    BY <1>1, <2>2, <2>3, <2>4, <2>5 DEF SomebodyCanLogIn, ListedIsEffective
<1> QED
  BY <1>2, <1>3 DEF LoadUsers

\* A request that changes nothing keeps it.
LEMMA AccountSame ==
  ASSUME AccountInv, UNCHANGED <<ram, flash, up, drift>>,
         reply'.op \in {"none", "add", "delete"}
  PROVE  AccountInv'
BY DEF AccountInv, UsersTypeOK, SomebodyCanLogIn, ListedIsEffective, Used

\* An addition fills the first free slot.
LEMMA AccountAdd ==
  ASSUME AccountInv, NEW n \in Names, NEW p \in Passwords, AddUser(n, p)
  PROVE  AccountInv'
<1> DEFINE stops == Named(ram, n) \cup Named(ram, "")
           slot == First(stops)
<1>1. up /\ up' = up
  BY DEF AddUser
<1>2. reply'.op = "add"
  <2>1. \E r : Answer("add", n, p, r)
    BY DEF AddUser
  <2> QED
    BY <2>1 DEF Answer
<1>3. CASE UNCHANGED <<ram, flash, drift>>
  BY <1>1, <1>2, <1>3, AccountSame
<1>4. CASE /\ stops # {} /\ slot \notin Named(ram, n)
           /\ ram' = [ram EXCEPT ![slot] = [name |-> n, pass |-> p]]
           /\ \E saved \in BOOLEAN : UpdateUsers(ram', saved)
  <2>1. slot \in stops
    BY <1>4, FirstSlot DEF Named
  <2>2. slot \in UserSlots /\ n # ""
    BY <1>4, <2>1 DEF Named
  <2>3. ram \in [UserSlots -> Account]
    BY DEF AccountInv, UsersTypeOK
  <2>4. ram' \in [UserSlots -> Account]
    BY <1>4, <2>2, <2>3, SlotFacts
  <2>5. slot \in Used(ram)'
    BY <1>4, <2>2, <2>3 DEF Used
  <2> QED
    BY <1>1, <1>2, <1>4, <2>4, <2>5, AccountChange
<1> QED
  BY <1>3, <1>4 DEF AddUser

\* A deletion leaves an account, for the last one is refused.
LEMMA AccountDelete ==
  ASSUME AccountInv, NEW n \in Names, DeleteUser(n)
  PROVE  AccountInv'
<1> DEFINE slot == First(Named(ram, n))
<1>1. up /\ up' = up
  BY DEF DeleteUser
<1>2. reply'.op = "delete"
  <2>1. PICK r : Answer("delete", n, "", r)
    BY Zenon DEF DeleteUser
  <2> QED
    BY <2>1, Zenon DEF Answer
<1>3. CASE UNCHANGED <<ram, flash, drift>>
  BY <1>1, <1>2, <1>3, AccountSame
<1>4. CASE /\ Named(ram, n) # {} /\ Cardinality(Used(ram)) # 1
           /\ ram' = [ram EXCEPT ![slot] = Free]
           /\ \E saved \in BOOLEAN : UpdateUsers(ram', saved)
  <2>1. slot \in UserSlots
    BY <1>4, FirstSlot DEF Named
  <2>2. ram \in [UserSlots -> Account]
    BY DEF AccountInv, UsersTypeOK
  <2>3. ram' \in [UserSlots -> Account]
    BY <1>4, <2>1, <2>2, SlotFacts
  <2>4. IsFiniteSet(Used(ram))
    <3>1. MaxUsers \in Int /\ 1 \in Int
      <4>1. MaxUsers \in Nat \ {0}
        BY WebUsersAssumption, Zenon
      <4> QED
        BY <4>1
    <3>2. IsFiniteSet(UserSlots)
      BY <3>1, FS_Interval, Zenon DEF UserSlots
    <3>3. Used(ram) \in SUBSET UserSlots
      BY DEF Used
    <3> QED
      BY <3>2, <3>3, FS_Subset
  <2>5. Used(ram) # {} /\ \A x : Used(ram) # {x}
    BY <1>1, <1>4, <2>4, FS_Singleton DEF AccountInv, SomebodyCanLogIn
  <2>6. PICK other \in Used(ram) : other # slot
    BY <2>5
  <2>7. other \in Used(ram)'
    BY <1>4, <2>2, <2>6 DEF Used
  <2> QED
    BY <1>1, <1>2, <1>4, <2>3, <2>7, AccountChange
<1> QED
  BY <1>3, <1>4 DEF DeleteUser

\* Every step of the web interface keeps it.
LEMMA AccountNext == AccountInv /\ [Next]_vars => AccountInv'
<1> SUFFICES ASSUME AccountInv, [Next]_vars PROVE AccountInv'
  OBVIOUS
<1>1. CASE AuthenticationInit
  BY <1>1, AccountLoad DEF AuthenticationInit
<1>2. CASE Users
  BY <1>2, AccountAdd, AccountDelete DEF Users
<1>3. CASE Sessions
  <2>1. reply'.op = "none" /\ UNCHANGED <<ram, flash, up, drift>>
    BY <1>3 DEF Sessions, NoReply
  <2> QED
    BY <2>1 DEF AccountInv, UsersTypeOK, SomebodyCanLogIn, ListedIsEffective, Used
<1>4. CASE Restart
  <2>1. up' = FALSE /\ ram' = NoUsers /\ reply'.op = "none" /\ UNCHANGED <<flash, drift>>
    BY <1>4 DEF Restart, LoseUsers, NoReply
  <2> QED
    BY <2>1, SlotFacts DEF AccountInv, UsersTypeOK, SomebodyCanLogIn, ListedIsEffective
<1>5. CASE UNCHANGED vars
  BY <1>5 DEF vars, userVars, AccountInv, UsersTypeOK, SomebodyCanLogIn, ListedIsEffective, Used
<1> QED
  BY <1>1, <1>2, <1>3, <1>4, <1>5 DEF Next

\* The invariant of the accounts holds always.
LEMMA AccountsKept == Spec => []AccountInv
<1>1. Init => AccountInv
  BY AccountInit DEF Init
<1> QED
  BY <1>1, AccountNext, PTL DEF Spec

\* Nobody is ever locked out, whatever the size of the table.
THEOREM NobodyLockedOut == Spec => []SomebodyCanLogIn
BY AccountsKept, PTL DEF AccountInv

\* The accounts listed are the accounts that work, unless a save failed.
THEOREM ListIsTruthful == Spec => []ListedIsEffective
BY AccountsKept, PTL DEF AccountInv

\* An addition answered with success is in RAM and in flash: only a table
\* that was saved is answered so.
LEMMA AddedStep == AccountInv /\ [Next]_vars /\ AddedIsKept => AddedIsKept'
<1> SUFFICES ASSUME AccountInv, [Next]_vars, AddedIsKept,
                    reply'.op = "add", reply'.result = "ok"
             PROVE  /\ Accepts(ram, reply.name, reply.pass)'
                    /\ Accepts(flash, reply.name, reply.pass)'
  BY Zenon DEF AddedIsKept
<1>1. CASE UNCHANGED vars
  BY <1>1, Zenon DEF vars, userVars, AddedIsKept, Accepts
<1>2. ASSUME reply'.op \in {"none", "delete"} PROVE FALSE
  BY <1>2
<1>3. ASSUME NEW n \in Names, NEW p \in Passwords, AddUser(n, p)
      PROVE  /\ Accepts(ram, reply.name, reply.pass)'
             /\ Accepts(flash, reply.name, reply.pass)'
  <2> DEFINE stops == Named(ram, n) \cup Named(ram, "")
             slot == First(stops)
  <2>1. ASSUME NEW r, Answer("add", n, p, r) PROVE r = "ok" /\ reply'.name = n /\ reply'.pass = p
    BY <2>1 DEF Answer
  <2>2. CASE Answer("add", n, p, "no space")
    BY <2>2 DEF Answer
  <2>3. CASE Answer("add", n, p, "exists")
    BY <2>3 DEF Answer
  <2>4. CASE /\ stops # {}
             /\ ram' = [ram EXCEPT ![slot] = [name |-> n, pass |-> p]]
             /\ \E saved \in BOOLEAN : /\ UpdateUsers(ram', saved)
                                       /\ Answer("add", n, p, IF saved THEN "ok" ELSE "error")
    <3>1. PICK saved \in BOOLEAN : /\ UpdateUsers(ram', saved)
                                   /\ Answer("add", n, p, IF saved THEN "ok" ELSE "error")
      BY <2>4
    <3>2. (IF saved THEN "ok" ELSE "error") = "ok" /\ reply'.name = n /\ reply'.pass = p
      BY <2>1, <3>1
    <3>3. saved
      BY <3>2
    <3>4. flash' = ram'
      BY <3>1, <3>3, UpdateSaves
    <3>5. slot \in UserSlots
      BY <2>4, FirstSlot DEF Named
    <3>6. ram'[slot] = [name |-> n, pass |-> p]
      BY <2>4, <3>5 DEF AccountInv, UsersTypeOK
    <3> HIDE DEF slot
    <3>7. ram'[slot].name = reply'.name /\ ram'[slot].pass = reply'.pass
      BY <3>2, <3>6
    <3>8. Accepts(ram, reply.name, reply.pass)'
      BY <3>5, <3>7, Zenon DEF Accepts
    <3>9. Accepts(flash, reply.name, reply.pass)'
      BY <3>4, <3>5, <3>7, Zenon DEF Accepts
    <3> QED
      BY <3>8, <3>9
  <2> QED
    BY <1>3, <2>2, <2>3, <2>4, Zenon DEF AddUser
<1>4. ASSUME NEW n \in Names, DeleteUser(n) PROVE FALSE
  <2>1. PICK r : Answer("delete", n, "", r)
    BY <1>4, Zenon DEF DeleteUser
  <2> QED
    BY <2>1 DEF Answer
<1>5. CASE reply' = NoReply
  BY <1>5 DEF NoReply
<1> QED
  BY <1>1, <1>3, <1>4, <1>5 DEF Next, AuthenticationInit, LoadUsers, Users, Sessions,
     Restart, LoseUsers

\* A success answered to POST /api/users is there after a restart.
THEOREM AdditionsAreKept == Spec => []AddedIsKept
<1>1. Init => AddedIsKept
  <2> SUFFICES ASSUME Init PROVE AddedIsKept
    OBVIOUS
  <2>1. reply.op = "none"
    BY DEF Init, UsersInit, NoReply
  <2>2. reply.op # "add" /\ reply.op # "delete"
    BY <2>1
  <2> QED
    BY <2>2, Zenon DEF AddedIsKept
<1> QED
  BY <1>1, AddedStep, AccountsKept, PTL DEF Spec

\* A deletion answered with success leaves no account of that name, in a
\* table of at most two slots: clearing the first leaves a table that is
\* refused, so what was cleared is the second, and the first has another
\* name.
LEMMA DeletedStep ==
  ASSUME MaxUsers <= 2 PROVE AccountInv /\ [Next]_vars /\ DeletedIsGone => DeletedIsGone'
<1> SUFFICES ASSUME AccountInv, [Next]_vars, DeletedIsGone,
                    reply'.op = "delete", reply'.result = "ok"
             PROVE  (Named(ram, reply.name) \cup Named(flash, reply.name) = {})'
  BY Zenon DEF DeletedIsGone
<1>1. CASE UNCHANGED vars
  BY <1>1, Zenon DEF vars, userVars, DeletedIsGone, Named
<1>2. ASSUME NEW n \in Names, DeleteUser(n)
      PROVE  (Named(ram, reply.name) \cup Named(flash, reply.name) = {})'
  <2> DEFINE slot == First(Named(ram, n))
  <2>1. ASSUME NEW r, Answer("delete", n, "", r) PROVE r = "ok" /\ reply'.name = n
    BY <2>1 DEF Answer
  <2>2. CASE Answer("delete", n, "", "not found")
    BY <2>2 DEF Answer
  <2>3. CASE Answer("delete", n, "", "last user")
    BY <2>3 DEF Answer
  <2>4. CASE /\ Named(ram, n) # {} /\ Cardinality(Used(ram)) # 1
             /\ ram' = [ram EXCEPT ![slot] = Free]
             /\ \E saved \in BOOLEAN : /\ UpdateUsers(ram', saved)
                                       /\ Answer("delete", n, "", IF saved THEN "ok" ELSE "error")
    <3>1. PICK saved \in BOOLEAN : /\ UpdateUsers(ram', saved)
                                   /\ Answer("delete", n, "", IF saved THEN "ok" ELSE "error")
      BY <2>4
    <3>2. (IF saved THEN "ok" ELSE "error") = "ok" /\ reply'.name = n
      BY <2>1, <3>1
    <3>3. saved
      BY <3>2
    <3>4. flash' = ram' /\ ram'[1].name # ""
      BY <3>1, <3>3, UpdateSaves
    <3>5. slot \in Named(ram, n) /\ \A j \in Named(ram, n) : slot <= j
      BY <2>4, FirstSlot DEF Named
    <3>6. ram \in [UserSlots -> Account]
      BY DEF AccountInv, UsersTypeOK
    <3>7. slot # 1
      BY <2>4, <3>4, <3>6, SlotFacts
    <3>8. MaxUsers \in Nat \ {0}
      BY WebUsersAssumption, Zenon
    <3>9. UserSlots = {1, 2} /\ slot = 2
      BY <3>5, <3>7, <3>8 DEF UserSlots, Named
    <3>10. 1 \notin Named(ram, n)
      BY <3>5, <3>9
    <3>11. ram'[1] = ram[1] /\ ram'[2] = Free
      <4>1. ram' = [ram EXCEPT ![2] = Free] /\ DOMAIN ram = {1, 2}
        BY <2>4, <3>6, <3>9, Zenon
      <4>2. ram'[2] = Free
        BY <4>1, Zenon
      <4>3. ram'[1] = ram[1]
        BY <4>1
      <4> QED
        BY <4>2, <4>3
    <3>12. n # ""
      <4>1. SUFFICES ASSUME n = "" PROVE FALSE
        OBVIOUS
      <4>2. Used(ram) = {1}
        BY <3>5, <3>9, <3>10, <4>1 DEF Named, Used
      <4> QED
        BY <2>4, <4>2, FS_Singleton
    <3>13. ram'[1].name # n /\ ram'[2].name # n
      BY <3>9, <3>10, <3>11, <3>12, SlotFacts DEF Named
    <3> QED
      BY <3>2, <3>4, <3>9, <3>13 DEF Named
  <2> QED
    BY <1>2, <2>2, <2>3, <2>4, Zenon DEF DeleteUser
<1>3. ASSUME NEW n \in Names, NEW p \in Passwords, AddUser(n, p) PROVE FALSE
  <2>1. PICK r : Answer("add", n, p, r)
    BY <1>3, Zenon DEF AddUser
  <2> QED
    BY <2>1 DEF Answer
<1>4. CASE reply' = NoReply
  BY <1>4 DEF NoReply
<1> QED
  BY <1>1, <1>2, <1>3, <1>4 DEF Next, AuthenticationInit, LoadUsers, Users, Sessions,
     Restart, LoseUsers

\* MAX_USERS is 2: a deleted account is gone, in RAM and in flash.  With
\* three slots it is not so.
THEOREM DeletionsAreFinal == ASSUME MaxUsers <= 2 PROVE Spec => []DeletedIsGone
<1>1. Init => DeletedIsGone
  <2> SUFFICES ASSUME Init PROVE DeletedIsGone
    OBVIOUS
  <2>1. reply.op = "none"
    BY DEF Init, UsersInit, NoReply
  <2>2. reply.op # "add" /\ reply.op # "delete"
    BY <2>1
  <2> QED
    BY <2>2, Zenon DEF DeletedIsGone
<1> QED
  BY <1>1, DeletedStep, AccountsKept, PTL DEF Spec

-----------------------------------------------------------------------------
(* What the finding on names comes from, for tables of any size.  The run  *)
(* WebAccessUnique violates NamesAreUnique.                                *)

\* A deletion clears the one slot that has the name.
LEMMA UniqueDeletedStep ==
  AccountInv /\ NamesAreUnique /\ [Next]_vars /\ (reply.name # "" => DeletedIsGone)
    => (reply.name # "" => DeletedIsGone)'
<1> SUFFICES ASSUME AccountInv, NamesAreUnique, [Next]_vars, reply.name # "" => DeletedIsGone,
                    reply'.op = "delete", reply'.result = "ok", reply'.name # ""
             PROVE  (Named(ram, reply.name) \cup Named(flash, reply.name) = {})'
  BY Zenon DEF DeletedIsGone
<1>1. CASE UNCHANGED vars
  BY <1>1, Zenon DEF vars, userVars, DeletedIsGone, Named
<1>2. ASSUME NEW n \in Names, DeleteUser(n)
      PROVE  (Named(ram, reply.name) \cup Named(flash, reply.name) = {})'
  <2> DEFINE slot == First(Named(ram, n))
  <2>1. ASSUME NEW r, Answer("delete", n, "", r) PROVE r = "ok" /\ reply'.name = n
    BY <2>1 DEF Answer
  <2>2. CASE Answer("delete", n, "", "not found")
    BY <2>2 DEF Answer
  <2>3. CASE Answer("delete", n, "", "last user")
    BY <2>3 DEF Answer
  <2>4. CASE /\ Named(ram, n) # {} /\ Cardinality(Used(ram)) # 1
             /\ ram' = [ram EXCEPT ![slot] = Free]
             /\ \E saved \in BOOLEAN : /\ UpdateUsers(ram', saved)
                                       /\ Answer("delete", n, "", IF saved THEN "ok" ELSE "error")
    <3>1. PICK saved \in BOOLEAN : /\ UpdateUsers(ram', saved)
                                   /\ Answer("delete", n, "", IF saved THEN "ok" ELSE "error")
      BY <2>4
    <3>2. (IF saved THEN "ok" ELSE "error") = "ok" /\ reply'.name = n
      BY <2>1, <3>1
    <3>3. saved
      BY <3>2
    <3>4. flash' = ram' /\ n # ""
      BY <3>1, <3>2, <3>3, UpdateSaves
    <3>5. slot \in Named(ram, n)
      BY <2>4, FirstSlot DEF Named
    <3>6. ram \in [UserSlots -> Account]
      BY DEF AccountInv, UsersTypeOK
    <3> HIDE DEF slot
    <3>7. ASSUME NEW i \in UserSlots PROVE ram'[i].name # n
      <4>1. CASE i = slot
        BY <2>4, <3>4, <3>6, <4>1, SlotFacts
      <4>2. CASE i # slot
        <5>1. ram'[i] = ram[i]
          BY <2>4, <3>6, <4>2
        <5>2. i \in Used(ram) /\ slot \in Used(ram) => ram[i].name # ram[slot].name
          BY <4>2 DEF NamesAreUnique
        <5> QED
          BY <3>4, <3>5, <5>1, <5>2 DEF Used, Named
      <4> QED
        BY <4>1, <4>2
    <3> QED
      BY <3>2, <3>4, <3>7 DEF Named
  <2> QED
    BY <1>2, <2>2, <2>3, <2>4, Zenon DEF DeleteUser
<1>3. ASSUME NEW n \in Names, NEW p \in Passwords, AddUser(n, p) PROVE FALSE
  <2>1. PICK r : Answer("add", n, p, r)
    BY <1>3, Zenon DEF AddUser
  <2> QED
    BY <2>1 DEF Answer
<1>4. CASE reply' = NoReply
  BY <1>4 DEF NoReply
<1> QED
  BY <1>1, <1>2, <1>3, <1>4 DEF Next, AuthenticationInit, LoadUsers, Users, Sessions,
     Restart, LoseUsers

\* As long as names are unique, a deleted account is gone from RAM and flash
\* in a table of any size: duplicates are all that can keep a name in it.
THEOREM DeletionsAreFinalIfUnique ==
  Spec /\ []NamesAreUnique => [](reply.name # "" => DeletedIsGone)
<1>1. Init => (reply.name # "" => DeletedIsGone)
  <2> SUFFICES ASSUME Init PROVE reply.name = ""
    OBVIOUS
  <2> QED
    BY DEF Init, UsersInit, NoReply
<1> QED
  BY <1>1, UniqueDeletedStep, AccountsKept, PTL DEF Spec

\* No free slot comes before an account.
NoHoles == \A i, j \in UserSlots : i < j /\ j \in Used(ram) => i \in Used(ram)

Unique(list) == \A i, j \in Used(list) : list[i].name = list[j].name => i = j

\* What is stored is unique too; without failures nothing is in RAM before
\* something is stored.
UniqueInv ==
  /\ Unique(ram)
  /\ Unique(flash)
  /\ flash = NoUsers => ram = NoUsers

\* A table that is saved or refused; it is not empty.
LEMMA UniqueChange ==
  ASSUME UniqueInv, Unique(ram'), ram # NoUsers,
         \E saved \in BOOLEAN : UpdateUsers(ram', saved)
  PROVE  UniqueInv'
<1>1. (flash' = ram' /\ ram'[1].name # "") \/ flash' = flash
  BY UpdateSaves
<1>2. flash # NoUsers
  BY DEF UniqueInv
<1>3. NoUsers[1].name = ""
  BY SlotFacts DEF NoUsers
<1> QED
  BY <1>1, <1>2, <1>3 DEF UniqueInv, Unique, Used

\* The scan of add_web_user meets every account before a free slot.
LEMMA UniqueAdd ==
  ASSUME AccountInv, UniqueInv, NoHoles, NEW n \in Names, NEW p \in Passwords, AddUser(n, p)
  PROVE  UniqueInv'
<1> DEFINE stops == Named(ram, n) \cup Named(ram, "")
           slot == First(stops)
<1>1. CASE UNCHANGED <<ram, flash, drift>>
  BY <1>1 DEF UniqueInv, Unique, Used
<1>2. CASE /\ stops # {} /\ slot \notin Named(ram, n)
           /\ ram' = [ram EXCEPT ![slot] = [name |-> n, pass |-> p]]
           /\ \E saved \in BOOLEAN : UpdateUsers(ram', saved)
  <2>1. slot \in stops /\ \A j \in stops : slot <= j
    BY <1>2, FirstSlot DEF Named
  <2>2. slot \in UserSlots /\ ram[slot].name = "" /\ n # ""
    BY <1>2, <2>1 DEF Named
  <2>3. ram \in [UserSlots -> Account] /\ UserSlots \subseteq Nat
    BY SlotFacts DEF AccountInv, UsersTypeOK
  <2>4. /\ ram'[slot].name = n
        /\ \A i \in UserSlots : i # slot => ram'[i] = ram[i]
    BY <1>2, <2>2, <2>3
  <2>5. \A i \in Named(ram, n) : i \in stops /\ i # slot
    BY <1>2
  <2> HIDE DEF slot, stops
  <2>6. ASSUME NEW i \in Named(ram, n) PROVE FALSE
    <3>1. i \in UserSlots /\ i \in Used(ram) /\ slot < i
      <4>1. i \in UserSlots /\ ram[i].name = n
        BY DEF Named
      <4>2. slot <= i /\ i # slot
        BY <2>1, <2>5
      <4>3. i \in Nat /\ slot \in Nat
        BY <2>2, <2>3, <4>1
      <4>4. slot < i
        BY <4>2, <4>3
      <4>5. i \in Used(ram)
        BY <2>2, <4>1 DEF Used
      <4> QED
        BY <4>1, <4>4, <4>5
    <3>2. slot \in Used(ram)
      BY <2>2, <3>1 DEF NoHoles
    <3> QED
      BY <2>2, <3>2 DEF Used
  <2>7. Unique(ram')
    <3> SUFFICES ASSUME NEW i \in UserSlots, NEW j \in UserSlots,
                        ram'[i].name # "", ram'[i].name = ram'[j].name
                 PROVE  i = j
      BY DEF Unique, Used
    <3>1. CASE i # slot /\ j # slot
      BY <2>4, <3>1 DEF UniqueInv, Unique, Used
    <3>2. CASE i = slot \/ j = slot
      BY <2>4, <2>6, <3>2 DEF Named
    <3> QED
      BY <3>1, <3>2
  <2>8. ram # NoUsers
    <3>1. up
      BY DEF AddUser
    <3>2. Used(ram) # {}
      BY <3>1 DEF AccountInv, SomebodyCanLogIn
    <3> QED
      BY <3>2, SlotFacts DEF Used, NoUsers
  <2> QED
    BY <1>2, <2>7, <2>8, UniqueChange
<1> QED
  BY <1>1, <1>2 DEF AddUser

\* A deletion adds no name.
LEMMA UniqueDelete ==
  ASSUME AccountInv, UniqueInv, NEW n \in Names, DeleteUser(n)
  PROVE  UniqueInv'
<1> DEFINE slot == First(Named(ram, n))
<1>1. CASE UNCHANGED <<ram, flash, drift>>
  BY <1>1 DEF UniqueInv, Unique, Used
<1>2. CASE /\ Named(ram, n) # {}
           /\ ram' = [ram EXCEPT ![slot] = Free]
           /\ \E saved \in BOOLEAN : UpdateUsers(ram', saved)
  <2>1. slot \in UserSlots
    BY <1>2, FirstSlot DEF Named
  <2>2. ram \in [UserSlots -> Account]
    BY DEF AccountInv, UsersTypeOK
  <2>3. ram'[slot].name = "" /\ \A i \in UserSlots : i # slot => ram'[i] = ram[i]
    BY <1>2, <2>1, <2>2, SlotFacts
  <2> HIDE DEF slot
  <2>4. Unique(ram')
    <3> SUFFICES ASSUME NEW i \in UserSlots, NEW j \in UserSlots,
                        ram'[i].name # "", ram'[i].name = ram'[j].name
                 PROVE  i = j
      BY DEF Unique, Used
    <3>1. ram'[i] = ram[i] /\ ram'[j] = ram[j]
      BY <2>3
    <3> QED
      BY <3>1 DEF UniqueInv, Unique, Used
  <2>5. ram # NoUsers
    <3>1. up
      BY DEF DeleteUser
    <3>2. Used(ram) # {}
      BY <3>1 DEF AccountInv, SomebodyCanLogIn
    <3> QED
      BY <3>2, SlotFacts DEF Used, NoUsers
  <2> QED
    BY <1>2, <2>4, <2>5, UniqueChange
<1> QED
  BY <1>1, <1>2 DEF DeleteUser

\* Without failures the default account is only put into an empty table.
LEMMA UniqueLoad ==
  ASSUME ~FlashFails, AccountInv, UniqueInv, LoadUsers
  PROVE  UniqueInv'
<1>1. CASE ram' = flash /\ flash' = flash /\ flash # NoUsers
  BY <1>1 DEF UniqueInv, Unique, Used
<1>2. CASE /\ flash = NoUsers
           /\ ram' = [ram EXCEPT ![1] = [name |-> DefaultName, pass |-> DefaultPass]]
           /\ \E saved \in BOOLEAN : Save(ram', saved)
  <2>1. ram = NoUsers /\ ram \in [UserSlots -> Account]
    BY <1>2 DEF UniqueInv, AccountInv, UsersTypeOK
  <2>2. /\ ram'[1].name = DefaultName
        /\ \A i \in UserSlots : i # 1 => ram'[i].name = ""
    BY <1>2, <2>1, SlotFacts DEF NoUsers
  <2>3. flash' = ram' /\ DefaultName # ""
    BY <1>2, WebUsersAssumption DEF Save
  <2>4. Unique(ram')
    BY <2>2, <2>3 DEF Unique, Used
  <2>5. ram' # NoUsers
    BY <2>2, <2>3, SlotFacts DEF NoUsers
  <2> QED
    BY <2>3, <2>4, <2>5 DEF UniqueInv
<1> QED
  BY <1>1, <1>2 DEF LoadUsers

\* No name is stored twice as long as flash works and the accounts come
\* first in the table: the slot that a deletion frees before an account is
\* where add_web_user stops too early.
THEOREM NamesUniqueWithoutHoles ==
  ASSUME ~FlashFails PROVE Spec /\ []NoHoles => []NamesAreUnique
<1>1. Init => UniqueInv
  BY SlotFacts DEF Init, UsersInit, UniqueInv, Unique, Used, NoUsers
<1>2. AccountInv /\ UniqueInv /\ NoHoles /\ [Next]_vars => UniqueInv'
  <2> SUFFICES ASSUME AccountInv, UniqueInv, NoHoles, [Next]_vars PROVE UniqueInv'
    OBVIOUS
  <2>1. CASE AuthenticationInit
    BY <2>1, UniqueLoad DEF AuthenticationInit
  <2>2. CASE Users
    BY <2>2, UniqueAdd, UniqueDelete DEF Users
  <2>3. CASE Sessions \/ UNCHANGED vars
    <3>1. UNCHANGED <<ram, flash>>
      BY <2>3 DEF Sessions, vars, userVars
    <3> QED
      BY <3>1 DEF UniqueInv, Unique, Used
  <2>4. CASE Restart
    <3>1. ram' = NoUsers /\ flash' = flash
      BY <2>4 DEF Restart, LoseUsers
    <3>2. Unique(ram')
      BY <3>1, SlotFacts DEF Unique, Used, NoUsers
    <3> QED
      BY <3>1, <3>2 DEF UniqueInv
  <2> QED
    BY <2>1, <2>2, <2>3, <2>4 DEF Next
<1>3. UniqueInv => NamesAreUnique
  BY DEF UniqueInv, Unique, NamesAreUnique
<1> QED
  BY <1>1, <1>2, <1>3, AccountsKept, PTL DEF Spec

-----------------------------------------------------------------------------
(* The sessions.                                                           *)

\* A slot that is not free holds a token that was issued, and expires a
\* lifetime after that.
SlotsAreIssued ==
  \A i \in SessionSlots : ~IsFree(i) =>
    /\ sessions[i].token \in DOMAIN issued
    /\ sessions[i].expires = issued[sessions[i].token] + Lifetime

\* No token is in two slots.
TokensDiffer ==
  \A i, j \in SessionSlots : ~IsFree(i) /\ Holds(j, sessions[i].token) => i = j

IssuedBefore == \A t \in DOMAIN issued : issued[t] <= now

\* The logins that can have pushed the session of token t out.
Rivals(t) == {u \in DOMAIN issued \ {t} : issued[u] >= issued[t]}

\* A session leaves its slot when it expires, or to MaxSessions rivals.
LostToRivals ==
  \A t \in DOMAIN issued :
    \/ issued[t] + Lifetime <= now
    \/ \E i \in SessionSlots : Holds(i, t)
    \/ Cardinality(Rivals(t)) >= MaxSessions

SessionInv ==
  /\ SessionsTypeOK
  /\ SlotsAreIssued
  /\ TokensDiffer
  /\ IssuedBefore
  /\ LostToRivals
  /\ AcceptedIsFresh

\* Constants, and the ranges they give.
LEMMA SessionFacts ==
  /\ MaxSessions \in Nat \ {0} /\ Lifetime \in Nat \ {0} /\ MaxTime \in Nat /\ MaxLogins \in Nat
  /\ IsFiniteSet(SessionSlots) /\ Cardinality(SessionSlots) = MaxSessions
<1>1. MaxSessions \in Nat \ {0} /\ Lifetime \in Nat \ {0} /\ MaxTime \in Nat /\ MaxLogins \in Nat
  BY WebSessionsAssumption, Zenon
<1>2. MaxSessions \in Int /\ 1 \in Int /\ ~(1 > MaxSessions)
  BY <1>1
<1>3. IsFiniteSet(SessionSlots)
  BY <1>2, FS_Interval, Zenon DEF SessionSlots
<1>4. Cardinality(1..MaxSessions) = IF 1 > MaxSessions THEN 0 ELSE MaxSessions - 1 + 1
  BY <1>2, FS_Interval, Zenon
<1>5. Cardinality(SessionSlots) = MaxSessions
  BY <1>1, <1>2, <1>4 DEF SessionSlots
<1> QED
  BY <1>1, <1>3, <1>5, Zenon

\* The types of an empty table.
LEMMA FreeTypes ==
  /\ [i \in SessionSlots |-> FreeSlot]
       \in [SessionSlots -> [token : 0..MaxLogins, expires : 0..(MaxTime + Lifetime)]]
  /\ <<>> \in Seq(0..MaxTime) /\ Len(<<>>) <= MaxLogins
<1>1. FreeSlot \in [token : 0..MaxLogins, expires : 0..(MaxTime + Lifetime)]
  BY SessionFacts DEF FreeSlot
<1>2. <<>> \in Seq(0..MaxTime) /\ Len(<<>>) = 0
  OBVIOUS
<1> QED
  BY <1>1, <1>2, SessionFacts

\* An empty table keeps every promise.
LEMMA SessionsCleared ==
  ASSUME now \in 0..MaxTime,
         sessions = [i \in SessionSlots |-> FreeSlot], issued = <<>>, answer = NoAnswer
  PROVE  SessionInv
<1>1. answer.accepted = FALSE
  BY DEF NoAnswer
<1>2. SessionsTypeOK
  BY <1>1, FreeTypes DEF SessionsTypeOK
<1>3. \A i \in SessionSlots : IsFree(i)
  BY DEF IsFree, FreeSlot
<1>4. DOMAIN issued = {}
  OBVIOUS
<1> QED
  BY <1>1, <1>2, <1>3, <1>4 DEF SessionInv, SlotsAreIssued, TokensDiffer, IssuedBefore,
     LostToRivals, AcceptedIsFresh

\* The tables before a request, in the form the steps below need.
LEMMA SessionTables ==
  ASSUME SessionInv
  PROVE  /\ now \in Nat /\ now <= MaxTime
         /\ issued \in Seq(0..MaxTime) /\ Len(issued) \in Nat /\ Len(issued) <= MaxLogins
         /\ DOMAIN issued = 1..Len(issued)
         /\ \A t \in DOMAIN issued : issued[t] \in Nat
         /\ \A i \in SessionSlots : sessions[i].token \in Nat /\ sessions[i].expires \in Nat
         /\ \A t \in DOMAIN issued : IsFiniteSet(Rivals(t))
<1> USE DEF SessionInv, SessionsTypeOK
<1>1. now \in Nat /\ now <= MaxTime /\ issued \in Seq(0..MaxTime)
      /\ Len(issued) \in Nat /\ Len(issued) <= MaxLogins /\ DOMAIN issued = 1..Len(issued)
  BY SessionFacts
<1>2. \A t \in DOMAIN issued : issued[t] \in Nat
  BY <1>1, SessionFacts
<1>3. \A i \in SessionSlots : sessions[i].token \in Nat /\ sessions[i].expires \in Nat
  <2> TAKE i \in SessionSlots
  <2>1. sessions[i] \in [token : 0..MaxLogins, expires : 0..(MaxTime + Lifetime)]
    OBVIOUS
  <2>2. sessions[i].token \in 0..MaxLogins /\ sessions[i].expires \in 0..(MaxTime + Lifetime)
    BY <2>1
  <2> QED
    BY <2>2, SessionFacts
<1>4. ASSUME NEW t \in DOMAIN issued PROVE IsFiniteSet(Rivals(t))
  <2>1. Len(issued) \in Int /\ 1 \in Int
    BY <1>1
  <2>2. IsFiniteSet(DOMAIN issued)
    BY <1>1, <2>1, FS_Interval, Zenon
  <2>3. Rivals(t) \in SUBSET DOMAIN issued
    BY DEF Rivals
  <2> QED
    BY <2>2, <2>3, FS_Subset
<1> QED
  BY <1>1, <1>2, <1>3, <1>4

\* A login: what it overwrites is free, has expired, or expires no later
\* than all the others, which are then rivals together with the new one.
LEMMA SessionLogin ==
  ASSUME SessionInv, Login PROVE SessionInv'
<1> DEFINE token == Len(issued) + 1
<1>1. PICK i \in SessionSlots :
        /\ IsVictim(i)
        /\ sessions' = [sessions EXCEPT ![i] = [token |-> token, expires |-> now + Lifetime]]
  BY DEF Login
<1>2. /\ issued' = Append(issued, now) /\ answer' = NoAnswer /\ now' = now
      /\ Len(issued) < MaxLogins
  BY DEF Login
<1>3. /\ DOMAIN issued' = DOMAIN issued \cup {token}
      /\ token \notin DOMAIN issued /\ token # 0 /\ token \in Nat /\ token <= MaxLogins
      /\ \A t \in DOMAIN issued : issued'[t] = issued[t] /\ t # 0
      /\ issued'[token] = now
  BY <1>2, SessionTables, SessionFacts
<1>4. /\ \A j \in SessionSlots \ {i} : sessions'[j] = sessions[j]
      /\ sessions'[i] = [token |-> token, expires |-> now + Lifetime]
      /\ sessions'[i].token = token /\ sessions'[i].expires = now + Lifetime
  BY <1>1 DEF SessionInv, SessionsTypeOK
<1>5. \A j \in SessionSlots : sessions[j].token # token
  BY <1>3 DEF SessionInv, SlotsAreIssued, IsFree
<1> HIDE DEF token
<1>6. SessionsTypeOK'
  <2>1. answer'.accepted = FALSE
    BY <1>2 DEF NoAnswer
  <2>2. now + Lifetime \in 0..(MaxTime + Lifetime) /\ token \in 0..MaxLogins /\ now \in 0..MaxTime
    BY <1>3, SessionTables, SessionFacts
  <2>3. sessions' \in [SessionSlots -> [token : 0..MaxLogins, expires : 0..(MaxTime + Lifetime)]]
    BY <1>1, <2>2 DEF SessionInv, SessionsTypeOK
  <2>4. issued' \in Seq(0..MaxTime) /\ Len(issued') <= MaxLogins
    BY <1>2, <2>2, SessionTables, SessionFacts
  <2> QED
    BY <1>2, <2>1, <2>2, <2>3, <2>4 DEF SessionsTypeOK
<1>7. SlotsAreIssued'
  <2> SUFFICES ASSUME NEW j \in SessionSlots, sessions'[j].token # 0
               PROVE  /\ sessions'[j].token \in DOMAIN issued'
                      /\ sessions'[j].expires = issued'[sessions'[j].token] + Lifetime
    BY DEF SlotsAreIssued, IsFree
  <2>1. CASE j = i
    BY <1>3, <1>4, <2>1
  <2>2. CASE j # i
    BY <1>3, <1>4, <2>2 DEF SessionInv, SlotsAreIssued, IsFree
  <2> QED
    BY <2>1, <2>2
<1>8. TokensDiffer'
  <2> SUFFICES ASSUME NEW j \in SessionSlots, NEW k \in SessionSlots, sessions'[j].token # 0,
                      sessions'[k].token = sessions'[j].token
               PROVE  j = k
    BY DEF TokensDiffer, IsFree, Holds
  <2>1. CASE j # i /\ k # i
    BY <1>4, <2>1 DEF SessionInv, TokensDiffer, IsFree, Holds
  <2> QED
    BY <1>4, <1>5, <2>1
<1>9. IssuedBefore'
  BY <1>2, <1>3, SessionTables DEF SessionInv, IssuedBefore
<1>10. LostToRivals'
  <2> SUFFICES ASSUME NEW t \in DOMAIN issued', ~(issued'[t] + Lifetime <= now')
               PROVE  \/ \E j \in SessionSlots : sessions'[j].token = t
                      \/ Cardinality(Rivals(t)') >= MaxSessions
    BY DEF LostToRivals, Holds
  <2>1. CASE t = token
    BY <1>4, <2>1
  <2>2. ASSUME t # token, NEW j \in SessionSlots, Holds(j, t), j # i
        PROVE  sessions'[j].token = t
    BY <1>4, <2>2 DEF Holds
  <2>3. IsFiniteSet(Rivals(t)')
    <3>1. Len(issued) + 1 \in Int /\ 1 \in Int /\ DOMAIN issued' = 1..(Len(issued) + 1)
      BY <1>2, SessionTables
    <3>2. IsFiniteSet(DOMAIN issued')
      BY <3>1, FS_Interval, Zenon
    <3>3. Rivals(t)' \in SUBSET DOMAIN issued'
      BY DEF Rivals
    <3> QED
      BY <3>2, <3>3, FS_Subset
  <2>4. CASE t # token /\ Cardinality(Rivals(t)) >= MaxSessions
    <3>1. t \in DOMAIN issued
      BY <1>3, <2>4
    <3>2. Rivals(t) \in SUBSET Rivals(t)'
      BY <1>3, <3>1 DEF Rivals
    <3>3. Cardinality(Rivals(t)) <= Cardinality(Rivals(t)')
      BY <2>3, <3>2, FS_Subset
    <3>4. Cardinality(Rivals(t)) \in Nat /\ Cardinality(Rivals(t)') \in Nat
      BY <2>3, <3>1, SessionTables, FS_CardinalityType
    <3> QED
      BY <2>4, <3>3, <3>4, SessionFacts
  <2>5. CASE t # token /\ Holds(i, t)
    <3>1. t \in DOMAIN issued /\ t # 0
      BY <1>3, <2>5
    <3>2. sessions[i].token = t /\ ~IsFree(i)
      BY <2>5, <3>1 DEF Holds, IsFree
    <3>3. \A j \in SessionSlots : ~IsFree(j) /\ sessions[i].expires <= sessions[j].expires
      BY <1>1, <3>2, SessionTables DEF IsVictim
    <3>4. \A j \in SessionSlots : sessions[j].token \in DOMAIN issued
                                  /\ issued[sessions[j].token] >= issued[t]
      <4> TAKE j \in SessionSlots
      <4>1. /\ sessions[j].token \in DOMAIN issued
            /\ sessions[j].expires = issued[sessions[j].token] + Lifetime
            /\ sessions[i].expires = issued[t] + Lifetime
        BY <3>2, <3>3 DEF SessionInv, SlotsAreIssued
      <4>2. issued[sessions[j].token] \in Nat /\ issued[t] \in Nat
        BY <3>1, <4>1, SessionTables
      <4> QED
        BY <3>3, <4>1, <4>2, SessionFacts
    <3> DEFINE f == [j \in SessionSlots |-> IF j = i THEN token ELSE sessions[j].token]
    <3>5. \A j, k \in SessionSlots : sessions[j].token = sessions[k].token => j = k
      BY <3>3 DEF SessionInv, TokensDiffer, Holds
    <3>6. \A j \in SessionSlots : f[j] \in Rivals(t)'
      <4> SUFFICES ASSUME NEW j \in SessionSlots PROVE f[j] \in Rivals(t)'
        OBVIOUS
      <4>1. CASE j = i
        <5>1. now >= issued[t]
          BY <3>1, SessionTables DEF SessionInv, IssuedBefore
        <5> QED
          BY <1>3, <2>5, <3>1, <4>1, <5>1 DEF Rivals
      <4>2. CASE j # i
        <5>1. sessions[j].token # t
          BY <3>2, <3>5, <4>2
        <5> QED
          BY <1>3, <3>1, <3>4, <4>2, <5>1 DEF Rivals
      <4> QED
        BY <4>1, <4>2
    <3>7. \A j, k \in SessionSlots : f[j] = f[k] => j = k
      BY <1>5, <3>5
    <3>8. f \in Injection(SessionSlots, Rivals(t)')
      <4>1. f \in [SessionSlots -> Rivals(t)'] /\ DOMAIN f = SessionSlots
        BY <3>6
      <4> HIDE DEF f
      <4> QED
        BY <3>7, <4>1, Zenon DEF Injection, IsInjective
    <3>9. Cardinality(SessionSlots) <= Cardinality(Rivals(t)')
      <4> HIDE DEF f
      <4> QED
        BY <2>3, <3>8, FS_Injection
    <3>10. Cardinality(Rivals(t)') \in Nat
      BY <2>3, FS_CardinalityType
    <3> QED
      BY <3>9, <3>10, SessionFacts
  <2> QED
    <3>1. CASE t # token
      <4>1. t \in DOMAIN issued /\ issued'[t] = issued[t]
        BY <1>3, <3>1
      <4>2. \/ \E j \in SessionSlots : Holds(j, t)
            \/ Cardinality(Rivals(t)) >= MaxSessions
        BY <1>2, <4>1 DEF SessionInv, LostToRivals
      <4> QED
        BY <2>2, <2>4, <2>5, <3>1, <4>2
    <3> QED
      BY <2>1, <3>1
<1>11. AcceptedIsFresh'
  BY <1>2 DEF NoAnswer, AcceptedIsFresh
<1> QED
  BY <1>6, <1>7, <1>8, <1>9, <1>10, <1>11 DEF SessionInv

\* A request with a token frees the slot of an expired session, no other.
LEMMA SessionPresent ==
  ASSUME SessionInv, NEW t \in Tokens, Present(t) PROVE SessionInv'
<1>1. /\ t \in DOMAIN issued /\ now' = now /\ issued' = issued
      /\ answer' = [token |-> t, accepted |-> Valid(t)]
  BY DEF Present
<1>2. \A i \in SessionSlots :
        \/ sessions'[i] = sessions[i]
        \/ /\ sessions[i].expires <= now /\ Holds(i, t)
           /\ sessions'[i] = [sessions[i] EXCEPT !.token = 0]
  BY DEF Present, Expired
<1>3. \A i \in SessionSlots : sessions[i] \in [token : 0..MaxLogins, expires : 0..(MaxTime + Lifetime)]
  BY DEF SessionInv, SessionsTypeOK
<1>4. \A i \in SessionSlots :
        \/ sessions'[i] = sessions[i]
        \/ /\ sessions[i].expires <= now /\ sessions[i].token = t
           /\ sessions'[i].token = 0 /\ sessions'[i].expires = sessions[i].expires
           /\ sessions'[i] \in [token : 0..MaxLogins, expires : 0..(MaxTime + Lifetime)]
  <2> TAKE i \in SessionSlots
  <2>1. sessions[i] \in [token : 0..MaxLogins, expires : 0..(MaxTime + Lifetime)]
    BY <1>3
  <2>2. 0 \in 0..MaxLogins
    BY SessionFacts
  <2>3. CASE sessions'[i] = sessions[i]
    BY <2>3
  <2>4. CASE sessions[i].expires <= now /\ Holds(i, t)
             /\ sessions'[i] = [sessions[i] EXCEPT !.token = 0]
    BY <2>1, <2>2, <2>4 DEF Holds
  <2> QED
    BY <1>2, <2>3, <2>4
<1>5. Valid(t) \in BOOLEAN
  BY DEF Valid
<1>6. answer'.accepted = Valid(t) /\ answer'.token = t
  BY <1>1, <1>5
<1>7. SessionsTypeOK'
  <2>1. sessions' \in [SessionSlots -> [token : 0..MaxLogins, expires : 0..(MaxTime + Lifetime)]]
    <3>1. sessions' = [i \in SessionSlots |-> sessions'[i]]
      BY DEF Present
    <3> QED
      BY <1>3, <1>4, <3>1
  <2>2. answer'.accepted \in BOOLEAN
    BY <1>5, <1>6, Zenon
  <2> QED
    BY <1>1, <2>1, <2>2 DEF SessionInv, SessionsTypeOK
<1>8. SlotsAreIssued'
  BY <1>1, <1>4 DEF SessionInv, SlotsAreIssued, IsFree
<1>9. TokensDiffer'
  BY <1>4 DEF SessionInv, TokensDiffer, IsFree, Holds
<1>10. IssuedBefore'
  BY <1>1 DEF SessionInv, IssuedBefore
<1>11. LostToRivals'
  <2> SUFFICES ASSUME NEW u \in DOMAIN issued
               PROVE  \/ issued[u] + Lifetime <= now
                      \/ \E j \in SessionSlots : sessions'[j].token = u
                      \/ Cardinality(Rivals(u)) >= MaxSessions
    BY <1>1 DEF LostToRivals, Holds, Rivals
  <2>1. CASE \E i \in SessionSlots : Holds(i, u)
    <3>1. PICK i \in SessionSlots : sessions[i].token = u
      BY <2>1 DEF Holds
    <3>2. u # 0
      BY SessionTables
    <3>3. sessions[i].expires = issued[u] + Lifetime
      BY <3>1, <3>2 DEF SessionInv, SlotsAreIssued, IsFree
    <3> QED
      BY <1>4, <3>1, <3>3
  <2> QED
    BY <2>1 DEF SessionInv, LostToRivals
<1>12. AcceptedIsFresh'
  <2> SUFFICES ASSUME Valid(t) PROVE now < issued[t] + Lifetime
    BY <1>1, <1>6, Zenon DEF AcceptedIsFresh
  <2>1. PICK i \in SessionSlots : sessions[i].token = t /\ ~(sessions[i].expires <= now)
    BY DEF Valid, Holds, Expired
  <2>2. t # 0
    BY <1>1, SessionTables
  <2>3. sessions[i].expires = issued[t] + Lifetime
    BY <2>1, <2>2 DEF SessionInv, SlotsAreIssued, IsFree
  <2>4. now \in Nat /\ sessions[i].expires \in Nat
    BY SessionTables
  <2> QED
    BY <2>1, <2>3, <2>4
<1> QED
  BY <1>7, <1>8, <1>9, <1>10, <1>11, <1>12 DEF SessionInv

\* The clock only makes sessions older.
LEMMA SessionTick ==
  ASSUME SessionInv, Tick PROVE SessionInv'
<1>1. /\ now' = now + 1 /\ now < MaxTime /\ answer' = NoAnswer
      /\ sessions' = sessions /\ issued' = issued
  BY DEF Tick
<1>2. answer'.accepted = FALSE
  BY <1>1 DEF NoAnswer
<1>3. now' \in 0..MaxTime
  BY <1>1, SessionTables, SessionFacts
<1>4. SessionsTypeOK'
  BY <1>1, <1>2, <1>3 DEF SessionInv, SessionsTypeOK
<1>5. SlotsAreIssued' /\ TokensDiffer'
  BY <1>1 DEF SessionInv, SlotsAreIssued, TokensDiffer, IsFree, Holds
<1>6. IssuedBefore'
  BY <1>1, SessionTables DEF SessionInv, IssuedBefore
<1>7. LostToRivals'
  BY <1>1, SessionTables, SessionFacts DEF SessionInv, LostToRivals, Holds, Rivals
<1>8. AcceptedIsFresh'
  BY <1>2 DEF AcceptedIsFresh
<1> QED
  BY <1>4, <1>5, <1>6, <1>7, <1>8 DEF SessionInv

\* A request about accounts leaves the sessions alone.
LEMMA SessionSame ==
  ASSUME SessionInv, UNCHANGED <<now, sessions, issued>>,
         answer' = answer \/ answer' = NoAnswer
  PROVE  SessionInv'
<1>1. answer' = answer \/ answer'.accepted = FALSE
  BY DEF NoAnswer
<1> QED
  BY <1>1 DEF SessionInv, SessionsTypeOK, SlotsAreIssued, TokensDiffer, IssuedBefore,
     LostToRivals, AcceptedIsFresh, IsFree, Holds, Rivals

\* authentication_init and a reset empty the table.
LEMMA SessionClear ==
  ASSUME SessionInv, ClearSessions PROVE SessionInv'
<1>1. now' \in 0..MaxTime
  BY DEF ClearSessions, SessionInv, SessionsTypeOK
<1>2. /\ sessions' = [i \in SessionSlots |-> FreeSlot] /\ issued' = <<>> /\ answer' = NoAnswer
  BY DEF ClearSessions
<1>3. answer'.accepted = FALSE
  BY <1>2 DEF NoAnswer
<1>4. SessionsTypeOK'
  BY <1>1, <1>2, <1>3, FreeTypes, Zenon DEF SessionsTypeOK
<1>5. \A i \in SessionSlots : sessions'[i].token = 0
  BY <1>2 DEF FreeSlot
<1>6. DOMAIN issued' = {}
  BY <1>2
<1> QED
  BY <1>3, <1>4, <1>5, <1>6 DEF SessionInv, SlotsAreIssued, TokensDiffer, IssuedBefore,
     LostToRivals, AcceptedIsFresh, IsFree

\* The invariant of the sessions holds always.
LEMMA SessionsKept == Spec => []SessionInv
<1>1. Init => SessionInv
  <2>1. Init => now \in 0..MaxTime
    BY SessionFacts DEF Init, SessionsInit
  <2> QED
    BY <2>1, SessionsCleared DEF Init, SessionsInit
<1>2. SessionInv /\ [Next]_vars => SessionInv'
  <2> SUFFICES ASSUME SessionInv, [Next]_vars PROVE SessionInv'
    OBVIOUS
  <2>1. CASE AuthenticationInit
    BY <2>1, SessionClear DEF AuthenticationInit
  <2>2. CASE Users
    BY <2>2, SessionSame DEF Users
  <2>3. CASE Sessions
    BY <2>3, SessionLogin, SessionPresent, SessionTick DEF Sessions
  <2>4. CASE Restart
    BY <2>4, SessionClear DEF Restart
  <2>5. CASE UNCHANGED vars
    BY <2>5, SessionSame DEF vars, sessionVars
  <2> QED
    BY <2>1, <2>2, <2>3, <2>4, <2>5 DEF Next
<1> QED
  BY <1>1, <1>2, PTL DEF Spec

\* Every variable of the accounts and the sessions keeps its type.
THEOREM WebTypeCorrect == Spec => []TypeOK
<1>1. AccountInv /\ SessionInv => TypeOK
  BY DEF AccountInv, SessionInv, TypeOK
<1> QED
  BY <1>1, AccountsKept, SessionsKept, PTL

\* No token is accepted after the lifetime of its session.
THEOREM NothingStaleIsAccepted == Spec => []AcceptedIsFresh
BY SessionsKept, PTL DEF SessionInv

\* A session is honoured until it expires, unless as many logins as the
\* table has slots came at the same second or later.
THEOREM SessionsAreHonoured == Spec => []LiveUnlessSuperseded
<1>1. SessionInv => LiveUnlessSuperseded
  <2> SUFFICES ASSUME SessionInv, NEW t \in DOMAIN issued, now < issued[t] + Lifetime,
                      Cardinality(Rivals(t)) < MaxSessions
               PROVE  Valid(t)
    BY DEF LiveUnlessSuperseded, Rivals
  <2>1. issued[t] \in Nat /\ now \in Nat /\ Cardinality(Rivals(t)) \in Nat /\ t # 0
    BY SessionTables, FS_CardinalityType
  <2>2. PICK i \in SessionSlots : Holds(i, t)
    BY <2>1, SessionFacts DEF SessionInv, LostToRivals
  <2>3. sessions[i].expires = issued[t] + Lifetime
    BY <2>1, <2>2 DEF SessionInv, SlotsAreIssued, IsFree, Holds
  <2> QED
    BY <2>1, <2>2, <2>3, SessionFacts DEF Valid, Expired
<1> QED
  BY <1>1, SessionsKept, PTL

-----------------------------------------------------------------------------
(* The table of sessions implements the registry of tokens.                *)

\* A token is honoured exactly while it is in a slot and its lifetime has
\* not passed.
ValidIsKept ==
  \A t \in DOMAIN issued :
    Valid(t) <=> /\ now < issued[t] + Lifetime
                 /\ \E i \in SessionSlots : Holds(i, t)

\* It follows from what the slots hold.
LEMMA ValidIs == SessionInv => ValidIsKept
<1> SUFFICES ASSUME SessionInv, NEW t \in DOMAIN issued
             PROVE  Valid(t) <=> /\ now < issued[t] + Lifetime
                                 /\ \E i \in SessionSlots : Holds(i, t)
  BY DEF ValidIsKept
<1>1. t # 0 /\ issued[t] \in Nat /\ now \in Nat /\ Lifetime \in Nat
  BY SessionTables, SessionFacts
<1>2. \A i \in SessionSlots : Holds(i, t) => sessions[i].expires = issued[t] + Lifetime
  BY <1>1 DEF SessionInv, SlotsAreIssued, IsFree, Holds
<1> QED
  BY <1>1, <1>2 DEF Valid, Expired

\* So it is before a step and after it.
LEMMA ValidIsNext ==
  /\ SessionInv => ValidIsKept
  /\ SessionInv' => \A t \in DOMAIN issued' :
       Valid(t)' <=> /\ now' < issued'[t] + Lifetime
                     /\ \E i \in SessionSlots : sessions'[i].token = t
<1>1. SessionInv' => ValidIsKept'
  BY ValidIs, PTL
<1> QED
  BY <1>1, ValidIs DEF ValidIsKept, Holds

\* What the registry calls honoured.
Honoured == {t \in DOMAIN issued : Valid(t)}

\* A login honours its token, brings none back, and drops only what has
\* enough rivals.
LEMMA RegistryLogin ==
  ASSUME SessionInv, SessionInv', Login PROVE Registry!Issue
<1> DEFINE n == Len(issued) + 1
<1>1. /\ Len(issued) < MaxLogins /\ issued' = Append(issued, now)
      /\ answer' = NoAnswer /\ now' = now
  BY DEF Login
<1>2. PICK i \in SessionSlots :
        sessions' = [sessions EXCEPT ![i] = [token |-> n, expires |-> now + Lifetime]]
  BY DEF Login
<1>3. issued \in Seq(0..MaxTime) /\ now \in Nat /\ now \in 0..MaxTime
  BY SessionTables DEF SessionInv, SessionsTypeOK
<1>4. /\ DOMAIN issued' = 1..n /\ DOMAIN issued = 1..(n - 1) /\ n \in Nat \ {0}
      /\ Len(issued') = n /\ issued'[n] = now
      /\ \A t \in DOMAIN issued : issued'[t] = issued[t]
  BY <1>1, <1>3
<1>5. /\ sessions'[i].token = n
      /\ \A j \in SessionSlots \ {i} : sessions'[j] = sessions[j]
  <2>1. i \in DOMAIN sessions /\ DOMAIN sessions = SessionSlots
    BY DEF SessionInv, SessionsTypeOK
  <2> QED
    BY <1>2, <2>1
<1>6. \A t \in DOMAIN issued' : t \in Honoured' <=> Valid(t)'
  BY DEF Honoured
<1>7. n \in Honoured'
  BY <1>1, <1>3, <1>4, <1>5, <1>6, ValidIsNext, SessionFacts
<1>8. Honoured' \in SUBSET (Honoured \cup {n})
  <2> SUFFICES ASSUME NEW t \in Honoured', t # n PROVE t \in Honoured
    OBVIOUS
  <2>1. t \in DOMAIN issued' /\ Valid(t)'
    BY DEF Honoured
  <2>2. t \in DOMAIN issued /\ now < issued[t] + Lifetime
    BY <1>1, <1>4, <2>1, ValidIsNext
  <2>3. PICK j \in SessionSlots : sessions'[j].token = t
    BY <2>1, ValidIsNext
  <2>4. Holds(j, t)
    BY <1>5, <2>3 DEF Holds
  <2> QED
    BY <2>2, <2>4, ValidIs DEF ValidIsKept, Honoured
<1>9. ASSUME NEW t \in Honoured \ Honoured' PROVE Cardinality(Rivals(t)') >= MaxSessions
  <2>1. t \in DOMAIN issued /\ now < issued[t] + Lifetime
    BY <1>9, ValidIs DEF ValidIsKept, Honoured
  <2>2. t \in DOMAIN issued' /\ now' < issued'[t] + Lifetime /\ issued'[t] \in Nat
    BY <1>1, <1>4, <2>1, SessionTables
  <2>3. ~(\E j \in SessionSlots : sessions'[j].token = t)
    BY <1>6, <1>9, <2>2, ValidIsNext
  <2>4. ~(issued'[t] + Lifetime <= now')
    BY <1>1, <1>3, <2>2, SessionFacts
  <2> QED
    BY <2>2, <2>3, <2>4 DEF SessionInv, LostToRivals, Holds
<1>10. \A t : Registry!Rivals(t)' = Rivals(t)'
  BY DEF Registry!Rivals, Rivals
<1>11. \A S : Registry!Cardinality(S) = Cardinality(S)
  BY Zenon DEF Registry!Cardinality, Cardinality
<1> QED
  BY <1>1, <1>4, <1>7, <1>8, <1>9, <1>10, <1>11
  DEF Registry!Issue, Registry!None, NoAnswer, Honoured

\* A request with a token is answered from the registry and frees only
\* slots of tokens that are not in it.
LEMMA RegistryPresent ==
  ASSUME SessionInv, SessionInv', NEW t \in Tokens, Present(t) PROVE Registry!Decide(t)
<1>1. /\ t \in DOMAIN issued /\ UNCHANGED <<now, issued>>
      /\ answer' = [token |-> t, accepted |-> Valid(t)]
      /\ sessions' = [i \in SessionSlots |-> IF Holds(i, t) /\ Expired(i)
                                               THEN [sessions[i] EXCEPT !.token = 0]
                                               ELSE sessions[i]]
  BY DEF Present
<1>2. DOMAIN issued = 1..Len(issued) /\ now \in Nat
  BY SessionTables
<1>3. \A i \in SessionSlots :
        /\ sessions'[i].token = IF Holds(i, t) /\ Expired(i) THEN 0 ELSE sessions[i].token
  <2> SUFFICES ASSUME NEW i \in SessionSlots
               PROVE  sessions'[i].token =
                        IF Holds(i, t) /\ Expired(i) THEN 0 ELSE sessions[i].token
    OBVIOUS
  <2>1. sessions[i] \in [token : 0..MaxLogins, expires : 0..(MaxTime + Lifetime)]
    BY DEF SessionInv, SessionsTypeOK
  <2> QED
    BY <1>1, <2>1
<1>4. ASSUME NEW u \in DOMAIN issued PROVE Valid(u)' <=> Valid(u)
  <2>1. u # 0 /\ issued[u] \in Nat
    BY <1>2, SessionTables
  <2>2. ASSUME now < issued[u] + Lifetime
        PROVE  \A i \in SessionSlots : sessions'[i].token = u <=> Holds(i, u)
    <3> SUFFICES ASSUME NEW i \in SessionSlots PROVE sessions'[i].token = u <=> Holds(i, u)
      OBVIOUS
    <3>1. Holds(i, u) => ~Expired(i)
      BY <1>2, <2>1, <2>2, SessionFacts
      DEF SessionInv, SlotsAreIssued, IsFree, Holds, Expired
    <3> QED
      BY <1>3, <2>1, <3>1 DEF Holds
  <2> QED
    BY <1>1, <2>2, ValidIs, ValidIsNext DEF ValidIsKept
<1>5. Honoured' = Honoured
  BY <1>1, <1>4 DEF Honoured
<1>6. Valid(t) = (t \in Honoured)
  <2>1. t \in Honoured <=> Valid(t)
    BY <1>1 DEF Honoured
  <2>2. CASE Valid(t)
    <3>1. Valid(t) = TRUE
      BY <2>2, Zenon DEF Valid
    <3>2. (t \in Honoured) = TRUE
      BY <2>1, <2>2
    <3> QED
      BY <3>1, <3>2, Zenon
  <2>3. CASE ~Valid(t)
    <3>1. Valid(t) = FALSE
      BY <2>3, Zenon DEF Valid
    <3>2. (t \in Honoured) = FALSE
      BY <2>1, <2>3, SMT
    <3> QED
      BY <3>1, <3>2, Zenon
  <2> QED
    BY <2>2, <2>3
<1> QED
  BY <1>1, <1>5, <1>6 DEF Registry!Decide, Honoured

\* The clock ends sessions and does nothing else to them.
LEMMA RegistryTick ==
  ASSUME SessionInv, SessionInv', Tick PROVE Registry!Tick
<1>1. now < MaxTime /\ now' = now + 1 /\ answer' = NoAnswer /\ UNCHANGED <<sessions, issued>>
  BY DEF Tick
<1>2. now \in Nat
  BY SessionTables
<1>3. ASSUME NEW t \in DOMAIN issued
      PROVE  Valid(t)' <=> Valid(t) /\ now' < issued[t] + Lifetime
  <2>1. issued[t] \in Nat
    BY SessionTables
  <2>2. Valid(t)' <=> /\ now' < issued[t] + Lifetime
                      /\ \E i \in SessionSlots : Holds(i, t)
    BY <1>1, ValidIsNext DEF Holds
  <2> QED
    BY <1>1, <1>2, <2>1, <2>2, ValidIs, SessionFacts DEF ValidIsKept
<1>4. Honoured' = {t \in Honoured : now' < issued[t] + Lifetime}
  BY <1>1, <1>3 DEF Honoured
<1> QED
  BY <1>1, <1>4 DEF Registry!Tick, Registry!None, NoAnswer, Honoured

\* Every step is one of the registry.
LEMMA RegistryStep ==
  SessionInv /\ SessionInv' /\ [Next]_vars => [Registry!Next]_(Registry!vars)
<1> SUFFICES ASSUME SessionInv, SessionInv', [Next]_vars
             PROVE  Registry!Next \/ UNCHANGED Registry!vars
  OBVIOUS
<1>1. CASE AuthenticationInit \/ Restart
  <2>1. issued' = <<>> /\ answer' = NoAnswer /\ now' = now
    BY <1>1 DEF AuthenticationInit, Restart, ClearSessions
  <2>2. Honoured' = {}
    BY <2>1 DEF Honoured
  <2>3. Registry!Forget
    BY <2>1, <2>2 DEF Registry!Forget, Registry!None, NoAnswer, Honoured
  <2> QED
    BY <2>3 DEF Registry!Next
<1>2. CASE Users
  <2>1. answer' = NoAnswer /\ UNCHANGED <<now, sessions, issued>>
    BY <1>2 DEF Users
  <2>2. Honoured' = Honoured
    BY <2>1 DEF Honoured, Valid, Holds, Expired
  <2>3. Registry!Other
    BY <2>1, <2>2 DEF Registry!Other, Registry!None, NoAnswer, Honoured
  <2> QED
    BY <2>3 DEF Registry!Next
<1>3. CASE Sessions
  <2>1. Login \/ (\E t \in Tokens : Present(t)) \/ Tick
    BY <1>3 DEF Sessions
  <2> QED
    BY <2>1, RegistryLogin, RegistryPresent, RegistryTick DEF Registry!Next, Tokens
<1>4. CASE UNCHANGED vars
  <2>1. UNCHANGED <<now, sessions, issued, answer>>
    BY <1>4 DEF vars, sessionVars
  <2>2. Honoured' = Honoured
    BY <2>1 DEF Honoured, Valid, Holds, Expired
  <2> QED
    BY <2>1, <2>2 DEF Registry!vars, Honoured
<1> QED
  BY <1>1, <1>2, <1>3, <1>4 DEF Next

\* The refinement: whatever requests come, in whatever order slots are
\* taken, freed and taken again, clients see the registry.
THEOREM SessionsAreRegistry == Spec => RegistryImplemented
<1>1. Init => Registry!Init
  BY DEF Init, SessionsInit, Registry!Init, Registry!None, NoAnswer
<1> QED
  BY <1>1, RegistryStep, SessionsKept, PTL DEF Spec, RegistryImplemented, Registry!Spec

\* A token that was issued and is not honoured stays refused until the table
\* is cleared: no later login, request or moment brings it back.
RefusedStaysRefused ==
  [][\A t \in DOMAIN issued : ~Valid(t) /\ t \in DOMAIN issued' => ~Valid(t)']_vars

\* This is what the scan over slots that are reused could break.
COROLLARY RefusedForEver == Spec => RefusedStaysRefused
<1>1. [Registry!Next]_(Registry!vars)
        => [\A t \in DOMAIN issued : ~Valid(t) /\ t \in DOMAIN issued' => ~Valid(t)']_vars
  <2> SUFFICES ASSUME Registry!Next \/ UNCHANGED Registry!vars,
                      NEW t \in DOMAIN issued, t \notin Honoured, t \in DOMAIN issued'
               PROVE  t \notin Honoured'
    BY DEF Honoured
  <2> QED
    BY DEF Registry!Next, Registry!Issue, Registry!Decide, Registry!Tick, Registry!Forget,
           Registry!Other, Registry!vars, Honoured
<1> QED
  BY <1>1, RegistryStep, SessionsKept, PTL DEF Spec, RefusedStaysRefused
=============================================================================
