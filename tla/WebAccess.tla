----------------------------- MODULE WebAccess -----------------------------
(***************************************************************************)
(* Access to the web interface: the accounts, the sessions, and what       *)
(* touches both (authentication.c).  authentication_init, which every IPv4 *)
(* address event calls while the server runs, reloads the one table and    *)
(* clears the other; a login needs an account.                             *)
(***************************************************************************)
EXTENDS WebUsers, WebSessions

vars == <<userVars, sessionVars>>

Init == UsersInit /\ SessionsInit

AuthenticationInit == LoadUsers /\ ClearSessions

Users ==
  /\ \/ \E n \in Names, p \in Passwords : AddUser(n, p)
     \/ \E n \in Names : DeleteUser(n)
  /\ answer' = NoAnswer
  /\ UNCHANGED <<now, sessions, issued>>

\* POST /api/login: check_user_credentials, then a token for a session.
Authenticated == up /\ \E n \in Names, p \in Passwords : Accepts(ram, n, p)

Sessions ==
  /\ \/ Authenticated /\ Login
     \/ up /\ \E t \in Tokens : Present(t)
     \/ Tick
  /\ reply' = NoReply
  /\ UNCHANGED <<ram, flash, up, drift>>

\* A reset loses both tables.
Restart == LoseUsers /\ ClearSessions

Next == AuthenticationInit \/ Users \/ Sessions \/ Restart

Spec == Init /\ [][Next]_vars

-----------------------------------------------------------------------------
TypeOK == UsersTypeOK /\ SessionsTypeOK

\* Nobody is ever locked out: while the server runs there is an account, and
\* what is stored holds one in its first slot, whatever sequence of requests,
\* failed saves, reloads and resets came before.
SomebodyCanLogIn ==
  /\ up => Used(ram) # {}
  /\ flash # NoUsers => flash[1].name # ""

\* The accounts that are listed (from flash) are those that log in (RAM),
\* unless a change failed to reach flash; a save that works repairs it.
ListedIsEffective == up /\ ~drift => ram = flash

\* A deletion answered with success leaves no account of that name, in RAM
\* or in flash: it cannot come back with the next restart.
DeletedIsGone ==
  reply.op = "delete" /\ reply.result = "ok"
    => Named(ram, reply.name) \cup Named(flash, reply.name) = {}

\* An addition answered with success lets the user log in now and after a
\* restart.
AddedIsKept ==
  reply.op = "add" /\ reply.result = "ok"
    => /\ Accepts(ram, reply.name, reply.pass)
       /\ Accepts(flash, reply.name, reply.pass)

\* A session that has not expired is honoured unless MaxSessions other
\* logins happened in the same second or later: neither sessions that have
\* expired nor older ones can push it out of a full table.
LiveUnlessSuperseded ==
  \A t \in DOMAIN issued :
    /\ now < issued[t] + Lifetime
    /\ Cardinality({u \in DOMAIN issued \ {t} : issued[u] >= issued[t]}) < MaxSessions
    => Valid(t)

\* No token is accepted after the lifetime of its session, however its slot
\* was reused in between.
AcceptedIsFresh ==
  answer.accepted => now < issued[answer.token] + Lifetime

\* The table of sessions implements SessionRegistry: requests see a set of
\* tokens, of which a scan over reused slots drops none too early and brings
\* none back.
Registry == INSTANCE SessionRegistry
              WITH Places <- MaxSessions,
                   honoured <- {t \in DOMAIN issued : Valid(t)}

RegistryImplemented == Registry!Spec

\* add_web_user refuses a user who "already exists" (authentication.c line
\* 309): no name is in the table twice.
NamesAreUnique ==
  \A i, j \in Used(ram) : ram[i].name = ram[j].name => i = j
=============================================================================
