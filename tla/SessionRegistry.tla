--------------------------- MODULE SessionRegistry ---------------------------
(***************************************************************************)
(* What the users of the web interface may rely on: a set of tokens that   *)
(* are honoured, without the table of slots that authentication.c keeps    *)
(* them in.  A token is honoured from its login to the end of its          *)
(* lifetime; it can be dropped before only by a login, and only if Places  *)
(* other tokens are as young or younger ("find the oldest session",        *)
(* store_session_token).  One that is not honoured any more never is       *)
(* again, and a request is accepted exactly if its token is honoured.      *)
(***************************************************************************)
EXTENDS Naturals, Sequences, FiniteSets

CONSTANTS
  Places,       \* how many sessions are kept
  Lifetime,
  MaxTime,      \* bound on the clock
  MaxLogins     \* bound on the logins between two initialisations

VARIABLES
  now,
  issued,       \* when each token was issued
  honoured,     \* tokens that are accepted
  answer        \* the request that was just decided, if any

vars == <<now, issued, honoured, answer>>

None == [token |-> 0, accepted |-> FALSE]

Init == now = 0 /\ issued = <<>> /\ honoured = {} /\ answer = None

\* The tokens that are no older than t.
Rivals(t) == {u \in DOMAIN issued \ {t} : issued[u] >= issued[t]}

\* A login issues a token and may drop older ones.
Issue ==
  /\ Len(issued) < MaxLogins
  /\ issued' = Append(issued, now)
  /\ honoured' \in SUBSET (honoured \cup {Len(issued')})
  /\ Len(issued') \in honoured'
  /\ \A t \in honoured \ honoured' : Cardinality(Rivals(t)') >= Places
  /\ answer' = None
  /\ UNCHANGED now

\* A request with a token is accepted or not.
Decide(t) ==
  /\ t \in DOMAIN issued
  /\ answer' = [token |-> t, accepted |-> t \in honoured]
  /\ UNCHANGED <<now, issued, honoured>>

\* Time passes: nothing but the end of its lifetime ends a session.
Tick ==
  /\ now < MaxTime
  /\ now' = now + 1
  /\ honoured' = {t \in honoured : now' < issued[t] + Lifetime}
  /\ answer' = None
  /\ UNCHANGED issued

\* The server starts again, or gets an address.
Forget ==
  /\ issued' = <<>>
  /\ honoured' = {}
  /\ answer' = None
  /\ UNCHANGED now

\* Requests about accounts leave the sessions alone.
Other ==
  /\ answer' = None
  /\ UNCHANGED <<now, issued, honoured>>

Next ==
  \/ Issue
  \/ \E t \in 1..MaxLogins : Decide(t)
  \/ Tick
  \/ Forget
  \/ Other

Spec == Init /\ [][Next]_vars
=============================================================================
