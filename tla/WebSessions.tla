---------------------------- MODULE WebSessions ----------------------------
(***************************************************************************)
(* The session table of the web interface (authentication.c): a login      *)
(* stores a fresh token in a free slot or over the session that expires    *)
(* first; a request is authenticated by a token in a Cookie or in an       *)
(* Authorization header.  A slot with token 0 is free (an empty string);   *)
(* tokens are numbered as they are generated.                              *)
(***************************************************************************)
EXTENDS Naturals, Sequences, FiniteSets

CONSTANTS
  MaxSessions,  \* MAX_SESSIONS
  Lifetime,     \* SESSION_LIFETIME_SEC
  MaxTime,      \* bound on the clock
  MaxLogins     \* bound on the logins between two initialisations

ASSUME WebSessionsAssumption ==
  /\ MaxSessions \in Nat \ {0}
  /\ Lifetime \in Nat \ {0}
  /\ MaxTime \in Nat
  /\ MaxLogins \in Nat

VARIABLES
  now,          \* time(NULL), in seconds
  sessions,     \* web_session_list
  issued,       \* history: when each token was issued, since the table was
                \*   cleared
  answer        \* history: the request with a token that was just decided

sessionVars == <<now, sessions, issued, answer>>

SessionSlots == 1..MaxSessions
Tokens == 1..MaxLogins
FreeSlot == [token |-> 0, expires |-> 0]

NoAnswer == [token |-> 0, accepted |-> FALSE]

SessionsInit ==
  /\ now = 0
  /\ sessions = [i \in SessionSlots |-> FreeSlot]
  /\ issued = <<>>
  /\ answer = NoAnswer

-----------------------------------------------------------------------------
IsFree(i) == sessions[i].token = 0
Expired(i) == sessions[i].expires <= now

\* Mutant: the scan for the oldest session keeps the newest instead.
IsVictim_Newest(i) ==
  IF \E j \in SessionSlots : IsFree(j)
    THEN IsFree(i) /\ \A j \in SessionSlots : IsFree(j) => i <= j
    ELSE \A j \in SessionSlots :
           \/ sessions[i].expires > sessions[j].expires
           \/ sessions[i].expires = sessions[j].expires /\ i <= j

\* The slot a new token goes to: the first free one, else the first of
\* those that expire earliest.
IsVictim(i) ==
  IF \E j \in SessionSlots : IsFree(j)
    THEN IsFree(i) /\ \A j \in SessionSlots : IsFree(j) => i <= j
    ELSE \A j \in SessionSlots :
           \/ sessions[i].expires < sessions[j].expires
           \/ sessions[i].expires = sessions[j].expires /\ i <= j

\* Basic authentication succeeds: generate_token and store_session_token.
Login ==
  /\ Len(issued) < MaxLogins
  /\ \E i \in SessionSlots :
       /\ IsVictim(i)
       /\ sessions' = [sessions EXCEPT ![i] = [token |-> Len(issued) + 1,
                                               expires |-> now + Lifetime]]
  /\ issued' = Append(issued, now)
  /\ answer' = NoAnswer
  /\ UNCHANGED now

Holds(i, t) == sessions[i].token = t

\* Mutant: an expired session is accepted when it is presented.
Valid_Expired(t) == \E i \in SessionSlots : Holds(i, t)

\* check_token_valid.
Valid(t) == \E i \in SessionSlots : Holds(i, t) /\ ~Expired(i)

\* authentication() with a token in a Cookie or in an Authorization header:
\* an expired session frees its slot when it is presented.
Present(t) ==
  /\ t \in DOMAIN issued
  /\ answer' = [token |-> t, accepted |-> Valid(t)]
  /\ sessions' = [i \in SessionSlots |-> IF Holds(i, t) /\ Expired(i)
                                           THEN [sessions[i] EXCEPT !.token = 0]
                                           ELSE sessions[i]]
  /\ UNCHANGED <<now, issued>>

\* authentication_init clears the table, at boot and on every IPv4 address.
ClearSessions ==
  /\ sessions' = [i \in SessionSlots |-> FreeSlot]
  /\ issued' = <<>>
  /\ answer' = NoAnswer
  /\ UNCHANGED now

Tick ==
  /\ now < MaxTime
  /\ now' = now + 1
  /\ answer' = NoAnswer
  /\ UNCHANGED <<sessions, issued>>

SessionsTypeOK ==
  /\ now \in 0..MaxTime
  /\ sessions \in [SessionSlots -> [token : 0..MaxLogins, expires : 0..(MaxTime + Lifetime)]]
  /\ issued \in Seq(0..MaxTime) /\ Len(issued) <= MaxLogins
  /\ answer.accepted \in BOOLEAN
=============================================================================
