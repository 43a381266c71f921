---------------------------- MODULE Authentication ----------------------------
(***************************************************************************)
(* Tokens: login gives one to whoever knows a password, and               *)
(* get_current_user accepts it until it expires.  Nothing is kept on the   *)
(* server: what a request may do rests on the token's two times, written   *)
(* and compared in whole seconds, while logins and requests come at any    *)
(* moment in between.                                                      *)
(***************************************************************************)
EXTENDS Integers

CONSTANTS
    Users,       \* names that may appear in a login
    Passwords,
    Verifies,    \* Verifies[u]: the passwords that verify_password takes for
                 \* u's; none for a name that is not in FAKE_USERS_DB
    Second,      \* the ticks of the clock in one second
    Lifetime,    \* ACCESS_TOKEN_EXPIRE_HOURS, in ticks
    MaxTime,     \* bound: the last tick
    None         \* a token that is missing or not signed with SECRET_KEY

ASSUME TimeAssumption ==
    /\ Second \in Nat \ {0}
    /\ Lifetime \in Nat
    /\ MaxTime \in Nat

ASSUME PasswordsAssumption == Verifies \in [Users -> SUBSET Passwords]

\* The payload of a token.
Tokens == [sub : Users, exp : Nat]

ASSUME NoneAssumption == None \notin Tokens

VARIABLES
    now,       \* the clock, in ticks
    logins,    \* history: every successful login
    tokens     \* the tokens given out

-----------------------------------------------------------------------------
\* The whole seconds of a time: jose keeps no fractions.
Seconds(t) == t \div Second

CreateAccessToken_RoundedUp(u) == [sub |-> u, exp |-> Seconds(now + Lifetime) + 1]

CreateAccessToken(u) == [sub |-> u, exp |-> Seconds(now + Lifetime)]

Decodes_Strictly(token) == token # None /\ token.exp > Seconds(now)

\* jwt.decode: the signature is right and the token has not expired.
Decodes(token) == token # None /\ token.exp >= Seconds(now)

AuthInit ==
    /\ now    = 0
    /\ logins = {}
    /\ tokens = {}

Tick ==
    /\ now < MaxTime
    /\ now' = now + 1
    /\ UNCHANGED <<logins, tokens>>

\* Every login gives out a token of its own; earlier ones stay as they are.
Login(u, password) ==
    /\ password \in Verifies[u]
    /\ tokens' = tokens \cup {CreateAccessToken(u)}
    /\ logins' = logins \cup {[user |-> u, time |-> now]}
    /\ UNCHANGED now

AuthNext == Tick \/ \E u \in Users, password \in Passwords : Login(u, password)

AuthSpec == AuthInit /\ [][AuthNext]_<<now, logins, tokens>>

AuthTypeOK ==
    /\ now \in 0..MaxTime
    /\ logins \subseteq [user : Users, time : 0..now]
    /\ tokens \subseteq Tokens

-----------------------------------------------------------------------------
\* Is there a login of this token's user between these two ages?
LoggedIn(token, youngest, oldest) ==
    \E l \in logins : /\ l.user = token.sub
                      /\ now - l.time \in youngest..oldest

\* Whoever is let in has logged in with a password that verifies, less than a
\* lifetime and a second ago: rounding both times never adds more than that.
AcceptedTokensAreEarned ==
    \A token \in tokens :
        Decodes(token) => LoggedIn(token, 0, Lifetime + Second - 1)

\* Rounding never takes anything away: whoever has logged in holds a token that
\* is accepted for the whole lifetime.
LoginsLast ==
    \A l \in logins : now - l.time <= Lifetime =>
        \E token \in tokens : token.sub = l.user /\ Decodes(token)
=============================================================================
