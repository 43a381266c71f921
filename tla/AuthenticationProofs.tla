------------------------- MODULE AuthenticationProofs -------------------------
(* What tokens are worth, for any clock, any lifetime and any users.       *)
EXTENDS Authentication, TLAPS

\* What a division by Second cuts off is less than a second.
LEMMA SecondsBounds ==
    ASSUME NEW t \in Nat
    PROVE  /\ Seconds(t) \in Nat
           /\ Second * Seconds(t) <= t
           /\ t < Second * Seconds(t) + Second
BY TimeAssumption DEF Seconds

LEMMA SecondsMonotone ==
    ASSUME NEW t \in Nat, NEW u \in Nat, t <= u
    PROVE  Seconds(t) <= Seconds(u)
<1> DEFINE a == Seconds(t)
           b == Seconds(u)
<1>1. /\ a \in Nat /\ b \in Nat /\ Second * a <= t /\ u < Second * b + Second
    BY SecondsBounds
<1>2. Second * a < Second * (b + 1)
    BY <1>1, TimeAssumption
<1>3. a < b + 1
    BY <1>1, <1>2, TimeAssumption
<1> QED  BY <1>1, <1>3

-----------------------------------------------------------------------------
\* Every token was given out at a login, and every login gave one out.
Dates(token, l) ==
    token.sub = l.user /\ token.exp = Seconds(l.time + Lifetime)

IInv ==
    /\ AuthTypeOK
    /\ \A token \in tokens : \E l \in logins : Dates(token, l)
    /\ \A l \in logins : \E token \in tokens : Dates(token, l)

THEOREM Invariance == AuthSpec => []IInv
<1>1. AuthInit => IInv
    BY TimeAssumption DEF AuthInit, IInv, AuthTypeOK
<1>2. IInv /\ [AuthNext]_<<now, logins, tokens>> => IInv'
  <2> SUFFICES ASSUME IInv, [AuthNext]_<<now, logins, tokens>>
               PROVE  IInv'
      OBVIOUS
  <2>1. CASE Tick
    <3>1. AuthTypeOK'
        BY <2>1, TimeAssumption DEF IInv, AuthTypeOK, Tick
    <3> QED  BY <2>1, <3>1 DEF IInv, Tick, Dates
  <2>2. ASSUME NEW u \in Users, NEW password \in Passwords, Login(u, password)
        PROVE  IInv'
    <3> DEFINE token == CreateAccessToken(u)
               l     == [user |-> u, time |-> now]
    <3>1. /\ now' = now /\ now \in Nat
          /\ tokens' = tokens \cup {token} /\ logins' = logins \cup {l}
        BY <2>2, TimeAssumption DEF Login, IInv, AuthTypeOK
    <3>2. /\ Seconds(now + Lifetime) \in Nat
          /\ token \in Tokens /\ l \in [user : Users, time : 0..now]
          /\ Dates(token, l)
      <4>1. Seconds(now + Lifetime) \in Nat
          BY <3>1, TimeAssumption, SecondsBounds
      <4> QED  BY <3>1, <4>1 DEF CreateAccessToken, Dates, Tokens
    <3>3. AuthTypeOK'
        BY <3>1, <3>2 DEF IInv, AuthTypeOK
    <3> HIDE DEF token, l
    <3> QED  BY <3>1, <3>2, <3>3 DEF IInv, Dates
  <2>3. CASE UNCHANGED <<now, logins, tokens>>
      BY <2>3 DEF IInv, AuthTypeOK, Dates
  <2> QED  BY <2>1, <2>2, <2>3 DEF AuthNext
<1> QED  BY <1>1, <1>2, PTL DEF AuthSpec

THEOREM TypeCorrect == AuthSpec => []AuthTypeOK
<1>1. IInv => AuthTypeOK
    BY DEF IInv
<1> QED  BY <1>1, Invariance, PTL

\* Whoever is let in has logged in less than a lifetime and a second ago: for a
\* token that decodes, the second it was made in and the lifetime reach the
\* second of now.
THEOREM TokensAreEarned == AuthSpec => []AcceptedTokensAreEarned
<1>1. IInv => AcceptedTokensAreEarned
  <2> SUFFICES ASSUME IInv, NEW token \in tokens, Decodes(token)
               PROVE  LoggedIn(token, 0, Lifetime + Second - 1)
      BY DEF AcceptedTokensAreEarned
  <2>1. PICK l \in logins : Dates(token, l)
      BY DEF IInv
  <2>2. /\ now \in Nat /\ l.time \in 0..now
      BY TimeAssumption DEF IInv, AuthTypeOK
  <2> DEFINE t == l.time
             a == Seconds(now)
             b == Seconds(t + Lifetime)
  <2>3. a <= b
      BY <2>1 DEF Decodes, Dates
  <2>4. /\ a \in Nat /\ b \in Nat
        /\ now < Second * a + Second /\ Second * b <= t + Lifetime
      BY <2>2, SecondsBounds, TimeAssumption
  <2>5. Second * a <= Second * b
      BY <2>3, <2>4, TimeAssumption
  <2>6. now - t \in 0..(Lifetime + Second - 1)
      BY <2>2, <2>4, <2>5, TimeAssumption
  <2> QED  BY <2>1, <2>6 DEF LoggedIn, Dates
<1> QED  BY <1>1, Invariance, PTL

\* Nobody is turned away within the lifetime: time in whole seconds never runs
\* ahead of time in ticks.
THEOREM LoginsDoLast == AuthSpec => []LoginsLast
<1>1. IInv => LoginsLast
  <2> SUFFICES ASSUME IInv, NEW l \in logins, now - l.time <= Lifetime
               PROVE  \E token \in tokens : token.sub = l.user /\ Decodes(token)
      BY DEF LoginsLast
  <2>1. PICK token \in tokens : Dates(token, l)
      BY DEF IInv
  <2>2. now \in Nat /\ l.time \in 0..now
      BY TimeAssumption DEF IInv, AuthTypeOK
  <2>3. Seconds(now) <= Seconds(l.time + Lifetime)
      BY <2>2, SecondsMonotone, TimeAssumption
  <2>4. token # None
      BY NoneAssumption DEF IInv, AuthTypeOK
  <2> QED  BY <2>1, <2>3, <2>4 DEF Decodes, Dates
<1> QED  BY <1>1, Invariance, PTL
=============================================================================
