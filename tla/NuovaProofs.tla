----------------------------- MODULE NuovaProofs -----------------------------
(***************************************************************************)
(* Proofs about the nuova plugin's sessions, for any number of overlapping *)
(* scrapes and any limits.                                                 *)
(***************************************************************************)
EXTENDS Nuova, TLAPS, FiniteSetTheorems

\* The scrapes that hold a session.
Holders == {s \in Scrapers : npc[s] \in {"post", "logout"}}

\* A scrape holds a session the device has created, and no two hold one.
CookieOK ==
  /\ \A s \in Holders : cookie[s] \in 1..created
  /\ \A s, t \in Holders : cookie[s] = cookie[t] => s = t
  /\ \A n \in open : n <= created

Inv == TypeOK /\ CookieOK /\ SessionsAccounted

-----------------------------------------------------------------------------

LEMMA InvInit == Init => Inv
<1> SUFFICES ASSUME Init PROVE Inv
  OBVIOUS
<1> USE RetryAssumption, MaxSessionsAssumption DEF Init
<1>1. TypeOK
  BY DEF TypeOK
<1>2. CookieOK /\ SessionsAccounted
  BY DEF CookieOK, Holders, SessionsAccounted
<1> QED BY <1>1, <1>2 DEF Inv

\* A scrape goes to its next request, repeats one, or returns.
LEMMA GotoType ==
  ASSUME TypeOK, NEW s \in Scrapers,
         NEW place \in {"idle", "check", "login", "post", "logout"}, Goto(s, place)
  PROVE  /\ npc' \in [Scrapers -> {"idle", "check", "login", "post", "logout"}]
         /\ tries' \in [Scrapers -> Nat]
         /\ \A t \in Scrapers : tries'[t] <= MaxRetries \/ tries'[t] < Attempts
  BY RetryAssumption DEF TypeOK, Goto

LEMMA AgainType ==
  ASSUME TypeOK, NEW s \in Scrapers, Again(s)
  PROVE  /\ npc' = npc
         /\ tries' \in [Scrapers -> Nat]
         /\ \A t \in Scrapers : tries'[t] <= MaxRetries \/ tries'[t] < Attempts
  BY RetryAssumption DEF TypeOK, Again

LEMMA EndType ==
  ASSUME TypeOK, NEW s \in Scrapers,
         NEW what \in {"none", "body", "refusal", "error"}, End(s, what)
  PROVE  /\ npc' \in [Scrapers -> {"idle", "check", "login", "post", "logout"}]
         /\ tries' \in [Scrapers -> Nat]
         /\ \A t \in Scrapers : tries'[t] <= MaxRetries \/ tries'[t] < Attempts
         /\ cookie' \in [Scrapers -> 0..MaxSessions]
         /\ answer' \in [Scrapers -> {"none", "body", "refusal", "error"}]
<1>1. Goto(s, "idle")
  BY DEF End
<1>2. cookie' \in [Scrapers -> 0..MaxSessions]
  BY MaxSessionsAssumption DEF End, TypeOK
<1>3. answer' \in [Scrapers -> {"none", "body", "refusal", "error"}]
  BY DEF End, TypeOK
<1> QED BY <1>1, <1>2, <1>3, GotoType

LEMMA TypeStep == Inv /\ [Next]_vars => TypeOK'
<1> SUFFICES ASSUME Inv, [Next]_vars PROVE TypeOK'
  OBVIOUS
<1> USE MaxSessionsAssumption DEF Inv, device
<1>1. ASSUME NEW s \in Scrapers, Apply(s) \/ RaidPresent(s) \/ RaidAbsent(s)
      PROVE  TypeOK'
  <2>1. Goto(s, "check") \/ Goto(s, "idle") \/ Goto(s, "login")
    BY <1>1 DEF Apply, RaidPresent, RaidAbsent
  <2>2. UNCHANGED <<raid, open, created, cookie, lost>>
        /\ answer' \in [Scrapers -> {"none", "body", "refusal", "error"}]
    BY <1>1 DEF Apply, RaidPresent, RaidAbsent, TypeOK
  <2> QED BY <2>1, <2>2, GotoType DEF TypeOK
<1>a. ASSUME NEW s \in Scrapers, RaidRetry404(s) PROVE TypeOK'
  <2>1. /\ tries' \in [Scrapers -> Nat]
        /\ \A t \in Scrapers : tries'[t] <= MaxRetries \/ tries'[t] < Attempts
    BY <1>a, RetryAssumption DEF RaidRetry404, TypeOK
  <2> QED BY <1>a, <2>1 DEF RaidRetry404, TypeOK
<1>2. ASSUME NEW s \in Scrapers, Login(s) PROVE TypeOK'
  <2>1. Goto(s, "post")
    BY <1>2 DEF Login
  <2>2. /\ created' \in 0..MaxSessions
        /\ open' \subseteq Sessions
        /\ cookie' \in [Scrapers -> 0..MaxSessions]
    BY <1>2 DEF Login, Creates, TypeOK, Sessions
  <2> QED BY <1>2, <2>1, <2>2, GotoType DEF Login, TypeOK
<1>3. ASSUME NEW s \in Scrapers, LoginLost(s) PROVE TypeOK'
  <2>1. open' \subseteq Sessions /\ created' \in 0..MaxSessions /\ raid' = raid
        /\ lost' \subseteq Sessions
    <3>1. created' \in 0..MaxSessions /\ open' \subseteq Sessions
      <4>1. CASE Creates
        BY <4>1 DEF Creates, TypeOK, Sessions
      <4>2. CASE UNCHANGED <<open, created>>
        BY <4>2 DEF TypeOK
      <4> QED BY <1>3, <4>1, <4>2 DEF LoginLost
    <3> QED BY <1>3, <3>1 DEF LoginLost, TypeOK
  <2>2. CASE Again(s) /\ UNCHANGED <<cookie, answer>>
    BY <2>1, <2>2, AgainType DEF TypeOK
  <2>3. CASE End(s, "error")
    BY <2>1, <2>3, EndType DEF TypeOK
  <2> QED BY <1>3, <2>2, <2>3 DEF LoginLost
<1>4. ASSUME NEW s \in Scrapers, LoginRefused(s) PROVE TypeOK'
  BY <1>4, EndType DEF LoginRefused, TypeOK
<1>5. ASSUME NEW s \in Scrapers, Post(s) PROVE TypeOK'
  <2>1. Goto(s, "logout") /\ UNCHANGED <<raid, open, created, cookie, lost>>
        /\ answer' \in [Scrapers -> {"none", "body", "refusal", "error"}]
    BY <1>5 DEF Post, TypeOK
  <2> QED BY <2>1, GotoType DEF TypeOK
<1>6. ASSUME NEW s \in Scrapers, Logout(s) PROVE TypeOK'
  <2>1. End(s, answer[s]) /\ answer[s] \in {"none", "body", "refusal", "error"}
    BY <1>6 DEF Logout, TypeOK
  <2>2. open' \subseteq Sessions /\ UNCHANGED <<raid, created, lost>>
    BY <1>6 DEF Logout, TypeOK
  <2> QED BY <2>1, <2>2, EndType DEF TypeOK
<1>7. ASSUME NEW s \in Scrapers, LogoutLost(s) PROVE TypeOK'
  <2>1. open' \subseteq Sessions /\ created' = created /\ raid' = raid
    BY <1>7 DEF LogoutLost, TypeOK
  <2>2. CASE Again(s) /\ UNCHANGED <<cookie, answer, lost>>
    BY <2>1, <2>2, AgainType DEF TypeOK
  <2>3. CASE End(s, answer[s]) /\ lost' = lost \cup {cookie[s]}
    <3>1. cookie[s] \in Sessions
      BY <1>7 DEF LogoutLost, TypeOK, CookieOK, Holders, Sessions
    <3>2. answer[s] \in {"none", "body", "refusal", "error"}
      BY DEF TypeOK
    <3> QED BY <2>1, <2>3, <3>1, <3>2, EndType DEF TypeOK
  <2> QED BY <1>7, <2>2, <2>3 DEF LogoutLost
<1>8. ASSUME NEW n \in Sessions, Expire(n) PROVE TypeOK'
  BY <1>8 DEF Expire, TypeOK
<1>9. CASE UNCHANGED vars
  BY <1>9 DEF vars, TypeOK
<1> QED BY <1>1, <1>a, <1>2, <1>3, <1>4, <1>5, <1>6, <1>7, <1>8, <1>9 DEF Next, Step

\* Every step keeps the sessions apart and accounted for.
LEMMA CookieStep == Inv /\ TypeOK' /\ [Next]_vars => CookieOK' /\ SessionsAccounted'
<1> SUFFICES ASSUME Inv, TypeOK', [Next]_vars PROVE CookieOK' /\ SessionsAccounted'
  OBVIOUS
<1> USE MaxSessionsAssumption DEF Inv, device
<1>h. Held = {cookie[t] : t \in Holders}
  BY DEF Held, Holders
<1>h1. Held' = {cookie'[t] : t \in Holders'}
  BY DEF Held, Holders
<1>t. open \subseteq 1..MaxSessions /\ created \in 0..MaxSessions
      /\ Holders \subseteq Scrapers /\ Holders' \subseteq Scrapers
  BY DEF TypeOK, Sessions, Holders
<1>1. ASSUME UNCHANGED <<open, created, cookie, lost>>, Holders' = Holders
      PROVE  CookieOK' /\ SessionsAccounted'
  BY <1>1, <1>h, <1>h1 DEF CookieOK, SessionsAccounted
<1>2. ASSUME NEW s \in Scrapers, s \notin Holders,
             Apply(s) \/ RaidPresent(s) \/ RaidAbsent(s) \/ RaidRetry404(s)
      PROVE  Holders' = Holders /\ UNCHANGED <<open, created, cookie, lost>>
  BY <1>2 DEF Apply, RaidPresent, RaidAbsent, RaidRetry404, Goto, Holders, TypeOK
<1>3. ASSUME NEW s \in Scrapers, Login(s) PROVE CookieOK' /\ SessionsAccounted'
  <2>1. Holders' = Holders \cup {s}
    BY <1>3 DEF Login, Goto, Holders, TypeOK
  <2>2. /\ cookie'[s] = created + 1 /\ s \notin Holders
        /\ \A t \in Scrapers : t # s => cookie'[t] = cookie[t]
    BY <1>3 DEF Login, TypeOK, Holders
  <2>3. open' = open \cup {created + 1} /\ created' = created + 1 /\ lost' = lost
    BY <1>3 DEF Login, Creates
  <2>4. CookieOK'
    BY <1>t, <2>1, <2>2, <2>3 DEF CookieOK
  <2>5. Held \subseteq Held' /\ created + 1 \in Held'
    BY <1>h, <1>h1, <1>t, <2>1, <2>2
  <2> QED BY <2>3, <2>4, <2>5 DEF SessionsAccounted
<1>4. ASSUME NEW s \in Scrapers, s \notin Holders, LoginLost(s) \/ LoginRefused(s)
      PROVE  CookieOK' /\ SessionsAccounted'
  <2>1. Holders' = Holders /\ \A t \in Holders : cookie'[t] = cookie[t]
    BY <1>4 DEF LoginLost, LoginRefused, Again, End, Goto, Holders, TypeOK
  <2>2. /\ created' \in {created, created + 1} /\ lost \subseteq lost'
        /\ open' \subseteq open \cup lost' /\ \A n \in open' : n <= created'
    <3>1. CASE Creates /\ LoginLost(s)
      <4>1. open' \subseteq open \cup lost' /\ lost \subseteq lost'
        BY <3>1 DEF LoginLost
      <4>2. created' = created + 1 /\ \A n \in open' : n <= created'
        BY <3>1, <1>t DEF Creates, CookieOK
      <4> QED BY <4>1, <4>2
    <3>2. CASE UNCHANGED <<open, created>>
      BY <1>4, <3>2 DEF LoginLost, LoginRefused, CookieOK
    <3> QED BY <1>4, <3>1, <3>2 DEF LoginLost, LoginRefused
  <2>3. Held' = Held
    BY <1>h, <1>h1, <2>1
  <2>4. CookieOK'
    BY <1>t, <2>1, <2>2 DEF CookieOK
  <2> QED BY <2>2, <2>3, <2>4 DEF SessionsAccounted
<1>5. ASSUME NEW s \in Scrapers, Post(s) PROVE CookieOK' /\ SessionsAccounted'
  BY <1>1, <1>5 DEF Post, Goto, Holders, TypeOK
<1>6. ASSUME NEW s \in Scrapers, Logout(s) \/ LogoutLost(s)
      PROVE  CookieOK' /\ SessionsAccounted'
  <2>0. s \in Holders /\ created' = created
    BY <1>6 DEF Logout, LogoutLost, Holders
  <2>1. /\ open' \subseteq open /\ lost \subseteq lost'
        /\ cookie[s] \in lost' \/ cookie[s] \notin open' \/ (Holders' = Holders /\ cookie' = cookie)
    BY <1>6 DEF Logout, LogoutLost, Again, Holders
  <2>2. Holders \ {s} \subseteq Holders' /\ Holders' \subseteq Holders
        /\ \A t \in Holders' : cookie'[t] = cookie[t]
    BY <1>6 DEF Logout, LogoutLost, Again, End, Goto, Holders, TypeOK
  <2>3. CookieOK'
    BY <1>t, <2>0, <2>1, <2>2 DEF CookieOK
  <2>4. Held \ {cookie[s]} \subseteq Held' /\ (Holders' = Holders => Held' = Held)
    BY <1>h, <1>h1, <2>2
  <2> QED BY <2>1, <2>3, <2>4 DEF SessionsAccounted
<1>7. ASSUME NEW n \in Sessions, Expire(n) PROVE CookieOK' /\ SessionsAccounted'
  <2>1. Holders' = Holders
    BY <1>7 DEF Expire, Holders
  <2> QED BY <1>7, <1>h, <1>h1, <2>1 DEF Expire, CookieOK, SessionsAccounted
<1>8. CASE UNCHANGED vars
  <2>1. Holders' = Holders
    BY <1>8 DEF vars, Holders
  <2> QED BY <1>8, <1>1, <2>1 DEF vars
<1>9. \A s \in Scrapers :
        /\ Apply(s) \/ RaidPresent(s) \/ RaidAbsent(s) \/ RaidRetry404(s) => s \notin Holders
        /\ LoginLost(s) \/ LoginRefused(s) => s \notin Holders
  BY DEF Apply, RaidPresent, RaidAbsent, RaidRetry404, LoginLost, LoginRefused, Holders
<1> QED BY <1>1, <1>2, <1>3, <1>4, <1>5, <1>6, <1>7, <1>8, <1>9 DEF Next, Step

LEMMA SpecInv == Spec => []Inv
<1>1. Inv /\ [Next]_vars => Inv'
  BY TypeStep, CookieStep DEF Inv
<1> QED BY <1>1, InvInit, PTL DEF Spec

-----------------------------------------------------------------------------

\* Every variable keeps its type: neither the attempts of a request nor the
\* turns over 404 exceed their limit.
THEOREM NuovaTypeOK == Spec => []TypeOK
<1>1. Inv => TypeOK
  BY DEF Inv
<1> QED BY <1>1, SpecInv, PTL

\* Every session of the device belongs to a task that has yet to log out, or its
\* login or logout was lost, for any number of scrapes.  (helpers.go:112-128)
THEOREM NuovaSessionsAccounted == Spec => []SessionsAccounted
<1>1. Inv => SessionsAccounted
  BY DEF Inv
<1> QED BY <1>1, SpecInv, PTL

\* A set of numbers indexed by a finite set is no larger than that.
LEMMA FewHeld ==
  ASSUME NEW s \in Scrapers \ Holders
  PROVE  IsFiniteSet(Held) /\ Cardinality(Held) < Cardinality(Scrapers)
<1> DEFINE f == [t \in Holders |-> cookie[t]]
<1>1. f \in Surjection(Holders, Held)
  BY DEF Surjection, Held, Holders
<1>2. /\ IsFiniteSet(Scrapers \ {s})
      /\ Cardinality(Scrapers \ {s}) = Cardinality(Scrapers) - 1
      /\ Cardinality(Scrapers) \in Nat
  BY ScrapersAssumption, FS_RemoveElement, FS_CardinalityType
<1>3. Holders \in SUBSET (Scrapers \ {s})
  BY DEF Holders
<1>4. IsFiniteSet(Holders) /\ Cardinality(Holders) <= Cardinality(Scrapers) - 1
  BY <1>2, <1>3, FS_Subset
<1>5. IsFiniteSet(Held) /\ Cardinality(Held) <= Cardinality(Holders)
  BY <1>1, <1>4, FS_Surjection
<1> QED BY <1>2, <1>4, <1>5, FS_CardinalityType

\* With a limit no smaller than the number of overlapping scrapes, a task finds
\* the device full only because of a lost session.  (helpers.go:112-128)
THEOREM NuovaLimitOnlyByLost == Spec => []LimitOnlyByLost
<1>1. Inv => LimitOnlyByLost
  <2> SUFFICES ASSUME Inv, NEW s \in Scrapers, npc[s] = "login",
                      Cardinality(open) >= Limit, open \cap lost = {}
               PROVE  FALSE
    BY DEF LimitOnlyByLost
  <2>1. IsFiniteSet(Held) /\ Cardinality(Held) < Cardinality(Scrapers)
    BY FewHeld DEF Holders
  <2>2. open \in SUBSET Held
    BY DEF Inv, SessionsAccounted
  <2>3. Cardinality(open) <= Cardinality(Held) /\ IsFiniteSet(open)
    BY <2>1, <2>2, FS_Subset
  <2> QED BY <2>1, <2>3, LimitAssumption, ScrapersAssumption, FS_CardinalityType
<1> QED BY <1>1, SpecInv, PTL

\* No logout of an overlapping scrape ends the session a task works with.
\* (helpers.go:115-121, 226-231)
THEOREM NuovaOnlyOwnLogout == Spec => OnlyOwnLogout
<1> DEFINE Kept(s) ==
      npc[s] = "post" /\ npc'[s] = "post" /\ cookie[s] \in open /\ cookie[s] \notin open' =>
        Cardinality(open \ open') = 1 /\ npc' = npc
<1>1. Inv /\ [Next]_vars => \A s \in Scrapers : Kept(s)
  <2> SUFFICES ASSUME Inv, [Next]_vars, NEW s \in Scrapers,
                      npc[s] = "post", cookie[s] \in open, cookie[s] \notin open'
               PROVE  Cardinality(open \ open') = 1 /\ npc' = npc
    OBVIOUS
  <2>1. ASSUME NEW n \in Sessions, Expire(n) PROVE Cardinality(open \ open') = 1 /\ npc' = npc
    <3>1. open \ open' = {n} /\ npc' = npc
      BY <2>1 DEF Expire
    <3> QED BY <3>1, FS_Singleton
  <2>2. ASSUME NEW t \in Scrapers, Logout(t) \/ LogoutLost(t) PROVE FALSE
    <3>1. s \in Holders /\ t \in Holders /\ npc[t] = "logout" /\ open \ {cookie[t]} \subseteq open'
      BY <2>2 DEF Logout, LogoutLost, Holders
    <3>2. cookie[s] # cookie[t]
      BY <3>1 DEF Inv, CookieOK
    <3> QED BY <3>1, <3>2
  <2>3. ASSUME NEW t \in Scrapers, Step(t), ~(Logout(t) \/ LogoutLost(t)) PROVE FALSE
    BY <2>3 DEF Step, Apply, RaidPresent, RaidRetry404, RaidAbsent, Login, LoginLost,
       LoginRefused, Post, Creates, device
  <2>4. CASE UNCHANGED vars
    BY <2>4 DEF vars
  <2> QED BY <2>1, <2>2, <2>3, <2>4 DEF Next
<1> QED BY <1>1, SpecInv, PTL DEF Spec, OnlyOwnLogout
=============================================================================
