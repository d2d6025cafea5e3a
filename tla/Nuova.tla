-------------------------------- MODULE Nuova --------------------------------
(***************************************************************************)
(* The nuova plugin (src/plugins/nuova): for a Cisco server without a RAID *)
(* controller it adds a task that logs in to the XML interface, asks for   *)
(* the drives and logs out.  The device keeps a session per login, up to a *)
(* limit.  Two scrapes of the same device may overlap; requests and        *)
(* answers get lost, and the client repeats a request that got no answer.  *)
(***************************************************************************)
EXTENDS Naturals, FiniteSets

CONSTANTS
  Scrapers,    \* scrapes of the device that may overlap
  Limit,       \* external: sessions the device allows
  Attempts,    \* how often DoRequest sends a request without an answer
  MaxRetries,  \* the 3 of the loop over 404
  MaxSessions  \* bound: sessions the device ever creates

ASSUME ScrapersAssumption == IsFiniteSet(Scrapers)
ASSUME LimitAssumption == Limit \in Nat /\ Limit >= Cardinality(Scrapers)
ASSUME RetryAssumption == Attempts \in Nat \ {0} /\ MaxRetries \in Nat
ASSUME MaxSessionsAssumption == MaxSessions \in Nat

Sessions == 1..MaxSessions

VARIABLES
  raid,      \* external: the server has the controller
  open,      \* external: the device's sessions
  created,   \* external: how many there have been
  npc,       \* where a scrape is in Apply or in the task
  tries,     \* attempts of the request, or 404 answers
  cookie,    \* cookie: the session of its login, 0 before
  answer,    \* what the task will return
  lost       \* sessions whose login or logout did not get through

vars == <<raid, open, created, npc, tries, cookie, answer, lost>>

Init ==
  /\ raid \in BOOLEAN
  /\ open = {}
  /\ created = 0
  /\ npc = [s \in Scrapers |-> "idle"]
  /\ tries = [s \in Scrapers |-> 0]
  /\ cookie = [s \in Scrapers |-> 0]
  /\ answer = [s \in Scrapers |-> "none"]
  /\ lost = {}

\* The next request of a scrape.
Goto(s, place) ==
  /\ npc' = [npc EXCEPT ![s] = place]
  /\ tries' = [tries EXCEPT ![s] = 0]

device == <<raid, open, created>>

-----------------------------------------------------------------------------
(* Apply and checkRaidController.                                          *)

\* The exporter has a pool.
Apply(s) ==
  /\ npc[s] = "idle"
  /\ Goto(s, "check")
  /\ answer' = [answer EXCEPT ![s] = "none"]
  /\ UNCHANGED <<device, cookie, lost>>

\* The controller answered: no task, and an error if the body cannot be read,
\* which fails the request.
RaidPresent(s) ==
  /\ npc[s] = "check"
  /\ raid
  /\ Goto(s, "idle")
  /\ UNCHANGED <<device, cookie, answer, lost>>

\* Mutant: the count begins anew.
RaidRetry404Anew(s) ==
  /\ npc[s] = "check"
  /\ tries' = [tries EXCEPT ![s] = IF @ < MaxRetries THEN @ + 1 ELSE 0]
  /\ UNCHANGED <<device, npc, cookie, answer, lost>>

RaidRetry404(s) ==
  /\ npc[s] = "check"
  /\ tries[s] < MaxRetries
  /\ tries' = [tries EXCEPT ![s] = @ + 1]
  /\ UNCHANGED <<device, npc, cookie, answer, lost>>

\* Whatever else happens, 404 or an error of the device or the network, there
\* is no controller: AddTask, and later the pool runs the task.
RaidAbsent(s) ==
  /\ npc[s] = "check"
  /\ Goto(s, "login")
  /\ UNCHANGED <<device, cookie, answer, lost>>

-----------------------------------------------------------------------------
(* FetchXML.                                                               *)

\* The task returns.
End(s, what) ==
  /\ Goto(s, "idle")
  /\ cookie' = [cookie EXCEPT ![s] = 0]
  /\ answer' = [answer EXCEPT ![s] = what]

\* DoRequest sends the same request again, or gives up.
Again(s) == tries[s] + 1 < Attempts /\ tries' = [tries EXCEPT ![s] = @ + 1] /\ UNCHANGED npc

\* A login reaches the device, which has room for it.
Creates ==
  /\ Cardinality(open) < Limit
  /\ created < MaxSessions
  /\ created' = created + 1
  /\ open' = open \cup {created + 1}

Login(s) ==
  /\ npc[s] = "login"
  /\ Creates
  /\ cookie' = [cookie EXCEPT ![s] = created + 1]
  /\ Goto(s, "post")
  /\ UNCHANGED <<raid, answer, lost>>

\* The request or its answer is lost, or the answer is not understood.  A
\* session that was made stays: nobody knows its cookie.
LoginLost(s) ==
  /\ npc[s] = "login"
  /\ Creates \/ UNCHANGED <<open, created>>
  /\ lost' = lost \cup (open' \ open)
  /\ \/ Again(s) /\ UNCHANGED <<cookie, answer>>
     \/ End(s, "error")
  /\ UNCHANGED raid

\* The device refuses, for want of room or because of the credentials.
LoginRefused(s) ==
  /\ npc[s] = "login"
  /\ End(s, "error")
  /\ UNCHANGED <<device, lost>>

\* Mutant: only a query that succeeds is followed by the logout.
PostNoDefer(s) ==
  /\ npc[s] = "post"
  /\ \/ answer' = [answer EXCEPT ![s] = "body"] /\ Goto(s, "logout") /\ UNCHANGED cookie
     \/ End(s, "error")
  /\ UNCHANGED <<device, lost>>

\* configResolveClass.  The answer's status is not looked at; a session that
\* the device no longer knows has an answer without drives.
Post(s) ==
  /\ npc[s] = "post"
  /\ \/ answer' = [answer EXCEPT ![s] = IF cookie[s] \in open THEN "body" ELSE "refusal"]
     \/ answer' = [answer EXCEPT ![s] = "error"]
  /\ Goto(s, "logout")
  /\ UNCHANGED <<device, cookie, lost>>

\* Mutant: every session of the device is closed.
LogoutAll(s) ==
  /\ npc[s] = "logout"
  /\ open' = {}
  /\ End(s, answer[s])
  /\ UNCHANGED <<raid, created, lost>>

\* The deferred logout.
Logout(s) ==
  /\ npc[s] = "logout"
  /\ open' = open \ {cookie[s]}
  /\ End(s, answer[s])
  /\ UNCHANGED <<raid, created, lost>>

\* It, or its answer, is lost, and in the end the error is ignored.
LogoutLost(s) ==
  /\ npc[s] = "logout"
  /\ open' \in {open, open \ {cookie[s]}}
  /\ \/ Again(s) /\ UNCHANGED <<cookie, answer, lost>>
     \/ End(s, answer[s]) /\ lost' = lost \cup {cookie[s]}
  /\ UNCHANGED <<raid, created>>

\* The device ends a session that nobody refreshes.
Expire(n) ==
  /\ n \in open
  /\ open' = open \ {n}
  /\ UNCHANGED <<raid, created, npc, tries, cookie, answer, lost>>

Step(s) ==
  \/ Apply(s) \/ RaidPresent(s) \/ RaidRetry404(s) \/ RaidAbsent(s)
  \/ Login(s) \/ LoginLost(s) \/ LoginRefused(s) \/ Post(s) \/ Logout(s) \/ LogoutLost(s)

Next == (\E s \in Scrapers : Step(s)) \/ (\E n \in Sessions : Expire(n))

\* Every request is answered or times out.
Spec == Init /\ [][Next]_vars /\ \A s \in Scrapers : WF_vars(Step(s))

-----------------------------------------------------------------------------
(* Properties.                                                             *)

TypeOK ==
  /\ raid \in BOOLEAN
  /\ open \subseteq Sessions
  /\ created \in 0..MaxSessions
  /\ npc \in [Scrapers -> {"idle", "check", "login", "post", "logout"}]
  /\ tries \in [Scrapers -> Nat]
  /\ \A s \in Scrapers : tries[s] <= MaxRetries \/ tries[s] < Attempts
  /\ cookie \in [Scrapers -> 0..MaxSessions]
  /\ answer \in [Scrapers -> {"none", "body", "refusal", "error"}]
  /\ lost \subseteq Sessions

Held == {cookie[s] : s \in {t \in Scrapers : npc[t] \in {"post", "logout"}}}

\* Every session of the device belongs to a task that has yet to log out, or
\* its login or logout did not get through: no path out of FetchXML, whatever
\* fails on it, forgets a session it knows.  (helpers.go:112-128)
SessionsAccounted == open \subseteq Held \cup lost

\* As long as no login and no logout got lost there is room for every scrape:
\* a task that is about to log in finds the limit reached only because of a lost
\* session.  (helpers.go:112-128, exporter.go:507)
LimitOnlyByLost ==
  (\E s \in Scrapers : npc[s] = "login") /\ Cardinality(open) >= Limit => open \cap lost # {}

\* While a task asks its question only the device itself ends its session: no
\* logout of an overlapping scrape does.  (helpers.go:115-121, 226-231)
OnlyOwnLogout ==
  [][\A s \in Scrapers :
       npc[s] = "post" /\ npc'[s] = "post" /\ cookie[s] \in open /\ cookie[s] \notin open' =>
         Cardinality(open \ open') = 1 /\ npc' = npc]_vars

\* A scrape with the plugin ends, however often requests are repeated.
\* (helpers.go:84-93, httpclient.go:41-45)
PluginEnds == \A s \in Scrapers : npc[s] # "idle" ~> npc[s] = "idle"
=============================================================================
