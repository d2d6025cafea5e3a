------------------------------- MODULE Scrape -------------------------------
(***************************************************************************)
(* The life of scrape requests: the HTTP handlers (src/http/handlers),     *)
(* which see to the credentials, NewExporter and NewPartialExporter, which *)
(* discover the device's endpoints, and Collect, which runs the tasks and  *)
(* reports "up" (src/exporter).  All requests share the credential cache   *)
(* and the list of ignored devices, which an operator edits on a web page  *)
(* (src/common/ignored.go).  Every HTTP call to the BMC is a call of Fetch.*)
(***************************************************************************)
EXTENDS Fetch

CONSTANTS
  Partial,     \* requests for a partial scrape are made
  Operator,    \* the operator removes hosts from the ignored list
  MaxTasks     \* bound: tasks in an exporter's pool

ASSUME ScrapeModeAssumption == {Partial, Operator} \subseteq BOOLEAN
ASSUME MaxTasksAssumption == MaxTasks \in Nat \ {0}

VARIABLES
  ignored,   \* the hosts in IgnoredDevices
  crashed,   \* the process died of a panic and is not yet restarted
  spc,       \* where a scraper is in the handler, the exporter or Collect
  partial,   \* its request is a partial scrape
  hasPool,   \* Exporter.pool # nil
  done,      \* tasks of the pool that have run
  first,     \* Err of the first task in the list that has failed
  up         \* what its last request reported: the value of the metric "up",
             \* or "500"

scrapeVars == <<spc, partial, hasPool, done, first, up>>
vars == <<cache, aliases, worldVars, fetchVars, ignored, crashed, scrapeVars>>

Init ==
  /\ FetchInit
  /\ ignored = {}
  /\ crashed = FALSE
  /\ spc = [s \in Scrapers |-> "idle"]
  /\ partial = [s \in Scrapers |-> FALSE]
  /\ hasPool = [s \in Scrapers |-> FALSE]
  /\ done = [s \in Scrapers |-> 0]
  /\ first = [s \in Scrapers |-> "none"]
  /\ up = [s \in Scrapers |-> "none"]

Move(s, place) == spc' = [spc EXCEPT ![s] = place]

\* The request is over and its exporter gone.
Finish(s, report) ==
  /\ Move(s, "idle")
  /\ up' = [up EXCEPT ![s] = report]
  /\ partial' = [partial EXCEPT ![s] = FALSE]
  /\ hasPool' = [hasPool EXCEPT ![s] = FALSE]
  /\ done' = [done EXCEPT ![s] = 0]
  /\ first' = [first EXCEPT ![s] = "none"]

\* The credential a scraper holds in a local variable of the handler.
Hold(s, c) ==
  /\ got' = [got EXCEPT ![s] = c]
  /\ UNCHANGED <<fpc, req, retries, answer>>

-----------------------------------------------------------------------------
(* The handlers: aliases and credentials.                                  *)

\* A full scrape publishes the aliases of its URL in the global map, a partial
\* one does not.
Start(s) ==
  /\ spc[s] = "idle"
  /\ \/ aliases' = AliasOf[TargetOf[s]] /\ UNCHANGED partial
     \/ /\ Partial
        /\ partial' = [partial EXCEPT ![s] = TRUE]
        /\ UNCHANGED aliases
  /\ Move(s, IF UseScript THEN "script" ELSE "check")
  /\ up' = [up EXCEPT ![s] = "none"]
  /\ UNCHANGED <<cache, worldVars, fetchVars, ignored, crashed, hasPool, done, first>>

\* credentialsFromScript: a failure, timeout or overflow ends the request.
RunScript(s) ==
  /\ spc[s] = "script"
  /\ \/ /\ Hold(s, secret[TargetOf[s]])
        /\ Move(s, "scriptset")
        /\ UNCHANGED <<partial, hasPool, done, first, up>>
     \/ Finish(s, "500") /\ UNCHANGED fetchVars
  /\ UNCHANGED <<cache, aliases, worldVars, ignored, crashed>>

\* Mutant of SetFromScript: the first result is kept, as CheckCache keeps what
\* the vault has returned.
SetFromScriptOnce(s) ==
  /\ spc[s] = "scriptset"
  /\ cache' = [cache EXCEPT ![TargetOf[s]] = IF @ = NoCred THEN got[s] ELSE @]
  /\ Move(s, "check")
  /\ UNCHANGED <<aliases, worldVars, fetchVars, ignored, crashed>>
  /\ UNCHANGED <<partial, hasPool, done, first, up>>

SetFromScript(s) ==
  /\ spc[s] = "scriptset"
  /\ cache' = [cache EXCEPT ![TargetOf[s]] = got[s]]
  /\ Move(s, "check")
  /\ UNCHANGED <<aliases, worldVars, fetchVars, ignored, crashed>>
  /\ UNCHANGED <<partial, hasPool, done, first, up>>

\* With a vault, credentials are read when the cache has none for the target.
CheckCache(s) ==
  /\ spc[s] = "check"
  /\ Move(s, IF UseVault /\ cache[TargetOf[s]] = NoCred THEN "vault" ELSE "new")
  /\ UNCHANGED <<cache, aliases, worldVars, fetchVars, ignored, crashed>>
  /\ UNCHANGED <<partial, hasPool, done, first, up>>

\* GetCredentials with the aliases of this request, not the global ones.
ReadVault(s, c) ==
  /\ spc[s] = "vault"
  /\ c \in Lookup(TargetOf[s], AliasOf[TargetOf[s]])
  /\ IF c = NoCred
     THEN Finish(s, "500") /\ UNCHANGED fetchVars
     ELSE /\ Hold(s, c)
          /\ Move(s, "vaultset")
          /\ UNCHANGED <<partial, hasPool, done, first, up>>
  /\ UNCHANGED <<cache, aliases, worldVars, ignored, crashed>>

SetFromVault(s) ==
  /\ spc[s] = "vaultset"
  /\ cache' = [cache EXCEPT ![TargetOf[s]] = got[s]]
  /\ Hold(s, NoCred)
  /\ Move(s, "new")
  /\ UNCHANGED <<aliases, worldVars, ignored, crashed>>
  /\ UNCHANGED <<partial, hasPool, done, first, up>>

-----------------------------------------------------------------------------
(* NewExporter and NewPartialExporter.                                     *)

\* Only NewExporter looks at the ignored list before it asks the device for
\* its chassis.  On it, the exporter is returned without a pool.
New(s) ==
  /\ spc[s] = "new"
  /\ IF ~partial[s] /\ TargetOf[s] \in ignored
     THEN Move(s, "collect") /\ UNCHANGED fetchVars
     ELSE Move(s, "chassis") /\ Call(s)
  /\ UNCHANGED <<cache, aliases, worldVars, ignored, crashed>>
  /\ UNCHANGED <<partial, hasPool, done, first, up>>

\* The caller takes Fetch's answer; with again it enters Fetch anew.
Take(s, again) ==
  /\ answer' = [answer EXCEPT ![s] = "none"]
  /\ fpc' = IF again THEN [fpc EXCEPT ![s] = "build"] ELSE fpc
  /\ got' = [got EXCEPT ![s] = NoCred]
  /\ UNCHANGED <<req, retries>>

IgnoreRejected(s) ==
  /\ answer[s] = "invalid"
  /\ ignored' = ignored \cup {TargetOf[s]}
  /\ Take(s, FALSE)
  /\ Move(s, "collect")
  /\ UNCHANGED <<partial, hasPool, done, first, up>>

\* The chassis collection.  Rejected credentials put the host on the ignored
\* list and the exporter is returned without a pool; any other error, also of
\* parsing the body, fails the request.
ChassisAnswered(s) ==
  /\ spc[s] = "chassis"
  /\ \/ IgnoreRejected(s)
     \/ /\ answer[s] \in {"error", "body", "errbody"}
        /\ Take(s, FALSE)
        /\ Finish(s, "500")
        /\ UNCHANGED ignored
     \/ /\ answer[s] \in {"body", "errbody"}
        /\ Take(s, TRUE)
        /\ Move(s, "discover")
        /\ UNCHANGED <<ignored, partial, hasPool, done, first, up>>
  /\ UNCHANGED <<cache, aliases, worldVars, crashed>>

\* The remaining calls of the discovery, one of which stands for all.  Every
\* error, rejected credentials included, fails the request, except that a
\* partial exporter goes on without some endpoints.  Then the pool is made.
DiscoverAnswered(s) ==
  /\ spc[s] = "discover"
  /\ answer[s] # "none"
  /\ Take(s, FALSE)
  /\ \/ Finish(s, "500")
     \/ /\ answer[s] \in {"body", "errbody"} \/ partial[s]
        /\ hasPool' = [hasPool EXCEPT ![s] = TRUE]
        /\ Move(s, "collect")
        /\ UNCHANGED <<partial, done, first, up>>
  /\ UNCHANGED <<cache, aliases, worldVars, ignored, crashed>>

-----------------------------------------------------------------------------
(* Collect and scrape.                                                     *)

\* An ignored host is reported as up = 2.  For any other the pool is run,
\* without asking whether there is one: a nil pool is a panic in a goroutine of
\* the Prometheus registry, which ends the process.
Collect(s) ==
  /\ spc[s] = "collect"
  /\ \/ /\ TargetOf[s] \in ignored
        /\ Finish(s, "2")
        /\ UNCHANGED crashed
     \/ /\ TargetOf[s] \notin ignored /\ hasPool[s]
        /\ Move(s, "run")
        /\ UNCHANGED <<crashed, partial, hasPool, done, first, up>>
     \/ /\ TargetOf[s] \notin ignored /\ ~hasPool[s]
        /\ crashed' = TRUE
        /\ UNCHANGED scrapeVars
  /\ UNCHANGED <<cache, aliases, worldVars, fetchVars, ignored>>

\* The only worker of the pool (module Pool) takes the next task.
RunTask(s) ==
  /\ spc[s] = "run"
  /\ done[s] < MaxTasks
  /\ Call(s)
  /\ Move(s, "task")
  /\ UNCHANGED <<cache, aliases, worldVars, ignored, crashed>>
  /\ UNCHANGED <<partial, hasPool, done, first, up>>

\* Every task is run, whatever became of the ones before it.
TaskAnswered(s) ==
  /\ spc[s] = "task"
  /\ answer[s] # "none"
  /\ Take(s, FALSE)
  /\ done' = [done EXCEPT ![s] = @ + 1]
  /\ first' = [first EXCEPT ![s] =
                 IF @ = "none" /\ answer[s] \in {"error", "invalid"}
                 THEN answer[s] ELSE @]
  /\ Move(s, "run")
  /\ UNCHANGED <<cache, aliases, worldVars, ignored, crashed, partial, hasPool, up>>

\* Run has returned; how many tasks there were depends on the device, and a
\* partial exporter may have none.  The first task that failed decides; with
\* none, so do the metric handlers, any of which may fail.
Scan(s) ==
  /\ spc[s] = "run"
  /\ done[s] > 0 \/ partial[s]
  /\ \/ /\ first[s] = "none"
        /\ \E report \in {"0", "1"} : Finish(s, report)
        /\ UNCHANGED ignored
     \/ /\ first[s] = "error"
        /\ Finish(s, "0")
        /\ UNCHANGED ignored
     \/ /\ first[s] = "invalid"
        /\ ignored' = ignored \cup {TargetOf[s]}
        /\ Finish(s, "2")
  /\ UNCHANGED <<cache, aliases, worldVars, fetchVars, crashed>>

-----------------------------------------------------------------------------
(* The operator and the process.                                           *)

RemoveHost(t) ==
  /\ Operator
  /\ t \in ignored
  /\ ignored' = ignored \ {t}
  /\ UNCHANGED <<cache, aliases, worldVars, fetchVars, crashed, scrapeVars>>

\* The service manager starts the process anew; what was in memory is lost.
Restart ==
  /\ crashed
  /\ crashed' = FALSE
  /\ cache' = [t \in Targets |-> NoCred]
  /\ aliases' = NoAlias
  /\ ignored' = {}
  /\ fpc' = [s \in Scrapers |-> "idle"]
  /\ req' = [s \in Scrapers |-> NoCred]
  /\ got' = [s \in Scrapers |-> NoCred]
  /\ retries' = [s \in Scrapers |-> 0]
  /\ answer' = [s \in Scrapers |-> "none"]
  /\ spc' = [s \in Scrapers |-> "idle"]
  /\ partial' = [s \in Scrapers |-> FALSE]
  /\ hasPool' = [s \in Scrapers |-> FALSE]
  /\ done' = [s \in Scrapers |-> 0]
  /\ first' = [s \in Scrapers |-> "none"]
  /\ up' = [s \in Scrapers |-> "none"]
  /\ UNCHANGED worldVars

-----------------------------------------------------------------------------

HandlerStep(s) ==
  \/ Start(s) \/ RunScript(s) \/ SetFromScript(s)
  \/ CheckCache(s) \/ (\E c \in Creds \cup {NoCred} : ReadVault(s, c)) \/ SetFromVault(s)
  \/ New(s) \/ ChassisAnswered(s) \/ DiscoverAnswered(s)
  \/ Collect(s) \/ RunTask(s) \/ TaskAnswered(s) \/ Scan(s)

CallStep(s) == FetchStep(s) /\ UNCHANGED <<ignored, crashed, scrapeVars>>

ScraperStep(s) == ~crashed /\ (HandlerStep(s) \/ CallStep(s))

OutsideStep ==
  \/ WorldStep /\ UNCHANGED <<ignored, crashed, scrapeVars>>
  \/ ~crashed /\ \E t \in Targets : RemoveHost(t)
  \/ Restart

Next == (\E s \in Scrapers : ScraperStep(s)) \/ OutsideStep

\* Prometheus scrapes again and again, and the scheduler runs every goroutine.
ScraperFairness == \A s \in Scrapers : WF_vars(ScraperStep(s))

Spec == Init /\ [][Next]_vars /\ ScraperFairness

-----------------------------------------------------------------------------
(* Safety.                                                                 *)

Places == {"idle", "script", "scriptset", "check", "vault", "vaultset", "new",
           "chassis", "discover", "collect", "run", "task"}

TypeOK ==
  /\ FetchTypeOK
  /\ ignored \subseteq Targets
  /\ crashed \in BOOLEAN
  /\ spc \in [Scrapers -> Places]
  /\ partial \in [Scrapers -> BOOLEAN]
  /\ hasPool \in [Scrapers -> BOOLEAN]
  /\ done \in [Scrapers -> 0..MaxTasks]
  /\ first \in [Scrapers -> {"none", "error", "invalid"}]
  /\ up \in [Scrapers -> {"none", "0", "1", "2", "500"}]

\* An exporter without a pool is never run, which would end the process.  The
\* code relies on the host's still being on the list when Collect looks, and an
\* operator may have taken it off.  (exporter.go:156-160, 477-483, 508)
NeverCrashes == ~crashed

ScriptOnly == UseScript /\ ~UseVault
ScriptCreds == 1..MaxCred

\* With a credentials script and no vault every request to a BMC carries
\* credentials that the script has returned, never the static user: whatever
\* other requests for the target do, nobody clears the entry a scrape has stored
\* before its calls read it.  (scrape.go:123-128, 180, util.go:74-88)
ScriptCredentialUsed ==
  ScriptOnly =>
    \A s \in Scrapers : fpc[s] \notin {"idle", "build"} => req[s] \in ScriptCreds

-----------------------------------------------------------------------------
(* Liveness.                                                               *)

\* Every request is answered, however the BMC and the vault respond: no retry
\* goes on for ever.  (util.go:62-71)
ScrapeEnds ==
  \A s \in Scrapers : spc[s] # "idle" ~> spc[s] = "idle" \/ crashed

Alone == UNCHANGED <<ignored, crashed, scrapeVars>>

\* The script's success, as opposed to its other outcomes.
ScriptGives(s) == RunScript(s) /\ spc'[s] = "scriptset"

\* A BMC and a vault that are asked again and again do answer at times, and a
\* rotation is carried through to both.
WorldFairness ==
  /\ \A s \in Scrapers :
       /\ SF_vars(~crashed /\ Respond(s, "401") /\ Alone)
       /\ SF_vars(~crashed /\ (\E c \in Creds : Refresh(s, c)) /\ Alone)
       /\ SF_vars(~crashed /\ (\E c \in Creds : ReadVault(s, c)))
       /\ SF_vars(~crashed /\ ScriptGives(s))
  /\ \A t \in Targets :
       /\ WF_vars(accepted[t] < secret[t] /\ RotateDevice(t) /\ Alone)
       /\ WF_vars(secret[t] < accepted[t] /\ RotateSecret(t) /\ Alone)

FairSpec == Spec /\ WorldFairness

\* With a vault, when the rotations have come to an end, the cache ends up with the
\* current credentials of every target that is not ignored, if the scrapes of a
\* target follow one another.  Scrapes of it that overlap may clear each other's
\* entries for ever: see RetryUsesRefreshed.  (util.go:75-85)
CredentialsConverge ==
  \A t \in Targets : <>[](t \in ignored \/ cache[t] = secret[t])

\* With a script and no vault each request stores what its own run has returned, whoever ran
\* it first: an older result may overwrite a newer one, but in a process that
\* stays up the cache ends up with what the script returns now, also for a host
\* that is ignored.  (scrape.go:123-128, 180)
ScriptConverges ==
  ScriptOnly /\ <>[]~crashed => \A t \in Targets : <>[](cache[t] = secret[t])
=============================================================================
