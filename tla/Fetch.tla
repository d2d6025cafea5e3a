-------------------------------- MODULE Fetch --------------------------------
(***************************************************************************)
(* The HTTP call every part of a scrape goes through (common.Fetch,        *)
(* src/common/util.go), with the credential cache it reads and rewrites    *)
(* (src/common/credentials.go), the vault and the BMC behind them.         *)
(*                                                                         *)
(* A scraper is the goroutine that serves one scrape request after another *)
(* for its target.  A call is split where the code takes the cache's lock, *)
(* asks the vault or waits for the BMC: other scrapers run in between.     *)
(***************************************************************************)
EXTENDS Integers

CONSTANTS
  Scrapers,     \* goroutines that serve scrape requests
  Targets,      \* BMCs
  TargetOf,     \* the target a scraper's requests name
  AliasOf,      \* the URL alias value the requests for a target carry
  NoAlias,      \* ExtraParamsAliases before any request has set it
  NoCred,       \* no credential: absent from the cache, not read yet
  Foreign,      \* the credential of some other device
  Configs,      \* the sources of credentials an exporter may be started with
  Disable404Retry,
  MaxCred       \* bound: the last credential a rotation may reach

ASSUME TargetAssumption == TargetOf \in [Scrapers -> Targets]
ASSUME ConfigAssumption == Configs \subseteq SUBSET {"vault", "script"}
ASSUME ModeAssumption == Disable404Retry \in BOOLEAN
ASSUME MaxCredAssumption == MaxCred \in Nat \ {0}

\* Credentials are numbered in the order the rotations make them; 0 is the
\* user and password of the static configuration.
Static == 0
Versions == 0..MaxCred
Creds == Versions \cup {Foreign}

ASSUME CredAssumption == Foreign \notin Versions /\ NoCred \notin Creds

\* The loop in Fetch gives up a 404 after this many further requests.
MaxRetries == 3

VARIABLES
  cache,      \* ChassisCreds.Creds
  aliases,    \* the global ExtraParamsAliases
  sources,    \* where this process has its credentials from, by its flags
  secret,     \* external: what the vault, or the script, holds for a target
  accepted,   \* external: what the BMC of a target accepts
  fpc,        \* where a scraper is inside Fetch
  req,        \* the credential in its HTTP request
  got,        \* the credential it has read from vault or script
  retries,    \* retryCount of the Fetch closure
  answer      \* what Fetch returned: "body", "errbody" (the body of a
              \* response that is not 2xx), "error" or "invalid"

fetchVars == <<fpc, req, got, retries, answer>>
worldVars == <<secret, accepted, sources>>

UseVault == "vault" \in sources      \* ChassisCreds.Vault # nil
UseScript == "script" \in sources    \* --credentials.script is set
FirstCred == IF sources = {} THEN Static ELSE 1

FetchInit ==
  /\ cache = [t \in Targets |-> NoCred]
  /\ aliases = NoAlias
  /\ sources \in Configs
  /\ secret = [t \in Targets |-> FirstCred]
  /\ accepted = [t \in Targets |-> FirstCred]
  /\ fpc = [s \in Scrapers |-> "idle"]
  /\ req = [s \in Scrapers |-> NoCred]
  /\ got = [s \in Scrapers |-> NoCred]
  /\ retries = [s \in Scrapers |-> 0]
  /\ answer = [s \in Scrapers |-> "none"]

-----------------------------------------------------------------------------
(* The vault, the BMC and the cache, as a scraper sees them.               *)

\* BuildRequest: the cached credential, else the static configuration.
RequestCred(t) == IF cache[t] # NoCred THEN cache[t] ELSE Static

\* What GetCredentials may return for a target when the profile's path is
\* filled in with alias a, NoCred for any of its errors.  Under another
\* target's alias the vault has no secret, or that of another device.
Lookup(t, a) ==
  {NoCred} \cup (IF a = AliasOf[t] THEN {secret[t]} ELSE {Foreign})

\* The BMC's responses to a request with credential c.  "failed": retryablehttp
\* makes an error of transport errors and most 5xx after retries of its own;
\* a body that cannot be read has the same outcome.
Responses(t, c) ==
  {"404", "other", "failed", IF c = accepted[t] THEN "2xx" ELSE "401"}

\* A rotation changes the device and the vault one after the other, in either
\* order.
RotateDevice(t) ==
  /\ accepted[t] < MaxCred
  /\ accepted[t] <= secret[t]
  /\ accepted' = [accepted EXCEPT ![t] = @ + 1]
  /\ UNCHANGED <<cache, aliases, secret, sources, fetchVars>>

RotateSecret(t) ==
  /\ sources # {}
  /\ secret[t] < MaxCred
  /\ secret[t] <= accepted[t]
  /\ secret' = [secret EXCEPT ![t] = @ + 1]
  /\ UNCHANGED <<cache, aliases, accepted, sources, fetchVars>>

-----------------------------------------------------------------------------
(* One call of Fetch.                                                      *)

Goto(s, place) == fpc' = [fpc EXCEPT ![s] = place]

Return(s, result) ==
  /\ fpc' = [fpc EXCEPT ![s] = "idle"]
  /\ req' = [req EXCEPT ![s] = NoCred]
  /\ retries' = [retries EXCEPT ![s] = 0]
  /\ answer' = [answer EXCEPT ![s] = result]
  /\ UNCHANGED got

\* The caller enters Fetch; the credential of an earlier refresh is out of scope.
Call(s) ==
  /\ fpc[s] = "idle"
  /\ answer[s] = "none"
  /\ Goto(s, "build")
  /\ got' = [got EXCEPT ![s] = NoCred]
  /\ UNCHANGED <<req, retries, answer>>

Build(s) ==
  /\ fpc[s] = "build"
  /\ req' = [req EXCEPT ![s] = RequestCred(TargetOf[s])]
  /\ Goto(s, "do")
  /\ UNCHANGED <<cache, aliases, worldVars, got, retries, answer>>

Stay(s, place) == Goto(s, place) /\ UNCHANGED <<req, got, retries, answer>>

\* Mutants of Rejected: the vault is not asked again; the 401 is an error like
\* any other; the check for a vault is missing.
RejectedAtOnce(s) == Return(s, "invalid")
RejectedAsError(s) == Return(s, "error")
RejectedUnchecked(s) == Stay(s, "delete")

\* The first 401.
Rejected(s) ==
  \/ ~UseVault /\ Return(s, "invalid")
  \/ UseVault /\ Stay(s, "delete")

\* The first response decides how the call goes on.
Respond(s, r) ==
  /\ fpc[s] = "do"
  /\ r \in Responses(TargetOf[s], req[s])
  /\ \/ r = "2xx" /\ Return(s, "body")
     \/ r \in {"other", "failed"} /\ Return(s, "error")
     \/ r = "404" /\ Disable404Retry /\ Return(s, "error")
     \/ r = "404" /\ ~Disable404Retry /\ Stay(s, "retry404")
     \/ r = "401" /\ Rejected(s)
  /\ UNCHANGED <<cache, aliases, worldVars>>

\* Mutant: the count is not kept from one request to the next.
MissingForgetful(s) ==
  \/ retries[s] + 1 = MaxRetries /\ Return(s, "error")
  \/ Stay(s, "do")

\* One more 404 in the retry loop.
StillMissing(s) ==
  \/ retries[s] + 1 = MaxRetries /\ Return(s, "error")
  \/ /\ retries[s] + 1 < MaxRetries
     /\ retries' = [retries EXCEPT ![s] = @ + 1]
     /\ UNCHANGED <<fpc, req, got, answer>>

\* The same request again while it is answered 404, MaxRetries times at most.
\* Whatever ends the loop without success is an error, a 401 included.
Retry404(s) ==
  /\ fpc[s] = "retry404"
  /\ \E r \in Responses(TargetOf[s], req[s]) :
       \/ r = "2xx" /\ Return(s, "body")
       \/ r \in {"other", "failed", "401"} /\ Return(s, "error")
       \/ r = "404" /\ StillMissing(s)
  /\ UNCHANGED <<cache, aliases, worldVars>>

\* "Credentials may have rotated, clear cache": under the lock.
DeleteCached(s) ==
  /\ fpc[s] = "delete"
  /\ cache' = [cache EXCEPT ![TargetOf[s]] = NoCred]
  /\ Stay(s, "lookup")
  /\ UNCHANGED <<aliases, worldVars>>

\* "go to vault and get the latest": with the aliases the global map holds now.
Refresh(s, c) ==
  /\ fpc[s] = "lookup"
  /\ c \in Lookup(TargetOf[s], aliases)
  /\ IF c = NoCred
     THEN Return(s, "error")
     ELSE /\ got' = [got EXCEPT ![s] = c]
          /\ Goto(s, "set")
          /\ UNCHANGED <<req, retries, answer>>
  /\ UNCHANGED <<cache, aliases, worldVars>>

SetRefreshed(s) ==
  /\ fpc[s] = "set"
  /\ cache' = [cache EXCEPT ![TargetOf[s]] = got[s]]
  /\ Stay(s, "rebuild")
  /\ UNCHANGED <<aliases, worldVars>>

\* The retry's request reads the cache again.
Rebuild(s) ==
  /\ fpc[s] = "rebuild"
  /\ req' = [req EXCEPT ![s] = RequestCred(TargetOf[s])]
  /\ Goto(s, "redo")
  /\ UNCHANGED <<cache, aliases, worldVars, got, retries, answer>>

\* Only a 401 is looked for: the body of any other status is returned.
Redo(s) ==
  /\ fpc[s] = "redo"
  /\ \E r \in Responses(TargetOf[s], req[s]) :
       \/ r = "2xx" /\ Return(s, "body")
       \/ r \in {"404", "other"} /\ Return(s, "errbody")
       \/ r = "failed" /\ Return(s, "error")
       \/ r = "401" /\ Return(s, "invalid")
  /\ UNCHANGED <<cache, aliases, worldVars>>

FetchStep(s) ==
  \/ Build(s)
  \/ \E r \in {"2xx", "401", "404", "other", "failed"} : Respond(s, r)
  \/ Retry404(s)
  \/ DeleteCached(s)
  \/ \E c \in Creds \cup {NoCred} : Refresh(s, c)
  \/ SetRefreshed(s)
  \/ Rebuild(s)
  \/ Redo(s)

WorldStep == \E t \in Targets : RotateDevice(t) \/ RotateSecret(t)

-----------------------------------------------------------------------------
(* Invariants of the call.                                                 *)

FetchPlaces ==
  {"idle", "build", "do", "retry404", "delete", "lookup", "set", "rebuild", "redo"}
Answers == {"none", "body", "errbody", "error", "invalid"}

FetchTypeOK ==
  /\ aliases \in {AliasOf[t] : t \in Targets} \cup {NoAlias}
  /\ sources \in Configs
  /\ cache \in [Targets -> Creds \cup {NoCred}]
  /\ secret \in [Targets -> Versions]
  /\ accepted \in [Targets -> Versions]
  /\ fpc \in [Scrapers -> FetchPlaces]
  /\ req \in [Scrapers -> Creds \cup {NoCred}]
  /\ got \in [Scrapers -> Creds \cup {NoCred}]
  /\ retries \in [Scrapers -> 0..(MaxRetries - 1)]
  /\ answer \in [Scrapers -> Answers]

\* The retry after a 401 carries the credential that this very call has just
\* read from the vault, so that a second 401 condemns the vault's credential and
\* not a stale or a static one.  The code does not keep this up when another
\* request for the same target clears the cache in between.  (util.go:75-108)
RetryUsesRefreshed ==
  \A s \in Scrapers : fpc[s] = "redo" => req[s] = got[s]

\* With a vault a call reports invalid credentials only after it has read the
\* latest ones, never on the first 401.  (util.go:75-76)
InvalidOnlyAfterRefresh ==
  \A s \in Scrapers : UseVault /\ answer[s] = "invalid" => got[s] # NoCred

\* What is cached for a target was read under the vault path that the request's
\* own URL gives.  The code does not keep this up when requests carry different
\* values of an extra parameter.  (util.go:81, credentials.go:166-168)
CacheHoldsOwnSecret ==
  \A t \in Targets : cache[t] # Foreign
=============================================================================
