----------------------------- MODULE VaultToken -----------------------------
(***************************************************************************)
(* The vault token of the process and its end: RenewToken and              *)
(* manageTokenLifecycle (src/vault/vault.go) log in, keep the token        *)
(* renewed and revoke it; the goroutines of main                           *)
(* (src/cmd/fishymetrics/main.go) serve, catch a signal and stop the       *)
(* others; main returns when the WaitGroup is empty.                       *)
(*                                                                         *)
(* GetKVSecret answers only while the token is valid: a token lost here is *)
(* the failing Lookup of module Fetch.                                     *)
(***************************************************************************)
EXTENDS Integers

CONSTANTS
  Renewable,     \* whether the tokens vault issues are renewable: a set of BOOLEANs
  ServeMayFail   \* the HTTP server may fail while it serves, or not get its port

ASSUME TokenAssumption == Renewable \in SUBSET BOOLEAN /\ ServeMayFail \in BOOLEAN

VARIABLES
  rpc,        \* where the goroutine of RenewToken is
  retry,      \* messages in its channel retry, of capacity 1
  waiting,    \* goroutines that sleep before they send to retry
  loggedIn,   \* Vault.isLoggedIn
  token,      \* external: what the client's token is worth
  wg,         \* counter of the WaitGroup of main
  server,     \* where the goroutine that serves HTTP is
  mpc,        \* where the goroutine that shuts down is
  signals,    \* messages in the channel signals, of capacity 1
  lifecycle,  \* messages in the channel tokenLifecycle, of capacity 1
  doneRenew   \* messages in the channel doneRenew, of capacity 1

renewVars == <<rpc, retry, waiting, loggedIn, token>>
mainVars == <<server, mpc, signals>>
vars == <<renewVars, wg, mainVars, lifecycle, doneRenew>>

\* main has started its goroutines.  Without the port there is no server and
\* main itself has sent the signal.
Init ==
  /\ rpc = "select"
  /\ retry = 1
  /\ waiting = 0
  /\ loggedIn = FALSE
  /\ token = "none"
  /\ \/ server = "serving" /\ wg = 3 /\ signals = 0
     \/ ServeMayFail /\ server = "stopped" /\ wg = 2 /\ signals = 1
  /\ mpc = "signal"
  /\ lifecycle = 0
  /\ doneRenew = 0

-----------------------------------------------------------------------------
(* RenewToken.                                                             *)

StopRenew ==
  /\ rpc = "select"
  /\ doneRenew = 1
  /\ doneRenew' = 0
  /\ rpc' = "stopped"
  /\ wg' = wg - 1
  /\ UNCHANGED <<retry, waiting, loggedIn, token, mainVars, lifecycle>>

BeginLogin ==
  /\ rpc = "select"
  /\ retry = 1
  /\ retry' = 0
  /\ rpc' = "login"
  /\ UNCHANGED <<waiting, loggedIn, token, wg, mainVars, lifecycle, doneRenew>>

\* Mutants of LoginFails: no goroutine is left to try again; the failure also
\* sends to retry itself.
LoginFailsForGood ==
  /\ rpc = "login"
  /\ loggedIn' = FALSE
  /\ rpc' = "select"
  /\ UNCHANGED <<retry, waiting, token, wg, mainVars, lifecycle, doneRenew>>

LoginFailsTwice ==
  /\ rpc = "login"
  /\ loggedIn' = FALSE
  /\ waiting' = waiting + 1
  /\ retry' = 1
  /\ rpc' = "select"
  /\ UNCHANGED <<token, wg, mainVars, lifecycle, doneRenew>>

\* go wait(10s, retry)
LoginFails ==
  /\ rpc = "login"
  /\ loggedIn' = FALSE
  /\ waiting' = waiting + 1
  /\ rpc' = "select"
  /\ UNCHANGED <<retry, token, wg, mainVars, lifecycle, doneRenew>>

\* wg.Add(1), setLoggedIn(true) and manageTokenLifecycle up to its loop.  For a
\* token that is not renewable it returns before its deferred wg.Done.  (The
\* vault library's NewLifetimeWatcher fails only without a secret.)
LoginSucceeds(renewable) ==
  /\ rpc = "login"
  /\ token' = "valid"
  /\ wg' = wg + 1
  /\ loggedIn' = TRUE
  /\ rpc' = IF renewable THEN "watch" ELSE "select"
  /\ UNCHANGED <<retry, waiting, mainVars, lifecycle, doneRenew>>

\* Mutant: the revocation is not deferred.
WatchStoppedUnrevoked ==
  /\ rpc = "watch"
  /\ lifecycle = 1
  /\ lifecycle' = 0
  /\ rpc' = "select"
  /\ wg' = wg - 1
  /\ UNCHANGED <<retry, waiting, loggedIn, token, mainVars, doneRenew>>

\* Told to stop.
WatchStopped ==
  /\ rpc = "watch"
  /\ lifecycle = 1
  /\ lifecycle' = 0
  /\ rpc' = "revoke"
  /\ UNCHANGED <<retry, waiting, loggedIn, token, wg, mainVars, doneRenew>>

\* The library's watcher is done: renewal failed or reached the maximum TTL.
\* (A message on RenewCh only sets the same token again.)
WatchEnds ==
  /\ rpc = "watch"
  /\ rpc' = "revoke"
  /\ UNCHANGED <<retry, waiting, loggedIn, token, wg, mainVars, lifecycle, doneRenew>>

\* The deferred calls, last one first: the watcher's Stop, the revocation, and
\* wg.Done.  A revocation that fails is only logged.
RevokeToken ==
  /\ rpc = "revoke"
  /\ token' \in {"revoked", IF token = "valid" THEN "unrevoked" ELSE token}
  /\ rpc' = "release"
  /\ UNCHANGED <<retry, waiting, loggedIn, wg, mainVars, lifecycle, doneRenew>>

ReleaseWatch ==
  /\ rpc = "release"
  /\ wg' = wg - 1
  /\ rpc' = "select"
  /\ UNCHANGED <<retry, waiting, loggedIn, token, mainVars, lifecycle, doneRenew>>

\* The goroutine of wait sends to retry after its sleep.
RetryAfterWait ==
  /\ waiting > 0
  /\ retry = 0
  /\ waiting' = waiting - 1
  /\ retry' = 1
  /\ UNCHANGED <<rpc, loggedIn, token, wg, mainVars, lifecycle, doneRenew>>

RenewStep ==
  \/ StopRenew \/ BeginLogin \/ LoginFails
  \/ \E renewable \in Renewable : LoginSucceeds(renewable)
  \/ WatchStopped \/ RevokeToken \/ ReleaseWatch

\* External: the lease of a token runs out.
TokenExpires ==
  /\ token = "valid"
  /\ token' = "expired"
  /\ UNCHANGED <<rpc, retry, waiting, loggedIn, wg, mainVars, lifecycle, doneRenew>>

-----------------------------------------------------------------------------
(* main.                                                                   *)

\* The runtime drops a signal for which the channel has no room.
Signal ==
  /\ signals = 0
  /\ signals' = 1
  /\ UNCHANGED <<renewVars, wg, server, mpc, lifecycle, doneRenew>>

ServeFails ==
  /\ ServeMayFail
  /\ server = "serving"
  /\ server' = "failed"
  /\ UNCHANGED <<renewVars, wg, mpc, signals, lifecycle, doneRenew>>

ReportServeFailure ==
  /\ server = "failed"
  /\ signals = 0
  /\ signals' = 1
  /\ server' = "stopped"
  /\ wg' = wg - 1
  /\ UNCHANGED <<renewVars, mpc, lifecycle, doneRenew>>

\* A signal, and srv.Shutdown closes the listener.
BeginShutdown ==
  /\ mpc = "signal"
  /\ signals = 1
  /\ signals' = 0
  /\ server' = IF server = "serving" THEN "closed" ELSE server
  /\ mpc' = "shutdown"
  /\ UNCHANGED <<renewVars, wg, lifecycle, doneRenew>>

ServeReturns ==
  /\ server = "closed"
  /\ server' = "stopped"
  /\ wg' = wg - 1
  /\ UNCHANGED <<renewVars, mpc, signals, lifecycle, doneRenew>>

\* Shutdown has waited for the requests under way; then IsLoggedIn is asked.
CheckLoggedIn ==
  /\ mpc = "shutdown"
  /\ mpc' = IF loggedIn THEN "lifecycle" ELSE "renew"
  /\ UNCHANGED <<renewVars, wg, server, signals, lifecycle, doneRenew>>

SendLifecycle ==
  /\ mpc = "lifecycle"
  /\ lifecycle = 0
  /\ lifecycle' = 1
  /\ mpc' = "renew"
  /\ UNCHANGED <<renewVars, wg, server, signals, doneRenew>>

\* Mutant: the renewal is not told to stop.
SendDoneRenewForgotten ==
  /\ mpc = "renew"
  /\ doneRenew = 0
  /\ mpc' = "stopped"
  /\ wg' = wg - 1
  /\ UNCHANGED <<renewVars, server, signals, lifecycle, doneRenew>>

SendDoneRenew ==
  /\ mpc = "renew"
  /\ doneRenew = 0
  /\ doneRenew' = 1
  /\ mpc' = "stopped"
  /\ wg' = wg - 1
  /\ UNCHANGED <<renewVars, server, signals, lifecycle>>

ServeStep == ReportServeFailure \/ ServeReturns
ShutdownStep == BeginShutdown \/ CheckLoggedIn \/ SendLifecycle \/ SendDoneRenew

\* When the counter is zero main returns and nothing runs any more.
Next ==
  /\ wg # 0
  /\ \/ RenewStep \/ RetryAfterWait \/ WatchEnds \/ TokenExpires
     \/ Signal \/ ServeFails \/ ServeStep \/ ShutdownStep

\* The scheduler runs every goroutine, sleeps end, login and revocation return.
\* A select with several ready cases chooses at random, so that neither case is
\* passed over for ever.
Fairness ==
  /\ WF_vars(wg # 0 /\ RenewStep)
  /\ SF_vars(wg # 0 /\ StopRenew)
  /\ WF_vars(wg # 0 /\ RetryAfterWait)
  /\ WF_vars(wg # 0 /\ ServeStep)
  /\ WF_vars(wg # 0 /\ ShutdownStep)

Spec == Init /\ [][Next]_vars /\ Fairness

\* In addition every token has a maximum TTL, at which its watcher ends.
MaxTTLSpec == Spec /\ WF_vars(wg # 0 /\ WatchEnds)

-----------------------------------------------------------------------------
(* Properties.                                                             *)

TypeOK ==
  /\ rpc \in {"select", "login", "watch", "revoke", "release", "stopped"}
  /\ retry \in 0..1
  /\ waiting \in Nat
  /\ loggedIn \in BOOLEAN
  /\ token \in {"none", "valid", "expired", "revoked", "unrevoked"}
  /\ wg \in Int
  /\ server \in {"serving", "failed", "closed", "stopped"}
  /\ mpc \in {"signal", "shutdown", "lifecycle", "renew", "stopped"}
  /\ {signals, lifecycle, doneRenew} \subseteq 0..1

One(present) == IF present THEN 1 ELSE 0

\* The goroutines main has to wait for.
Live ==
  One(server # "stopped") + One(mpc # "stopped") + One(rpc # "stopped")
    + One(rpc \in {"watch", "revoke", "release"})

\* main does not return while the server, the shutdown, the renewal or the
\* manager of a token is still at work: the WaitGroup counts all of them.
\* (main.go:240, 304, 317, 333, vault.go:174, 189, 224)
WgCoversLive == wg >= Live

\* A renewable token is not left valid when main returns without a try to
\* revoke it.  (vault.go:225-231)
RevokedBeforeExit == wg = 0 => token # "valid"

\* There is never more than one attempt to log in, running or to come, so that
\* a send to retry cannot block.  (vault.go:173-187)
OneLoginAttempt == retry + waiting + One(rpc = "login") <= 1

\* As long as the process is not logged in it tries again, until it is told to
\* stop.  (vault.go:184-187, vault_test.go "Token Retry")
LoginRetried ==
  rpc = "select" /\ ~loggedIn ~> rpc = "login" \/ rpc = "stopped" \/ wg = 0

\* Once a signal has been caught the goroutine of RenewToken comes to its end,
\* wherever it was: sleeping before a retry, logging in or watching a token.  The
\* one place where it may stay is a watcher that began after IsLoggedIn was
\* asked.  (main.go:326-331, vault.go:179-181, 236-238)
ShutdownStopsRenewal ==
  mpc = "shutdown" ~>
    \/ rpc = "stopped"
    \/ rpc = "watch" /\ mpc = "stopped" /\ lifecycle = 0

\* Once a signal has been caught every goroutine ends and main returns.
\* (CHANGELOG.md:318, main.go:320-333)
ShutdownCompletes == mpc = "shutdown" ~> wg = 0

\* A token that is lost is replaced by a new login, unless the process stops.
\* (vault.go:200-201, main.go:239)
TokenRegained ==
  loggedIn /\ token # "valid" ~> rpc = "login" \/ mpc # "signal"

=============================================================================
