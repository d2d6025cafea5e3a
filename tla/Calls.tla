-------------------------------- MODULE Calls --------------------------------
(***************************************************************************)
(* The calls of one scrape over the one connection its transport has       *)
(* (MaxConnsPerHost, src/exporter/httpclient.go): Fetch of                 *)
(* src/common/util.go for a redfish device, fetch of                       *)
(* src/exporter/moonshot/exporter.go for a moonshot, and what the          *)
(* moonshot's scrape makes of the results.  Both exporters have a pool of  *)
(* one worker, so that the tasks run one after the other.                  *)
(*                                                                         *)
(* A response with a body keeps the connection until the body is read to   *)
(* its end or closed, or until the timer of its request cuts it.  What     *)
(* credentials a request carries is the matter of module Fetch.            *)
(***************************************************************************)
EXTENDS Naturals, Sequences

CONSTANTS
  Tasks,       \* bound: tasks of the scrape (8 for a moonshot)
  MaxRetries   \* the 3 in the loop over 404

ASSUME TasksAssumption == Tasks \in Nat \ {0}
ASSUME MaxRetriesAssumption == MaxRetries \in Nat

VARIABLES
  kind,      \* "redfish" or "moonshot"
  vault,     \* ChassisCreds.Vault # nil
  no404,     \* Disable404Retry, which only redfish asks
  task,      \* the task that runs
  pc,        \* where it is, or where scrape is after the pool has run
  phase,     \* which DoRequest: the "first", one in the 404 "loop", or the one
             \* after the credentials were read again ("auth")
  retries,   \* retryCount
  resp,      \* resp: the status of the last response, "nil" after an error
  conn,      \* the connection: "free", or "busy" with an unread body
  cut,       \* the timer of resp's request has fired
  outcome,   \* what the tasks have returned
  status,    \* the status of the last answer each task got
  last,      \* and which of its requests that answered
  result,    \* moonshot: what was sent on scrapeChan
  state,     \* the variable of that name in scrape
  up         \* moonshot: the metric

env == <<kind, vault, no404>>
call == <<phase, retries, resp, conn, cut>>
ends == <<outcome, status, last>>
scan == <<result, state, up>>
vars == <<env, task, pc, call, ends, scan>>

Statuses == {"2xx", "404", "401", "other"}

Init ==
  /\ kind \in {"redfish", "moonshot"}
  /\ vault \in BOOLEAN
  /\ no404 \in BOOLEAN
  /\ task = 1
  /\ pc = "begin"
  /\ phase = "first"
  /\ retries = 0
  /\ resp = "nil"
  /\ conn = "free"
  /\ cut = FALSE
  /\ outcome = [t \in 1..Tasks |-> "none"]
  /\ status = [t \in 1..Tasks |-> "nil"]
  /\ last = [t \in 1..Tasks |-> "first"]
  /\ result = <<>>
  /\ state = "1"
  /\ up = "none"

Goto(place) == pc' = place

-----------------------------------------------------------------------------
(* A call.                                                                 *)

\* The function returns, and its deferred calls close every response it got.
Return(what) ==
  /\ outcome' = [outcome EXCEPT ![task] = what]
  /\ status' = [status EXCEPT ![task] = resp]
  /\ last' = [last EXCEPT ![task] = phase]
  /\ conn' = "free"
  /\ Goto("next")
  /\ UNCHANGED <<env, task, phase, retries, resp, cut, scan>>

\* BuildRequest.
Begin ==
  /\ pc = "begin"
  /\ \/ Goto("send") /\ UNCHANGED <<env, task, call, ends, scan>>
     \/ Return("error")

\* The exchange, with the attempts of the retrying client, which drains what it
\* does not return.  It needs the connection; without a body that is free again.
Answered ==
  /\ pc = "send"
  /\ conn = "free"
  /\ resp' \in Statuses
  /\ conn' \in {"free", "busy"}
  /\ cut' = FALSE
  /\ Goto("status")
  /\ UNCHANGED <<env, task, phase, retries, ends, scan>>

NotAnswered ==
  /\ pc = "send"
  /\ conn = "free"
  /\ resp' = "nil"
  /\ Goto("failed")
  /\ UNCHANGED <<env, task, phase, retries, conn, cut, ends, scan>>

\* The timer of the request whose body is still unread: the connection is closed
\* and another may be opened.  It fires before that of any later request.
Timer ==
  /\ conn = "busy"
  /\ conn' = "free"
  /\ cut' = TRUE
  /\ UNCHANGED <<env, task, pc, phase, retries, resp, ends, scan>>

\* Mutant: what the 404 loop ends with is not looked at.
GoodLoop == pc = "status" /\ (resp = "2xx" \/ (phase # "first" /\ ~(kind = "redfish" /\ resp = "401")))

\* A body to read: after the retry with new credentials its status hardly counts.
Good == pc = "status" /\ (resp = "2xx" \/ (phase = "auth" /\ ~(kind = "redfish" /\ resp = "401")))

ToRead ==
  /\ Good
  /\ Goto("read")
  /\ UNCHANGED <<env, task, call, ends, scan>>

MayRetry404 ==
  /\ pc = "status" /\ resp = "404"
  /\ phase = "loop" \/ (phase = "first" /\ ~(kind = "redfish" /\ no404))
  /\ retries < MaxRetries

\* The response before stays open.
Retry404 ==
  /\ MayRetry404
  /\ phase' = "loop"
  /\ retries' = retries + 1
  /\ Goto("send")
  /\ UNCHANGED <<env, task, resp, conn, cut, ends, scan>>

MayRefresh == pc = "status" /\ resp = "401" /\ phase = "first"

\* Mutant: the response is not closed before the retry.
RefreshOpen ==
  /\ MayRefresh /\ vault
  /\ phase' = "auth"
  /\ Goto("send")
  /\ UNCHANGED <<env, task, retries, resp, conn, cut, ends, scan>>

\* The credentials are read again.  Only Fetch closes the response before it
\* sends the request anew.
Refresh ==
  /\ MayRefresh /\ vault
  /\ phase' = "auth"
  /\ conn' = IF kind = "redfish" THEN "free" ELSE conn
  /\ Goto("send")
  /\ UNCHANGED <<env, task, retries, resp, cut, ends, scan>>

RefreshFails == MayRefresh /\ vault /\ Return("error")

\* ErrInvalidCredential, which the moonshot's fetch does not know.
Rejected ==
  \/ MayRefresh /\ ~vault /\ Return(IF kind = "redfish" THEN "invalid" ELSE "error")
  \/ pc = "status" /\ resp = "401" /\ phase = "auth" /\ kind = "redfish" /\ Return("invalid")

\* Any other status, and 404 when the retries are used up.
StatusError ==
  /\ pc = "status" /\ phase # "auth" /\ resp # "2xx"
  /\ ~MayRetry404 /\ ~MayRefresh
  /\ Return("error")

\* DoRequest returned an error and no response, whose status the moonshot's
\* fetch nevertheless asks for after the retry: a panic in the pool's worker.
Failed ==
  /\ pc = "failed"
  /\ \/ ~(kind = "moonshot" /\ phase = "auth") /\ Return("error")
     \/ /\ kind = "moonshot" /\ phase = "auth"
        /\ Goto("crashed")
        /\ UNCHANGED <<env, task, call, ends, scan>>

\* io.ReadAll; a body that was cut short cannot be read.
Read ==
  /\ pc = "read"
  /\ \/ ~cut /\ Return("body")
     \/ Return("error")

\* The worker takes the next task, or Run returns.
NextTask ==
  /\ pc = "next"
  /\ IF task < Tasks
     THEN /\ task' = task + 1
          /\ phase' = "first" /\ retries' = 0 /\ resp' = "nil" /\ cut' = FALSE
          /\ Goto("begin")
     ELSE /\ task' = 1
          /\ Goto(IF kind = "moonshot" THEN "scrape" ELSE "over")
          /\ UNCHANGED <<phase, retries, resp, cut>>
  /\ UNCHANGED <<env, conn, ends, scan>>

-----------------------------------------------------------------------------
(* The moonshot's scrape, whose results go through a channel with room for *)
(* one per task and are taken out again at the end.  The redfish           *)
(* exporter's is module Collector.                                         *)

\* The first error ends it.
ScrapeEndsEarly ==
  /\ pc = "scrape" /\ task <= Tasks
  /\ outcome[task] # "body"
  /\ up' = IF outcome[task] = "invalid" THEN "2" ELSE "0"
  /\ Goto("over")
  /\ UNCHANGED <<env, task, call, ends, result, state>>

\* Mutant: nothing is sent for a body that is not understood.
ExportSilent ==
  /\ pc = "scrape" /\ task <= Tasks
  /\ outcome[task] = "body"
  /\ Len(result) < Tasks
  /\ result' \in {result, Append(result, "1")}
  /\ task' = task + 1
  /\ UNCHANGED <<env, pc, call, ends, state, up>>

\* A body of any status may parse, for what it does not name stays empty.
Export ==
  /\ pc = "scrape" /\ task <= Tasks
  /\ outcome[task] = "body"
  /\ Len(result) < Tasks
  /\ \E r \in {"0", "1"} : result' = Append(result, r)
  /\ task' = task + 1
  /\ UNCHANGED <<env, pc, call, ends, state, up>>

Scraped ==
  /\ pc = "scrape" /\ task > Tasks
  /\ task' = 1
  /\ Goto("drain")
  /\ UNCHANGED <<env, call, ends, scan>>

\* Mutant: the last result counts.
DrainLast ==
  /\ pc = "drain" /\ task <= Tasks
  /\ task <= Len(result)
  /\ state' = result[task]
  /\ task' = task + 1
  /\ UNCHANGED <<env, pc, call, ends, result, up>>

\* result = <-scrapeChan; state &= result
Drain ==
  /\ pc = "drain" /\ task <= Tasks
  /\ task <= Len(result)
  /\ state' = IF result[task] = "0" THEN "0" ELSE state
  /\ task' = task + 1
  /\ UNCHANGED <<env, pc, call, ends, result, up>>

Report ==
  /\ pc = "drain" /\ task > Tasks
  /\ up' = state
  /\ Goto("over")
  /\ UNCHANGED <<env, task, call, ends, result, state>>

Step ==
  \/ Begin \/ Answered \/ NotAnswered \/ ToRead \/ Retry404 \/ Refresh \/ RefreshFails
  \/ Rejected \/ StatusError \/ Failed \/ Read \/ NextTask
  \/ ScrapeEndsEarly \/ Export \/ Scraped \/ Drain \/ Report

Next == Step \/ Timer

\* The goroutine runs, every exchange is answered or times out, and the timers
\* fire.
Spec == Init /\ [][Next]_vars /\ WF_vars(Step) /\ WF_vars(Timer)

-----------------------------------------------------------------------------
(* Properties.                                                             *)

TypeOK ==
  /\ kind \in {"redfish", "moonshot"} /\ vault \in BOOLEAN /\ no404 \in BOOLEAN
  /\ task \in 1..(Tasks + 1)
  /\ pc \in {"begin", "send", "status", "failed", "read", "next", "crashed",
             "scrape", "drain", "over"}
  /\ phase \in {"first", "loop", "auth"}
  /\ retries \in 0..MaxRetries
  /\ resp \in Statuses \cup {"nil"}
  /\ conn \in {"free", "busy"}
  /\ cut \in BOOLEAN
  /\ outcome \in [1..Tasks -> {"none", "body", "error", "invalid"}]
  /\ status \in [1..Tasks -> Statuses \cup {"nil"}]
  /\ last \in [1..Tasks -> {"first", "loop", "auth"}]
  /\ result \in Seq({"0", "1"}) /\ Len(result) <= Tasks
  /\ state \in {"0", "1"}
  /\ up \in {"none", "0", "1", "2"}

\* A request waits for the connection only because its own call still holds an
\* answer: the 404 before a retry, or, for a moonshot, the 401.  Fetch's retry
\* with new credentials never waits.  (util.go:62-70, 98-101,
\* moonshot/exporter.go:222-225)
WaitsOnlyOnItself ==
  pc = "send" /\ conn = "busy" =>
    \/ phase = "loop" /\ resp = "404"
    \/ phase = "auth" /\ resp = "401" /\ kind = "moonshot"

\* What a task hands on as the body is the device's answer to its question, 2xx,
\* whatever came before: a 404 loop that ended with something else is an error.
\* Only the request that was repeated with new credentials is believed without
\* it, with any status by a moonshot's fetch and with any but 401 by Fetch.
\* (util.go:50-118, moonshot/exporter.go:188-240)
BodyIsAnswer ==
  \A t \in 1..Tasks : outcome[t] = "body" =>
    \/ status[t] = "2xx"
    \/ last[t] = "auth" /\ ~(kind = "redfish" /\ status[t] = "401")

\* A moonshot's up is 1 only if every task returned a body and every body was
\* understood, and 0 only if one was not.  (moonshot/exporter.go:243-325)
UpMeansAllExported ==
  /\ up = "1" => /\ \A t \in 1..Tasks : outcome[t] = "body"
                 /\ result = [t \in 1..Tasks |-> "1"]
  /\ up = "0" => \/ \E t \in 1..Tasks : outcome[t] # "body"
                 \/ \E n \in DOMAIN result : result[n] = "0"

\* A scrape ends, or the process does: no request waits for ever for the
\* connection, and the channel of results never blocks.
\* (httpclient.go:22, 43, moonshot/exporter.go:246, 318-321)
CallsEnd == <>(pc \in {"over", "crashed"})

\* Three that the code does not keep up.  An answer that fails to come is an
\* error of its task and never the end of the process.  The moonshot's retry
\* with new credentials asks for the status of no response.
\* (moonshot/exporter.go:222-227)
NeverPanics == pc # "crashed"

\* When the first call of a moonshot's scrape that goes wrong does so for
\* credentials that are rejected, the host is ignored and up is 2.  No call of
\* its fetch reports that.  (moonshot/exporter.go:208-227, 254-264)
RejectedIgnored ==
  kind = "moonshot" /\ up # "none"
  /\ (\E t \in 1..Tasks : /\ status[t] = "401"
                          /\ \A u \in 1..(t - 1) : outcome[u] = "body" /\ status[u] = "2xx") =>
    up = "2"

\* A moonshot's up is 1 only if each of its questions was answered.  Behind a
\* retry with new credentials stands any answer.  (moonshot/exporter.go:222-240)
UpMeansAnswered == up = "1" => \A t \in 1..Tasks : status[t] = "2xx"
=============================================================================
