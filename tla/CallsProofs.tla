----------------------------- MODULE CallsProofs -----------------------------
(***************************************************************************)
(* Proofs about the calls of a scrape and the connection they share, for   *)
(* every number of tasks and retries.                                      *)
(***************************************************************************)
EXTENDS Calls, TLAPS

\* The places of a call, as opposed to those of the moonshot's scrape.
InCall == {"begin", "send", "status", "failed", "read", "next", "crashed"}

\* A call is about its task, knows what it holds the connection for, and reads
\* a body only if it may be handed on.
CallOK ==
  /\ pc \in InCall => task <= Tasks
  /\ pc = "begin" => phase = "first"
  /\ pc = "failed" => conn = "free"
  /\ pc = "read" => \/ resp = "2xx"
                    \/ phase = "auth" /\ ~(kind = "redfish" /\ resp = "401")

\* Between two calls, and after the last, the connection is free.
AtRest == pc \in {"begin", "next", "scrape", "drain", "over"} => conn = "free"

\* The moonshot's scrape: a result for every task before this one, and in state
\* the conjunction of those taken out.
ScrapeOK ==
  /\ pc \in InCall => result = <<>> /\ state = "1" /\ up = "none"
  /\ pc \in {"scrape", "drain"} => kind = "moonshot" /\ up = "none"
  /\ pc = "scrape" => /\ state = "1" /\ Len(result) = task - 1
                      /\ \A t \in 1..Tasks : t < task => outcome[t] = "body"
  /\ pc = "drain" => /\ Len(result) = Tasks
                     /\ \A t \in 1..Tasks : outcome[t] = "body"
                     /\ state = "1" <=> \A t \in 1..Tasks : t < task => result[t] = "1"

Inv ==
  TypeOK /\ AtRest /\ WaitsOnlyOnItself /\ CallOK /\ BodyIsAnswer /\ ScrapeOK
    /\ UpMeansAllExported

-----------------------------------------------------------------------------

LEMMA InvInit == Init => Inv
<1> SUFFICES ASSUME Init PROVE Inv
  OBVIOUS
<1> USE TasksAssumption, MaxRetriesAssumption DEF Init
<1>1. TypeOK
  <2>1. result \in Seq({"0", "1"}) /\ Len(result) = 0
    OBVIOUS
  <2>2. outcome \in [1..Tasks -> {"none", "body", "error", "invalid"}]
    OBVIOUS
  <2>3. status \in [1..Tasks -> Statuses \cup {"nil"}]
    OBVIOUS
  <2>6. last \in [1..Tasks -> {"first", "loop", "auth"}]
    OBVIOUS
  <2>4. task \in 1..(Tasks + 1) /\ retries \in 0..MaxRetries
    OBVIOUS
  <2>5. cut \in BOOLEAN
    OBVIOUS
  <2> QED BY <2>1, <2>2, <2>3, <2>4, <2>5, <2>6 DEF TypeOK
<1>2. AtRest /\ WaitsOnlyOnItself
  BY DEF AtRest, WaitsOnlyOnItself
<1>3. CallOK /\ BodyIsAnswer
  BY DEF CallOK, BodyIsAnswer
<1>4. ScrapeOK /\ UpMeansAllExported
  BY DEF ScrapeOK, UpMeansAllExported
<1> QED BY <1>1, <1>2, <1>3, <1>4 DEF Inv

\* A call that returns leaves the connection free; what it may return is up to
\* the place it returns from.
LEMMA ReturnInv ==
  ASSUME Inv, pc \in InCall \ {"next", "crashed"},
         NEW what \in {"body", "error", "invalid"}, Return(what),
         what = "body" => pc = "read"
  PROVE  Inv'
<1> USE TasksAssumption DEF Inv, InCall, Return, Goto, env, scan
<1>t. task \in 1..Tasks
  BY DEF TypeOK, CallOK
<1>1. TypeOK'
  BY <1>t DEF TypeOK
<1>2. AtRest' /\ WaitsOnlyOnItself'
  BY DEF AtRest, WaitsOnlyOnItself
<1>3. CallOK'
  BY DEF CallOK
<1>4. BodyIsAnswer'
  <2> SUFFICES ASSUME NEW t \in 1..Tasks
               PROVE  outcome'[t] = "body" =>
                        \/ status'[t] = "2xx"
                        \/ last'[t] = "auth" /\ ~(kind = "redfish" /\ status'[t] = "401")
    BY DEF BodyIsAnswer
  <2>1. CASE t = task
    <3>1. outcome'[t] = what /\ status'[t] = resp /\ last'[t] = phase
      BY <2>1, <1>t DEF TypeOK
    <3> QED BY <3>1 DEF CallOK
  <2>2. CASE t # task
    <3>1. outcome'[t] = outcome[t] /\ status'[t] = status[t] /\ last'[t] = last[t]
      BY <2>2, <1>t DEF TypeOK
    <3> QED BY <3>1 DEF BodyIsAnswer
  <2> QED BY <2>1, <2>2
<1>5. ScrapeOK'
  BY DEF ScrapeOK
<1>6. UpMeansAllExported'
  BY DEF ScrapeOK, UpMeansAllExported
<1> QED BY <1>1, <1>2, <1>3, <1>4, <1>5, <1>6

\* The actions of a call that end it.
LEMMA EndingInv ==
  ASSUME Inv, \/ (Begin /\ pc' = "next") \/ RefreshFails \/ Rejected \/ StatusError
              \/ (Failed /\ pc' = "next") \/ Read
  PROVE  Inv'
<1>1. CASE Begin /\ pc' = "next"
  <2>1. pc = "begin" /\ Return("error")
    BY <1>1 DEF Begin, Goto
  <2> QED BY <2>1, ReturnInv DEF InCall
<1>2. CASE RefreshFails
  <2>1. pc = "status" /\ Return("error")
    BY <1>2 DEF RefreshFails, MayRefresh
  <2> QED BY <2>1, ReturnInv DEF InCall
<1>3. CASE Rejected
  <2>1. pc = "status" /\ resp = "401"
        /\ (Return("error") \/ (kind = "redfish" /\ Return("invalid")))
    BY <1>3 DEF Rejected, MayRefresh
  <2> QED BY <2>1, ReturnInv DEF InCall
<1>4. CASE StatusError
  <2>1. pc = "status" /\ Return("error")
    BY <1>4 DEF StatusError
  <2> QED BY <2>1, ReturnInv DEF InCall
<1>5. CASE Failed /\ pc' = "next"
  <2>1. pc = "failed" /\ Return("error")
    BY <1>5 DEF Failed, Goto
  <2> QED BY <2>1, ReturnInv DEF InCall
<1>6. CASE Read
  <2>1. pc = "read" /\ (Return("body") \/ Return("error"))
    BY <1>6 DEF Read
  <2> QED BY <2>1, ReturnInv DEF InCall
<1> QED BY <1>1, <1>2, <1>3, <1>4, <1>5, <1>6

\* Steps within a call.
LEMMA CallStepInv ==
  ASSUME Inv, \/ (Begin /\ pc' # "next") \/ Answered \/ NotAnswered \/ ToRead
              \/ Retry404 \/ Refresh \/ (Failed /\ pc' # "next") \/ Timer
  PROVE  Inv'
<1> USE TasksAssumption, MaxRetriesAssumption DEF Inv, Goto, env, call, ends, scan
<1> DEFINE Conns == AtRest /\ WaitsOnlyOnItself /\ CallOK
<1>s. /\ UNCHANGED <<env, task, ends, scan>>
      /\ \/ pc \in InCall /\ pc' \in InCall
         \/ pc' = pc
  BY DEF Begin, Return, Answered, NotAnswered, ToRead, Good, Retry404, MayRetry404,
         Refresh, MayRefresh, Failed, Timer, InCall
<1>1. BodyIsAnswer' /\ ScrapeOK' /\ UpMeansAllExported'
  <2>1. BodyIsAnswer' /\ UpMeansAllExported'
    BY <1>s DEF BodyIsAnswer, UpMeansAllExported
  <2>2. CASE pc \in InCall /\ pc' \in InCall
    BY <1>s, <2>1, <2>2 DEF ScrapeOK, InCall
  <2>3. CASE pc' = pc
    BY <1>s, <2>1, <2>3 DEF ScrapeOK
  <2> QED BY <1>s, <2>1, <2>2, <2>3
<1>2. CASE Begin /\ pc' # "next"
  <2>1. pc = "begin" /\ pc' = "send" /\ UNCHANGED call
    BY <1>2 DEF Begin, Return
  <2>2. TypeOK' /\ Conns'
    BY <1>s, <2>1 DEF TypeOK, AtRest, WaitsOnlyOnItself, CallOK, InCall
  <2> QED BY <1>1, <2>2
<1>3. CASE Answered
  <2>1. TypeOK' /\ Conns'
    BY <1>s, <1>3 DEF Answered, Statuses, TypeOK, AtRest, WaitsOnlyOnItself, CallOK, InCall
  <2> QED BY <1>1, <2>1
<1>4. CASE NotAnswered
  <2>1. TypeOK' /\ Conns'
    BY <1>s, <1>4 DEF NotAnswered, TypeOK, AtRest, WaitsOnlyOnItself, CallOK, InCall
  <2> QED BY <1>1, <2>1
<1>5. CASE ToRead
  <2>1. TypeOK' /\ Conns'
    BY <1>s, <1>5 DEF ToRead, Good, TypeOK, AtRest, WaitsOnlyOnItself, CallOK, InCall
  <2> QED BY <1>1, <2>1
<1>6. CASE Retry404
  <2>1. TypeOK' /\ Conns'
    BY <1>s, <1>6 DEF Retry404, MayRetry404, TypeOK, AtRest, WaitsOnlyOnItself, CallOK, InCall
  <2> QED BY <1>1, <2>1
<1>7. CASE Refresh
  <2>1. TypeOK' /\ Conns'
    BY <1>s, <1>7 DEF Refresh, MayRefresh, TypeOK, AtRest, WaitsOnlyOnItself, CallOK, InCall
  <2> QED BY <1>1, <2>1
<1>8. CASE Failed /\ pc' # "next"
  <2>1. pc = "failed" /\ kind = "moonshot" /\ phase = "auth" /\ pc' = "crashed"
        /\ UNCHANGED call
    BY <1>8 DEF Failed, Return
  <2>2. TypeOK' /\ Conns'
    BY <1>s, <2>1 DEF TypeOK, AtRest, WaitsOnlyOnItself, CallOK, InCall
  <2> QED BY <1>1, <2>2
<1>9. CASE Timer
  <2>1. TypeOK' /\ Conns'
    BY <1>s, <1>9 DEF Timer, TypeOK, AtRest, WaitsOnlyOnItself, CallOK, InCall
  <2> QED BY <1>1, <2>1
<1> QED BY <1>2, <1>3, <1>4, <1>5, <1>6, <1>7, <1>8, <1>9

LEMMA NextTaskInv == ASSUME Inv, NextTask PROVE Inv'
<1> USE TasksAssumption, MaxRetriesAssumption DEF Inv, NextTask, Goto, env, call, ends, scan
<1>1. TypeOK'
  <2>1. CASE task < Tasks
    <3>1. task' = task + 1 /\ retries' = 0 /\ resp' = "nil" /\ phase' = "first"
          /\ cut' = FALSE /\ pc' = "begin" /\ UNCHANGED <<env, conn, ends, scan>>
      BY <2>1
    <3>2. task' \in 1..(Tasks + 1) /\ retries' \in 0..MaxRetries
      BY <2>1, <3>1 DEF TypeOK
    <3>3. cut' \in BOOLEAN
      BY <3>1
    <3> QED BY <3>1, <3>2, <3>3 DEF TypeOK
  <2>2. CASE ~(task < Tasks)
    <3>1. task' \in 1..(Tasks + 1)
      BY <2>2
    <3>2. pc' \in {"scrape", "over"} /\ UNCHANGED <<env, conn, call, ends, scan>>
      BY <2>2
    <3> QED BY <3>1, <3>2 DEF TypeOK
  <2> QED BY <2>1, <2>2
<1>2. AtRest' /\ WaitsOnlyOnItself'
  BY DEF AtRest, WaitsOnlyOnItself
<1>3. CallOK' /\ BodyIsAnswer'
  BY DEF CallOK, BodyIsAnswer, InCall, TypeOK
<1>4. ScrapeOK' /\ UpMeansAllExported'
  BY DEF ScrapeOK, UpMeansAllExported, InCall, TypeOK
<1> QED BY <1>1, <1>2, <1>3, <1>4

\* Steps of the moonshot's scrape.
LEMMA ScrapeStepInv ==
  ASSUME Inv, ScrapeEndsEarly \/ Export \/ Scraped \/ Drain \/ Report
  PROVE  Inv'
<1> USE TasksAssumption DEF Inv, Goto, env, call, ends, scan
<1>s. /\ UNCHANGED <<env, call, ends>>
      /\ pc \in {"scrape", "drain"} /\ pc' \in {"scrape", "drain", "over"}
  BY DEF ScrapeEndsEarly, Export, Scraped, Drain, Report
<1>1. AtRest' /\ WaitsOnlyOnItself'
  BY <1>s DEF AtRest, WaitsOnlyOnItself
<1>2. CallOK' /\ BodyIsAnswer'
  BY <1>s DEF CallOK, BodyIsAnswer, InCall
<1>3. CASE ScrapeEndsEarly
  <2>1. task \in 1..Tasks /\ outcome[task] # "body" /\ up' \in {"0", "2"}
    BY <1>3 DEF ScrapeEndsEarly, TypeOK, ScrapeOK
  <2>2. TypeOK' /\ ScrapeOK'
    BY <1>3, <2>1 DEF ScrapeEndsEarly, TypeOK, ScrapeOK, InCall
  <2>3. UpMeansAllExported'
    BY <1>s, <2>1 DEF UpMeansAllExported
  <2> QED BY <1>1, <1>2, <2>2, <2>3
<1>4. CASE Export
  <2>1. PICK r \in {"0", "1"} : result' = Append(result, r)
    BY <1>4 DEF Export
  <2>2. task \in 1..Tasks /\ outcome[task] = "body" /\ pc = "scrape" /\ task' = task + 1
        /\ UNCHANGED <<pc, state, up>> /\ up = "none"
    BY <1>4 DEF Export, TypeOK, ScrapeOK
  <2>3. result' \in Seq({"0", "1"}) /\ Len(result') = Len(result) + 1
    BY <2>1 DEF TypeOK
  <2>4. TypeOK'
    BY <1>s, <1>4, <2>2, <2>3 DEF TypeOK, Export
  <2>5. ScrapeOK'
    BY <1>s, <2>2, <2>3 DEF ScrapeOK, InCall, TypeOK
  <2>6. UpMeansAllExported'
    BY <2>2 DEF UpMeansAllExported
  <2> QED BY <1>1, <1>2, <2>4, <2>5, <2>6
<1>5. CASE Scraped
  <2>1. TypeOK' /\ ScrapeOK'
    BY <1>5 DEF Scraped, TypeOK, ScrapeOK, InCall
  <2>2. UpMeansAllExported'
    BY <1>5 DEF Scraped, UpMeansAllExported, ScrapeOK
  <2> QED BY <1>1, <1>2, <2>1, <2>2
<1>6. CASE Drain
  <2>1. task \in 1..Tasks /\ pc = "drain" /\ task' = task + 1 /\ UNCHANGED <<pc, result, up>>
        /\ up = "none" /\ result[task] \in {"0", "1"}
        /\ state' = IF result[task] = "0" THEN "0" ELSE state
    BY <1>6 DEF Drain, TypeOK, ScrapeOK
  <2>2. TypeOK'
    BY <1>s, <2>1 DEF TypeOK
  <2>3. state' = "1" <=> state = "1" /\ result[task] = "1"
    BY <2>1 DEF TypeOK
  <2>4. ScrapeOK'
    BY <1>s, <2>1, <2>3 DEF ScrapeOK, InCall, TypeOK
  <2>5. UpMeansAllExported'
    BY <2>1 DEF UpMeansAllExported
  <2> QED BY <1>1, <1>2, <2>2, <2>4, <2>5
<1>7. CASE Report
  <2>1. pc = "drain" /\ task > Tasks /\ up' = state /\ pc' = "over"
        /\ UNCHANGED <<task, result, state>>
    BY <1>7 DEF Report
  <2>2. TypeOK' /\ ScrapeOK'
    BY <1>s, <2>1 DEF TypeOK, ScrapeOK, InCall
  <2>3. task > Tasks /\ Len(result) = Tasks /\ result \in Seq({"0", "1"})
        /\ \A t \in 1..Tasks : t < task
    BY <2>1 DEF TypeOK, ScrapeOK
  <2>4. CASE state = "1"
    <3>1. \A t \in 1..Tasks : result[t] = "1"
      BY <2>1, <2>3, <2>4 DEF ScrapeOK
    <3>2. result = [t \in 1..Tasks |-> "1"]
      BY <2>3, <3>1
    <3> QED BY <1>s, <1>1, <1>2, <2>1, <2>2, <2>4, <3>2 DEF UpMeansAllExported, ScrapeOK
  <2>5. CASE state = "0"
    <3>1. PICK t \in 1..Tasks : result[t] # "1"
      BY <2>1, <2>3, <2>5 DEF ScrapeOK
    <3>2. t \in DOMAIN result /\ result[t] = "0"
      BY <2>3, <3>1
    <3>3. UpMeansAllExported'
      BY <2>1, <2>5, <3>2 DEF UpMeansAllExported
    <3> QED BY <1>1, <1>2, <2>2, <3>3
  <2> QED BY <2>4, <2>5 DEF TypeOK
<1> QED BY <1>3, <1>4, <1>5, <1>6, <1>7

LEMMA InvStep == Inv /\ [Next]_vars => Inv'
<1> SUFFICES ASSUME Inv, [Next]_vars PROVE Inv'
  OBVIOUS
<1>1. CASE UNCHANGED vars
  BY <1>1 DEF vars, env, call, ends, scan, Inv, TypeOK, AtRest, WaitsOnlyOnItself, CallOK, BodyIsAnswer, ScrapeOK, UpMeansAllExported
<1>2. CASE Next
  BY <1>2, EndingInv, CallStepInv, NextTaskInv, ScrapeStepInv DEF Next, Step
<1> QED BY <1>1, <1>2

LEMMA SpecInv == Spec => []Inv
  BY InvInit, InvStep, PTL DEF Spec

-----------------------------------------------------------------------------

\* Every variable keeps its type: the loop over 404 never takes a turn more
\* than its limit and the channel of results never holds more than its room.
THEOREM CallsTypeOK == Spec => []TypeOK
<1>1. Inv => TypeOK
  BY DEF Inv
<1> QED BY <1>1, SpecInv, PTL

\* A request waits for the connection only because its own call still holds an
\* answer.  (util.go:62-70, 98-101, moonshot/exporter.go:222-225)
THEOREM CallsWaitsOnlyOnItself == Spec => []WaitsOnlyOnItself
<1>1. Inv => WaitsOnlyOnItself
  BY DEF Inv
<1> QED BY <1>1, SpecInv, PTL

\* The status of a body that is handed on may be other than 2xx only when the
\* request it answers was repeated with new credentials, for any number of tasks
\* and turns over 404.  (util.go:50-118, moonshot/exporter.go:188-240)
THEOREM CallsBodyIsAnswer == Spec => []BodyIsAnswer
<1>1. Inv => BodyIsAnswer
  BY DEF Inv
<1> QED BY <1>1, SpecInv, PTL

\* A moonshot's up is the conjunction of what its tasks have sent.
\* (moonshot/exporter.go:243-325)
THEOREM CallsUpMeansAllExported == Spec => []UpMeansAllExported
<1>1. Inv => UpMeansAllExported
  BY DEF Inv
<1> QED BY <1>1, SpecInv, PTL
=============================================================================
