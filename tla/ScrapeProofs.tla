---------------------------- MODULE ScrapeProofs ----------------------------
(***************************************************************************)
(* Proofs about concurrent scrapes, for every set of scrapers and targets, *)
(* every mode of operation and every number of rotations and tasks.        *)
(***************************************************************************)
EXTENDS Scrape, TLAPS

\* The operators that place a scraper and change its local variables.
USE DEF Goto, Stay, Return, Call, Take, Move, Finish, Hold,
        fetchVars, worldVars, scrapeVars, UseVault, UseScript

-----------------------------------------------------------------------------
(* Types.                                                                  *)

LEMMA InitType == Init => TypeOK
<1> SUFFICES ASSUME Init PROVE TypeOK
  OBVIOUS
<1> USE TargetAssumption, ModeAssumption, MaxCredAssumption, MaxTasksAssumption
    DEF Init, FetchInit
<1>1. FirstCred \in Versions
  BY DEF FirstCred, Versions, Static
<1>2. FetchTypeOK
  BY <1>1 DEF FetchTypeOK, FetchPlaces, Answers, Creds, MaxRetries
<1>3. partial \in [Scrapers -> BOOLEAN] /\ hasPool \in [Scrapers -> BOOLEAN]
      /\ crashed \in BOOLEAN
  BY Zenon
<1>4. /\ ignored \subseteq Targets
      /\ spc \in [Scrapers -> Places]
      /\ done \in [Scrapers -> 0..MaxTasks]
      /\ first \in [Scrapers -> {"none", "error", "invalid"}]
      /\ up \in [Scrapers -> {"none", "0", "1", "2", "500"}]
  BY DEF Places
<1> HIDE DEF Init
<1> QED BY <1>2, <1>3, <1>4 DEF TypeOK

\* A step inside Fetch keeps the types of its variables.
LEMMA FetchTypeStep ==
  ASSUME FetchTypeOK, NEW s \in Scrapers, FetchStep(s)
  PROVE  FetchTypeOK'
<1> USE TargetAssumption, ModeAssumption, MaxCredAssumption
    DEF FetchTypeOK, FetchPlaces, Answers, Creds, MaxRetries, Versions, Static
<1>1. CASE Build(s) BY <1>1 DEF Build, RequestCred
<1>2. ASSUME NEW r \in {"2xx", "401", "404", "other", "failed"}, Respond(s, r)
      PROVE  FetchTypeOK'
  BY <1>2 DEF Respond, Rejected
<1>3. CASE Retry404(s) BY <1>3 DEF Retry404, StillMissing
<1>4. CASE DeleteCached(s) BY <1>4 DEF DeleteCached
<1>5. ASSUME NEW c \in Creds \cup {NoCred}, Refresh(s, c) PROVE FetchTypeOK'
  BY <1>5 DEF Refresh
<1>6. CASE SetRefreshed(s) BY <1>6 DEF SetRefreshed
<1>7. CASE Rebuild(s) BY <1>7 DEF Rebuild, RequestCred
<1>8. CASE Redo(s) BY <1>8 DEF Redo
<1> QED BY <1>1, <1>2, <1>3, <1>4, <1>5, <1>6, <1>7, <1>8 DEF FetchStep

\* The parts of TypeOK: words and numbers, and flags.
WordsOK ==
  /\ ignored \subseteq Targets
  /\ spc \in [Scrapers -> Places]
  /\ done \in [Scrapers -> 0..MaxTasks]
  /\ first \in [Scrapers -> {"none", "error", "invalid"}]
  /\ up \in [Scrapers -> {"none", "0", "1", "2", "500"}]

FlagsOK ==
  /\ crashed \in BOOLEAN
  /\ partial \in [Scrapers -> BOOLEAN]
  /\ hasPool \in [Scrapers -> BOOLEAN]

\* A task under way is one of the pool.
TaskInPool ==
  \A s \in Scrapers : done[s] \in Nat /\ (spc[s] = "task" => done[s] < MaxTasks)

LEMMA TypeParts == TypeOK <=> FetchTypeOK /\ WordsOK /\ FlagsOK
  BY Zenon DEF TypeOK, WordsOK, FlagsOK

LEMMA TypePartsNext == FetchTypeOK' /\ WordsOK' /\ FlagsOK' => TypeOK'
  BY Zenon DEF TypeOK, WordsOK, FlagsOK

\* A step of the handler, the exporter or Collect keeps the types of Fetch.
LEMMA HandlerFetchType ==
  ASSUME TypeOK, NEW s \in Scrapers, HandlerStep(s)
  PROVE  FetchTypeOK'
<1> USE TargetAssumption, TypeParts, MaxCredAssumption
    DEF FetchTypeOK, FetchPlaces, Answers, Creds, MaxRetries, Versions, Static, Lookup
<1>1. CASE Start(s) BY <1>1 DEF Start
<1>2. CASE RunScript(s) BY <1>2 DEF RunScript
<1>3. CASE SetFromScript(s) BY <1>3 DEF SetFromScript
<1>4. CASE CheckCache(s) BY <1>4 DEF CheckCache
<1>5. ASSUME NEW c \in Creds \cup {NoCred}, ReadVault(s, c) PROVE FetchTypeOK'
  BY <1>5 DEF ReadVault
<1>6. CASE SetFromVault(s) BY <1>6 DEF SetFromVault
<1>7. CASE New(s) BY <1>7 DEF New
<1>8. CASE ChassisAnswered(s) BY <1>8 DEF ChassisAnswered, IgnoreRejected
<1>9. CASE DiscoverAnswered(s) BY <1>9 DEF DiscoverAnswered
<1>10. CASE Collect(s) BY <1>10 DEF Collect
<1>11. CASE RunTask(s) BY <1>11 DEF RunTask
<1>12. CASE TaskAnswered(s) BY <1>12 DEF TaskAnswered
<1>13. CASE Scan(s) BY <1>13 DEF Scan
<1> QED BY <1>1, <1>2, <1>3, <1>4, <1>5, <1>6, <1>7, <1>8, <1>9, <1>10, <1>11,
           <1>12, <1>13 DEF HandlerStep

\* It keeps the places, counters and reports,
LEMMA HandlerWords ==
  ASSUME TypeOK, TaskInPool, NEW s \in Scrapers, HandlerStep(s)
  PROVE  WordsOK'
<1> USE TargetAssumption, TypeParts, MaxTasksAssumption DEF WordsOK, Places, TaskInPool
<1>1. CASE Start(s) BY <1>1 DEF Start
<1>2. CASE RunScript(s) BY <1>2 DEF RunScript
<1>3. CASE SetFromScript(s) BY <1>3 DEF SetFromScript
<1>4. CASE CheckCache(s) BY <1>4 DEF CheckCache
<1>5. ASSUME NEW c \in Creds \cup {NoCred}, ReadVault(s, c) PROVE WordsOK'
  BY <1>5 DEF ReadVault
<1>6. CASE SetFromVault(s) BY <1>6 DEF SetFromVault
<1>7. CASE New(s) BY <1>7 DEF New
<1>8. CASE ChassisAnswered(s) BY <1>8 DEF ChassisAnswered, IgnoreRejected
<1>9. CASE DiscoverAnswered(s) BY <1>9 DEF DiscoverAnswered
<1>10. CASE Collect(s) BY <1>10 DEF Collect
<1>11. CASE RunTask(s) BY <1>11 DEF RunTask
<1>12. CASE TaskAnswered(s) BY <1>12 DEF TaskAnswered
<1>13. CASE Scan(s) BY <1>13 DEF Scan
<1> QED BY <1>1, <1>2, <1>3, <1>4, <1>5, <1>6, <1>7, <1>8, <1>9, <1>10, <1>11,
           <1>12, <1>13 DEF HandlerStep

\* and the flags.
LEMMA HandlerFlags ==
  ASSUME TypeOK, NEW s \in Scrapers, HandlerStep(s)
  PROVE  FlagsOK'
<1> USE TypeParts DEF FlagsOK
<1>1. CASE Start(s) BY <1>1, Zenon DEF Start
<1>2. CASE RunScript(s) BY <1>2, Zenon DEF RunScript
<1>3. CASE SetFromScript(s) BY <1>3, Zenon DEF SetFromScript
<1>4. CASE CheckCache(s) BY <1>4, Zenon DEF CheckCache
<1>5. ASSUME NEW c \in Creds \cup {NoCred}, ReadVault(s, c) PROVE FlagsOK'
  BY <1>5, Zenon DEF ReadVault
<1>6. CASE SetFromVault(s) BY <1>6, Zenon DEF SetFromVault
<1>7. CASE New(s) BY <1>7, Zenon DEF New
<1>8. CASE ChassisAnswered(s) BY <1>8, Zenon DEF ChassisAnswered, IgnoreRejected
<1>9. CASE DiscoverAnswered(s) BY <1>9, Zenon DEF DiscoverAnswered
<1>10. CASE Collect(s) BY <1>10, Zenon DEF Collect
<1>11. CASE RunTask(s) BY <1>11, Zenon DEF RunTask
<1>12. CASE TaskAnswered(s) BY <1>12, Zenon DEF TaskAnswered
<1>13. CASE Scan(s) BY <1>13, Zenon DEF Scan
<1> QED BY <1>1, <1>2, <1>3, <1>4, <1>5, <1>6, <1>7, <1>8, <1>9, <1>10, <1>11,
           <1>12, <1>13 DEF HandlerStep

LEMMA TypeStep == TypeOK /\ TaskInPool /\ [Next]_vars => TypeOK'
<1> SUFFICES ASSUME TypeOK, TaskInPool, [Next]_vars PROVE TypeOK'
  OBVIOUS
<1>1. ASSUME NEW s \in Scrapers, ScraperStep(s) PROVE TypeOK'
  <2>1. CASE HandlerStep(s)
    BY <2>1, HandlerFetchType, HandlerWords, HandlerFlags, TypePartsNext
  <2>2. CASE CallStep(s)
    <3>1. FetchTypeOK' BY <2>2, FetchTypeStep, TypeParts DEF CallStep
    <3>2. WordsOK' BY <2>2, TypeParts DEF CallStep, WordsOK
    <3>3. FlagsOK' BY <2>2, TypeParts, Zenon DEF CallStep, FlagsOK
    <3> QED BY <3>1, <3>2, <3>3, TypePartsNext
  <2> QED BY <1>1, <2>1, <2>2 DEF ScraperStep
<1>2. CASE WorldStep /\ UNCHANGED <<ignored, crashed, scrapeVars>>
  <2>1. FetchTypeOK'
    BY <1>2, TypeParts, MaxCredAssumption
       DEF WorldStep, RotateDevice, RotateSecret, FetchTypeOK, Versions
  <2>2. WordsOK' BY <1>2, TypeParts DEF WordsOK
  <2>3. FlagsOK' BY <1>2, TypeParts, Zenon DEF FlagsOK
  <2> QED BY <2>1, <2>2, <2>3, TypePartsNext
<1>3. ASSUME NEW t \in Targets, RemoveHost(t) PROVE TypeOK'
  BY <1>3 DEF RemoveHost, TypeOK, FetchTypeOK
<1>4. CASE Restart
  <2>1. FetchTypeOK'
    BY <1>4, TypeParts DEF Restart, FetchTypeOK, FetchPlaces, Answers, MaxRetries
  <2>2. WordsOK' BY <1>4, MaxTasksAssumption DEF Restart, WordsOK, Places
  <2>3. FlagsOK' BY <1>4, Zenon DEF Restart, FlagsOK
  <2> QED BY <2>1, <2>2, <2>3, TypePartsNext
<1>5. CASE UNCHANGED vars
  <2>1. FetchTypeOK' BY <1>5, TypeParts DEF vars, FetchTypeOK
  <2>2. WordsOK' BY <1>5, TypeParts DEF vars, WordsOK
  <2>3. FlagsOK' BY <1>5, TypeParts, Zenon DEF vars, FlagsOK
  <2> QED BY <2>1, <2>2, <2>3, TypePartsNext
<1> QED BY <1>1, <1>2, <1>3, <1>4, <1>5 DEF Next, OutsideStep

-----------------------------------------------------------------------------
(* Where a scraper is, and what its call knows.                            *)

CallPlaces == {"chassis", "discover", "task"}

\* A call is under way, or its answer not yet taken, only where the exporter
\* waits for one.
CallOK(s) ==
  /\ fpc[s] # "idle" \/ answer[s] # "none" => spc[s] \in CallPlaces
  /\ fpc[s] # "idle" => answer[s] = "none"

\* From the refresh on the call holds what it has read from the vault.
RefreshOK(s) ==
  /\ fpc[s] \in {"set", "rebuild", "redo"} => got[s] # NoCred
  /\ UseVault /\ answer[s] = "invalid" => got[s] # NoCred

CallInv == \A s \in Scrapers : CallOK(s) /\ RefreshOK(s)

Inv == TypeOK /\ TaskInPool /\ CallInv

LEMMA InitInv == Init => Inv
<1> SUFFICES ASSUME Init PROVE Inv
  OBVIOUS
<1>1. TypeOK BY InitType
<1>2. TaskInPool BY DEF TaskInPool, Init
<1>3. CallInv BY DEF CallInv, CallOK, RefreshOK, Init, FetchInit
<1> QED BY <1>1, <1>2, <1>3 DEF Inv

\* One scraper's step leaves the others' places and calls alone.
SameFor(u) ==
  /\ sources' = sources
  /\ spc'[u] = spc[u] /\ done'[u] = done[u]
  /\ fpc'[u] = fpc[u] /\ answer'[u] = answer[u] /\ got'[u] = got[u]

\* What a scraper's own step establishes for itself.
OwnInv(s) ==
  /\ CallOK(s)
  /\ RefreshOK(s)
  /\ done[s] \in Nat
  /\ spc[s] = "task" => done[s] < MaxTasks

LEMMA HandlerInv ==
  ASSUME Inv, NEW s \in Scrapers, HandlerStep(s)
  PROVE  OwnInv(s)' /\ \A u \in Scrapers \ {s} : SameFor(u)
<1> FetchTypeOK /\ WordsOK /\ OwnInv(s)
  BY TypeParts DEF Inv, TaskInPool, CallInv, OwnInv
<1> USE TargetAssumption, MaxTasksAssumption
    DEF FetchTypeOK, WordsOK, OwnInv, CallOK, RefreshOK, CallPlaces, SameFor
<1>1. CASE Start(s) BY <1>1 DEF Start
<1>2. CASE RunScript(s) BY <1>2 DEF RunScript
<1>3. CASE SetFromScript(s) BY <1>3 DEF SetFromScript
<1>4. CASE CheckCache(s) BY <1>4 DEF CheckCache
<1>5. ASSUME NEW c \in Creds \cup {NoCred}, ReadVault(s, c)
      PROVE  OwnInv(s)' /\ \A u \in Scrapers \ {s} : SameFor(u)
  BY <1>5 DEF ReadVault
<1>6. CASE SetFromVault(s) BY <1>6 DEF SetFromVault
<1>7. CASE New(s) BY <1>7 DEF New
<1>8. CASE ChassisAnswered(s) BY <1>8 DEF ChassisAnswered, IgnoreRejected
<1>9. CASE DiscoverAnswered(s) BY <1>9 DEF DiscoverAnswered
<1>10. CASE Collect(s) BY <1>10 DEF Collect
<1>11. CASE RunTask(s) BY <1>11 DEF RunTask
<1>12. CASE TaskAnswered(s) BY <1>12 DEF TaskAnswered
<1>13. CASE Scan(s) BY <1>13 DEF Scan
<1> QED BY <1>1, <1>2, <1>3, <1>4, <1>5, <1>6, <1>7, <1>8, <1>9, <1>10, <1>11,
           <1>12, <1>13 DEF HandlerStep

LEMMA FetchInv ==
  ASSUME Inv, NEW s \in Scrapers, CallStep(s)
  PROVE  OwnInv(s)' /\ \A u \in Scrapers \ {s} : SameFor(u)
<1> FetchTypeOK /\ WordsOK /\ OwnInv(s)
  BY TypeParts DEF Inv, TaskInPool, CallInv, OwnInv
<1> UNCHANGED scrapeVars
  BY DEF CallStep
<1> USE TargetAssumption, MaxTasksAssumption, ModeAssumption
    DEF FetchTypeOK, WordsOK, OwnInv, CallOK, RefreshOK, CallPlaces, SameFor
<1>1. CASE Build(s) BY <1>1 DEF Build
<1>2. ASSUME NEW r \in {"2xx", "401", "404", "other", "failed"}, Respond(s, r)
      PROVE  OwnInv(s)' /\ \A u \in Scrapers \ {s} : SameFor(u)
  BY <1>2 DEF Respond, Rejected
<1>3. CASE Retry404(s) BY <1>3 DEF Retry404, StillMissing
<1>4. CASE DeleteCached(s) BY <1>4 DEF DeleteCached
<1>5. ASSUME NEW c \in Creds \cup {NoCred}, Refresh(s, c)
      PROVE  OwnInv(s)' /\ \A u \in Scrapers \ {s} : SameFor(u)
  BY <1>5 DEF Refresh
<1>6. CASE SetRefreshed(s) BY <1>6 DEF SetRefreshed
<1>7. CASE Rebuild(s) BY <1>7 DEF Rebuild
<1>8. CASE Redo(s) BY <1>8 DEF Redo
<1> QED BY <1>1, <1>2, <1>3, <1>4, <1>5, <1>6, <1>7, <1>8 DEF FetchStep, CallStep

\* The flags of a process are those of the ones before it.
LEMMA SourcesKept == Inv /\ [Next]_vars => sources' = sources
<1> SUFFICES ASSUME Inv, [Next]_vars PROVE sources' = sources
  OBVIOUS
<1>1. ASSUME NEW s \in Scrapers, HandlerStep(s) PROVE sources' = sources
  BY <1>1 DEF HandlerStep, Start, RunScript, SetFromScript, CheckCache, ReadVault,
              SetFromVault, New, ChassisAnswered, DiscoverAnswered, Collect, RunTask,
              TaskAnswered, Scan
<1>2. ASSUME NEW s \in Scrapers, FetchStep(s) PROVE sources' = sources
  BY <1>2 DEF FetchStep, Build, Respond, Retry404, DeleteCached, Refresh, SetRefreshed,
              Rebuild, Redo
<1>3. CASE OutsideStep \/ UNCHANGED vars
  BY <1>3 DEF OutsideStep, WorldStep, RotateDevice, RotateSecret, RemoveHost, Restart, vars
<1> QED BY <1>1, <1>2, <1>3 DEF Next, ScraperStep, CallStep

LEMMA InvStep == Inv /\ [Next]_vars => Inv'
<1> SUFFICES ASSUME Inv, [Next]_vars PROVE Inv'
  OBVIOUS
<1>1. TypeOK' BY TypeStep DEF Inv
<1>2. (TaskInPool /\ CallInv)'
  <2>1. ASSUME NEW s \in Scrapers, ScraperStep(s) PROVE (TaskInPool /\ CallInv)'
    <3>1. OwnInv(s)' /\ \A u \in Scrapers \ {s} : SameFor(u)
      BY <2>1, HandlerInv, FetchInv DEF ScraperStep
    <3> QED
      BY <3>1 DEF Inv, TaskInPool, CallInv, OwnInv, CallOK, RefreshOK, SameFor
  <2>2. CASE (OutsideStep /\ ~Restart) \/ UNCHANGED vars
    BY <2>2 DEF OutsideStep, WorldStep, RotateDevice, RotateSecret, RemoveHost, vars,
                Inv, TaskInPool, CallInv, CallOK, RefreshOK
  <2>3. CASE Restart
    BY <2>3, MaxTasksAssumption DEF Restart, Inv, TaskInPool, CallInv, CallOK, RefreshOK
  <2> QED BY <2>1, <2>2, <2>3 DEF Next
<1> QED BY <1>1, <1>2 DEF Inv

LEMMA SpecInv == Spec => []Inv
BY InitInv, InvStep, PTL DEF Spec

\* Every variable keeps its type: the retry count stays below its limit and no
\* task is run that the pool does not have.  (util.go:62-71, pool.go:69-72)
THEOREM ScrapeTypeOK == Spec => []TypeOK
<1>1. Inv => TypeOK BY DEF Inv
<1> QED BY <1>1, SpecInv, PTL

\* With a vault, a call that reports invalid credentials has read the latest
\* ones first.  (util.go:75-76)
THEOREM ScrapeInvalidOnlyAfterRefresh == Spec => []InvalidOnlyAfterRefresh
<1>1. Inv => InvalidOnlyAfterRefresh
  BY DEF Inv, CallInv, RefreshOK, InvalidOnlyAfterRefresh
<1> QED BY <1>1, SpecInv, PTL

-----------------------------------------------------------------------------
(* Credentials from a script only.                                         *)

\* Where a scrape has not yet stored what its script returned.
BeforeScript == {"idle", "script", "scriptset"}

\* Without a vault nothing is ever read from it nor deleted for it; what a scrape
\* holds, and what it sends, is the script's; and from the moment it has stored
\* its result the cache has an entry for its target, if perhaps not its own.
ScriptOK(s) ==
  /\ spc[s] \notin {"vault", "vaultset"}
  /\ fpc[s] \notin {"delete", "lookup", "set", "rebuild", "redo"}
  /\ spc[s] = "scriptset" => got[s] \in ScriptCreds
  /\ spc[s] \notin BeforeScript => cache[TargetOf[s]] \in ScriptCreds
  /\ fpc[s] \notin {"idle", "build"} => req[s] \in ScriptCreds

ScriptInv ==
  /\ \A t \in Targets : secret[t] \in ScriptCreds
  /\ \A s \in Scrapers : ScriptOK(s)

ScriptOnlyInv == ScriptOnly => ScriptInv

\* What a scraper's step may do to the others: an entry of the cache is only ever
\* replaced by another of the script's.
Kept(s) ==
  /\ UNCHANGED secret
  /\ \A t \in Targets : cache'[t] = cache[t] \/ cache'[t] \in ScriptCreds
  /\ \A u \in Scrapers \ {s} : req'[u] = req[u]

LEMMA HandlerScript ==
  ASSUME Inv, ScriptOnly, ScriptInv, NEW s \in Scrapers, HandlerStep(s)
  PROVE  ScriptOK(s)' /\ Kept(s)
<1> FetchTypeOK /\ WordsOK /\ CallOK(s) /\ ScriptOK(s) /\ secret[TargetOf[s]] \in ScriptCreds
  BY TypeParts, TargetAssumption DEF Inv, CallInv, ScriptInv
<1> USE TargetAssumption
    DEF FetchTypeOK, WordsOK, CallOK, CallPlaces, ScriptOnly, ScriptOK, BeforeScript, Kept
<1>1. CASE Start(s) BY <1>1 DEF Start
<1>2. CASE RunScript(s) BY <1>2 DEF RunScript
<1>3. CASE SetFromScript(s) BY <1>3 DEF SetFromScript
<1>4. CASE CheckCache(s) BY <1>4 DEF CheckCache
<1>5. ASSUME NEW c \in Creds \cup {NoCred}, ReadVault(s, c)
      PROVE  ScriptOK(s)' /\ Kept(s)
  BY <1>5 DEF ReadVault
<1>6. CASE SetFromVault(s) BY <1>6 DEF SetFromVault
<1>7. CASE New(s) BY <1>7 DEF New
<1>8. CASE ChassisAnswered(s) BY <1>8 DEF ChassisAnswered, IgnoreRejected
<1>9. CASE DiscoverAnswered(s) BY <1>9 DEF DiscoverAnswered
<1>10. CASE Collect(s) BY <1>10 DEF Collect
<1>11. CASE RunTask(s) BY <1>11 DEF RunTask
<1>12. CASE TaskAnswered(s) BY <1>12 DEF TaskAnswered
<1>13. CASE Scan(s) BY <1>13 DEF Scan
<1> QED BY <1>1, <1>2, <1>3, <1>4, <1>5, <1>6, <1>7, <1>8, <1>9, <1>10, <1>11,
           <1>12, <1>13 DEF HandlerStep

LEMMA FetchScript ==
  ASSUME Inv, ScriptOnly, ScriptInv, NEW s \in Scrapers, CallStep(s)
  PROVE  ScriptOK(s)' /\ Kept(s)
<1> FetchTypeOK /\ CallOK(s) /\ ScriptOK(s) /\ UNCHANGED spc
  BY TypeParts DEF Inv, CallInv, ScriptInv, CallStep
<1>0. NoCred \notin ScriptCreds
  BY CredAssumption, MaxCredAssumption DEF Creds, Versions, ScriptCreds
<1> USE TargetAssumption
    DEF FetchTypeOK, CallOK, CallPlaces, ScriptOnly, ScriptOK, BeforeScript, Kept
<1>1. CASE Build(s) BY <1>0, <1>1 DEF Build, RequestCred
<1>2. ASSUME NEW r \in {"2xx", "401", "404", "other", "failed"}, Respond(s, r)
      PROVE  ScriptOK(s)' /\ Kept(s)
  BY <1>2 DEF Respond, Rejected
<1>3. CASE Retry404(s) BY <1>3 DEF Retry404, StillMissing
<1>4. CASE DeleteCached(s) BY <1>4 DEF DeleteCached
<1>5. ASSUME NEW c \in Creds \cup {NoCred}, Refresh(s, c)
      PROVE  ScriptOK(s)' /\ Kept(s)
  BY <1>5 DEF Refresh
<1>6. CASE SetRefreshed(s) BY <1>6 DEF SetRefreshed
<1>7. CASE Rebuild(s) BY <1>7 DEF Rebuild
<1>8. CASE Redo(s) BY <1>8 DEF Redo
<1> QED BY <1>1, <1>2, <1>3, <1>4, <1>5, <1>6, <1>7, <1>8 DEF FetchStep, CallStep

LEMMA SpecScriptInv == Spec => []ScriptOnlyInv
<1>1. Init => ScriptOnlyInv
  BY MaxCredAssumption
     DEF Init, FetchInit, ScriptOnlyInv, ScriptInv, ScriptOK, BeforeScript, ScriptOnly,
         ScriptCreds, FirstCred
<1>2. Inv /\ ScriptOnlyInv /\ [Next]_vars => ScriptOnlyInv'
  <2> SUFFICES ASSUME Inv, ScriptOnlyInv, [Next]_vars, ScriptOnly' PROVE ScriptInv'
    BY DEF ScriptOnlyInv
  <2>0. ScriptOnly /\ ScriptInv
    <3>1. sources' = sources
      BY SourcesKept DEF Inv
    <3> QED BY <3>1 DEF ScriptOnly, ScriptOnlyInv
  <2>1. ASSUME NEW s \in Scrapers, ScraperStep(s) PROVE ScriptInv'
    <3>1. ScriptOK(s)' /\ Kept(s)
      BY <2>0, <2>1, HandlerScript, FetchScript DEF ScraperStep
    <3>2. \A u \in Scrapers \ {s} : SameFor(u)
      BY <2>1, HandlerInv, FetchInv DEF ScraperStep
    <3>3. ASSUME NEW u \in Scrapers \ {s} PROVE ScriptOK(u)'
      <4>1. ScriptOK(u) BY <2>0 DEF ScriptInv
      <4> QED BY <3>1, <3>2, <4>1, TargetAssumption DEF Kept, SameFor, ScriptOK
    <3> QED BY <2>0, <3>1, <3>3 DEF ScriptInv, Kept
  <2>2. CASE WorldStep /\ UNCHANGED <<ignored, crashed, scrapeVars>>
    <3>1. \A t \in Targets : secret'[t] \in ScriptCreds
      BY <2>0, <2>2, TypeParts, MaxCredAssumption
         DEF WorldStep, RotateDevice, RotateSecret, Inv, FetchTypeOK, Versions,
             ScriptInv, ScriptCreds
    <3>2. UNCHANGED <<cache, fetchVars, spc>>
      BY <2>2 DEF WorldStep, RotateDevice, RotateSecret
    <3> QED BY <2>0, <3>1, <3>2 DEF ScriptInv, ScriptOK
  <2>3. CASE (\E t \in Targets : RemoveHost(t)) \/ UNCHANGED vars
    BY <2>0, <2>3 DEF RemoveHost, vars, ScriptInv, ScriptOK
  <2>4. CASE Restart
    BY <2>0, <2>4 DEF Restart, ScriptInv, ScriptOK, BeforeScript
  <2> QED BY <2>1, <2>2, <2>3, <2>4 DEF Next, OutsideStep
<1> QED BY <1>1, <1>2, SpecInv, PTL DEF Spec

\* With a script and no vault no request is ever sent with the static user, for
\* any number of overlapping scrapes of a target, removals from the ignored list,
\* crashes and restarts.  (scrape.go:123-128, 180, util.go:74-88)
THEOREM ScrapeScriptCredentialUsed == Spec => []ScriptCredentialUsed
<1>1. ScriptOnlyInv => ScriptCredentialUsed
  BY DEF ScriptOnlyInv, ScriptInv, ScriptOK, ScriptCredentialUsed
<1> QED BY <1>1, SpecScriptInv, PTL
=============================================================================
