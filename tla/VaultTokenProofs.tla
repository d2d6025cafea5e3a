-------------------------- MODULE VaultTokenProofs --------------------------
(***************************************************************************)
(* Proofs about the token and the shutdown, whatever tokens vault issues   *)
(* and whether or not the server may fail.                                 *)
(***************************************************************************)
EXTENDS VaultToken, TLAPS

\* A token that is valid is in the hands of its manager or, when it is not
\* renewable, has left the WaitGroup one too high for good.
ValidIsHeld == token = "valid" => rpc \in {"watch", "revoke"} \/ wg > Live

IInv == TypeOK /\ WgCoversLive /\ OneLoginAttempt /\ ValidIsHeld

-----------------------------------------------------------------------------

LEMMA IInvInit == Init => IInv
<1> SUFFICES ASSUME Init PROVE IInv
  OBVIOUS
<1>1. loggedIn \in BOOLEAN
  BY Zenon DEF Init
<1>2. TypeOK
  BY <1>1 DEF Init, TypeOK
<1>3. WgCoversLive /\ OneLoginAttempt /\ ValidIsHeld
  BY DEF Init, WgCoversLive, OneLoginAttempt, ValidIsHeld, Live, One
<1> QED BY <1>2, <1>3 DEF IInv

LEMMA TypeStep == TypeOK /\ [Next]_vars => TypeOK'
<1> SUFFICES ASSUME TypeOK, [Next]_vars PROVE TypeOK'
  OBVIOUS
<1>1. CASE RenewStep
  <2>1. loggedIn' \in BOOLEAN
    BY <1>1, Zenon DEF RenewStep, StopRenew, BeginLogin, LoginFails, LoginSucceeds,
       WatchStopped, RevokeToken, ReleaseWatch, TypeOK
  <2> QED
    BY <1>1, <2>1 DEF RenewStep, StopRenew, BeginLogin, LoginFails, LoginSucceeds,
       WatchStopped, RevokeToken, ReleaseWatch, TypeOK, mainVars
<1>2. CASE RetryAfterWait \/ WatchEnds \/ TokenExpires
  BY <1>2 DEF RetryAfterWait, WatchEnds, TokenExpires, TypeOK, mainVars
<1>3. CASE Signal \/ ServeFails \/ ServeStep
  BY <1>3 DEF Signal, ServeFails, ServeStep, ReportServeFailure, ServeReturns,
     TypeOK, renewVars
<1>4. CASE ShutdownStep
  BY <1>4 DEF ShutdownStep, BeginShutdown, CheckLoggedIn, SendLifecycle,
     SendDoneRenew, TypeOK, renewVars
<1>5. CASE UNCHANGED vars
  BY <1>5 DEF vars, TypeOK, renewVars, mainVars
<1> QED BY <1>1, <1>2, <1>3, <1>4, <1>5 DEF Next

\* The counter and the parties it counts change together.
LEMMA CountStep ==
  IInv /\ [Next]_vars => (WgCoversLive /\ OneLoginAttempt /\ ValidIsHeld)'
<1> SUFFICES ASSUME IInv, [Next]_vars
             PROVE  (WgCoversLive /\ OneLoginAttempt /\ ValidIsHeld)'
  OBVIOUS
<1> USE DEF IInv, TypeOK, WgCoversLive, OneLoginAttempt, ValidIsHeld, Live, One
<1>1. CASE StopRenew BY <1>1 DEF StopRenew, mainVars
<1>2. CASE BeginLogin BY <1>2 DEF BeginLogin, mainVars
<1>3. CASE LoginFails BY <1>3 DEF LoginFails, mainVars
<1>4. ASSUME NEW renewable \in Renewable, LoginSucceeds(renewable)
      PROVE  (WgCoversLive /\ OneLoginAttempt /\ ValidIsHeld)'
  BY <1>4 DEF LoginSucceeds, mainVars
<1>5. CASE WatchStopped BY <1>5 DEF WatchStopped, mainVars
<1>6. CASE RevokeToken BY <1>6 DEF RevokeToken, mainVars
<1>7. CASE ReleaseWatch BY <1>7 DEF ReleaseWatch, mainVars
<1>8. CASE RetryAfterWait BY <1>8 DEF RetryAfterWait, mainVars
<1>9. CASE WatchEnds BY <1>9 DEF WatchEnds, mainVars
<1>10. CASE TokenExpires BY <1>10 DEF TokenExpires, mainVars
<1>11. CASE Signal BY <1>11 DEF Signal, renewVars
<1>12. CASE ServeFails BY <1>12 DEF ServeFails, renewVars
<1>13. CASE ServeStep
  BY <1>13 DEF ServeStep, ReportServeFailure, ServeReturns, renewVars
<1>14. CASE ShutdownStep
  BY <1>14 DEF ShutdownStep, BeginShutdown, CheckLoggedIn, SendLifecycle,
     SendDoneRenew, renewVars
<1>15. CASE UNCHANGED vars BY <1>15 DEF vars, renewVars, mainVars
<1> QED BY <1>1, <1>2, <1>3, <1>4, <1>5, <1>6, <1>7, <1>8, <1>9, <1>10, <1>11,
           <1>12, <1>13, <1>14, <1>15 DEF Next, RenewStep

LEMMA TokenInvariant == Spec => []IInv
<1>1. IInv /\ [Next]_vars => IInv'
  BY TypeStep, CountStep DEF IInv
<1> QED BY <1>1, IInvInit, PTL DEF Spec

\* Every variable keeps its type: no channel ever holds more than it has room for.
THEOREM TokenTypeOK == Spec => []TypeOK
<1>1. IInv => TypeOK BY DEF IInv
<1> QED BY <1>1, TokenInvariant, PTL

\* main never returns while one of its goroutines or a token's manager works.
THEOREM TokenWgCoversLive == Spec => []WgCoversLive
<1>1. IInv => WgCoversLive BY DEF IInv
<1> QED BY <1>1, TokenInvariant, PTL

\* A send to the channel retry never blocks.
THEOREM TokenOneLoginAttempt == Spec => []OneLoginAttempt
<1>1. IInv => OneLoginAttempt BY DEF IInv
<1> QED BY <1>1, TokenInvariant, PTL

\* main does not return with a token that is still valid and that nothing has
\* tried to revoke.
THEOREM TokenRevokedBeforeExit == Spec => []RevokedBeforeExit
<1>1. IInv => RevokedBeforeExit
  BY DEF IInv, TypeOK, WgCoversLive, ValidIsHeld, RevokedBeforeExit, Live, One
<1> QED BY <1>1, TokenInvariant, PTL
=============================================================================
