------------------------- MODULE FaucetClientProofs -------------------------
(***************************************************************************)
(* Proofs about FaucetClient, for every number of retries.                 *)
(***************************************************************************)
EXTENDS FaucetClient, TLAPS

(***************************************************************************)
(* Messages of different kinds differ, and each names its session.         *)
(***************************************************************************)
LEMMA MessagesDiffer ==
    ASSUME NEW s, NEW t, NEW c, NEW st, NEW i
    PROVE  /\ StartRequest(s) # StartAnswer(t, c)
           /\ StartRequest(s) # ClaimRequest(t)
           /\ StartRequest(s) # ClaimAnswer(t, st, i)
           /\ StartAnswer(s, c) # ClaimRequest(t)
           /\ StartAnswer(s, c) # ClaimAnswer(t, st, i)
           /\ ClaimRequest(s) # ClaimAnswer(t, st, i)
  <1>1. /\ StartRequest(s).kind = "startSession"
        /\ \A x, d : StartAnswer(x, d).kind = "sessionStarted"
        /\ \A x : ClaimRequest(x).kind = "claimReward"
        /\ ClaimAnswer(t, st, i).kind = "rewardClaimed"
    BY DEF StartRequest, StartAnswer, ClaimRequest, ClaimAnswer
  <1> QED
    BY <1>1

LEMMA MessagesInjective ==
    /\ \A s, t : StartRequest(s) = StartRequest(t) => s = t
    /\ \A s, t : ClaimRequest(s) = ClaimRequest(t) => s = t
    /\ \A s, t, c, d : StartAnswer(s, c) = StartAnswer(t, d) => s = t /\ c = d
    /\ \A s, t, x, y, i, j :
         ClaimAnswer(s, x, i) = ClaimAnswer(t, y, j) => s = t /\ x = y /\ i = j
  <1>1. \A s : StartRequest(s).session = s
    BY DEF StartRequest
  <1>2. \A s : ClaimRequest(s).session = s
    BY DEF ClaimRequest
  <1>3. \A s, c : StartAnswer(s, c).session = s /\ StartAnswer(s, c).claimable = c
    BY DEF StartAnswer
  <1>4. \A s, x, i : /\ ClaimAnswer(s, x, i).session = s
                     /\ ClaimAnswer(s, x, i).state = x
                     /\ ClaimAnswer(s, x, i).idx = i
    BY DEF ClaimAnswer
  <1>5. \A s, t : StartRequest(s) = StartRequest(t) => s = t
    BY <1>1
  <1>6. \A s, t : ClaimRequest(s) = ClaimRequest(t) => s = t
    BY <1>2
  <1>7. \A s, t, c, d : StartAnswer(s, c) = StartAnswer(t, d) => s = t /\ c = d
    BY <1>3
  <1>8. \A s, t, x, y, i, j :
          ClaimAnswer(s, x, i) = ClaimAnswer(t, y, j) => s = t /\ x = y /\ i = j
    BY <1>4
  <1> QED
    BY <1>5, <1>6, <1>7, <1>8

LEMMA AttemptsFacts ==
    /\ TotalAttempts \in Nat /\ TotalAttempts >= 2
    /\ 1 \in Attempts
    /\ Attempts \subseteq Nat
    /\ NoSession \notin Sessions
    /\ Sessions = Attempts
  BY MaxRetriesAssumption
     DEF TotalAttempts, Attempts, Sessions, NoSession

\* The message sets, in the form the steps need.
LEMMA MessageTypes ==
    /\ \A a \in Attempts : StartRequest(a) \in Messages /\ ClaimRequest(a) \in Messages
    /\ \A a \in Attempts, c \in BOOLEAN : StartAnswer(a, c) \in Messages
    /\ \A a \in Attempts, st \in Claimed, i \in BOOLEAN : ClaimAnswer(a, st, i) \in Messages
  BY DEF Messages, Sessions

(***************************************************************************)
(* The inductive invariant.                                                *)
(***************************************************************************)
\* The call has no session exactly until the first startSession answer.
SessionKnown == pc \in Locations \ {"start", "starting", "backoff"}

Phase ==
    /\ result.session \in {NoSession, attempt}
    /\ SessionKnown \/ result.session = NoSession
    /\ pc # "done" => /\ result.failure = "none"
                      /\ SessionKnown => result.session = attempt
    /\ pc = "done" => \/ result.session = attempt
                      \/ result.failure \in {"exhausted", "cancelled"}
    /\ result.failure \in {"exhausted", "cancelled"}
         => result.session = NoSession
    /\ result.confirmed => result.success
    /\ result.success => pc = "done" /\ result.failure = "none"

\* Only the session the call knows is ever claimed, and only after SendClaim.
Claims ==
    \A s \in Sessions :
        ClaimMade(s) => s = result.session /\ pc # "claim"

\* A session comes into being once, from the one request of its attempt.
Starts ==
    /\ \A s \in Sessions :
        /\ StartRequest(s) \in net => server[s] = "absent"
        /\ \A c \in BOOLEAN : StartAnswer(s, c) \in net => server[s] # "absent"
        /\ s > attempt \/ (s = attempt /\ pc \in {"start", "backoff"})
             => server[s] = "absent" /\ StartRequest(s) \notin net
    /\ result.session # NoSession => server[result.session] # "absent"

\* What the call has been told of a claim is still so at the faucet.
Verdicts ==
    /\ \A s \in Sessions, st \in Claimed, i \in BOOLEAN :
        ClaimAnswer(s, st, i) \in net
          => /\ server[s] \in Claimed
             /\ st = "confirmed" => server[s] = "confirmed"
    /\ pc = "details" => server[result.session] = "confirmed"
    /\ result.confirmed => server[result.session] = "confirmed"
    /\ result.success => /\ server[result.session] \in Claimed
                         /\ wait => result.confirmed
    /\ result.failure = "rejected"
         => server[result.session] \in {"failed", "void"}

IInv == TypeOK /\ Phase /\ Claims /\ Starts /\ Verdicts

LEMMA InvInit == Init => IInv
  <1> SUFFICES ASSUME Init PROVE IInv
    OBVIOUS
  <1>1. TypeOK
    BY AttemptsFacts
       DEF Init, TypeOK, Locations, Results, Failures, ServerStates, Unclaimed
  <1>2. Phase /\ Claims /\ Starts /\ Verdicts
    BY AttemptsFacts
       DEF Init, Phase, SessionKnown, Locations, Claims, ClaimMade, Starts,
           Verdicts, Claimed, InProgress, NoSession
  <1> QED
    BY <1>1, <1>2 DEF IInv

\* Every step of the call, of its context and of the faucet keeps IInv.
LEMMA InvNext == IInv /\ [Next]_vars => IInv'
  <1> SUFFICES ASSUME IInv, [Next]_vars PROVE IInv'
    OBVIOUS
  <1> USE AttemptsFacts, MessagesDiffer, MessagesInjective, MessageTypes
      DEF IInv, TypeOK, Phase, SessionKnown, Claims, ClaimMade, Starts, Verdicts,
          Locations, Results, Failures, ServerStates, Unclaimed, InProgress,
          Claimed, NoSession
  <1> wait' = wait
    BY DEF Next, vars
  <1>a. ASSUME AttemptFails, pc \in {"start", "starting"},
               UNCHANGED <<ctxDone, net, server>>
        PROVE  IInv'
    <2>1. CASE attempt < TotalAttempts
      <3>1. /\ pc' = "backoff"
            /\ attempt' = attempt + 1
            /\ UNCHANGED <<result, ctxDone, net, server>>
        BY <1>a, <2>1 DEF AttemptFails
      <3>2. attempt' \in Attempts
        BY <2>1, <3>1 DEF Attempts
      <3>3. TypeOK'
        BY <3>1, <3>2
      <3>4. Phase' /\ Claims' /\ Verdicts'
        BY <3>1, <1>a
      <3>5. Starts'
        BY <3>1, <1>a DEF Attempts
      <3> QED
        BY <3>3, <3>4, <3>5
    <2>2. CASE ~(attempt < TotalAttempts)
      <3>1. /\ pc' = "done"
            /\ result' = [result EXCEPT !.failure = "exhausted"]
            /\ UNCHANGED <<attempt, ctxDone, net, server>>
        BY <1>a, <2>2 DEF AttemptFails, ReturnFailure
      <3>2. TypeOK'
        BY <3>1
      <3>3. Phase' /\ Claims'
        BY <3>1, <1>a
      <3>4. Starts' /\ Verdicts'
        BY <3>1, <1>a
      <3> QED
        BY <3>2, <3>3, <3>4
    <2> QED
      BY <2>1, <2>2
  <1>1. CASE SendStart
    <2>1. CASE ctxDone
      BY <1>1, <1>a, <2>1 DEF SendStart
    <2>2. CASE ~ctxDone
      BY <1>1, <2>2 DEF SendStart
    <2> QED
      BY <2>1, <2>2
  <1>2. CASE StartFails
    BY <1>2, <1>a DEF StartFails
  <1>3. CASE StartAnswered
    BY <1>3 DEF StartAnswered
  <1>4. CASE SendClaim
    BY <1>4 DEF SendClaim, Repoll
  <1>5. CASE ClaimFails
    BY <1>5 DEF ClaimFails, Repoll
  <1>6. CASE ClaimAnswered
    <2> PICK state \in Claimed, idx \in BOOLEAN :
             /\ pc = "claiming"
             /\ ClaimAnswer(result.session, state, idx) \in net
             /\ net' = net \ {ClaimAnswer(result.session, state, idx)}
             /\ HandleClaim(state, idx)
             /\ UNCHANGED <<attempt, ctxDone, server>>
      BY <1>6 DEF ClaimAnswered
    <2>1. /\ result.session = attempt
          /\ server[attempt] \in Claimed
          /\ state = "confirmed" => server[attempt] = "confirmed"
      OBVIOUS
    <2>2. CASE UNCHANGED result /\ pc' \in {"confirming", "repoll"}
      BY <2>2
    <2>3. CASE UNCHANGED result /\ pc' = "details" /\ state = "confirmed"
      BY <2>1, <2>3
    <2>4. CASE /\ ~wait /\ pc' = "done"
               /\ result' = [result EXCEPT !.success = TRUE]
      BY <2>1, <2>4
    <2>5. CASE state = "confirmed" /\ ReturnConfirmed
      BY <2>1, <2>5 DEF ReturnConfirmed
    <2> QED
      BY <2>2, <2>3, <2>4, <2>5 DEF HandleClaim
  <1>7. CASE FetchDetails
    BY <1>7 DEF FetchDetails, ReturnConfirmed
  <1>8. CASE PollConfirmed
    BY <1>8 DEF PollConfirmed, ReturnConfirmed
  <1>9. CASE PollRejected
    BY <1>9 DEF PollRejected, ConfirmationFails, Repoll, ReturnFailure
  <1>10. CASE ConfirmationTimesOut
    BY <1>10 DEF ConfirmationTimesOut, ConfirmationFails, Repoll, ReturnFailure
  <1>11. CASE BackoffEnds
    BY <1>11 DEF BackoffEnds, ReturnFailure
  <1>12. CASE ContextExpires
    BY <1>12 DEF ContextExpires
  <1>13. ASSUME NEW s \in Sessions, ServeStart(s) PROVE IInv'
    BY <1>13 DEF ServeStart
  <1>14. ASSUME NEW s \in Sessions, ServeClaim(s) PROVE IInv'
    BY <1>14 DEF ServeClaim
  <1>15. ASSUME NEW s \in Sessions, ServeProgress(s) PROVE IInv'
    BY <1>15 DEF ServeProgress
  <1>16. CASE UNCHANGED vars
    BY <1>16 DEF vars, progress
  <1> QED
    BY <1>1, <1>2, <1>3, <1>4, <1>5, <1>6, <1>7, <1>8, <1>9, <1>10, <1>11, <1>12, <1>13, <1>14, <1>15, <1>16
       DEF Next, CallStep, FaucetStep, Terminated, vars

LEMMA Invariance == Spec => []IInv
  BY InvInit, InvNext, PTL DEF Spec

(***************************************************************************)
(* The safety properties.                                                  *)
(***************************************************************************)
\* Every state of a call is of the declared type, for any retry budget.
THEOREM TypeCorrect == Spec => []TypeOK
  <1>1. IInv => TypeOK
    BY DEF IInv
  <1> QED
    BY Invariance, <1>1, PTL

\* The guarantee the re-poll in FundAccountWithRetriesAndOptionsAndContext is
\* there for: whatever is lost, late or retried, one call claims one session.
THEOREM OneClaimPerCall == Spec => []NoDuplicateFunding
  <1>1. IInv => NoDuplicateFunding
    BY DEF IInv, Claims, NoDuplicateFunding
  <1> QED
    BY Invariance, <1>1, PTL

\* FaucetResult.Success and .Confirmed mean what the scheduler takes them for.
THEOREM SuccessIsBacked == Spec => []SuccessIsPaid
  <1>1. IInv => SuccessIsPaid
    <2> SUFFICES ASSUME IInv, result.success PROVE SuccessIsPaid
      BY DEF SuccessIsPaid
    <2>1. result.session = attempt /\ attempt # NoSession
      BY AttemptsFacts DEF IInv, TypeOK, Phase, SessionKnown
    <2> QED
      BY <2>1 DEF IInv, Verdicts, SuccessIsPaid
  <1> QED
    BY Invariance, <1>1, PTL

\* An error without a session, or about a rejected claim, is the last word.
THEOREM FailureIsLastWord == Spec => []FailureIsFinal
  <1>1. IInv => FailureIsFinal
    BY AttemptsFacts DEF IInv, Phase, Claims, Verdicts, FailureIsFinal
  <1> QED
    BY Invariance, <1>1, PTL

(***************************************************************************)
(* The call implements FundingCall.                                        *)
(***************************************************************************)
\* What a session's state means for the payout.
Fate(state) ==
    IF state = "confirmed" THEN "paid"
    ELSE IF state \in InProgress THEN "committed"
    ELSE IF state = "failed" THEN "refused"
    ELSE "none"

\* Because at most one session is claimed, its state alone is the payout.
PayoutFollowsSession ==
    /\ result.session = NoSession => payout = "none"
    /\ result.session # NoSession => payout = Fate(server[result.session])

LEMMA PayoutIsFate == IInv => PayoutFollowsSession
  <1> SUFFICES ASSUME IInv PROVE PayoutFollowsSession
    OBVIOUS
  <1>1. \A s \in Sessions : server[s] \in Claimed => s = result.session
    BY DEF IInv, Claims, ClaimMade
  <1>2. CASE result.session = NoSession
    <2>1. \A s \in Sessions : server[s] \notin Claimed
      BY <1>1, <1>2, AttemptsFacts
    <2> QED
      BY <1>2, <2>1 DEF payout, PayoutFollowsSession, Claimed, InProgress
  <1>3. CASE result.session # NoSession
    <2>1. result.session \in Sessions
      BY <1>3 DEF IInv, TypeOK, Results
    <2> QED
      BY <1>1, <1>3, <2>1 DEF payout, PayoutFollowsSession, Fate, Claimed, InProgress
  <1> QED
    BY <1>2, <1>3

LEMMA RefinementInit == Init => Abstract!Init
  BY DEF Init, Abstract!Init, outcome, payout, InProgress

\* A step of the call leaves the payout alone and either keeps the caller
\* waiting or returns one of the outcomes the contract allows.
LEMMA CallRefines ==
    ASSUME IInv, IInv', UNCHANGED server,
           \/ pc' # "done" /\ pc # "done"
           \/ pc # "done" /\ pc' = "done"
           \/ UNCHANGED <<pc, result>>
    PROVE  [Abstract!Next]_(Abstract!callVars)
  <1>1. payout' = payout
    BY DEF payout
  <1>2. CASE \/ pc' # "done" /\ pc # "done"
             \/ UNCHANGED <<pc, result>>
    <2>1. outcome' = outcome
      BY <1>2 DEF outcome
    <2> QED
      BY <1>1, <2>1 DEF Abstract!callVars
  <1>3. CASE pc # "done" /\ pc' = "done"
    <2>1. outcome = "pending"
      BY <1>3 DEF outcome
    <2>2. \/ outcome' = "paid" /\ result'.confirmed
          \/ outcome' = "queued" /\ result'.success
          \/ outcome' = "clean" /\ result'.session = NoSession
          \/ outcome' = "unknown"
      BY <1>3 DEF outcome
    <2>p. PayoutFollowsSession'
      BY PayoutIsFate, PTL
    <2>3. /\ result'.session = NoSession => payout' = "none"
          /\ result'.session # NoSession
               => payout' = Fate(server'[result'.session])
      BY <2>p DEF PayoutFollowsSession
    <2>4. result'.success => /\ result'.session # NoSession
                             /\ server'[result'.session] \in Claimed
      BY AttemptsFacts DEF IInv, TypeOK, Phase, SessionKnown, Verdicts
    <2>5. result'.confirmed => /\ result'.success
                               /\ server'[result'.session] = "confirmed"
      BY DEF IInv, Phase, Verdicts
    <2>6. CASE outcome' = "paid" /\ result'.confirmed
      BY <1>1, <2>1, <2>3, <2>4, <2>5, <2>6
         DEF Fate, Abstract!Next, Abstract!Return
    <2>7. CASE outcome' = "queued" /\ result'.success
      BY <1>1, <2>1, <2>3, <2>4, <2>7
         DEF Fate, Claimed, InProgress, Abstract!Next, Abstract!Return
    <2>8. CASE outcome' = "clean" /\ result'.session = NoSession
      BY <1>1, <2>1, <2>3, <2>8 DEF Abstract!Next, Abstract!Return
    <2>9. CASE outcome' = "unknown"
      BY <1>1, <2>1, <2>9 DEF Abstract!Next, Abstract!Return
    <2> QED
      BY <2>2, <2>6, <2>7, <2>8, <2>9
  <1> QED
    BY <1>2, <1>3

\* A step of the faucet tells the caller nothing; it commits or settles the
\* one payout, or does nothing about it.
LEMMA FaucetRefines ==
    ASSUME IInv, IInv', UNCHANGED <<pc, result>>,
           NEW s \in Sessions, ServeStart(s) \/ ServeClaim(s) \/ ServeProgress(s)
    PROVE  [Abstract!Next]_(Abstract!callVars)
  <1>1. outcome' = outcome
    BY DEF outcome
  <1>2. PayoutFollowsSession /\ PayoutFollowsSession'
    BY PayoutIsFate, PTL
  <1>3. CASE result.session = NoSession \/ s # result.session
    <2>1. result.session # NoSession
            => server'[result.session] = server[result.session]
      BY <1>3 DEF ServeStart, ServeClaim, ServeProgress, IInv, TypeOK, Results
    <2>2. payout' = payout
      BY <1>2, <2>1 DEF PayoutFollowsSession
    <2> QED
      BY <1>1, <2>2 DEF Abstract!callVars
  <1>4. CASE s = result.session /\ result.session # NoSession
    <2>1. payout = Fate(server[s]) /\ payout' = Fate(server'[s])
      BY <1>2, <1>4 DEF PayoutFollowsSession
    <2>2. CASE ServeStart(s)
      BY <1>1, <1>4, <2>1, <2>2
         DEF ServeStart, IInv, TypeOK, Starts, Fate, InProgress,
             Abstract!callVars
    <2>3. CASE ServeClaim(s)
      <3>1. /\ server[s] = "claimable"
            /\ server'[s] \in Claimed
        BY <2>3 DEF ServeClaim, IInv, TypeOK
      <3>2. payout = "none" /\ payout' \in {"committed", "paid", "refused"}
        BY <2>1, <3>1 DEF Fate, Claimed, InProgress
      <3>3. outcome \in {"pending", "unknown"}
        BY <1>4, <3>1 DEF outcome, IInv, Phase, Verdicts, Claimed, InProgress
      <3> QED
        BY <1>1, <3>2, <3>3 DEF Abstract!Next, Abstract!Commit
    <2>4. CASE ServeProgress(s)
      <3>1. \/ server[s] = "claimable" /\ server'[s] = "void"
            \/ server[s] \in InProgress /\ server'[s] \in Claimed
        BY <2>4 DEF ServeProgress, IInv, TypeOK, Claimed, InProgress
      <3>2. \/ payout' = payout
            \/ payout = "committed" /\ payout' \in {"paid", "refused"}
        BY <2>1, <3>1 DEF Fate, Claimed, InProgress
      <3> QED
        BY <1>1, <3>2 DEF Abstract!Next, Abstract!Settle, Abstract!callVars
    <2> QED
      BY <2>2, <2>3, <2>4
  <1> QED
    BY <1>3, <1>4

LEMMA RefinementStep ==
    IInv /\ IInv' /\ [Next]_vars => [Abstract!Next]_(Abstract!callVars)
  <1> SUFFICES ASSUME IInv, IInv', [Next]_vars
               PROVE  [Abstract!Next]_(Abstract!callVars)
    OBVIOUS
  <1>1. CASE CallStep
    <2>1. UNCHANGED server /\ pc # "done"
      BY <1>1 DEF CallStep, SendStart, StartFails, StartAnswered, SendClaim,
           ClaimFails, ClaimAnswered, FetchDetails, PollConfirmed, PollRejected,
           ConfirmationTimesOut, ConfirmationFails, BackoffEnds
    <2> QED
      BY <2>1, CallRefines
  <1>2. CASE ContextExpires \/ UNCHANGED vars
    <2>1. UNCHANGED <<pc, result, server>>
      BY <1>2 DEF ContextExpires, vars, progress
    <2> QED
      BY <2>1, CallRefines
  <1>3. ASSUME NEW s \in Sessions,
               ServeStart(s) \/ ServeClaim(s) \/ ServeProgress(s)
        PROVE  [Abstract!Next]_(Abstract!callVars)
    <2>1. UNCHANGED <<pc, result>>
      BY <1>3 DEF ServeStart, ServeClaim, ServeProgress
    <2> QED
      BY <1>3, <2>1, FaucetRefines
  <1> QED
    BY <1>1, <1>2, <1>3 DEF Next, FaucetStep, Terminated, vars

\* Whatever the faucet and the network do, the call keeps its contract: one
\* payout at most, none after a clean failure, a paid one when it says so.
THEOREM Refinement == Spec => ImplementsFundingCall
  BY Invariance, RefinementInit, RefinementStep, PTL
     DEF Spec, ImplementsFundingCall, Abstract!Spec

=============================================================================
