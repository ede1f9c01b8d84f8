---------------------------- MODULE FaucetClient ----------------------------
(***************************************************************************)
(* One call of FundAccountWithRetriesAndOptionsAndContext, the operation   *)
(* the refund scheduler uses to top up an account (pkg/faucet/faucet.go),  *)
(* against a faucet it reaches over HTTP.                                  *)
(*                                                                         *)
(* A request that the client has given up on may still be under way, so    *)
(* the faucet may act on it after the client has moved on, and even after  *)
(* the call has returned.  The faucet keeps working on a claim whatever    *)
(* the client does.                                                        *)
(***************************************************************************)
EXTENDS Integers, FiniteSets

CONSTANT MaxRetries     \* FundingOptions.MaxRetries

ASSUME MaxRetriesAssumption == MaxRetries \in Int

\* A non-positive MaxRetries means 3; the first attempt is not a retry.
TotalAttempts == (IF MaxRetries <= 0 THEN 3 ELSE MaxRetries) + 1

Attempts == 1 .. TotalAttempts

\* A session is named by the attempt whose startSession created it.
Sessions == Attempts
NoSession == 0

VARIABLES
    wait,       \* FundingOptions.WaitForConfirmation
    pc,         \* where the call is
    attempt,    \* the loop variable, counted from 1
    result,     \* the FaucetResult and error the call builds
    ctxDone,    \* the caller's context is cancelled or past its deadline
    net,        \* requests to the faucet and its answers
    server      \* what the faucet knows of each session

progress == <<pc, attempt, result, ctxDone, net, server>>
vars == <<wait, progress>>

(***************************************************************************)
(* The faucet's view of a session: its status and claimStatus fields       *)
(* together.  "void" is finished without a claim status, "unsettled" is    *)
(* finished with a claim status the client does not know.                  *)
(***************************************************************************)
Unclaimed == {"absent", "refused", "claimable", "void"}
InProgress == {"queue", "processing", "unsettled"}
Claimed == InProgress \union {"confirmed", "failed"}
ServerStates == Unclaimed \union Claimed

Failures == {"none", "exhausted", "cancelled", "unconfirmed", "rejected"}

Results == [session : Sessions \union {NoSession}, success : BOOLEAN,
            confirmed : BOOLEAN, failure : Failures]

StartRequest(a) == [kind |-> "startSession", session |-> a]
StartAnswer(a, claimable) ==
    [kind |-> "sessionStarted", session |-> a, claimable |-> claimable]
ClaimRequest(s) == [kind |-> "claimReward", session |-> s]
ClaimAnswer(s, state, idx) ==
    [kind |-> "rewardClaimed", session |-> s, state |-> state, idx |-> idx]

Messages == {StartRequest(a) : a \in Attempts}
    \union {StartAnswer(a, c) : a \in Attempts, c \in BOOLEAN}
    \union {ClaimRequest(s) : s \in Sessions}
    \union {ClaimAnswer(s, state, idx) :
                s \in Sessions, state \in Claimed, idx \in BOOLEAN}

Locations == {"start", "starting", "claim", "claiming", "details",
              "confirming", "repoll", "backoff", "done"}

Init == /\ wait \in BOOLEAN
        /\ pc = "start"
        /\ attempt = 1
        /\ result = [session |-> NoSession, success |-> FALSE,
                     confirmed |-> FALSE, failure |-> "none"]
        /\ ctxDone = FALSE
        /\ net = {}
        /\ server = [s \in Sessions |-> "absent"]

(***************************************************************************)
(* How the call returns.                                                   *)
(***************************************************************************)
ReturnFailure(why) ==
    /\ pc' = "done"
    /\ result' = [result EXCEPT !.failure = why]

ReturnConfirmed ==
    /\ pc' = "done"
    /\ result' = [result EXCEPT !.success = TRUE, !.confirmed = TRUE]

\* Mutant: one attempt too many.
AttemptFailsUnbounded ==
    IF attempt <= TotalAttempts
    THEN pc' = "backoff" /\ attempt' = attempt + 1 /\ UNCHANGED result
    ELSE ReturnFailure("exhausted") /\ UNCHANGED attempt

\* An attempt that failed before it learnt of a session is tried again,
\* after a pause, while attempts are left.
AttemptFails ==
    IF attempt < TotalAttempts
    THEN pc' = "backoff" /\ attempt' = attempt + 1 /\ UNCHANGED result
    ELSE ReturnFailure("exhausted") /\ UNCHANGED attempt

\* FundAccountWithOptionsAndContext returned an error together with a
\* session: the session is polled once more and never replaced.
Repoll == pc' = "repoll" /\ UNCHANGED <<attempt, result>>

(***************************************************************************)
(* The call's steps.                                                       *)
(***************************************************************************)
SendStart ==
    /\ pc = "start"
    /\ IF ctxDone
       THEN AttemptFails /\ UNCHANGED net
       ELSE /\ pc' = "starting"
            /\ net' = net \union {StartRequest(attempt)}
            /\ UNCHANGED <<attempt, result>>
    /\ UNCHANGED <<ctxDone, server>>

\* A transport error, the HTTP timeout, the context, a status other than
\* 200, a malformed body or an empty session id.  The request stays in the
\* network: the faucet may have acted on it, or may do so later.
StartFails ==
    /\ pc = "starting"
    /\ AttemptFails
    /\ UNCHANGED <<ctxDone, net, server>>

StartAnswered ==
    /\ pc = "starting"
    /\ \E claimable \in BOOLEAN :
        /\ StartAnswer(attempt, claimable) \in net
        /\ net' = net \ {StartAnswer(attempt, claimable)}
        /\ pc' = IF claimable THEN "claim" ELSE "repoll"
        /\ result' = [result EXCEPT !.session = attempt]
    /\ UNCHANGED <<attempt, ctxDone, server>>

SendClaim ==
    /\ pc = "claim"
    /\ IF ctxDone
       THEN Repoll /\ UNCHANGED net
       ELSE /\ pc' = "claiming"
            /\ net' = net \union {ClaimRequest(result.session)}
            /\ UNCHANGED <<attempt, result>>
    /\ UNCHANGED <<ctxDone, server>>

\* Mutant: a lost claim is treated like a lost start, and tried again.
ClaimFailsRetried ==
    /\ pc = "claiming"
    /\ \/ /\ attempt < TotalAttempts
          /\ pc' = "backoff" /\ attempt' = attempt + 1
          /\ result' = [result EXCEPT !.session = NoSession]
       \/ /\ attempt = TotalAttempts
          /\ Repoll
    /\ UNCHANGED <<ctxDone, net, server>>

ClaimFails ==
    /\ pc = "claiming"
    /\ Repoll
    /\ UNCHANGED <<ctxDone, net, server>>

\* Mutant: a queued claim is a success also for a caller that waits.
HandleClaimNoWait(state, idx) ==
    \/ /\ state = "queue"
       /\ pc' = "done"
       /\ result' = [result EXCEPT !.success = TRUE]
    \/ /\ state = "confirmed"
       /\ ReturnConfirmed
    \/ /\ state \notin {"queue", "confirmed"}
       /\ pc' = "repoll"
       /\ UNCHANGED result

\* The switch on the claim's status.  A claim that is already settled as
\* confirmed is a success at once; its transaction details are fetched only
\* when the answer has a claim index.
HandleClaim(state, idx) ==
    \/ /\ state = "queue" /\ wait
       /\ pc' = "confirming"
       /\ UNCHANGED result
    \/ /\ state = "queue" /\ ~wait
       /\ pc' = "done"
       /\ result' = [result EXCEPT !.success = TRUE]
    \/ /\ state = "confirmed" /\ idx
       /\ pc' = "details"
       /\ UNCHANGED result
    \/ /\ state = "confirmed" /\ ~idx
       /\ ReturnConfirmed
    \/ /\ state \notin {"queue", "confirmed"}
       /\ pc' = "repoll"
       /\ UNCHANGED result

ClaimAnswered ==
    /\ pc = "claiming"
    /\ \E state \in Claimed, idx \in BOOLEAN :
        /\ ClaimAnswer(result.session, state, idx) \in net
        /\ net' = net \ {ClaimAnswer(result.session, state, idx)}
        /\ HandleClaim(state, idx)
    /\ UNCHANGED <<attempt, ctxDone, server>>

\* Best effort: an error here leaves the result without a transaction hash.
FetchDetails ==
    /\ pc = "details"
    /\ ReturnConfirmed
    /\ UNCHANGED <<attempt, ctxDone, net, server>>

\* Mutant: the call starts another session when the second wait fails.
ConfirmationFailsRetried(why) ==
    \/ pc = "confirming" /\ Repoll
    \/ pc = "repoll" /\ AttemptFails

\* A failed wait is an error of the attempt, so the session is polled once
\* more; when that second wait fails too the call gives up.
ConfirmationFails(why) ==
    \/ pc = "confirming" /\ Repoll
    \/ pc = "repoll" /\ ReturnFailure(why) /\ UNCHANGED attempt

\* A poll that fails, or that sees the claim in progress or a finished
\* session with an unknown claim status, changes nothing and is not a step.
\* "confirmed", "failed" and "void" are final, so reading the session when the
\* answer arrives tells the client no more than reading it when it was sent.
PollConfirmed ==
    /\ pc \in {"confirming", "repoll"}
    /\ ~ctxDone
    /\ server[result.session] = "confirmed"
    /\ ReturnConfirmed
    /\ UNCHANGED <<attempt, ctxDone, net, server>>

\* Mutant: a finished session with an unknown claim status counts as failed.
PollRejectedEarly ==
    /\ ~ctxDone
    /\ result.session # NoSession
    /\ server[result.session] \in {"failed", "void", "unsettled"}
    /\ ConfirmationFails("rejected")
    /\ UNCHANGED <<ctxDone, net, server>>

PollRejected ==
    /\ ~ctxDone
    /\ result.session # NoSession
    /\ server[result.session] \in {"failed", "void"}
    /\ ConfirmationFails("rejected")
    /\ UNCHANGED <<ctxDone, net, server>>

\* Mutant: the end of confirmCtx is handled like a failed poll.
ConfirmationKeepsPolling ==
    /\ pc \in {"confirming", "repoll"}
    /\ UNCHANGED progress

\* confirmCtx ends: the confirmation timeout, or the caller's context.
ConfirmationTimesOut ==
    /\ ConfirmationFails("unconfirmed")
    /\ UNCHANGED <<ctxDone, net, server>>

BackoffEnds ==
    /\ pc = "backoff"
    /\ \/ pc' = "start" /\ UNCHANGED result
       \/ ctxDone /\ ReturnFailure("cancelled")
    /\ UNCHANGED <<attempt, ctxDone, net, server>>

ContextExpires ==
    /\ ~ctxDone
    /\ ctxDone' = TRUE
    /\ UNCHANGED <<pc, attempt, result, net, server>>

(***************************************************************************)
(* The faucet.                                                             *)
(***************************************************************************)
ServeStart(s) ==
    /\ StartRequest(s) \in net
    /\ \E claimable \in BOOLEAN :
        /\ server' = [server EXCEPT
                        ![s] = IF claimable THEN "claimable" ELSE "refused"]
        /\ net' = (net \ {StartRequest(s)}) \union {StartAnswer(s, claimable)}
    /\ UNCHANGED <<pc, attempt, result, ctxDone>>

ServeClaim(s) ==
    /\ ClaimRequest(s) \in net
    /\ server[s] = "claimable"
    /\ \E state \in Claimed, idx \in BOOLEAN :
        /\ server' = [server EXCEPT ![s] = state]
        /\ net' = (net \ {ClaimRequest(s)}) \union {ClaimAnswer(s, state, idx)}
    /\ UNCHANGED <<pc, attempt, result, ctxDone>>

\* A claim moves on by itself, and a session that nobody claims expires.
ServeProgress(s) ==
    /\ \/ /\ server[s] = "claimable"
          /\ server' = [server EXCEPT ![s] = "void"]
       \/ /\ server[s] = "queue"
          /\ server' = [server EXCEPT ![s] = "processing"]
       \/ /\ server[s] \in InProgress
          /\ \E state \in Claimed \ {"queue", "processing", server[s]} :
                server' = [server EXCEPT ![s] = state]
    /\ UNCHANGED <<pc, attempt, result, ctxDone, net>>

CallStep == \/ SendStart \/ StartFails \/ StartAnswered
            \/ SendClaim \/ ClaimFails \/ ClaimAnswered
            \/ FetchDetails
            \/ PollConfirmed \/ PollRejected \/ ConfirmationTimesOut
            \/ BackoffEnds

FaucetStep == \E s \in Sessions :
                  ServeStart(s) \/ ServeClaim(s) \/ ServeProgress(s)

Terminated == pc = "done" /\ UNCHANGED progress

\* The options of a call are fixed.
Next == /\ CallStep \/ ContextExpires \/ FaucetStep \/ Terminated
        /\ UNCHANGED wait

\* The goroutine of the call keeps running; nothing is assumed of the faucet,
\* of the network or of the caller's deadline.
Spec == Init /\ [][Next]_vars /\ WF_vars(CallStep /\ UNCHANGED wait)

(***************************************************************************)
(* Properties.                                                             *)
(***************************************************************************)
TypeOK == /\ wait \in BOOLEAN
          /\ pc \in Locations
          /\ attempt \in Attempts
          /\ result \in Results
          /\ ctxDone \in BOOLEAN
          /\ net \subseteq Messages
          /\ server \in [Sessions -> ServerStates]

\* A claim on s was made: the faucet has accepted it, or still may.
ClaimMade(s) == server[s] \in Claimed \/ ClaimRequest(s) \in net

\* However requests are delayed, and whatever the call gives up on, at most
\* one session of a call is ever claimed: a call pays an account once.  The
\* retry loop is allowed to start a new session only before it knows one.
NoDuplicateFunding ==
    \A s, t \in Sessions : ClaimMade(s) /\ ClaimMade(t) => s = t

\* A success is backed by the faucet.  The caller is told "confirmed" only
\* after the transfer of this very session was mined, and a caller that asked
\* to wait is never told "success" for a claim that is merely queued.
SuccessIsPaid ==
    result.success =>
        /\ result.session # NoSession
        /\ result.confirmed => server[result.session] = "confirmed"
        /\ wait => result.confirmed
        /\ server[result.session] \in Claimed

\* Definitive failures are definitive.  A call that fails without a session
\* leaves no claim behind that a late request could turn into a payout, and
\* one that reports a rejected claim reports a session that will not be paid.
FailureIsFinal ==
    pc = "done" =>
        /\ result.failure \in {"exhausted", "cancelled"}
             => \A s \in Sessions : ~ClaimMade(s)
        /\ result.failure = "rejected"
             => server[result.session] \in {"failed", "void"}

\* The call returns, whatever the faucet does or fails to do.
CallReturns == <>(pc = "done")

\* The call seen from outside, as FundingCall describes it.
outcome ==
    IF pc # "done" THEN "pending"
    ELSE IF result.confirmed THEN "paid"
    ELSE IF result.success THEN "queued"
    ELSE IF result.session = NoSession THEN "clean"
    ELSE "unknown"

payout ==
    IF \E s \in Sessions : server[s] = "confirmed" THEN "paid"
    ELSE IF \E s \in Sessions : server[s] \in InProgress THEN "committed"
    ELSE IF \E s \in Sessions : server[s] = "failed" THEN "refused"
    ELSE "none"

Abstract == INSTANCE FundingCall

\* The call implements its contract: one payout at most, none after a clean
\* failure, and a confirmed result only once the payout is mined.
ImplementsFundingCall == Abstract!Spec

\* The comment in front of the re-poll: "A session was created and a claim is
\* already queued on the faucet side."
RepollMeansClaimQueued == pc = "repoll" => ClaimMade(result.session)
=============================================================================
