---------------------------- MODULE FundingCall ----------------------------
(***************************************************************************)
(* What one call of FundAccountWithRetriesAndOptionsAndContext             *)
(* (pkg/faucet/faucet.go) promises its caller, without sessions, requests  *)
(* or polls.  At most one payout comes out of a call.  The call may return *)
(* before the fate of that payout is known: only a "clean" return excludes *)
(* a payout for good, and only a "paid" return guarantees one.             *)
(***************************************************************************)

VARIABLES
    outcome,    \* what the caller has been told so far
    payout      \* what the faucet has done about the transfer

callVars == <<outcome, payout>>

Outcomes == {"pending", "paid", "queued", "clean", "unknown"}
Payouts  == {"none", "committed", "paid", "refused"}

Init == outcome = "pending" /\ payout = "none"

\* The faucet accepts a claim.  It can do so after the call has returned
\* "unknown": a claim request may still be under way then.
Commit == /\ payout = "none"
          /\ outcome \in {"pending", "unknown"}
          /\ payout' \in {"committed", "paid", "refused"}
          /\ UNCHANGED outcome

\* The transfer is mined, or given up, at the faucet's own pace.
Settle == /\ payout = "committed"
          /\ payout' \in {"paid", "refused"}
          /\ UNCHANGED outcome

Return == /\ outcome = "pending"
          /\ \/ outcome' = "paid"    /\ payout = "paid"
             \/ outcome' = "queued"  /\ payout # "none"
             \/ outcome' = "clean"   /\ payout = "none"
             \/ outcome' = "unknown"
          /\ UNCHANGED payout

Next == Commit \/ Settle \/ Return

Spec == Init /\ [][Next]_callVars
=============================================================================
