---------------------------- MODULE CycleTiming ----------------------------
(***************************************************************************)
(* How long a refund cycle may take (cycleTimeout in                       *)
(* pkg/scheduler/scheduler.go) and how often a claim is polled             *)
(* (waitForConfirmation in pkg/faucet/faucet.go).  Times are whole numbers *)
(* of one unit; nothing here depends on which.                             *)
(***************************************************************************)
EXTENDS Integers

Larger(x, y) == IF x >= y THEN x ELSE y
Smaller(x, y) == IF x <= y THEN x ELSE y

\* The pauses of the retry loop: 1, 4, 9, ... seconds.
TotalBackoff[retries \in Nat] ==
    IF retries = 0 THEN 0 ELSE TotalBackoff[retries - 1] + retries * retries

\* What one account needs when every attempt takes perAttempt.
MinTimeout(retries, perAttempt, second, overhead) ==
    (1 + retries) * perAttempt + TotalBackoff[retries] * second + overhead

\* Mutant: the margin is left out of the cap.
CycleTimeoutNoMargin(minTimeout, configTimeout, interval, margin) ==
    LET wanted == Larger(minTimeout, configTimeout)
    IN  IF interval > margin THEN Smaller(wanted, interval) ELSE wanted

\* Mutant: a configured timeout replaces the calculated one.
CycleTimeoutConfigWins(minTimeout, configTimeout, interval, margin) ==
    LET wanted == IF configTimeout > 0 THEN configTimeout ELSE minTimeout
    IN  IF interval > margin THEN Smaller(wanted, interval - margin) ELSE wanted

\* The larger of the calculated and the configured timeout, cut to what the
\* schedule leaves.  An interval of 0 is one that could not be determined;
\* one that does not exceed the margin is not respected either.
CycleTimeout(minTimeout, configTimeout, interval, margin) ==
    LET wanted == Larger(minTimeout, configTimeout)
    IN  IF interval > margin THEN Smaller(wanted, interval - margin) ELSE wanted

\* A wait for confirmation ends with its own timeout, one minute when that is
\* not positive, or with the caller's deadline if that comes first.
ConfirmationTimeout(configured, remaining, second) ==
    Smaller(IF configured <= 0 THEN 60 * second ELSE configured, remaining)

\* Mutant: the lower bound on the poll interval is applied last.
AdaptivePollSwapped(timeout, second) ==
    Larger(Smaller(timeout \div 5, 2 * second), 10 * second)

\* A fifth of the timeout, but at least 2 s and at most 10 s.
AdaptivePoll(timeout, second) ==
    Smaller(Larger(timeout \div 5, 2 * second), 10 * second)
=============================================================================
