---------------------------- MODULE JudgedRefund ----------------------------
(***************************************************************************)
(* The judgment-driven refund: examples/jev-refund/contract.ts and its     *)
(* ledger, fake-refund-ledger.ts, as operators over the refunds the ledger *)
(* holds under the operation's idempotency key.  The ledger deduplicates;  *)
(* the contract declares no maxInFlightMs.                                 *)
(***************************************************************************)
EXTENDS Naturals

\* A judgment: each number compared with its threshold of the contract.
Judgment == [confidence : {"below", "enough"}, risk : {"accepted", "above"},
             isRefund : {"below", "enough"}]

\* authorize(): whether a person has to look.
RequiresReview(judgment) ==
  \/ judgment.confidence = "below"
  \/ judgment.risk = "above"
  \/ judgment.isRefund = "below"

\* create(): idempotent by key.
Create(refunds) == [world |-> IF refunds = 0 THEN 1 ELSE refunds, answer |-> "responded"]

\* observe(): lookupByKey().
Observe(refunds) == [status |-> "observed", found |-> refunds]

Reconcile(seen) ==
  CASE seen.status = "failed"   -> "UNKNOWN"
    [] seen.status = "observed" -> IF seen.found = 0 THEN "NOT_APPLIED" ELSE "APPLIED"

=============================================================================
