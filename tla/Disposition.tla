---------------------------- MODULE Disposition ----------------------------
(***************************************************************************)
(* The decision rules of src/core/disposition.ts and the two rules of      *)
(* src/core/runtime.ts that surround them: which in-flight window settles  *)
(* an attempt, and whether the operation stays open afterwards.            *)
(*                                                                         *)
(* Time is a natural number, read from the store's clock.  A time or a     *)
(* window that the code leaves undefined is -1, which is never a reading.  *)
(***************************************************************************)
EXTENDS Integers

NoTime == -1
NoWindow == -1
Times == Nat \cup {NoTime}

EvidenceStates == {"APPLIED", "NOT_APPLIED", "CONFLICTED", "PENDING", "UNKNOWN"}

\* "NULL" is the code's null: no action is safe to recommend yet.
Dispositions == {"COMPLETE", "RETRY", "REPLAN", "INVESTIGATE", "NULL"}

-----------------------------------------------------------------------------
\* The window an attempt is settled with: the acting contract's, never shorter
\* than the one the attempt was sent under; none when the acting contract has none.
SettlementWindowCurrentOnly(current, whenStarted) == current

SettlementWindow(current, whenStarted) ==
  IF current = NoWindow \/ whenStarted = NoWindow \/ whenStarted <= current
  THEN current
  ELSE whenStarted

-----------------------------------------------------------------------------
Decision(disposition, retryNotBefore) ==
  [disposition |-> disposition, retryNotBefore |-> retryNotBefore]

\* decideRetry: a response makes NOT_APPLIED final; without one, only the
\* passing of the window does.
DecideRetryUndeclared(ok, startedAt, window, now) ==
  IF ok \/ now >= startedAt + window
  THEN Decision("RETRY", NoTime)
  ELSE Decision("RETRY", startedAt + window)

DecideRetry(ok, startedAt, window, now) ==
  CASE ok \/ (window # NoWindow /\ now >= startedAt + window)
         -> Decision("RETRY", NoTime)
    [] ~ok /\ window = NoWindow
         -> Decision("INVESTIGATE", NoTime)
    [] ~ok /\ window # NoWindow /\ now < startedAt + window
         -> Decision("RETRY", startedAt + window)

\* decideDisposition.  attemptNumber counts from 1; settlement is
\* [ok, startedAt, window, now].
DecideDispositionOffByOne(evidence, attemptNumber, policy, settlement) ==
  CASE evidence = "APPLIED"    -> Decision("COMPLETE", NoTime)
    [] evidence = "CONFLICTED" -> Decision("REPLAN", NoTime)
    [] evidence = "UNKNOWN"    -> Decision("INVESTIGATE", NoTime)
    [] evidence = "PENDING"    -> Decision("NULL", NoTime)
    [] evidence = "NOT_APPLIED" ->
         IF policy.retryOnNotApplied /\ attemptNumber <= policy.maxAttempts
         THEN DecideRetry(settlement.ok, settlement.startedAt,
                          settlement.window, settlement.now)
         ELSE Decision("INVESTIGATE", NoTime)

DecideDisposition(evidence, attemptNumber, policy, settlement) ==
  CASE evidence = "APPLIED"    -> Decision("COMPLETE", NoTime)
    [] evidence = "CONFLICTED" -> Decision("REPLAN", NoTime)
    [] evidence = "UNKNOWN"    -> Decision("INVESTIGATE", NoTime)
    [] evidence = "PENDING"    -> Decision("NULL", NoTime)
    [] evidence = "NOT_APPLIED" ->
         IF policy.retryOnNotApplied /\ attemptNumber < policy.maxAttempts
         THEN DecideRetry(settlement.ok, settlement.startedAt,
                          settlement.window, settlement.now)
         ELSE Decision("INVESTIGATE", NoTime)

\* statusAfter: open while a retry or convergence is still expected.
StatusAfterClosingPending(evidence, disposition) ==
  IF disposition = "RETRY" THEN "OPEN" ELSE "CLOSED"

StatusAfter(evidence, disposition) ==
  IF disposition = "RETRY" \/ evidence = "PENDING" THEN "OPEN" ELSE "CLOSED"

=============================================================================
