------------------------ MODULE RunEffectProperties ------------------------
(***************************************************************************)
(* What runEffect() and reviewEffect() promise about one operation: the    *)
(* invariants, action properties and liveness properties the runs check.   *)
(***************************************************************************)
EXTENDS RunEffect

\* Every variable has its type; the type of a record is the shape types.ts gives it.
TypeOK ==
  /\ op \in Record
  /\ lock \in Passes \cup {NoPass}
  /\ clock \in Nat
  /\ requests \in Seq(Request)
  /\ pass \in [Passes -> PassState]
  /\ faults \in Nat

-----------------------------------------------------------------------------
(* One effect, however calls, crashes, lost locks and late requests interleave *)

\* However many attempts are made, at most one request ever takes effect: the
\* promise of the library (README, docs/guarantees.md), here under concurrent
\* callers, lost locks, crashes at any step and requests that land late.
AtMostOneEffect ==
  \A m, n \in DOMAIN requests :
    (requests[m].state = "landed" /\ requests[n].state = "landed") => m = n

\* No attempt is reserved until every earlier request is beyond taking effect
\* (architecture.md invariant 3, "only a settled NOT_APPLIED may retry"): the
\* reason behind AtMostOneEffect, and true even while nothing ever lands.
EarlierRequestsGone == \A n \in 1..(Len(requests) - 1) : Gone(n)

\* Two calls never run execute() for the same attempt, also when one of them lost
\* its lock before the other began (runtime.ts performAttempt's reservation).
OneExecutionPerAttempt ==
  \A p, q \in Passes :
    (p # q /\ {pass[p].pc, pass[q].pc} \subseteq {"execute", "executing"})
      => AttemptOf(p) # AttemptOf(q)

\* Every attempt but the latest is resolved as a settled NOT_APPLIED, to be
\* retried: no attempt is stacked on one that is reserved, pending, unknown, or
\* still waiting for its window (architecture.md invariants 2 to 4).
HistoryIsSettled ==
  \A n \in 1..(Len(op.attempts) - 1) :
    LET a == op.attempts[n]
    IN  /\ a.status = "RESOLVED" /\ a.evidence = "NOT_APPLIED"
        /\ a.disposition = "RETRY" /\ a.retryNotBefore = NoTime

\* Recoveries, re-observations and conflicts never buy an attempt beyond the
\* largest maxAttempts any worker runs with (decideDisposition's retry budget).
RetryBudget ==
  \A n \in 2..Len(op.attempts) : \E c \in Contracts : n <= c.maxAttempts

\* A closed operation never changes again, whatever a pass that read it while
\* it was open goes on to do.
ClosedIsFinal == [][op.status = "CLOSED" => UNCHANGED op]_vars

\* p's step reserves an attempt.
Reserves(p) == At(p, "reserve") /\ pass'[p].pc = "execute"

\* After an attempt whose request failed or whose outcome was never recorded, the
\* next attempt rests on an observation made when that request could no longer
\* take hold (types.ts retryNotBefore, "re-observes first").
ReobservedBeforeRetry ==
  [][\A p \in Passes :
       (Reserves(p) /\ op.attempts # << >> /\ ~Latest(op).ok)
         => Latest(op).observedAt >= requests[Len(requests)].deadline]_vars

\* What a call reports fits the operation: a closed one never says to wait or to
\* retry, an open one never that it is over, and COMPLETE is said only of an
\* effect that took place (resultFromRecord).
ReportIsHonest ==
  /\ op.status = "CLOSED" => Reported(op) \in {"COMPLETE", "REPLAN", "INVESTIGATE", "REVIEW"}
  /\ op.status = "OPEN" => Reported(op) \in {"RETRY", "NULL"}
  /\ Reported(op) = "COMPLETE" => \E n \in DOMAIN requests : requests[n].state = "landed"

-----------------------------------------------------------------------------
(* Reviews *)

\* The approval on record r covers an attempt that starts at time t under contract c.
Covered(c, r, t) ==
  /\ r.review.decision = "approved"
  /\ r.review.token # NoToken
  /\ r.review.token = r.episode.generation
  /\ r.review.fingerprint = c.fingerprint
  /\ r.review.expiresAt # NoTime => t < r.review.expiresAt
  /\ c.maxApprovalAgeMs # NoTime =>
       t < r.review.decidedAt + c.maxApprovalAgeMs /\ t < r.review.recordedAt + c.maxApprovalAgeMs

\* An operation that was ever sent to review is attempted only under an approval
\* that answers its latest review, is for the recorded intent, and has not expired
\* at the attempt's recorded start time, also when it expires while revalidate() runs.
AttemptsAreApproved ==
  [][\A p \in Passes :
       (Reserves(p) /\ op.reviewReason) => Covered(pass[p].contract, op, pass[p].readAt)]_vars

\* A decision is recorded only on the review whose token it carries, while that
\* review is open, and a review is never answered twice (ReviewDecision.reviewToken).
DecisionAnswersItsReview ==
  [][op'.review \notin {op.review, NoReview} =>
       /\ op.status = "AWAITING_REVIEW"
       /\ op'.review.token = op.episode.generation
       /\ op.review.token # op'.review.token]_vars

\* The operation waits for no reviewer, or for one who can still answer.
Answerable(r) == r.status = "AWAITING_REVIEW" => OpenReview(r)

\* p's runEffect() ends by itself, not by a crash.
RunEnds(p) ==
  /\ pass[p].pc \notin {"idle", "review", "record"}
  /\ pass'[p].pc = "idle"
  /\ faults' = faults

\* No one waits for a decision nobody can give: every write that leaves the operation
\* awaiting review leaves a review open whose token no decision has used, and so does
\* every runEffect(), however it ends and whatever an older release had left behind
\* (runtime.ts runCoordinated: "so a decision has a current token to carry").
AwaitedReviewIsOpen ==
  [][(op' # op \/ \E p \in Passes : RunEnds(p)) => Answerable(op')]_vars

\* Approved between two attempts: the earlier attempt is observed again after the
\* decision before the next one is made, even if its NOT_APPLIED was final
\* (RecordedReview.attemptCount).
ReobservedAfterApproval ==
  [][\A p \in Passes :
       (Reserves(p) /\ op.attempts # << >> /\ op.review.attemptCount = Len(op.attempts))
         => Latest(op).observedAt >= op.review.recordedAt]_vars

-----------------------------------------------------------------------------
(* The abstract specification *)

\* What of the operation EffectOnce speaks of: its status, whether some request can
\* still take effect or has, and what a closed record reports.
Once ==
  INSTANCE EffectOnce WITH
    phase   <- op.status,
    pending <- \E n \in DOMAIN requests : CanLand(n),
    applied <- \E n \in DOMAIN requests : requests[n].state = "landed",
    answer  <- IF op.status = "CLOSED" THEN Reported(op) ELSE "NULL"

\* Every step of a call, of the provider, of the clock and every fault is a step of
\* EffectOnce or no step at all: no attempt while an earlier one is undecided, no
\* effect twice, nothing before a reviewer that can still happen, no effect of a
\* rejected operation, and an answer that is true and final.
Promise == Once!Spec

-----------------------------------------------------------------------------
(* What the documentation says and the code does not do *)

\* types.ts maxInFlightMs: "RETRY is allowed, but not before attemptStartedAt +
\* maxInFlightMs; the next runEffect() after that point re-observes first": with
\* the window of the contract that makes the next attempt.
ReobservedAfterActingWindow ==
  [][\A p \in Passes :
       (Reserves(p) /\ op.attempts # << >> /\ ~Latest(op).ok)
         => Latest(op).observedAt >=
              Latest(op).startedAt + pass[p].contract.maxInFlightMs]_vars

\* operations.md: changes of the retry policy "apply to operations already open":
\* no attempt is made that the acting contract's policy does not allow.
PolicyAppliesToOpenOperations ==
  [][\A p \in Passes :
       (Reserves(p) /\ op.attempts # << >>)
         => /\ pass[p].contract.retryOnNotApplied
            /\ Len(op.attempts) < pass[p].contract.maxAttempts]_vars

-----------------------------------------------------------------------------
(* Liveness: the fairness is in the module that composes the run *)

\* Every call returns, and so gives up the lock: none of its steps waits for
\* another call, or for a provider that may never answer.
CallsReturn == \A p \in Passes : ~At(p, "idle") ~> At(p, "idle")

\* Callers that keep calling bring the operation to an end, or to a reviewer.
EventuallySettled == <>(op.status \in {"CLOSED", "AWAITING_REVIEW"})

=============================================================================
