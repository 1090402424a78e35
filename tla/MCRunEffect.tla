---------------------------- MODULE MCRunEffect ----------------------------
(***************************************************************************)
(* Instances of RunEffect for TLC: contracts and initial records by name,  *)
(* and the symmetry of callers.                                            *)
(***************************************************************************)
EXTENDS RunEffectInvariant, TLC

Callers == Permutations(Passes)

Contract(window, maxAttempts) ==
  [maxInFlightMs |-> window, maxAttempts |-> maxAttempts, retryOnNotApplied |-> TRUE,
   revalidates |-> FALSE, maxApprovalAgeMs |-> NoTime, fingerprint |-> 1]

Nothing == {NoRecord}
EarlyOrNone == {NoTime, 0}
LateOrNone == {NoTime, 3}
NoTimes == {NoTime}

\* A deploy that shortens the window from 2 to 1, and one that drops it.
ShorteningDeploy == {Contract(2, 2), Contract(1, 2)}

\* Deploys that drop the window, lengthen it, or change the retry policy.
NoRetry == [Contract(1, 1) EXCEPT !.retryOnNotApplied = FALSE]
AnyDeploy == {Contract(NoWindow, 2), Contract(1, 3), Contract(2, 2), NoRetry}

LengtheningDeploy == {Contract(1, 2), Contract(2, 2)}
PolicyDeploy == {Contract(1, 2), NoRetry}

\* Reviewed attempts: revalidate() runs before each, approvals age out after 2.
Reviewing == [Contract(1, 2) EXCEPT !.revalidates = TRUE, !.maxApprovalAgeMs = 2]

\* A contract with approvals but no revalidate(), and a deploy that changes what
\* fingerprintIntent() says of the recorded intent.
Refingerprinted == [Contract(1, 2) EXCEPT !.fingerprint = 2]
JustReviewing == {Reviewing}
ReviewContracts == {Reviewing, Refingerprinted}

SomeTimes == {NoTime, 1, 3}
FromAnyRelease == Nothing \cup LegacyRecords({1, 2}, SomeTimes)
NothingOrUnanswerable == Nothing \cup {NewRecord("AWAITING_REVIEW", TRUE, NoEpisode)}

=============================================================================
