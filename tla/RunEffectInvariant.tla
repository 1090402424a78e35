------------------------- MODULE RunEffectInvariant -------------------------
(***************************************************************************)
(* The inductive invariant behind AtMostOneEffect: what the store's        *)
(* record, the passes that read it and the requests in flight know of each *)
(* other.  Each part says what one handover in the code relies on.         *)
(***************************************************************************)
EXTENDS RunEffectProperties

\* The number of the latest attempt, and of its request.
Last == Len(op.attempts)

\* The provider is done with request n, or has taken it over.
Answered(n) == requests[n].state \in {"accepted", "landed", "refused"}

-----------------------------------------------------------------------------
(* The stored record *)

\* Each attempt on record sends one request, under the window it was reserved with.
RequestsMatchAttempts ==
  /\ Len(requests) = Last
  /\ \A n \in 1..Last :
       requests[n].deadline = Deadline(op.attempts[n].startedAt, op.attempts[n].maxInFlightMs)

\* No record yet: nothing was attempted.
NothingBeforeCreation ==
  /\ op.version >= -1
  /\ op.version = -1 \/ op.status = "NONE" => op = NoRecord

\* A RETRY on record: what is known of the request it would follow.  A response
\* finished it; without one it is over by retryNotBefore, or already.
RetryIsSound ==
  Settling(op) =>
    /\ Latest(op).evidence = "NOT_APPLIED"
    /\ Latest(op).ok => Gone(Last) /\ Latest(op).retryNotBefore = NoTime
    /\ ~Latest(op).ok =>
         IF Latest(op).retryNotBefore = NoTime
         THEN clock >= requests[Last].deadline
         ELSE Latest(op).retryNotBefore >= requests[Last].deadline

\* A response on record finished its request, or the provider took it over.
ResponseIsReal == (Last > 0 /\ Latest(op).ok) => Latest(op).status = "RESOLVED" /\ Answered(Last)

RecordInvariant ==
  /\ RequestsMatchAttempts
  /\ NothingBeforeCreation
  /\ EarlierRequestsGone
  /\ HistoryIsSettled
  /\ RetryIsSound
  /\ ResponseIsReal

-----------------------------------------------------------------------------
(* A pass *)

\* p acts on the stored record: its next write goes through.
Live(p) == pass[p].rec.version = op.version

\* A pass whose record has the stored version holds exactly the stored record: what
\* the version check of every write (CoordinatedStore's fencing) relies on.
VersionIdentifiesRecord(p) ==
  /\ pass[p].rec.version <= op.version
  /\ Live(p) => pass[p].rec = op

\* A pass creates a record only where it found none, and otherwise acts only on one
\* it found open (or awaiting review, when it opens or answers that review).
ActsOnOpenRecord(p) ==
  /\ pass[p].pc \in {"authorize", "create"} => pass[p].rec = NoRecord
  /\ pass[p].pc \in {"reopen", "record"} => pass[p].rec.status = "AWAITING_REVIEW"
  /\ pass[p].pc \in {"check", "revalidate", "block", "reserve", "execute", "executing",
                     "observe", "resolve"} => pass[p].rec.status = "OPEN"

\* A pass about to make the next attempt: the latest one is beyond taking effect.
AttemptsSafely(p) ==
  (Live(p) /\ pass[p].pc \in {"check", "revalidate", "reserve"} /\ Last > 0)
    => Settling(op) /\ Latest(op).retryNotBefore = NoTime /\ Gone(Last)

\* A pass's copy of the record, however old, has attempts that were made; the request
\* it has not sent yet nobody else has sent, and a response it got is real.
KnowsItsRequest(p) ==
  /\ AttemptOf(p) <= Last
  /\ pass[p].pc \in {"execute", "executing", "observe", "resolve"} => AttemptOf(p) > 0
  /\ pass[p].pc \in {"execute", "executing"} => Latest(pass[p].rec).status = "RESERVED"
  /\ At(p, "execute") => requests[AttemptOf(p)].state = "unsent"
  /\ (pass[p].pc \in {"observe", "resolve"} /\ pass[p].ok) => Answered(AttemptOf(p))

\* An attempt settled for retry is looked at again only when it is over.
ObservesInTime(p) ==
  (At(p, "observe") /\ Live(p) /\ Settling(op) /\ ~pass[p].ok)
    => clock >= requests[Last].deadline

\* A NOT_APPLIED that settles the attempt was read when the request was over.
ObservationIsFinal(p) ==
  (At(p, "resolve") /\ Live(p) /\ pass[p].answer = "NOT_APPLIED" /\ (pass[p].ok \/ Settling(op)))
    => Gone(Last)

PassInvariant(p) ==
  /\ VersionIdentifiesRecord(p)
  /\ ActsOnOpenRecord(p)
  /\ AttemptsSafely(p)
  /\ KnowsItsRequest(p)
  /\ ObservesInTime(p)
  /\ ObservationIsFinal(p)

-----------------------------------------------------------------------------
\* The inductive strengthening of AtMostOneEffect: one step of any pass, of the
\* provider or of the clock, from any state that satisfies it, leaves it satisfied.
SafetyInvariant ==
  /\ TypeOK
  /\ RecordInvariant
  /\ \A p \in Passes : PassInvariant(p)
  /\ OneExecutionPerAttempt

-----------------------------------------------------------------------------
(* What the outcome of the operation and its reviews rest on, given the above *)

\* The latest attempt has an outcome.
Resolved == op.attempts # << >> /\ Latest(op).status = "RESOLVED"

\* A check that blocked an attempt is reported until the next write, and only of a
\* record it left in the status it asks for.
BlockFitsStatus ==
  /\ op.blockedBy.outcome # "none" => op.blockedBy.recordVersion <= op.version
  /\ CurrentBlock(op) = "reject" => op.status = "CLOSED"
  /\ CurrentBlock(op) = "failed" => op.status = "OPEN"

\* An operation is closed by a rejection, a check or a final outcome, and is otherwise
\* open to a retry or still converging; COMPLETE is on record only after an effect.
OutcomeFitsStatus ==
  /\ op.status = "CLOSED" =>
       \/ op.review.decision = "rejected"
       \/ CurrentBlock(op) = "reject"
       \/ Resolved /\ ~LatestLeftItOpen(op)
            /\ Latest(op).disposition \in {"COMPLETE", "REPLAN", "INVESTIGATE"}
  /\ (op.status \in {"OPEN", "AWAITING_REVIEW"} /\ Resolved)
       => Latest(op).disposition \in {"RETRY", "NULL"}
  /\ (Resolved /\ Latest(op).disposition = "COMPLETE") => HonestEvidence = "APPLIED"

\* The decision on record answers a review that was opened, and a rejection closed it.
ReviewFitsStatus ==
  /\ op.review.token <= op.episode.generation
  /\ op.review.recordedAt <= clock
  /\ op.review.decision = "none" => op.review.attemptCount = NoTime
  /\ op.review.decision = "rejected" => op.status = "CLOSED"

\* The attempt that a RETRY on record allows is within some worker's budget.
BudgetKept ==
  /\ RetryBudget
  /\ Settling(op) => \E c \in Contracts : Last < c.maxAttempts

\* A decision about to be recorded answers the review that was open when it was accepted.
AnswersOpenReview(p) ==
  At(p, "record") =>
    /\ OpenReview(pass[p].rec)
    /\ pass[p].review.token = pass[p].rec.episode.generation
    /\ pass[p].review.decision \in {"approved", "rejected"}
    /\ pass[p].review.recordedAt <= clock

\* The checks before an attempt: what they ask for, and the approval they let through.
ChecksApproval(p) ==
  /\ At(p, "block") => pass[p].outcome \in {"requiresReview", "reject", "failed"}
  /\ (At(p, "reserve") /\ pass[p].rec.reviewReason)
       => Covered(pass[p].contract, pass[p].rec, pass[p].readAt)

\* An observation about to be recorded: an effect that is there, seen after the
\* decision on record, and after the window of an attempt that awaits its retry.
SawInTime(p) ==
  At(p, "resolve") =>
    /\ pass[p].answer = "APPLIED" => HonestEvidence = "APPLIED"
    /\ Live(p) => pass[p].seenAt >= op.review.recordedAt
    /\ (Live(p) /\ Settling(op) /\ ~pass[p].ok) => pass[p].seenAt >= requests[Last].deadline

\* A pass about to make the next attempt has looked at the latest one late enough.
LookedBeforeNext(p) ==
  (Live(p) /\ pass[p].pc \in {"check", "revalidate", "reserve"} /\ Last > 0) =>
    /\ ~Latest(op).ok => Latest(op).observedAt >= requests[Last].deadline
    /\ op.review.attemptCount = Last => Latest(op).observedAt >= op.review.recordedAt

RecordOutcome == BlockFitsStatus /\ OutcomeFitsStatus /\ ReviewFitsStatus /\ BudgetKept

PassOutcome(p) ==
  AnswersOpenReview(p) /\ ChecksApproval(p) /\ SawInTime(p) /\ LookedBeforeNext(p)

\* A review nobody can answer is an older release's, and the record still is as that
\* release left it: a pass that has read one acts on it, to open the review again.
ActsOnUnanswerable(p) ==
  (~Answerable(op) /\ pass[p].pc \notin {"idle", "read", "review"}) => Live(p)

\* Inductive together with SafetyInvariant: what reports, reviews and retries rely on.
OutcomeInvariant ==
  /\ RecordOutcome
  /\ \A p \in Passes : PassOutcome(p)
  /\ \A p \in Passes : ActsOnUnanswerable(p)

-----------------------------------------------------------------------------
(* What EffectOnce and the answers to reviews rest on, given all the above *)

\* Nothing has come, and nothing will, of any attempt made so far.
AllGone == \A n \in 1..Last : Gone(n)

\* A reviewer is never asked about an attempt that can still take effect: a rejection
\* then means that the effect never happens.
NothingUnderReview == op.status = "AWAITING_REVIEW" => AllGone

\* Nor is a check that stops the next attempt made while the last one is undecided.
StopsSafely(p) == (Live(p) /\ At(p, "block")) => AllGone

\* Reviews are numbered from 1.
ReviewsAreNumbered == op.episode.generation = 0 => op.episode = NoEpisode

PromiseInvariant ==
  /\ NothingUnderReview
  /\ ReviewsAreNumbered
  /\ \A p \in Passes : StopsSafely(p)

=============================================================================
