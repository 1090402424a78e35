---------------------------- MODULE EffectRecord ----------------------------
(***************************************************************************)
(* The operation record the store keeps (OperationRecord in                *)
(* src/core/types.ts) and the questions src/core/runtime.ts asks of it:    *)
(* which review is open, whether an approval counts and until when, which  *)
(* check still blocks the operation, and what runEffect() reports.         *)
(*                                                                         *)
(* Left out of the record: the identity and the intent (they never change  *)
(* once stored), the wording of reasons, raw evidence and observations.    *)
(* Of a resolved attempt's observations only the time of the latest one is *)
(* kept.  A review token is the generation of the review it names: the     *)
(* code's digest includes the generation and a nonce, so tokens of one     *)
(* operation are equal exactly when their generations are.                 *)
(***************************************************************************)
EXTENDS Disposition, Sequences

Statuses == {"NONE", "OPEN", "AWAITING_REVIEW", "CLOSED"}
NoToken == 0

\* No review has been opened, no decision is on record, no check blocked an attempt.
NoEpisode == [generation |-> 0, openedAt |-> 0]
NoReview == [decision |-> "none", token |-> NoToken, decidedAt |-> 0, recordedAt |-> 0,
             expiresAt |-> NoTime, fingerprint |-> 0, attemptCount |-> NoTime]
NoBlock == [outcome |-> "none", recordVersion |-> 0]

\* The record as a write creates it, and the value that stands for "no such row".
NewRecord(status, needsReview, episode) ==
  [version |-> 0, status |-> status, reviewReason |-> needsReview, attempts |-> << >>,
   review |-> NoReview, episode |-> episode, blockedBy |-> NoBlock]
NoRecord == [NewRecord("NONE", FALSE, NoEpisode) EXCEPT !.version = -1]

\* ReservedAttempt; the fields after maxInFlightMs are those resolution fills in.
Reserved(startedAt, window) ==
  [status |-> "RESERVED", startedAt |-> startedAt, maxInFlightMs |-> window, ok |-> FALSE,
   evidence |-> "UNKNOWN", disposition |-> "NULL", retryNotBefore |-> NoTime,
   observedAt |-> NoTime]

Attempt ==
  [status : {"RESERVED", "RESOLVED"}, startedAt : Nat, maxInFlightMs : Times, ok : BOOLEAN,
   evidence : EvidenceStates, disposition : Dispositions, retryNotBefore : Times,
   observedAt : Times]
Review ==
  [decision : {"none", "approved", "rejected"}, token : Nat, decidedAt : Nat,
   recordedAt : Nat, expiresAt : Times, fingerprint : Nat, attemptCount : Times]
Episode == [generation : Nat, openedAt : Nat]
Outcomes == {"none", "requiresReview", "reject", "failed"}
Block == [outcome : Outcomes, recordVersion : Int]
Record ==
  [version : Int, status : Statuses, reviewReason : BOOLEAN, attempts : Seq(Attempt),
   review : Review, episode : Episode, blockedBy : Block]

Latest(r) == r.attempts[Len(r.attempts)]

-----------------------------------------------------------------------------
(* Reviews *)

\* openReview: the operation awaits review, and no decision has answered this
\* episode (a decision without a token was written after it opened, so it has).
OpenReview(r) ==
  /\ r.status = "AWAITING_REVIEW"
  /\ r.episode # NoEpisode
  /\ r.review = NoReview \/ r.review.token \notin {NoToken, r.episode.generation}

\* openReviewEpisode and reviewEpisodeUpdate: the next generation opens; a
\* decision without a token moves out of the record's way.
WithNewEpisode(r, openedAt) ==
  [r EXCEPT !.episode = [generation |-> r.episode.generation + 1, openedAt |-> openedAt],
            !.review = IF @.token = NoToken THEN NoReview ELSE @]

\* An approval counts only if it carries a token, and the current episode's.
AttributedWithoutToken(r) ==
  /\ r.review.decision = "approved"
  /\ r.review.token = r.episode.generation

Attributed(r) ==
  /\ r.review.decision = "approved"
  /\ r.review.token # NoToken
  /\ r.review.token = r.episode.generation

\* approvalExpiry: the expiry times that apply; the earliest one decides.
ExpiryBounds(c, review) ==
  ({review.expiresAt} \ {NoTime}) \cup
  (IF c.maxApprovalAgeMs = NoTime THEN {}
   ELSE {review.decidedAt + c.maxApprovalAgeMs, review.recordedAt + c.maxApprovalAgeMs})

Expired(c, review, now) == \E t \in ExpiryBounds(c, review) : now >= t

\* approvalProblem: left review with no attributable approval on record, or an
\* approval of another intent, or one that has expired.
ApprovalProblem(c, r, now) ==
  IF Attributed(r)
  THEN r.review.fingerprint # c.fingerprint \/ Expired(c, r.review, now)
  ELSE r.reviewReason

\* continueOpen's approvedSinceLatest: approved after the latest attempt.
ApprovedSinceLatest(r) ==
  /\ r.review.decision = "approved"
  /\ r.review.attemptCount \in {NoTime, Len(r.attempts)}

-----------------------------------------------------------------------------
(* What a call reports *)

CurrentBlock(r) == IF r.blockedBy.recordVersion = r.version THEN r.blockedBy.outcome ELSE "none"

LatestLeftItOpen(r) ==
  /\ r.attempts # << >>
  /\ Latest(r).status = "RESOLVED"
  /\ StatusAfter(Latest(r).evidence, Latest(r).disposition) = "OPEN"

\* resultFromRecord's disposition.
ReportedWithStaleBlock(r) ==
  CASE r.status = "AWAITING_REVIEW"                             -> "REVIEW"
    [] r.status # "AWAITING_REVIEW" /\ r.blockedBy.outcome = "reject" -> "REPLAN"
    [] r.status # "AWAITING_REVIEW" /\ r.blockedBy.outcome = "failed" -> "NULL"
    [] OTHER -> IF r.attempts = << >> THEN "NULL" ELSE Latest(r).disposition

Reported(r) ==
  IF \/ r.status = "AWAITING_REVIEW"
     \/ r.status = "CLOSED" /\ r.review.decision = "rejected"
  THEN "REVIEW"
  ELSE CASE CurrentBlock(r) = "reject" -> "REPLAN"
         [] CurrentBlock(r) = "failed" -> "NULL"
         [] OTHER ->
              IF r.status = "CLOSED" /\ (r.attempts = << >> \/ LatestLeftItOpen(r))
              THEN "REVIEW"
              ELSE IF r.attempts = << >> \/ Latest(r).status = "RESERVED"
                   THEN "NULL"
                   ELSE Latest(r).disposition

-----------------------------------------------------------------------------
(* Records older releases left behind, before any attempt was made *)

\* TokenlessReview: 0.4.0 recorded an approval in full, but for its token and, in
\* some records, the number of attempts it followed.  It predates the clock here.
TokenlessApprovals(fingerprints, expiries) ==
  [decision : {"approved"}, token : {NoToken}, decidedAt : {0}, recordedAt : {0},
   expiresAt : expiries, fingerprint : fingerprints, attemptCount : {NoTime, 0}]

\* Awaiting review with no episode (0.4.0), the same sent back to review after a
\* decision without a token, approved by 0.3.x with no decision on record, and
\* approved by 0.4.0 with a decision that has no token.
LegacyRecord(status, review) == [NewRecord(status, TRUE, NoEpisode) EXCEPT !.review = review]

LegacyRecords(fingerprints, expiries) ==
  {LegacyRecord(status, review) :
     status \in {"AWAITING_REVIEW", "OPEN"},
     review \in {NoReview} \cup TokenlessApprovals(fingerprints, expiries)}

=============================================================================
