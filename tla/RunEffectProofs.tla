-------------------------- MODULE RunEffectProofs --------------------------
(***************************************************************************)
(* Type correctness of RunEffect, and SafetyInvariant, which is inductive, *)
(* and with it: at most one effect, whatever the contracts, the number of  *)
(* callers, the crashes, the lost locks and the lateness of requests.      *)
(***************************************************************************)
EXTENDS RunEffectInvariant, SequenceTheorems, TLAPS

-----------------------------------------------------------------------------
(* Contracts, decisions *)

\* What validateContract guarantees of a contract, field by field.
LEMMA ContractFields ==
  ASSUME NEW c \in Contracts
  PROVE  /\ c.maxInFlightMs \in Times
         /\ c.maxApprovalAgeMs \in Times
         /\ c.maxAttempts \in Nat
         /\ c.retryOnNotApplied \in BOOLEAN
         /\ c.revalidates \in BOOLEAN
         /\ c.fingerprint \in Nat
         /\ c.maxInFlightMs # NoWindow => c.maxInFlightMs >= Lateness
  BY ContractsAssumption

LEMMA SettlementWindowType ==
  ASSUME NEW current \in Times, NEW whenStarted \in Times
  PROVE  SettlementWindow(current, whenStarted) \in Times
  BY DEF SettlementWindow

LEMMA DecideRetryType ==
  ASSUME NEW ok \in BOOLEAN, NEW startedAt \in Nat, NEW window \in Times, NEW now \in Nat
  PROVE  DecideRetry(ok, startedAt, window, now)
           \in [disposition : Dispositions, retryNotBefore : Times]
<1>1. CASE ok \/ (window # NoWindow /\ now >= startedAt + window)
  BY <1>1 DEF DecideRetry, Decision, Dispositions, Times, NoTime, NoWindow
<1>2. CASE ~ok /\ window = NoWindow
  BY <1>2 DEF DecideRetry, Decision, Dispositions, Times, NoTime, NoWindow
<1>3. CASE ~ok /\ window # NoWindow /\ now < startedAt + window
  BY <1>3 DEF DecideRetry, Decision, Dispositions, Times, NoTime, NoWindow
<1> QED BY <1>1, <1>2, <1>3 DEF Times, NoTime, NoWindow

LEMMA DecideDispositionType ==
  ASSUME NEW evidence \in EvidenceStates, NEW n \in Nat, NEW c \in Contracts,
         NEW s \in [ok : BOOLEAN, startedAt : Nat, now : Nat, window : Times]
  PROVE  DecideDisposition(evidence, n, c, s)
           \in [disposition : Dispositions, retryNotBefore : Times]
<1>1. CASE evidence = "NOT_APPLIED" /\ c.retryOnNotApplied /\ n < c.maxAttempts
  <2>1. DecideDisposition(evidence, n, c, s) = DecideRetry(s.ok, s.startedAt, s.window, s.now)
    BY <1>1 DEF DecideDisposition
  <2> QED BY <2>1, DecideRetryType
<1>2. CASE evidence = "NOT_APPLIED" /\ ~(c.retryOnNotApplied /\ n < c.maxAttempts)
  BY <1>2 DEF DecideDisposition, Decision, Dispositions, Times, NoTime
<1>3. CASE evidence # "NOT_APPLIED"
  BY <1>3 DEF DecideDisposition, Decision, Dispositions, EvidenceStates, Times, NoTime
<1> QED BY <1>1, <1>2, <1>3

-----------------------------------------------------------------------------
(* Records *)

LEMMA NewRecordType ==
  ASSUME NEW status \in Statuses, NEW needsReview \in BOOLEAN, NEW episode \in Episode
  PROVE  NewRecord(status, needsReview, episode) \in Record
  BY DEF NewRecord, Record, NoReview, Review, NoBlock, Block, Outcomes, Times, NoTime, NoToken

LEMMA NoEpisodeType == NoEpisode \in Episode
  BY DEF NoEpisode, Episode

LEMMA NoReviewType == NoReview \in Review
  BY DEF NoReview, Review, Times, NoTime, NoToken

LEMMA NoRecordType == NoRecord \in Record
<1>1. NewRecord("NONE", FALSE, NoEpisode) \in Record
  BY NewRecordType, NoEpisodeType DEF Statuses
<1>2. ASSUME NEW r \in Record PROVE [r EXCEPT !.version = -1] \in Record
  BY DEF Record
<1> QED BY <1>1, <1>2 DEF NoRecord

\* A record of an older release: no attempt, no episode, and no decision with a token.
LEMMA OlderRecordFacts ==
  ASSUME NEW r \in OlderRecords
  PROVE  /\ r \in Record /\ r.version = 0 /\ r.status \in {"AWAITING_REVIEW", "OPEN"}
         /\ r.attempts = << >> /\ r.episode = NoEpisode /\ r.blockedBy = NoBlock
         /\ r.review.token = NoToken /\ r.review.recordedAt = 0
         /\ r.review.decision \in {"none", "approved"}
         /\ r.review.decision = "none" => r.review.attemptCount = NoTime
<1> DEFINE fingerprints == {c.fingerprint : c \in Contracts}
           expiries == Expiries \cup {NoTime}
<1>1. fingerprints \subseteq Nat /\ expiries \subseteq Times
  <2>1. \A c \in Contracts : c.fingerprint \in Nat
    BY ContractsAssumption
  <2> QED BY <2>1, InputsAssumption DEF Times
<1>2. PICK status \in {"AWAITING_REVIEW", "OPEN"},
           review \in {NoReview} \cup TokenlessApprovals(fingerprints, expiries) :
             r = LegacyRecord(status, review)
  <2>1. r \in LegacyRecords(fingerprints, expiries)
    BY DEF OlderRecords
  <2> HIDE DEF fingerprints, expiries
  <2> QED BY <2>1 DEF LegacyRecords
<1> HIDE DEF fingerprints, expiries
<1>3. /\ review \in Review /\ review.token = NoToken /\ review.recordedAt = 0
      /\ review.decision \in {"none", "approved"}
      /\ review.decision = "none" => review.attemptCount = NoTime
  <2>1. CASE review = NoReview
    BY <2>1, NoReviewType DEF NoReview
  <2>2. CASE review \in TokenlessApprovals(fingerprints, expiries)
    <3>1. /\ review.decision = "approved" /\ review.token = 0 /\ review.decidedAt = 0
          /\ review.recordedAt = 0 /\ review.expiresAt \in Times /\ review.fingerprint \in Nat
          /\ review.attemptCount \in Times
      <4>1. review.attemptCount \in {NoTime, 0} /\ {NoTime, 0} \subseteq Times
        BY <2>2 DEF TokenlessApprovals, Times
      <4> QED BY <1>1, <2>2, <4>1 DEF TokenlessApprovals, NoToken
    <3>2. review = [decision |-> review.decision, token |-> review.token,
                    decidedAt |-> review.decidedAt, recordedAt |-> review.recordedAt,
                    expiresAt |-> review.expiresAt, fingerprint |-> review.fingerprint,
                    attemptCount |-> review.attemptCount]
      BY <2>2 DEF TokenlessApprovals
    <3> QED BY <3>1, <3>2 DEF Review, NoToken
  <2> QED BY <1>2, <2>1, <2>2
<1>4. NewRecord(status, TRUE, NoEpisode) \in Record
  BY NewRecordType, NoEpisodeType DEF Statuses
<1>5. r \in Record /\ r.review = review
  BY <1>2, <1>3, <1>4 DEF LegacyRecord, Record
<1>6. /\ r.version = 0 /\ r.status = status /\ r.attempts = << >>
      /\ r.episode = NoEpisode /\ r.blockedBy = NoBlock
  BY <1>2 DEF LegacyRecord, NewRecord
<1> QED BY <1>3, <1>5, <1>6

LEMMA LatestType ==
  ASSUME NEW r \in Record, r.attempts # << >>
  PROVE  /\ Latest(r) \in Attempt
         /\ Len(r.attempts) \in Nat \ {0}
<1>1. r.attempts \in Seq(Attempt)
  BY DEF Record
<1>2. Len(r.attempts) \in Nat \ {0}
  BY <1>1, EmptySeq
<1>3. Latest(r) \in Attempt
  BY <1>1, <1>2, ElementOfSeq DEF Latest
<1> QED BY <1>2, <1>3

LEMMA ReservedType ==
  ASSUME NEW startedAt \in Nat, NEW window \in Times
  PROVE  Reserved(startedAt, window) \in Attempt
  BY DEF Reserved, Attempt, EvidenceStates, Dispositions, Times, NoTime

LEMMA WithNewEpisodeType ==
  ASSUME NEW r \in Record, NEW t \in Nat
  PROVE  WithNewEpisode(r, t) \in Record
<1>1. [generation |-> r.episode.generation + 1, openedAt |-> t] \in Episode
  BY DEF Record, Episode
<1>2. (IF r.review.token = NoToken THEN NoReview ELSE r.review) \in Review
  BY NoReviewType DEF Record
<1> QED BY <1>1, <1>2 DEF WithNewEpisode, Record

LEMMA BlockedType ==
  ASSUME NEW r \in Record, NEW t \in Nat,
         NEW outcome \in Outcomes
  PROVE  Blocked(r, outcome, t) \in Record
<1> DEFINE blocked == [r EXCEPT !.blockedBy = [outcome |-> outcome,
                                               recordVersion |-> r.version + 1]]
<1>1. blocked \in Record
  BY DEF Record, Block
<1>2. CASE outcome = "requiresReview"
  <2>1. Blocked(r, outcome, t) = [WithNewEpisode(blocked, t) EXCEPT !.status = "AWAITING_REVIEW",
                                                                 !.reviewReason = TRUE]
    BY <1>2 DEF Blocked
  <2>2. WithNewEpisode(blocked, t) \in Record
    BY <1>1, WithNewEpisodeType
  <2> QED BY <2>1, <2>2 DEF Record, Statuses
<1>3. CASE outcome = "reject"
  BY <1>1, <1>3 DEF Blocked, Record, Statuses
<1>4. CASE outcome \notin {"requiresReview", "reject"}
  BY <1>1, <1>4 DEF Blocked
<1> QED BY <1>2, <1>3, <1>4

\* Every branch is a step.
LEMMA BranchForOpenType ==
  ASSUME NEW r \in Record
  PROVE  BranchForOpen(r) \in {"idle", "check", "observe"}
<1>1. CASE r.attempts = << >>
  BY <1>1 DEF BranchForOpen
<1>2. CASE r.attempts # << >> /\ Latest(r).status = "RESERVED"
  BY <1>2 DEF BranchForOpen
<1>3. CASE r.attempts # << >> /\ Latest(r).status = "RESOLVED"
  BY <1>3 DEF BranchForOpen
<1> QED BY <1>1, <1>2, <1>3, LatestType DEF Attempt

LEMMA BranchType ==
  ASSUME NEW r \in Record
  PROVE  Branch(r) \in {"idle", "authorize", "reopen", "check", "observe"}
  BY BranchForOpenType DEF Branch, Record, Statuses

-----------------------------------------------------------------------------
(* Passes *)

LEMMA IdleType == Idle \in PassState
<1>1. (CHOOSE c \in Contracts : TRUE) \in Contracts
  BY ContractsAssumption
<1> QED BY <1>1, NoRecordType, NoReviewType
        DEF Idle, PassState, Steps, EvidenceStates, Times, NoTime, Outcomes

\* What TypeOK says of one pass.
LEMMA PassFields ==
  ASSUME TypeOK, NEW p \in Passes
  PROVE  /\ pass[p] \in PassState
         /\ pass[p].pc \in Steps
         /\ pass[p].contract \in Contracts
         /\ pass[p].rec \in Record
         /\ pass[p].rec.version \in Int
         /\ pass[p].readAt \in Nat
         /\ pass[p].ok \in BOOLEAN
         /\ pass[p].answer \in EvidenceStates
         /\ pass[p].seenAt \in Times
         /\ pass[p].outcome \in Outcomes
         /\ pass[p].review \in Review
         /\ AttemptOf(p) \in Nat
<1>1. pass[p] \in PassState
  BY DEF TypeOK
<1>2. pass[p].rec \in Record
  BY <1>1 DEF PassState
<1>3. pass[p].rec.attempts \in Seq(Attempt) /\ pass[p].rec.version \in Int
  BY <1>2 DEF Record
<1>4. AttemptOf(p) \in Nat
  BY <1>3, LenProperties DEF AttemptOf
<1> QED BY <1>1, <1>2, <1>3, <1>4 DEF PassState

LEMMA ReturnType ==
  ASSUME TypeOK, NEW p \in Passes, Return(p)
  PROVE  pass' \in [Passes -> PassState] /\ lock' \in Passes \cup {NoPass}
<1>1. pass' \in [Passes -> PassState]
  BY IdleType DEF Return, Become, TypeOK
<1> QED BY <1>1 DEF Return, TypeOK

LEMMA HonestEvidenceType == HonestEvidence \in {"APPLIED", "PENDING", "NOT_APPLIED"}
  BY DEF HonestEvidence

LEMMA AnswersType == Answers \subseteq EvidenceStates
  BY HonestEvidenceType, InputsAssumption DEF Answers, EvidenceStates

\* A request changes state in place.
LEMMA RequestUpdateType ==
  ASSUME TypeOK, NEW n, NEW s \in RequestStates,
         requests' = [requests EXCEPT ![n].state = s]
  PROVE  requests' \in Seq(Request)
<1>1. requests \in Seq(Request)
  BY DEF TypeOK
<1>2. CASE n \in DOMAIN requests
  <2>1. n \in 1..Len(requests)
    BY <1>1, <1>2, LenProperties
  <2>2. requests[n] \in Request
    BY <1>1, <2>1, ElementOfSeq
  <2>3. [requests[n] EXCEPT !.state = s] \in Request
    BY <2>2 DEF Request
  <2>4. requests' = [requests EXCEPT ![n] = [requests[n] EXCEPT !.state = s]]
    OBVIOUS
  <2> QED BY <1>1, <2>1, <2>3, <2>4, ExceptSeq
<1>3. CASE n \notin DOMAIN requests
  <2>1. requests' = requests
    BY <1>1, <1>3, LenProperties
  <2> QED BY <1>1, <2>1
<1> QED BY <1>2, <1>3

\* The attempt p resolves, and the record it writes.
LEMMA ResolvedType ==
  ASSUME TypeOK, NEW p \in Passes, AttemptOf(p) > 0
  PROVE  /\ DecisionOf(p, clock) \in [disposition : Dispositions, retryNotBefore : Times]
         /\ ResolvedAttempt(p, DecisionOf(p, clock)) \in Attempt
         /\ WithResolved(p, DecisionOf(p, clock)) \in Record
<1> DEFINE r == pass[p].rec
           a == Latest(r)
           c == pass[p].contract
           d == DecisionOf(p, clock)
<1>1. /\ r \in Record /\ c \in Contracts /\ AttemptOf(p) \in Nat /\ clock \in Nat
      /\ pass[p].ok \in BOOLEAN /\ pass[p].answer \in EvidenceStates
      /\ pass[p].seenAt \in Times
  BY PassFields DEF TypeOK
<1>2. r.attempts \in Seq(Attempt) /\ r.attempts # << >>
  BY <1>1, EmptySeq DEF AttemptOf, Record
<1>3. a \in Attempt
  BY <1>1, <1>2, LatestType
<1>4. a.startedAt \in Nat /\ a.maxInFlightMs \in Times
  BY <1>3 DEF Attempt
<1>5. SettlementWindow(c.maxInFlightMs, a.maxInFlightMs) \in Times
  BY <1>1, <1>4, ContractFields, SettlementWindowType
<1>6. d \in [disposition : Dispositions, retryNotBefore : Times]
  <2> DEFINE s == [ok |-> pass[p].ok, startedAt |-> a.startedAt, now |-> clock,
                   window |-> SettlementWindow(c.maxInFlightMs, a.maxInFlightMs)]
  <2>1. s \in [ok : BOOLEAN, startedAt : Nat, now : Nat, window : Times]
    BY <1>1, <1>4, <1>5
  <2>2. d = DecideDisposition(pass[p].answer, AttemptOf(p), c, s)
    BY DEF DecisionOf
  <2> HIDE DEF s, d
  <2> QED BY <1>1, <2>1, <2>2, DecideDispositionType
<1> HIDE DEF d
<1>7. ResolvedAttempt(p, d) \in Attempt
  BY <1>1, <1>3, <1>6 DEF ResolvedAttempt, Attempt
<1>8. WithResolved(p, d) \in Record
  <2>1. [r.attempts EXCEPT ![AttemptOf(p)] = ResolvedAttempt(p, d)] \in Seq(Attempt)
    BY <1>1, <1>2, <1>7, ExceptSeq DEF AttemptOf
  <2>2. StatusAfter(pass[p].answer, d.disposition) \in Statuses
    BY DEF StatusAfter, Statuses
  <2> QED BY <1>1, <2>1, <2>2 DEF WithResolved, Record
<1> QED BY <1>6, <1>7, <1>8 DEF d

\* A pass with no attempt (there is none at this step) would leave the attempts alone.
LEMMA WithResolvedType ==
  ASSUME TypeOK, NEW p \in Passes
  PROVE  WithResolved(p, DecisionOf(p, clock)) \in Record
<1>1. CASE AttemptOf(p) > 0
  BY <1>1, ResolvedType
<1>2. CASE AttemptOf(p) = 0
  <2> DEFINE d == DecisionOf(p, clock)
             attempts == pass[p].rec.attempts
  <2>1. attempts \in Seq(Attempt)
    BY PassFields DEF Record
  <2>2. DOMAIN attempts = 1..Len(attempts) /\ Len(attempts) = 0
    BY <1>2, <2>1, LenProperties DEF AttemptOf
  <2>3. [attempts EXCEPT ![AttemptOf(p)] = ResolvedAttempt(p, d)] = attempts
    BY <1>2, <2>1, <2>2
  <2>4. StatusAfter(pass[p].answer, d.disposition) \in Statuses
    BY DEF StatusAfter, Statuses
  <2> HIDE DEF d
  <2>5. WithResolved(p, d) \in Record
    BY <2>1, <2>3, <2>4, PassFields DEF WithResolved, Record
  <2> QED BY <2>5 DEF d
<1> QED BY <1>1, <1>2, PassFields

-----------------------------------------------------------------------------
(* Type correctness *)

LEMMA TypeInit == Init => TypeOK
<1> SUFFICES ASSUME Init PROVE TypeOK
  OBVIOUS
<1>1. op \in Record
  BY InputsAssumption, NoRecordType, OlderRecordFacts DEF Init
<1>2. pass \in [Passes -> PassState]
  BY IdleType DEF Init
<1>3. requests \in Seq(Request)
  BY EmptySeq DEF Init
<1> QED BY <1>1, <1>2, <1>3 DEF Init, TypeOK

\* The decision a reviewer sends, as recordReview records it.
LEMMA RecordedReviewType ==
  ASSUME NEW r \in Record, NEW c \in Contracts, NEW now \in Nat,
         NEW d, d.decision \in {"approved", "rejected"}, d.token \in Nat,
         d.decidedAt \in Times, d.expiresAt \in Times
  PROVE  RecordedReview(r, c, d, now) \in Review
<1>1. Len(r.attempts) \in Nat
  BY LenProperties DEF Record
<1>2. c.fingerprint \in Nat
  BY ContractFields
<1> QED BY <1>1, <1>2 DEF RecordedReview, Review, Times, NoTime

LEMMA DecisionsType ==
  ASSUME TypeOK, NEW d \in Decisions
  PROVE  /\ d.decision \in {"approved", "rejected"}
         /\ d.token \in Nat
         /\ d.decidedAt \in Times
         /\ d.expiresAt \in Times
<1>1. op.episode.generation \in Nat
  BY DEF TypeOK, Record, Episode
<1> QED BY <1>1, InputsAssumption DEF Decisions

\* A write replaces the record with one of its type.
LEMMA WriteType ==
  ASSUME TypeOK, NEW p \in Passes, NEW r \in Record, Write(p, r)
  PROVE  op' \in Record
<1>1. pass[p].rec.version + 1 \in Int
  BY PassFields
<1> QED BY <1>1 DEF Write, Record

LEMMA TypeStep == TypeOK /\ [Next]_vars => TypeOK'
<1> SUFFICES ASSUME TypeOK, [Next]_vars PROVE TypeOK'
  OBVIOUS
<1>1. ASSUME NEW p \in Passes, BeginRun(p) PROVE TypeOK'
  <2>1. \A c \in Contracts : [Idle EXCEPT !.pc = "read", !.contract = c] \in PassState
    BY IdleType DEF PassState, Steps
  <2> QED BY <1>1, <2>1 DEF BeginRun, AcquireLock, Become, TypeOK
<1>2. ASSUME NEW p \in Passes, BeginReview(p) PROVE TypeOK'
  <2>1. \A c \in Contracts : [Idle EXCEPT !.pc = "review", !.contract = c] \in PassState
    BY IdleType DEF PassState, Steps
  <2> QED BY <1>2, <2>1 DEF BeginReview, AcquireLock, Become, TypeOK
<1>3. ASSUME NEW p \in Passes, ReadAndReturn(p) PROVE TypeOK'
  BY <1>3, ReturnType DEF ReadAndReturn, TypeOK
<1>4. ASSUME NEW p \in Passes, ReadAndContinue(p) PROVE TypeOK'
  <2>1. Branch(op) \in Steps
    BY BranchType DEF TypeOK, Steps
  <2>2. (op.attempts # << >> /\ Latest(op).ok) \in BOOLEAN
    OBVIOUS
  <2>3. pass'[p] \in PassState
    BY <1>4, <2>1, <2>2 DEF ReadAndContinue, Become, TypeOK, PassState
  <2> QED BY <1>4, <2>3 DEF ReadAndContinue, Become, TypeOK
<1>5. ASSUME NEW p \in Passes, Authorize(p) PROVE TypeOK'
  <2>1. PICK outcome \in Outcomes :
          pass' = [pass EXCEPT ![p] = [pass[p] EXCEPT !.pc = "create", !.outcome = outcome]]
    BY <1>5 DEF Authorize, Become, Outcomes
  <2>2. [pass[p] EXCEPT !.pc = "create", !.outcome = outcome] \in PassState
    BY PassFields DEF PassState, Steps
  <2> QED BY <1>5, <2>1, <2>2 DEF Authorize, TypeOK
<1>6. ASSUME NEW p \in Passes, CreateAwaitingReview(p) PROVE TypeOK'
  <2>1. [generation |-> 1, openedAt |-> clock] \in Episode
    BY DEF TypeOK, Episode
  <2>2. NewRecord("AWAITING_REVIEW", TRUE, [generation |-> 1, openedAt |-> clock]) \in Record
    BY <2>1, NewRecordType DEF Statuses
  <2>3. op' \in Record
    BY <1>6, <2>2, WriteType DEF CreateAwaitingReview
  <2> QED BY <1>6, <2>3, ReturnType DEF CreateAwaitingReview, TypeOK
<1>7. ASSUME NEW p \in Passes, CreateOpen(p) PROVE TypeOK'
  <2>1. NewRecord("OPEN", FALSE, NoEpisode) \in Record
    BY NewRecordType, NoEpisodeType DEF Statuses
  <2>2. op' \in Record
    BY <1>7, <2>1, WriteType DEF CreateOpen
  <2> QED BY <1>7, <2>2 DEF CreateOpen, Become, TypeOK, PassState, Steps
<1>8. ASSUME NEW p \in Passes, Reopen(p) PROVE TypeOK'
  <2>1. WithNewEpisode(pass[p].rec, clock) \in Record
    BY PassFields, WithNewEpisodeType DEF TypeOK
  <2>2. op' \in Record
    BY <1>8, <2>1, WriteType DEF Reopen
  <2> QED BY <1>8, <2>2, ReturnType DEF Reopen, TypeOK
<1>9. ASSUME NEW p \in Passes, AttemptUnchecked(p) PROVE TypeOK'
  <2>1. [pass[p] EXCEPT !.pc = "reserve", !.readAt = clock] \in PassState
    BY PassFields DEF PassState, Steps, TypeOK
  <2> QED BY <1>9, <2>1 DEF AttemptUnchecked, Become, TypeOK
<1>10. ASSUME NEW p \in Passes, ApprovalRefused(p) PROVE TypeOK'
  <2>1. [pass[p] EXCEPT !.pc = "block", !.outcome = "requiresReview"] \in PassState
    BY PassFields DEF PassState, Steps, Outcomes
  <2> QED BY <1>10, <2>1 DEF ApprovalRefused, Become, TypeOK
<1>11. ASSUME NEW p \in Passes, StartRevalidate(p) PROVE TypeOK'
  <2>1. [pass[p] EXCEPT !.pc = "revalidate"] \in PassState
    BY PassFields DEF PassState, Steps
  <2> QED BY <1>11, <2>1 DEF StartRevalidate, Goto, Become, TypeOK
<1>12. ASSUME NEW p \in Passes, Revalidated(p) PROVE TypeOK'
  <2>1. PICK outcome \in Outcomes :
          Become(p, [pass[p] EXCEPT !.pc = IF outcome = "none" THEN "reserve" ELSE "block",
                                    !.outcome = outcome, !.readAt = clock])
    BY <1>12, InputsAssumption DEF Revalidated, Outcomes
  <2> DEFINE pc == IF outcome = "none" THEN "reserve" ELSE "block"
  <2>2. [pass[p] EXCEPT !.pc = pc, !.outcome = outcome, !.readAt = clock] \in PassState
    <3>1. pc \in Steps
      BY DEF Steps
    <3> HIDE DEF pc
    <3> QED BY <3>1, PassFields DEF PassState, TypeOK
  <2> QED BY <1>12, <2>1, <2>2 DEF Revalidated, Become, TypeOK
<1>13. ASSUME NEW p \in Passes, WriteBlock(p) PROVE TypeOK'
  <2>1. Blocked(pass[p].rec, pass[p].outcome, clock) \in Record
    BY PassFields, BlockedType DEF TypeOK
  <2>2. op' \in Record
    BY <1>13, <2>1, WriteType DEF WriteBlock
  <2> QED BY <1>13, <2>2, ReturnType DEF WriteBlock, TypeOK
<1>14. ASSUME NEW p \in Passes, Reserve(p) PROVE TypeOK'
  <2> DEFINE window == pass[p].contract.maxInFlightMs
             startedAt == pass[p].readAt
             reserved == [pass[p].rec EXCEPT !.attempts = Append(@, Reserved(startedAt, window))]
  <2>1. window \in Times /\ startedAt \in Nat
    BY PassFields, ContractFields
  <2>2. reserved \in Record
    <3>1. Append(pass[p].rec.attempts, Reserved(startedAt, window)) \in Seq(Attempt)
      BY <2>1, PassFields, ReservedType, AppendProperties DEF Record
    <3> QED BY <3>1, PassFields DEF Record
  <2>3. op' \in Record
    BY <1>14, <2>2, WriteType DEF Reserve
  <2>4. Deadline(startedAt, window) \in Nat
    BY <2>1, BoundsAssumption DEF Deadline, Times, NoTime, NoWindow
  <2>5. [state |-> "unsent", deadline |-> Deadline(startedAt, window)] \in Request
    BY <2>4 DEF Request, RequestStates
  <2>6. requests' \in Seq(Request)
    BY <1>14, <2>5, AppendProperties DEF Reserve, TypeOK
  <2> QED BY <1>14, <2>3, <2>6 DEF Reserve, Become, TypeOK, PassState, Steps
<1>15. ASSUME NEW p \in Passes, Execute(p) PROVE TypeOK'
  <2>1. requests' \in Seq(Request)
    BY <1>15, RequestUpdateType DEF Execute, Send, RequestStates
  <2> QED BY <1>15, <2>1 DEF Execute, Goto, Become, TypeOK, PassState, Steps
<1>16. ASSUME NEW p \in Passes, ExecuteReturned(p) \/ ExecuteFailed(p) PROVE TypeOK'
  <2>1. PICK ok \in BOOLEAN :
          pass' = [pass EXCEPT ![p] = [pass[p] EXCEPT !.pc = "observe", !.ok = ok]]
    BY <1>16 DEF ExecuteReturned, ExecuteFailed, Become
  <2>2. [pass[p] EXCEPT !.pc = "observe", !.ok = ok] \in PassState
    BY PassFields DEF PassState, Steps
  <2> QED BY <1>16, <2>1, <2>2 DEF ExecuteReturned, ExecuteFailed, TypeOK
<1>17. ASSUME NEW p \in Passes, Observe(p) PROVE TypeOK'
  <2>1. PICK answer \in EvidenceStates :
          pass' = [pass EXCEPT ![p] = [pass[p] EXCEPT !.pc = "resolve", !.answer = answer,
                                                      !.seenAt = clock]]
    BY <1>17, AnswersType DEF Observe, Become
  <2> QED BY <1>17, <2>1 DEF Observe, TypeOK, PassState, Steps, Times
<1>18. ASSUME NEW p \in Passes, ResolveAndReturn(p) PROVE TypeOK'
  <2>1. op' \in Record
    BY <1>18, WithResolvedType, WriteType DEF ResolveAndReturn
  <2> QED BY <1>18, <2>1, ReturnType DEF ResolveAndReturn, TypeOK
<1>19. ASSUME NEW p \in Passes, ResolveAndContinue(p) PROVE TypeOK'
  <2>1. op' \in Record
    BY <1>19, WithResolvedType, WriteType DEF ResolveAndContinue
  <2> QED BY <1>19, <2>1 DEF ResolveAndContinue, Become, TypeOK, PassState, Steps
<1>20. ASSUME NEW p \in Passes, RefuseDecision(p) PROVE TypeOK'
  BY <1>20, ReturnType DEF RefuseDecision, TypeOK
<1>21. ASSUME NEW p \in Passes, AcceptDecision(p) PROVE TypeOK'
  <2>1. PICK d \in Decisions :
          Become(p, [pass[p] EXCEPT !.pc = "record", !.rec = op,
                       !.review = RecordedReview(op, pass[p].contract, d, clock)])
    BY <1>21 DEF AcceptDecision
  <2>2. RecordedReview(op, pass[p].contract, d, clock) \in Review
    BY PassFields, DecisionsType, RecordedReviewType DEF TypeOK
  <2>3. [pass[p] EXCEPT !.pc = "record", !.rec = op,
                        !.review = RecordedReview(op, pass[p].contract, d, clock)] \in PassState
    BY <2>2, PassFields DEF TypeOK, PassState, Steps
  <2> QED BY <1>21, <2>1, <2>3 DEF AcceptDecision, Become, TypeOK
<1>22. ASSUME NEW p \in Passes, RecordDecision(p) PROVE TypeOK'
  <2> DEFINE answered == [pass[p].rec EXCEPT
                !.status = IF pass[p].review.decision = "approved" THEN "OPEN" ELSE "CLOSED",
                !.review = pass[p].review]
  <2>1. answered \in Record
    BY PassFields DEF Record, Statuses
  <2>2. op' \in Record
    BY <1>22, <2>1, WriteType DEF RecordDecision
  <2> QED BY <1>22, <2>2, ReturnType DEF RecordDecision, TypeOK
<1>23. ASSUME NEW p \in Passes, Conflict(p) PROVE TypeOK'
  BY <1>23, ReturnType DEF Conflict, TypeOK
<1>24. ASSUME NEW p \in Passes, Crash(p) PROVE TypeOK'
  BY <1>24, ReturnType DEF Crash, TypeOK
<1>25. ASSUME NEW p \in Passes, LoseLock(p) PROVE TypeOK'
  BY <1>25 DEF LoseLock, TypeOK
<1>26. ASSUME NEW n \in DOMAIN requests, Land(n) \/ Accept(n) \/ Refuse(n) PROVE TypeOK'
  <2>1. requests' \in Seq(Request)
    BY <1>26, RequestUpdateType DEF Land, Accept, Refuse, RequestStates
  <2> QED BY <1>26, <2>1 DEF Land, Accept, Refuse, TypeOK
<1>27. CASE Tick
  BY <1>27 DEF Tick, TypeOK
<1>28. CASE UNCHANGED vars
  BY <1>28 DEF vars, TypeOK
<1> QED
  BY <1>1, <1>2, <1>3, <1>4, <1>5, <1>6, <1>7, <1>8, <1>9, <1>10, <1>11, <1>12, <1>13, <1>14,
     <1>15, <1>16, <1>17, <1>18, <1>19, <1>20, <1>21, <1>22, <1>23, <1>24, <1>25, <1>26, <1>27,
     <1>28
  DEF Next, Begin, Run, ReviewCall, Fault, Provider

\* Whatever the contracts, callers, faults and answers, every variable keeps its type.
THEOREM TypeCorrect == Spec => []TypeOK
<1>1. Init => TypeOK
  BY TypeInit
<1>2. TypeOK /\ [Next]_vars => TypeOK'
  BY TypeStep
<1> QED BY <1>1, <1>2, PTL DEF Spec

-----------------------------------------------------------------------------
(* Requests *)

LEMMA RequestFields ==
  ASSUME TypeOK, NEW n \in 1..Len(requests)
  PROVE  requests[n].state \in RequestStates /\ requests[n].deadline \in Nat
<1>1. requests \in Seq(Request)
  BY DEF TypeOK
<1>2. requests[n] \in Request
  BY <1>1, ElementOfSeq
<1> QED BY <1>2 DEF Request

\* The requests after a step that makes none: what was over stays over.
RequestsPreserved ==
  /\ Len(requests') = Len(requests)
  /\ \A n \in 1..Len(requests) :
       /\ requests'[n].deadline = requests[n].deadline
       /\ Gone(n) => Gone(n)'
       /\ Answered(n) => Answered(n)'

\* Time passing brings no request back.
LEMMA TimePreservesRequests ==
  ASSUME TypeOK, UNCHANGED requests, clock' \in Nat, clock' >= clock
  PROVE  RequestsPreserved
<1>1. ASSUME NEW n \in 1..Len(requests) PROVE Gone(n) => Gone(n)'
  BY <1>1, RequestFields DEF Gone, CanLand, InTime, TypeOK
<1> QED BY <1>1 DEF RequestsPreserved, Answered

\* One request changes state.
LEMMA ChangedRequest ==
  ASSUME TypeOK, NEW n \in DOMAIN requests, NEW s \in RequestStates,
         requests' = [requests EXCEPT ![n].state = s]
  PROVE  /\ Len(requests') = Len(requests)
         /\ n \in 1..Len(requests)
         /\ requests'[n].state = s
         /\ requests'[n].deadline = requests[n].deadline
         /\ \A m \in 1..Len(requests) : m # n => requests'[m] = requests[m]
<1>1. requests \in Seq(Request)
  BY DEF TypeOK
<1>2. DOMAIN requests = 1..Len(requests)
  BY <1>1, LenProperties
<1>3. requests[n] \in Request
  BY <1>1, <1>2, ElementOfSeq
<1>4. requests' = [requests EXCEPT ![n] = [requests[n] EXCEPT !.state = s]]
  OBVIOUS
<1>5. requests' \in Seq(Request) /\ Len(requests') = Len(requests)
  <2>1. [requests[n] EXCEPT !.state = s] \in Request
    BY <1>3 DEF Request
  <2> QED BY <1>1, <1>2, <1>4, <2>1, ExceptSeq
<1> QED BY <1>2, <1>3, <1>4, <1>5 DEF Request

\* The provider's steps, and the sending of a request nobody has sent, bring no
\* other request back and never bring this one back.
LEMMA StepPreservesRequests ==
  ASSUME TypeOK, NEW n \in DOMAIN requests, NEW s \in RequestStates,
         requests' = [requests EXCEPT ![n].state = s], UNCHANGED clock,
         \/ ~Gone(n) /\ s \in {"landed", "accepted"}
         \/ s = "refused"
         \/ requests[n].state = "unsent" /\ s = "flying"
  PROVE  RequestsPreserved
<1>1. /\ Len(requests') = Len(requests)
      /\ n \in 1..Len(requests)
      /\ requests'[n].state = s
      /\ requests'[n].deadline = requests[n].deadline
      /\ \A m \in 1..Len(requests) : m # n => requests'[m] = requests[m]
  BY ChangedRequest
<1>2. ASSUME NEW m \in 1..Len(requests)
      PROVE  /\ requests'[m].deadline = requests[m].deadline
             /\ Gone(m) => Gone(m)'
             /\ Answered(m) => Answered(m)'
  <2>1. CASE m = n
    BY <1>1, <2>1 DEF Gone, CanLand, InTime, Answered
  <2>2. CASE m # n
    BY <1>1, <2>2 DEF Gone, CanLand, InTime, Answered
  <2> QED BY <2>1, <2>2
<1> QED BY <1>1, <1>2 DEF RequestsPreserved

\* A read that says NOT_APPLIED: no request has landed, and none is pending.
LEMMA NotApplied ==
  ASSUME TypeOK, "NOT_APPLIED" \in Answers, NEW n \in 1..Len(requests),
         Answered(n) \/ clock >= requests[n].deadline
  PROVE  Gone(n)
<1>1. HonestEvidence = "NOT_APPLIED"
  BY InputsAssumption DEF Answers
<1>2. n \in DOMAIN requests
  BY LenProperties DEF TypeOK
<1>3. requests[n].state \notin {"landed", "accepted"}
  BY <1>1, <1>2 DEF HonestEvidence
<1>4. clock \in Nat
  BY DEF TypeOK
<1> QED BY <1>3, <1>4, RequestFields DEF Gone, CanLand, InTime, Answered

-----------------------------------------------------------------------------
(* Passes a step does not touch *)

\* Another pass moves, the provider acts, or time passes.
LEMMA Bystander ==
  ASSUME SafetyInvariant, UNCHANGED op, clock' \in Nat, clock' >= clock, RequestsPreserved,
         NEW q \in Passes, pass'[q] = pass[q],
         At(q, "execute") => requests'[AttemptOf(q)] = requests[AttemptOf(q)]
  PROVE  PassInvariant(q)'
<1>1. PassInvariant(q) /\ Len(requests) = Last /\ TypeOK
  BY DEF SafetyInvariant, RecordInvariant, RequestsMatchAttempts
<1>2. Last \in Nat /\ AttemptOf(q) \in Nat /\ clock \in Nat
  BY <1>1, PassFields, LenProperties DEF TypeOK, Record, Last
<1>3. VersionIdentifiesRecord(q)' /\ ActsOnOpenRecord(q)'
  BY <1>1 DEF PassInvariant, VersionIdentifiesRecord, ActsOnOpenRecord, Live
<1>4. AttemptsSafely(q)'
  BY <1>1, <1>2 DEF PassInvariant, AttemptsSafely, Live, Last, Settling, RequestsPreserved
<1>5. KnowsItsRequest(q)'
  BY <1>1, <1>2 DEF PassInvariant, KnowsItsRequest, AttemptOf, At, Last, RequestsPreserved
<1>6. ObservesInTime(q)'
  <2>1. SUFFICES ASSUME (At(q, "observe") /\ Live(q) /\ Settling(op) /\ ~pass[q].ok)'
                 PROVE  clock' >= requests'[Last].deadline
    BY DEF ObservesInTime, Last
  <2>2. clock >= requests[Last].deadline
    BY <1>1, <2>1 DEF PassInvariant, ObservesInTime, At, Live, Settling
  <2>3. Last \in 1..Len(requests)
    BY <1>1, <1>2, <2>1, EmptySeq DEF Settling, Last, TypeOK, Record
  <2> QED BY <1>1, <1>2, <2>2, <2>3, RequestFields DEF RequestsPreserved
<1>7. ObservationIsFinal(q)'
  <2>1. SUFFICES ASSUME (At(q, "resolve") /\ Live(q) /\ pass[q].answer = "NOT_APPLIED"
                          /\ (pass[q].ok \/ Settling(op)))'
                 PROVE  Gone(Last)'
    BY DEF ObservationIsFinal
  <2>2. Gone(Last)
    BY <1>1, <2>1 DEF PassInvariant, ObservationIsFinal, At, Live, Settling
  <2>3. Last \in 1..Len(requests)
    <3>1. pass[q].rec = op /\ AttemptOf(q) > 0
      BY <1>1, <2>1 DEF PassInvariant, VersionIdentifiesRecord, KnowsItsRequest, Live, At
    <3> QED BY <1>1, <1>2, <3>1 DEF AttemptOf, Last
  <2> QED BY <2>2, <2>3 DEF RequestsPreserved, Last
<1> QED BY <1>3, <1>4, <1>5, <1>6, <1>7 DEF PassInvariant

\* Another pass writes the record: from here on this pass's own write conflicts.
LEMMA Overwritten ==
  ASSUME SafetyInvariant, op'.version = op.version + 1, Last' \in Nat, Last' >= Last,
         UNCHANGED clock, \A n \in 1..Last : requests'[n] = requests[n],
         NEW q \in Passes, pass'[q] = pass[q]
  PROVE  PassInvariant(q)'
<1>1. PassInvariant(q) /\ TypeOK
  BY DEF SafetyInvariant
<1>2. /\ op.version \in Int /\ pass[q].rec.version \in Int
      /\ Last \in Nat /\ AttemptOf(q) \in Nat
  BY <1>1, PassFields, LenProperties DEF TypeOK, Record, Last
<1>3. ~Live(q)' /\ pass'[q].rec.version <= op'.version
  BY <1>1, <1>2 DEF PassInvariant, VersionIdentifiesRecord, Live
<1>4. ActsOnOpenRecord(q)'
  BY <1>1 DEF PassInvariant, ActsOnOpenRecord
<1>5. KnowsItsRequest(q)'
  BY <1>1, <1>2 DEF PassInvariant, KnowsItsRequest, AttemptOf, At, Answered
<1> QED BY <1>3, <1>4, <1>5
        DEF PassInvariant, VersionIdentifiesRecord, AttemptsSafely, ObservesInTime,
            ObservationIsFinal

\* A call that has returned.
LEMMA IdlePass ==
  ASSUME op' \in Record, NothingBeforeCreation', NEW q \in Passes, pass'[q] = Idle
  PROVE  PassInvariant(q)'
<1>1. /\ pass'[q].pc = "idle" /\ pass'[q].rec = NoRecord
  BY DEF Idle
<1>2. NoRecord.version = -1 /\ Len(NoRecord.attempts) = 0
  BY DEF NoRecord, NewRecord
<1>3. Last' \in Nat
  BY LenProperties DEF Last, Record
<1>4. VersionIdentifiesRecord(q)'
  BY <1>1, <1>2 DEF VersionIdentifiesRecord, NothingBeforeCreation, Live, Record
<1> QED BY <1>1, <1>2, <1>3, <1>4
        DEF PassInvariant, ActsOnOpenRecord, AttemptsSafely, KnowsItsRequest, AttemptOf,
            ObservesInTime, ObservationIsFinal, At

-----------------------------------------------------------------------------
(* The record *)

\* A step that writes nothing.
LEMMA RecordKept ==
  ASSUME SafetyInvariant, UNCHANGED op, clock' \in Nat, clock' >= clock, RequestsPreserved
  PROVE  RecordInvariant'
<1>1. RecordInvariant /\ TypeOK
  BY DEF SafetyInvariant
<1>2. Last \in Nat /\ Len(requests) = Last /\ clock \in Nat
  BY <1>1, LenProperties DEF TypeOK, Record, Last, RecordInvariant, RequestsMatchAttempts
<1>3. RequestsMatchAttempts'
  BY <1>1, <1>2 DEF RecordInvariant, RequestsMatchAttempts, Last, RequestsPreserved
<1>4. NothingBeforeCreation' /\ HistoryIsSettled'
  BY <1>1 DEF RecordInvariant, NothingBeforeCreation, HistoryIsSettled
<1>5. EarlierRequestsGone'
  BY <1>1, <1>2 DEF RecordInvariant, EarlierRequestsGone, RequestsPreserved
<1>6. RetryIsSound'
  <2>1. SUFFICES ASSUME Settling(op), Settling(op)'
                 PROVE  RetryIsSound'
    BY DEF RetryIsSound, Settling
  <2>2. Last \in 1..Len(requests)
    BY <1>1, <1>2, <2>1, EmptySeq DEF Settling, Last, TypeOK, Record
  <2> QED BY <1>1, <1>2, <2>1, <2>2, RequestFields
          DEF RecordInvariant, RetryIsSound, RequestsPreserved, Last, Latest
<1>7. ResponseIsReal'
  BY <1>1, <1>2 DEF RecordInvariant, ResponseIsReal, RequestsPreserved, Last
<1> QED BY <1>3, <1>4, <1>5, <1>6, <1>7 DEF RecordInvariant

\* A write that leaves the attempts alone.
LEMMA AttemptsKept ==
  ASSUME RecordInvariant, op'.attempts = op.attempts, UNCHANGED <<requests, clock>>,
         NothingBeforeCreation'
  PROVE  RecordInvariant'
  BY DEF RecordInvariant, RequestsMatchAttempts, EarlierRequestsGone, HistoryIsSettled,
         RetryIsSound, ResponseIsReal, Settling, Latest, Last, Gone, CanLand, InTime, Answered

\* A version-checked write goes through only if the pass holds the stored record.
LEMMA WriteFacts ==
  ASSUME SafetyInvariant, NEW p \in Passes, NEW r \in Record, Write(p, r)
  PROVE  /\ Live(p) /\ pass[p].rec = op
         /\ op' = [r EXCEPT !.version = op.version + 1]
         /\ op'.version = op.version + 1
         /\ op'.attempts = r.attempts /\ op'.status = r.status
         /\ op.version >= -1 /\ op.version \in Int
<1>1. VersionIdentifiesRecord(p) /\ NothingBeforeCreation /\ TypeOK
  BY DEF SafetyInvariant, PassInvariant, RecordInvariant
<1>2. Live(p) /\ pass[p].rec = op
  BY <1>1 DEF Write, Current, Live, VersionIdentifiesRecord
<1> QED BY <1>1, <1>2 DEF Write, Record, NothingBeforeCreation, TypeOK

\* One pass moves out of, or stays out of, execute().
LEMMA OneExecutionKept ==
  ASSUME TypeOK, OneExecutionPerAttempt, NEW p \in Passes,
         pass' = [pass EXCEPT ![p] = pass'[p]], pass'[p].pc \notin {"execute", "executing"}
  PROVE  OneExecutionPerAttempt'
<1>1. \A q \in Passes : q # p => pass'[q] = pass[q]
  BY DEF TypeOK
<1> QED BY <1>1 DEF OneExecutionPerAttempt, AttemptOf

-----------------------------------------------------------------------------
(* The decision a pass resolves with *)

\* What decideDisposition's RETRY means for the request it would follow.
LEMMA RetryDecision ==
  ASSUME TypeOK, NEW p \in Passes, AttemptOf(p) > 0,
         DecisionOf(p, clock).disposition = "RETRY"
  PROVE  LET d == DecisionOf(p, clock)
             a == Latest(pass[p].rec)
         IN  /\ pass[p].answer = "NOT_APPLIED"
             /\ pass[p].ok => d.retryNotBefore = NoTime
             /\ ~pass[p].ok =>
                  IF d.retryNotBefore = NoTime
                  THEN clock >= Deadline(a.startedAt, a.maxInFlightMs)
                  ELSE d.retryNotBefore >= Deadline(a.startedAt, a.maxInFlightMs)
<1> DEFINE a == Latest(pass[p].rec)
           c == pass[p].contract
           w == SettlementWindow(c.maxInFlightMs, a.maxInFlightMs)
           d == DecisionOf(p, clock)
<1>1. /\ pass[p].ok \in BOOLEAN /\ pass[p].answer \in EvidenceStates
      /\ clock \in Nat /\ c \in Contracts
  BY PassFields DEF TypeOK
<1>2. a.startedAt \in Nat /\ a.maxInFlightMs \in Times
  <2>1. pass[p].rec \in Record
    BY PassFields
  <2>2. pass[p].rec.attempts # << >>
    BY <2>1, EmptySeq DEF AttemptOf, Record
  <2>3. a \in Attempt
    BY <2>1, <2>2, LatestType
  <2> QED BY <2>3 DEF Attempt
<1>3. /\ w \in Times
      /\ w # NoWindow => a.startedAt + w >= Deadline(a.startedAt, a.maxInFlightMs)
  BY <1>1, <1>2, ContractFields, SettlementWindowType, BoundsAssumption
     DEF SettlementWindow, Deadline, Times, NoTime, NoWindow
<1> HIDE DEF w
<1>4. /\ pass[p].answer = "NOT_APPLIED"
      /\ d = DecideRetry(pass[p].ok, a.startedAt, w, clock)
  BY <1>1 DEF DecisionOf, DecideDisposition, Decision, EvidenceStates, w
<1>5. CASE pass[p].ok \/ (w # NoWindow /\ clock >= a.startedAt + w)
  <2>1. d = Decision("RETRY", NoTime)
    BY <1>1, <1>2, <1>3, <1>4, <1>5 DEF DecideRetry, Times, NoTime, NoWindow
  <2>2. Deadline(a.startedAt, a.maxInFlightMs) \in Nat
    BY <1>2, BoundsAssumption DEF Deadline, Times, NoTime, NoWindow
  <2> QED BY <1>1, <1>2, <1>3, <1>4, <1>5, <2>1, <2>2 DEF Decision, Times, NoTime
<1>6. CASE ~pass[p].ok /\ w = NoWindow
  BY <1>4, <1>6 DEF DecideRetry, Decision
<1>7. CASE ~pass[p].ok /\ w # NoWindow /\ clock < a.startedAt + w
  <2>1. d = Decision("RETRY", a.startedAt + w)
    BY <1>1, <1>2, <1>3, <1>4, <1>7 DEF DecideRetry, Times, NoTime, NoWindow
  <2> QED BY <1>2, <1>3, <1>4, <1>7, <2>1 DEF Decision, Times, NoTime, NoWindow
<1> QED BY <1>1, <1>2, <1>3, <1>5, <1>6, <1>7 DEF Times, NoTime, NoWindow

\* The record a pass resolves its attempt into.
LEMMA ResolvedRecord ==
  ASSUME SafetyInvariant, NEW p \in Passes, At(p, "resolve"),
         Write(p, WithResolved(p, DecisionOf(p, clock))), UNCHANGED <<requests, clock>>
  PROVE  /\ op' \in Record /\ Last' = Last /\ op'.version = op.version + 1
         /\ op'.status \in {"OPEN", "CLOSED"}
         /\ RecordInvariant'
         /\ GoesOn(pass[p].rec, DecisionOf(p, clock)) =>
              Settling(op)' /\ Latest(op)'.retryNotBefore = NoTime /\ Gone(Last)'
                /\ op'.status = "OPEN"
<1> DEFINE d == DecisionOf(p, clock)
           r == WithResolved(p, d)
<1>1. TypeOK /\ RecordInvariant /\ PassInvariant(p)
  BY DEF SafetyInvariant
<1>2. r \in Record
  BY <1>1, WithResolvedType
<1>3. /\ Live(p) /\ pass[p].rec = op
      /\ op'.version = op.version + 1 /\ op'.attempts = r.attempts /\ op'.status = r.status
      /\ op.version >= -1 /\ op.version \in Int
  BY <1>2, WriteFacts
<1>4. op' \in Record
  BY <1>1, <1>2, WriteType
<1>5. AttemptOf(p) = Last /\ Last \in Nat /\ Last > 0 /\ op.attempts \in Seq(Attempt)
  <2>1. op.attempts \in Seq(Attempt)
    BY <1>1 DEF TypeOK, Record
  <2>2. AttemptOf(p) > 0
    BY <1>1 DEF PassInvariant, KnowsItsRequest, At
  <2> QED BY <1>3, <2>1, <2>2, LenProperties DEF AttemptOf, Last
<1>6. /\ Latest(op) \in Attempt
      /\ ResolvedAttempt(p, d) \in Attempt
      /\ d \in [disposition : Dispositions, retryNotBefore : Times]
  <2>1. op.attempts # << >> /\ op \in Record
    BY <1>1, <1>5, EmptySeq DEF TypeOK, Last
  <2>2. Latest(op) \in Attempt
    BY <2>1, LatestType
  <2> QED BY <1>1, <1>5, <2>2, ResolvedType
<1> DEFINE a == ResolvedAttempt(p, d)
<1>7. /\ a.startedAt = Latest(op).startedAt /\ a.maxInFlightMs = Latest(op).maxInFlightMs
      /\ a.status = "RESOLVED" /\ a.ok = pass[p].ok /\ a.evidence = pass[p].answer
      /\ a.disposition = d.disposition /\ a.retryNotBefore = d.retryNotBefore
  BY <1>3, <1>6 DEF ResolvedAttempt, Attempt
<1>8. op'.status = StatusAfter(pass[p].answer, d.disposition)
  BY <1>1, <1>3, PassFields DEF WithResolved, Record
<1>9. op'.attempts = [op.attempts EXCEPT ![Last] = a]
  BY <1>1, <1>3, <1>5, PassFields DEF WithResolved, Record
<1> HIDE DEF d, r, a
<1>10. Last' = Last
  BY <1>5, <1>6, <1>9, ExceptSeq DEF Last, a
<1>11. /\ \A n \in 1..Last : n # Last => op'.attempts[n] = op.attempts[n]
       /\ op'.attempts[Last] = a /\ Latest(op)' = a
       /\ op'.attempts # << >>
  BY <1>5, <1>9, <1>10, LenProperties, EmptySeq DEF Last, Latest
<1>12. NothingBeforeCreation'
  BY <1>3, <1>8 DEF NothingBeforeCreation, StatusAfter
<1>13. RequestsMatchAttempts'
  BY <1>1, <1>5, <1>7, <1>10, <1>11 DEF RecordInvariant, RequestsMatchAttempts, Latest, Last
<1>14. HistoryIsSettled'
  BY <1>1, <1>5, <1>10, <1>11 DEF RecordInvariant, HistoryIsSettled, Last
<1>15. EarlierRequestsGone'
  BY <1>1 DEF RecordInvariant, EarlierRequestsGone, Gone, CanLand, InTime
<1>16. ResponseIsReal'
  BY <1>1, <1>5, <1>7, <1>10, <1>11
     DEF PassInvariant, KnowsItsRequest, ResponseIsReal, Answered, At
<1>17. requests[Last].deadline = Deadline(a.startedAt, a.maxInFlightMs)
  BY <1>1, <1>5, <1>7 DEF RecordInvariant, RequestsMatchAttempts, Latest, Last
<1>18. (d.disposition = "RETRY" /\ (pass[p].ok \/ Settling(op))) => Gone(Last)
  BY <1>1, <1>3, <1>5, RetryDecision DEF PassInvariant, ObservationIsFinal, d, At
<1>19. RetryIsSound'
  <2>1. SUFFICES ASSUME d.disposition = "RETRY"
                 PROVE  RetryIsSound'
    BY <1>7, <1>11 DEF RetryIsSound, Settling
  <2>2. pass[p].answer = "NOT_APPLIED" /\ (pass[p].ok => d.retryNotBefore = NoTime)
    BY <1>1, <1>5, <2>1, RetryDecision DEF d
  <2>3. ~pass[p].ok => IF d.retryNotBefore = NoTime
                       THEN clock >= requests[Last].deadline
                       ELSE d.retryNotBefore >= requests[Last].deadline
    BY <1>1, <1>3, <1>5, <1>7, <1>17, <2>1, RetryDecision DEF d
  <2>4. pass[p].ok => Gone(Last)'
    BY <1>10, <1>18, <2>1 DEF Gone, CanLand, InTime
  <2> QED BY <1>7, <1>10, <1>11, <2>2, <2>3, <2>4 DEF RetryIsSound
<1>20. GoesOn(pass[p].rec, d) =>
         Settling(op)' /\ Latest(op)'.retryNotBefore = NoTime /\ Gone(Last)'
           /\ op'.status = "OPEN"
  BY <1>3, <1>7, <1>8, <1>10, <1>11, <1>18
     DEF GoesOn, Settling, StatusAfter, Gone, CanLand, InTime
<1> QED BY <1>3, <1>4, <1>8, <1>10, <1>12, <1>13, <1>14, <1>15, <1>16, <1>19, <1>20
        DEF RecordInvariant, StatusAfter, d

-----------------------------------------------------------------------------
(* The invariant *)

LEMMA SafetyInit == Init => SafetyInvariant
<1> SUFFICES ASSUME Init PROVE SafetyInvariant
  OBVIOUS
<1>1. TypeOK
  BY TypeInit
<1>2. op.attempts = << >> /\ op.version >= -1 /\ op.status \in Statuses
      /\ (op.version = -1 \/ op.status = "NONE" => op = NoRecord)
  <2>1. CASE op = NoRecord
    BY <2>1 DEF NoRecord, NewRecord, Statuses
  <2>2. CASE op \in OlderRecords
    BY <2>2, OlderRecordFacts DEF Statuses
  <2> QED BY <2>1, <2>2, InputsAssumption DEF Init
<1>3. Last = 0 /\ requests = << >> /\ Len(requests) = 0
  BY <1>2, EmptySeq DEF Init, Last
<1>4. RecordInvariant
  BY <1>2, <1>3 DEF RecordInvariant, RequestsMatchAttempts, NothingBeforeCreation,
     EarlierRequestsGone, HistoryIsSettled, RetryIsSound, ResponseIsReal, Settling
<1>5. \A p \in Passes : pass[p].pc = "idle" /\ pass[p].rec = NoRecord
  BY DEF Init, Idle
<1>6. NoRecord.version = -1 /\ Len(NoRecord.attempts) = 0
  BY DEF NoRecord, NewRecord
<1>7. \A p \in Passes : PassInvariant(p)
  BY <1>2, <1>3, <1>5, <1>6 DEF PassInvariant, VersionIdentifiesRecord, Live, ActsOnOpenRecord,
     AttemptsSafely, KnowsItsRequest, AttemptOf, ObservesInTime, ObservationIsFinal, At
<1>8. OneExecutionPerAttempt
  BY <1>5 DEF OneExecutionPerAttempt
<1> QED BY <1>1, <1>4, <1>7, <1>8 DEF SafetyInvariant

\* A step that only moves pass p, out of execute() or past it: p's own part is left.
LEMMA OnlyPassMoves ==
  ASSUME SafetyInvariant, TypeOK', NEW p \in Passes, UNCHANGED <<op, requests, clock>>,
         pass' = [pass EXCEPT ![p] = pass'[p]], pass'[p].pc \notin {"execute", "executing"},
         PassInvariant(p)'
  PROVE  SafetyInvariant'
<1>1. TypeOK /\ OneExecutionPerAttempt /\ clock \in Nat
  BY DEF SafetyInvariant, TypeOK
<1>2. RequestsPreserved
  BY <1>1, TimePreservesRequests
<1>3. RecordInvariant'
  BY <1>1, <1>2, RecordKept
<1>4. ASSUME NEW q \in Passes, q # p PROVE PassInvariant(q)'
  <2>1. pass'[q] = pass[q]
    BY <1>1, <1>4 DEF TypeOK
  <2> QED BY <1>1, <1>2, <2>1, Bystander
<1>5. OneExecutionPerAttempt'
  BY <1>1, OneExecutionKept
<1> QED BY <1>3, <1>4, <1>5 DEF SafetyInvariant

\* A call that returns without writing.
LEMMA ReturnStep ==
  ASSUME SafetyInvariant, TypeOK', NEW p \in Passes, UNCHANGED <<op, requests, clock>>, Return(p)
  PROVE  SafetyInvariant'
<1>1. TypeOK /\ NothingBeforeCreation'
  BY DEF SafetyInvariant, RecordInvariant, NothingBeforeCreation
<1>2. pass' = [pass EXCEPT ![p] = pass'[p]] /\ pass'[p] = Idle
  BY <1>1 DEF Return, Become, TypeOK
<1>3. PassInvariant(p)'
  BY <1>1, <1>2, IdlePass DEF TypeOK
<1> QED BY <1>2, <1>3, OnlyPassMoves DEF Idle

\* A write, once the record's and the writer's parts are known.
LEMMA WriteStep ==
  ASSUME SafetyInvariant, TypeOK', NEW p \in Passes, UNCHANGED clock,
         op'.version = op.version + 1, Last' >= Last,
         \A n \in 1..Last : requests'[n] = requests[n],
         pass' = [pass EXCEPT ![p] = pass'[p]], pass'[p].pc \notin {"execute", "executing"},
         RecordInvariant', PassInvariant(p)'
  PROVE  SafetyInvariant'
<1>1. TypeOK /\ OneExecutionPerAttempt
  BY DEF SafetyInvariant
<1>2. Last' \in Nat
  BY LenProperties DEF Last, TypeOK, Record
<1>3. ASSUME NEW q \in Passes, q # p PROVE PassInvariant(q)'
  <2>1. pass'[q] = pass[q]
    BY <1>1, <1>3 DEF TypeOK
  <2> QED BY <1>2, <2>1, Overwritten
<1>4. OneExecutionPerAttempt'
  BY <1>1, OneExecutionKept
<1> QED BY <1>3, <1>4 DEF SafetyInvariant

\* The calls' last write: the attempts stay, and the call returns.
LEMMA LastWriteStep ==
  ASSUME SafetyInvariant, TypeOK', NEW p \in Passes, UNCHANGED <<requests, clock>>,
         op'.version = op.version + 1, op.version >= -1, op'.status # "NONE",
         op'.attempts = op.attempts, Return(p)
  PROVE  SafetyInvariant'
<1>1. TypeOK /\ RecordInvariant
  BY DEF SafetyInvariant
<1>2. NothingBeforeCreation'
  BY <1>1 DEF NothingBeforeCreation, TypeOK, Record
<1>3. RecordInvariant'
  BY <1>1, <1>2, AttemptsKept
<1>4. pass' = [pass EXCEPT ![p] = pass'[p]] /\ pass'[p] = Idle
  BY <1>1 DEF Return, Become, TypeOK
<1>5. PassInvariant(p)'
  BY <1>2, <1>4, IdlePass DEF TypeOK
<1>6. Last' >= Last
  BY <1>1, LenProperties DEF Last, TypeOK, Record
<1> QED BY <1>3, <1>4, <1>5, <1>6, WriteStep DEF Idle

\* One step of anyone.
LEMMA SafetyStep == SafetyInvariant /\ [Next]_vars => SafetyInvariant'
<1> SUFFICES ASSUME SafetyInvariant, [Next]_vars PROVE SafetyInvariant'
  OBVIOUS
<1> USE DEF Become, Goto, At
<1>1. /\ TypeOK /\ TypeOK'
      /\ RecordInvariant /\ OneExecutionPerAttempt
      /\ \A p \in Passes : PassInvariant(p)
      /\ op \in Record /\ op' \in Record /\ clock \in Nat
      /\ pass \in [Passes -> PassState]
  BY TypeStep DEF SafetyInvariant, TypeOK
<1>2. ASSUME NEW p \in Passes, BeginRun(p) \/ BeginReview(p) PROVE SafetyInvariant'
  <2>1. /\ pass' = [pass EXCEPT ![p] = pass'[p]]
        /\ pass'[p].pc \in {"read", "review"} /\ pass'[p].rec = NoRecord
    BY <1>1, <1>2 DEF BeginRun, BeginReview, Idle
  <2>2. UNCHANGED <<op, clock, requests>>
    BY <1>2 DEF BeginRun, BeginReview
  <2>3. NoRecord.version = -1 /\ Len(NoRecord.attempts) = 0
    BY DEF NoRecord, NewRecord
  <2>4. Last \in Nat
    BY <1>1, LenProperties DEF Last, Record
  <2>5. VersionIdentifiesRecord(p)'
    BY <1>1, <2>1, <2>2, <2>3 DEF VersionIdentifiesRecord, Live, RecordInvariant,
       NothingBeforeCreation
  <2>6. PassInvariant(p)'
    BY <2>1, <2>2, <2>3, <2>4, <2>5 DEF PassInvariant, ActsOnOpenRecord, AttemptsSafely,
       KnowsItsRequest, AttemptOf, ObservesInTime, ObservationIsFinal, Last
  <2> QED BY <1>1, <2>1, <2>2, <2>6, OnlyPassMoves
<1>3. ASSUME NEW p \in Passes,
             ReadAndReturn(p) \/ RefuseDecision(p) \/ Conflict(p) \/ Crash(p)
      PROVE  SafetyInvariant'
  BY <1>1, <1>3, ReturnStep DEF ReadAndReturn, RefuseDecision, Conflict, Crash
<1>4. ASSUME NEW p \in Passes, ReadAndContinue(p) PROVE SafetyInvariant'
  <2>1. /\ pass' = [pass EXCEPT ![p] = pass'[p]] /\ UNCHANGED <<op, clock, requests>>
        /\ pass'[p].pc = Branch(op) /\ pass'[p].rec = op
        /\ pass'[p].ok = (op.attempts # << >> /\ Latest(op).ok)
    BY <1>1, <1>4 DEF ReadAndContinue, PassState
  <2>2. Branch(op) \in {"authorize", "reopen", "check", "observe"}
    BY <1>1, <1>4, BranchType DEF ReadAndContinue
  <2>3. /\ Branch(op) = "authorize" => op = NoRecord
        /\ Branch(op) = "reopen" => op.status = "AWAITING_REVIEW"
        /\ Branch(op) \in {"check", "observe"} => op.status = "OPEN" /\ Branch(op) = BranchForOpen(op)
    <3>1. op.status \in Statuses /\ (op.status = "NONE" => op = NoRecord)
      BY <1>1 DEF RecordInvariant, NothingBeforeCreation, Record
    <3>2. CASE op.status = "NONE"
      BY <2>2, <3>1, <3>2 DEF Branch
    <3>3. CASE op.status = "CLOSED"
      BY <2>2, <3>3 DEF Branch
    <3>4. CASE op.status = "AWAITING_REVIEW"
      BY <2>2, <3>4 DEF Branch
    <3>5. CASE op.status = "OPEN"
      <4>1. Branch(op) = BranchForOpen(op)
        BY <3>5 DEF Branch
      <4>2. BranchForOpen(op) \in {"idle", "check", "observe"}
        BY <1>1, BranchForOpenType
      <4> QED BY <3>5, <4>1, <4>2
    <3> QED BY <3>1, <3>2, <3>3, <3>4, <3>5 DEF Statuses
  <2>4. Last \in Nat /\ (op.attempts # << >> <=> Last > 0)
    BY <1>1, LenProperties, EmptySeq DEF Last, Record
  <2>5. Last > 0 => Latest(op) \in Attempt
    BY <1>1, <2>4, LatestType
  <2>6. (Last > 0 /\ Branch(op) = "check") => Settling(op) /\ Latest(op).ok
    BY <2>3, <2>4, <2>5 DEF BranchForOpen, Finished, Settling, Attempt
  <2>7. Branch(op) = "observe" =>
          /\ Last > 0
          /\ (Settling(op) /\ ~Latest(op).ok /\ Latest(op).evidence = "NOT_APPLIED")
               => ~Delayed(op)
    BY <2>3, <2>4, <2>5 DEF BranchForOpen, Finished, Settling, Attempt
  <2>8. AttemptsSafely(p)'
    <3>1. (Last > 0 /\ Branch(op) = "check") =>
            Settling(op) /\ Latest(op).retryNotBefore = NoTime /\ Gone(Last)
      BY <1>1, <2>6 DEF RecordInvariant, RetryIsSound
    <3> QED BY <2>1, <2>2, <3>1 DEF AttemptsSafely, Settling, Last, Latest, Gone, CanLand, InTime
  <2>9. KnowsItsRequest(p)'
    <3>1. (op.attempts # << >> /\ Latest(op).ok) => Answered(Last)
      BY <1>1, <2>4 DEF RecordInvariant, ResponseIsReal
    <3>2. AttemptOf(p)' = Last /\ Last' = Last
      BY <2>1 DEF AttemptOf, Last
    <3>3. pass'[p].ok => Answered(AttemptOf(p))'
      BY <2>1, <3>1, <3>2 DEF Answered
    <3> QED BY <2>1, <2>2, <2>4, <2>7, <3>2, <3>3 DEF KnowsItsRequest
  <2>10. ObservesInTime(p)'
    <3>1. SUFFICES ASSUME Branch(op) = "observe", Settling(op), ~Latest(op).ok
                   PROVE  clock >= requests[Last].deadline
      BY <2>1, <2>4, <2>7 DEF ObservesInTime, Settling, Latest, Last
    <3>2. /\ Latest(op).retryNotBefore = NoTime => clock >= requests[Last].deadline
          /\ Latest(op).retryNotBefore # NoTime =>
               Latest(op).retryNotBefore >= requests[Last].deadline
      BY <1>1, <3>1 DEF RecordInvariant, RetryIsSound
    <3>3. ~Delayed(op)
      BY <1>1, <2>7, <3>1 DEF RecordInvariant, RetryIsSound
    <3>4. requests[Last].deadline \in Nat /\ Latest(op).retryNotBefore \in Times
      BY <1>1, <2>4, <2>5, <2>7, <3>1, RequestFields
         DEF RecordInvariant, RequestsMatchAttempts, Attempt
    <3> QED BY <1>1, <3>2, <3>3, <3>4 DEF Delayed, Times, NoTime
  <2>11. PassInvariant(p)'
    BY <1>1, <2>1, <2>2, <2>3, <2>8, <2>9, <2>10 DEF PassInvariant, VersionIdentifiesRecord, Live,
       ActsOnOpenRecord, ObservationIsFinal, Record
  <2> QED BY <1>1, <2>1, <2>2, <2>11, OnlyPassMoves
<1>5. ASSUME NEW p \in Passes,
             \/ Authorize(p) \/ AttemptUnchecked(p) \/ ApprovalRefused(p)
             \/ StartRevalidate(p) \/ Revalidated(p)
      PROVE  SafetyInvariant'
  <2>1. /\ pass' = [pass EXCEPT ![p] = pass'[p]] /\ UNCHANGED <<op, clock, requests>>
        /\ pass'[p].rec = pass[p].rec
    BY <1>1, <1>5 DEF Authorize, AttemptUnchecked, ApprovalRefused, StartRevalidate, Revalidated,
       PassState
  <2>2. \/ pass[p].pc = "authorize" /\ pass'[p].pc = "create"
        \/ /\ pass[p].pc \in {"check", "revalidate"}
           /\ pass'[p].pc \in {"revalidate", "reserve", "block"}
    BY <1>1, <1>5 DEF Authorize, AttemptUnchecked, ApprovalRefused, StartRevalidate, Revalidated,
       PassState
  <2>3. PassInvariant(p)'
    BY <1>1, <2>1, <2>2 DEF PassInvariant, VersionIdentifiesRecord, Live, ActsOnOpenRecord,
       AttemptsSafely, KnowsItsRequest, AttemptOf, ObservesInTime, ObservationIsFinal, Last,
       Settling, Latest, Gone, CanLand, InTime
  <2> QED BY <1>1, <2>1, <2>2, <2>3, OnlyPassMoves
<1>6. ASSUME NEW p \in Passes, CreateAwaitingReview(p) \/ CreateOpen(p) PROVE SafetyInvariant'
  <2> DEFINE e == [generation |-> 1, openedAt |-> clock]
  <2>1. PICK status \in {"AWAITING_REVIEW", "OPEN"}, r \in Record :
          /\ r.attempts = << >> /\ r.status = status
          /\ Write(p, r) /\ UNCHANGED <<requests, clock>>
    <3>1. NewRecord("AWAITING_REVIEW", TRUE, e) \in Record
      BY <1>1, NewRecordType DEF Statuses, Episode
    <3>2. NewRecord("OPEN", FALSE, NoEpisode) \in Record
      BY NewRecordType, NoEpisodeType DEF Statuses
    <3>3. CASE CreateAwaitingReview(p)
      BY <3>1, <3>3 DEF CreateAwaitingReview, NewRecord
    <3>4. CASE CreateOpen(p)
      BY <3>2, <3>4 DEF CreateOpen, NewRecord
    <3> QED BY <1>6, <3>3, <3>4
  <2>2. /\ pass[p].rec = op /\ op.version >= -1 /\ op.version \in Int
        /\ op'.version = op.version + 1 /\ op'.attempts = << >> /\ op'.status = status
    BY <2>1, WriteFacts
  <2>3. pass[p].pc = "create"
    BY <1>6 DEF CreateAwaitingReview, CreateOpen
  <2>4. op.attempts = << >>
    BY <1>1, <2>2, <2>3 DEF PassInvariant, ActsOnOpenRecord, NoRecord, NewRecord
  <2>5. CASE CreateAwaitingReview(p)
    BY <1>1, <2>1, <2>2, <2>4, <2>5, LastWriteStep DEF CreateAwaitingReview
  <2>6. CASE CreateOpen(p)
    <3>1. /\ pass' = [pass EXCEPT ![p] = pass'[p]]
          /\ pass'[p].pc = "check" /\ pass'[p].rec = op'
      BY <1>1, <2>6 DEF CreateOpen, PassState
    <3>2. op'.status = "OPEN"
      BY <1>1, <2>2, <2>6, WriteFacts, NewRecordType, NoEpisodeType
         DEF CreateOpen, NewRecord, Statuses
    <3>3. Last' = 0 /\ Last = 0
      BY <2>2, <2>4, EmptySeq DEF Last
    <3>4. NothingBeforeCreation'
      BY <2>2, <3>2 DEF NothingBeforeCreation
    <3>5. RecordInvariant'
      BY <1>1, <2>1, <2>2, <2>4, <3>4, AttemptsKept
    <3>6. PassInvariant(p)'
      BY <2>2, <3>1, <3>2, <3>3 DEF PassInvariant, VersionIdentifiesRecord, Live, ActsOnOpenRecord,
         AttemptsSafely, KnowsItsRequest, AttemptOf, ObservesInTime, ObservationIsFinal, Last
    <3> QED BY <1>1, <2>1, <2>2, <3>1, <3>3, <3>5, <3>6, WriteStep
  <2> QED BY <1>6, <2>5, <2>6
<1>7. ASSUME NEW p \in Passes, Reopen(p) \/ WriteBlock(p) \/ RecordDecision(p)
      PROVE  SafetyInvariant'
  <2>1. PICK r \in Record :
          /\ r.attempts = pass[p].rec.attempts /\ r.status # "NONE"
          /\ Write(p, r) /\ UNCHANGED <<requests, clock>> /\ Return(p)
    <3>1. pass[p].rec \in Record /\ pass[p].outcome \in Outcomes /\ pass[p].review \in Review
      BY <1>1, PassFields
    <3>2. CASE Reopen(p)
      <4>1. WithNewEpisode(pass[p].rec, clock) \in Record
        BY <1>1, <3>1, WithNewEpisodeType
      <4>2. pass[p].rec.status = "AWAITING_REVIEW"
        BY <1>1, <3>2 DEF Reopen, PassInvariant, ActsOnOpenRecord
      <4> QED BY <3>1, <3>2, <4>1, <4>2 DEF Reopen, WithNewEpisode, Record
    <3>3. CASE WriteBlock(p)
      <4> DEFINE r == Blocked(pass[p].rec, pass[p].outcome, clock)
      <4>1. r \in Record
        BY <1>1, <3>1, BlockedType
      <4>2. pass[p].rec.status = "OPEN"
        BY <1>1, <3>3 DEF WriteBlock, PassInvariant, ActsOnOpenRecord
      <4>3. r.attempts = pass[p].rec.attempts /\ r.status # "NONE"
        BY <3>1, <4>2 DEF Blocked, WithNewEpisode, Record
      <4> HIDE DEF r
      <4> QED BY <3>3, <4>1, <4>3 DEF WriteBlock, r
    <3>4. CASE RecordDecision(p)
      <4> DEFINE r == [pass[p].rec EXCEPT
                !.status = IF pass[p].review.decision = "approved" THEN "OPEN" ELSE "CLOSED",
                !.review = pass[p].review]
      <4>1. r \in Record /\ r.attempts = pass[p].rec.attempts /\ r.status # "NONE"
        BY <3>1 DEF Record, Statuses
      <4>2. Write(p, r) /\ UNCHANGED <<requests, clock>> /\ Return(p)
        BY <3>4 DEF RecordDecision
      <4> HIDE DEF r
      <4> QED BY <4>1, <4>2
    <3> QED BY <1>7, <3>2, <3>3, <3>4
  <2> QED BY <1>1, <2>1, WriteFacts, LastWriteStep
<1>8. ASSUME NEW p \in Passes, ResolveAndReturn(p) \/ ResolveAndContinue(p)
      PROVE  SafetyInvariant'
  <2>1. /\ Write(p, WithResolved(p, DecisionOf(p, clock))) /\ UNCHANGED <<requests, clock>>
        /\ pass[p].pc = "resolve"
    BY <1>8 DEF ResolveAndReturn, ResolveAndContinue
  <2>2. /\ Last' = Last /\ op'.version = op.version + 1 /\ RecordInvariant'
        /\ GoesOn(pass[p].rec, DecisionOf(p, clock)) =>
             Settling(op)' /\ Latest(op)'.retryNotBefore = NoTime /\ Gone(Last)'
               /\ op'.status = "OPEN"
    BY <2>1, ResolvedRecord
  <2>3. Last' >= Last /\ op'.version <= op'.version /\ Last' <= Last'
    BY <1>1, <2>2, LenProperties DEF Last, Record
  <2>4. CASE ResolveAndReturn(p)
    <3>1. pass' = [pass EXCEPT ![p] = pass'[p]] /\ pass'[p] = Idle
      BY <1>1, <2>4 DEF ResolveAndReturn, Return
    <3>2. PassInvariant(p)'
      BY <1>1, <2>2, <3>1, IdlePass DEF RecordInvariant
    <3> QED BY <1>1, <2>1, <2>2, <2>3, <3>1, <3>2, WriteStep DEF Idle
  <2>5. CASE ResolveAndContinue(p)
    <3>1. /\ pass' = [pass EXCEPT ![p] = pass'[p]]
          /\ pass'[p].pc = "check" /\ pass'[p].rec = op'
      BY <1>1, <2>5 DEF ResolveAndContinue, PassState
    <3>2. /\ Settling(op)' /\ Latest(op)'.retryNotBefore = NoTime /\ Gone(Last)'
          /\ op'.status = "OPEN"
      BY <2>2, <2>5 DEF ResolveAndContinue
    <3>3. PassInvariant(p)'
      BY <2>3, <3>1, <3>2 DEF PassInvariant, VersionIdentifiesRecord, Live, ActsOnOpenRecord,
         AttemptsSafely, KnowsItsRequest, AttemptOf, ObservesInTime, ObservationIsFinal, Last
    <3> QED BY <1>1, <2>1, <2>2, <2>3, <3>1, <3>3, WriteStep
  <2> QED BY <1>8, <2>4, <2>5
<1>9. ASSUME NEW p \in Passes, Reserve(p) PROVE SafetyInvariant'
  <2> DEFINE window == pass[p].contract.maxInFlightMs
             startedAt == pass[p].readAt
             new == Reserved(startedAt, window)
             r == [pass[p].rec EXCEPT !.attempts = Append(@, new)]
  <2>1. window \in Times /\ startedAt \in Nat /\ pass[p].rec \in Record
    BY <1>1, PassFields, ContractFields
  <2>2. new \in Attempt
    BY <2>1, ReservedType
  <2>3. r \in Record /\ r.attempts = Append(pass[p].rec.attempts, new)
        /\ r.status = pass[p].rec.status
    BY <2>1, <2>2, AppendProperties DEF Record
  <2>4. /\ Live(p) /\ pass[p].rec = op /\ op.version >= -1 /\ op.version \in Int
        /\ op'.version = op.version + 1 /\ op'.attempts = Append(op.attempts, new)
        /\ op'.status = op.status
    BY <1>9, <2>3, WriteFacts DEF Reserve
  <2>5. op.status = "OPEN"
    BY <1>1, <1>9, <2>4 DEF Reserve, PassInvariant, ActsOnOpenRecord
  <2>6. /\ Last \in Nat /\ Last' = Last + 1 /\ op'.attempts # << >>
        /\ \A n \in 1..Last : op'.attempts[n] = op.attempts[n]
        /\ op'.attempts[Last'] = new
    BY <1>1, <2>2, <2>4, AppendProperties, LenProperties DEF Last, Record
  <2>7. /\ Len(requests) = Last /\ Len(requests') = Last'
        /\ \A n \in 1..Last : requests'[n] = requests[n]
        /\ requests'[Last'] = [state |-> "unsent", deadline |-> Deadline(startedAt, window)]
    <3>1. Len(requests) = Last /\ requests \in Seq(Request)
      BY <1>1 DEF RecordInvariant, RequestsMatchAttempts, TypeOK
    <3>2. requests' = Append(requests, [state |-> "unsent",
                                        deadline |-> Deadline(startedAt, window)])
      BY <1>9 DEF Reserve
    <3>3. requests' \in Seq(Request)
      BY <1>1 DEF TypeOK
    <3> QED BY <2>6, <3>1, <3>2, <3>3, AppendProperties, LenProperties
  <2>8. /\ clock' = clock
        /\ pass' = [pass EXCEPT ![p] = pass'[p]]
        /\ pass'[p].pc = "execute" /\ pass'[p].rec = op'
    BY <1>1, <1>9 DEF Reserve, PassState
  <2>9. Latest(op)' = new /\ new.status = "RESERVED" /\ new.ok = FALSE
        /\ new.startedAt = startedAt /\ new.maxInFlightMs = window
    BY <2>6 DEF Latest, Last, Reserved
  <2> HIDE DEF new, r, window, startedAt
  <2>10. Last > 0 => /\ Settling(op) /\ Latest(op).retryNotBefore = NoTime /\ Gone(Last)
                     /\ Latest(op).evidence = "NOT_APPLIED"
    BY <1>1, <1>9, <2>4 DEF Reserve, PassInvariant, AttemptsSafely, RecordInvariant, RetryIsSound
  <2>11. RequestsMatchAttempts'
    <3>1. \A n \in 1..Last :
            requests'[n].deadline = Deadline(op'.attempts[n].startedAt, op'.attempts[n].maxInFlightMs)
      BY <1>1, <2>6, <2>7 DEF RecordInvariant, RequestsMatchAttempts
    <3>2. requests'[Last'].deadline
            = Deadline(op'.attempts[Last'].startedAt, op'.attempts[Last'].maxInFlightMs)
      BY <2>6, <2>7, <2>9
    <3> QED BY <2>6, <2>7, <3>1, <3>2 DEF RequestsMatchAttempts
  <2>12. NothingBeforeCreation'
    BY <2>4, <2>5 DEF NothingBeforeCreation
  <2>13. \A n \in 1..Last : Gone(n)
    BY <1>1, <2>6, <2>7, <2>10 DEF RecordInvariant, EarlierRequestsGone
  <2>14. EarlierRequestsGone'
    BY <2>6, <2>7, <2>8, <2>13 DEF EarlierRequestsGone, Gone, CanLand, InTime
  <2>15. HistoryIsSettled'
    <3>1. \A n \in 1..Last :
            /\ op.attempts[n].status = "RESOLVED" /\ op.attempts[n].evidence = "NOT_APPLIED"
            /\ op.attempts[n].disposition = "RETRY" /\ op.attempts[n].retryNotBefore = NoTime
      BY <1>1, <2>6, <2>10 DEF RecordInvariant, HistoryIsSettled, Settling, Latest, Last
    <3> QED BY <2>6, <3>1 DEF HistoryIsSettled, Last
  <2>16. RetryIsSound' /\ ResponseIsReal'
    BY <2>9 DEF RetryIsSound, ResponseIsReal, Settling
  <2>17. RecordInvariant'
    BY <2>11, <2>12, <2>14, <2>15, <2>16 DEF RecordInvariant
  <2>18. AttemptOf(p)' = Last' /\ Last' > 0 /\ Last' <= Last' /\ op'.version <= op'.version
    BY <2>4, <2>6, <2>8 DEF AttemptOf, Last
  <2>19. PassInvariant(p)'
    <3>1. KnowsItsRequest(p)'
      BY <2>7, <2>8, <2>9, <2>18 DEF KnowsItsRequest, Latest
    <3> QED BY <2>4, <2>5, <2>8, <2>18, <3>1
            DEF PassInvariant, VersionIdentifiesRecord, Live, ActsOnOpenRecord,
                AttemptsSafely, ObservesInTime, ObservationIsFinal
  <2>20. ASSUME NEW q \in Passes, q # p PROVE PassInvariant(q)' /\ AttemptOf(q)' < AttemptOf(p)'
    <3>1. pass'[q] = pass[q]
      BY <1>1, <2>8, <2>20
    <3>2. Last' \in Nat /\ Last' >= Last
      BY <2>6
    <3>3. PassInvariant(q)'
      BY <2>4, <2>7, <2>8, <3>1, <3>2, Overwritten
    <3>4. AttemptOf(q) <= Last /\ AttemptOf(q) \in Nat
      BY <1>1, PassFields DEF PassInvariant, KnowsItsRequest
    <3> QED BY <2>6, <2>18, <3>1, <3>3, <3>4 DEF AttemptOf
  <2>21. OneExecutionPerAttempt'
    <3>1. \A q \in Passes : q # p => AttemptOf(q)' # AttemptOf(p)'
      BY <1>1, <2>18, <2>20, <2>6, PassFields
    <3>2. \A q \in Passes : q # p => pass'[q] = pass[q]
      BY <1>1, <2>8
    <3> QED BY <1>1, <3>1, <3>2 DEF OneExecutionPerAttempt, AttemptOf
  <2> QED BY <1>1, <2>17, <2>19, <2>20, <2>21 DEF SafetyInvariant
<1>10. ASSUME NEW p \in Passes, Execute(p) PROVE SafetyInvariant'
  <2> DEFINE n == AttemptOf(p)
  <2>1. /\ requests' = [requests EXCEPT ![n].state = "flying"]
        /\ UNCHANGED <<op, clock>>
        /\ pass' = [pass EXCEPT ![p] = pass'[p]]
        /\ pass[p].pc = "execute" /\ pass'[p].pc = "executing" /\ pass'[p].rec = pass[p].rec
    BY <1>1, <1>10 DEF Execute, Send, PassState
  <2>2. requests[n].state = "unsent" /\ n \in 1..Last /\ Len(requests) = Last
    BY <1>1, <2>1, PassFields
       DEF PassInvariant, KnowsItsRequest, RecordInvariant, RequestsMatchAttempts
  <2>3. n \in DOMAIN requests
    BY <1>1, <2>2, LenProperties DEF TypeOK
  <2>4. RequestsPreserved
    BY <1>1, <2>1, <2>2, <2>3, StepPreservesRequests DEF RequestStates
  <2>5. RecordInvariant'
    BY <1>1, <2>1, <2>4, RecordKept
  <2>6. ASSUME NEW q \in Passes, q # p PROVE PassInvariant(q)'
    <3>1. pass'[q] = pass[q]
      BY <1>1, <2>1, <2>6
    <3>2. At(q, "execute") => AttemptOf(q) # n
      BY <1>1, <2>1, <2>6 DEF OneExecutionPerAttempt
    <3>3. AttemptOf(q) \in Nat /\ AttemptOf(q) <= Last
          /\ (pass[q].pc = "execute" => AttemptOf(q) > 0)
      BY <1>1, PassFields DEF PassInvariant, KnowsItsRequest
    <3>4. At(q, "execute") => requests'[AttemptOf(q)] = requests[AttemptOf(q)]
      BY <1>1, <2>1, <2>2, <2>3, <3>2, <3>3, ChangedRequest DEF RequestStates
    <3> QED BY <1>1, <2>1, <2>4, <3>1, <3>4, Bystander
  <2>7. PassInvariant(p)'
    BY <1>1, <2>1 DEF PassInvariant, VersionIdentifiesRecord, Live, ActsOnOpenRecord,
       AttemptsSafely, KnowsItsRequest, AttemptOf, ObservesInTime, ObservationIsFinal, Last
  <2>8. OneExecutionPerAttempt'
    <3>1. \A q \in Passes : q # p => pass'[q] = pass[q]
      BY <1>1, <2>1
    <3> QED BY <1>1, <2>1, <3>1 DEF OneExecutionPerAttempt, AttemptOf
  <2> QED BY <1>1, <2>5, <2>6, <2>7, <2>8 DEF SafetyInvariant
<1>11. ASSUME NEW p \in Passes, ExecuteReturned(p) \/ ExecuteFailed(p) PROVE SafetyInvariant'
  <2>1. /\ pass' = [pass EXCEPT ![p] = pass'[p]] /\ UNCHANGED <<op, clock, requests>>
        /\ pass[p].pc = "executing" /\ pass'[p].pc = "observe" /\ pass'[p].rec = pass[p].rec
        /\ pass'[p].ok => Answered(AttemptOf(p))
    BY <1>1, <1>11 DEF ExecuteReturned, ExecuteFailed, PassState, Answered
  <2>2. Live(p) => ~Settling(op)
    BY <1>1, <2>1 DEF PassInvariant, VersionIdentifiesRecord, KnowsItsRequest, Settling
  <2>3. KnowsItsRequest(p)'
    BY <1>1, <2>1 DEF PassInvariant, KnowsItsRequest, AttemptOf, Last, Answered
  <2>4. PassInvariant(p)'
    BY <1>1, <2>1, <2>2, <2>3 DEF PassInvariant, VersionIdentifiesRecord, Live, ActsOnOpenRecord,
       AttemptsSafely, ObservesInTime, ObservationIsFinal, Settling, Latest
  <2> QED BY <1>1, <2>1, <2>4, OnlyPassMoves
<1>12. ASSUME NEW p \in Passes, Observe(p) PROVE SafetyInvariant'
  <2>1. /\ pass' = [pass EXCEPT ![p] = pass'[p]] /\ UNCHANGED <<op, clock, requests>>
        /\ pass[p].pc = "observe" /\ pass'[p].pc = "resolve" /\ pass'[p].rec = pass[p].rec
        /\ pass'[p].ok = pass[p].ok /\ pass'[p].answer \in Answers
    BY <1>1, <1>12 DEF Observe, PassState
  <2>2. KnowsItsRequest(p)'
    BY <1>1, <2>1 DEF PassInvariant, KnowsItsRequest, AttemptOf, Last, Answered
  <2>3. ObservationIsFinal(p)'
    <3>1. SUFFICES ASSUME Live(p), "NOT_APPLIED" \in Answers, pass[p].ok \/ Settling(op)
                   PROVE  Gone(Last)
      BY <2>1 DEF ObservationIsFinal, Live, Settling, Latest, Last, Gone, CanLand, InTime
    <3>2. AttemptOf(p) = Last /\ Last \in 1..Len(requests)
      BY <1>1, <2>1, <3>1, PassFields DEF PassInvariant, VersionIdentifiesRecord,
         KnowsItsRequest, AttemptOf, Last, RecordInvariant, RequestsMatchAttempts
    <3>3. Answered(Last) \/ clock >= requests[Last].deadline
      BY <1>1, <2>1, <3>1, <3>2 DEF PassInvariant, KnowsItsRequest, ObservesInTime
    <3> QED BY <1>1, <3>1, <3>2, <3>3, NotApplied
  <2>4. PassInvariant(p)'
    BY <1>1, <2>1, <2>2, <2>3 DEF PassInvariant, VersionIdentifiesRecord, Live, ActsOnOpenRecord,
       AttemptsSafely, ObservesInTime
  <2> QED BY <1>1, <2>1, <2>4, OnlyPassMoves
<1>13. ASSUME NEW p \in Passes, AcceptDecision(p) PROVE SafetyInvariant'
  <2>1. /\ pass' = [pass EXCEPT ![p] = pass'[p]] /\ UNCHANGED <<op, clock, requests>>
        /\ pass'[p].pc = "record" /\ pass'[p].rec = op /\ op.status = "AWAITING_REVIEW"
    BY <1>1, <1>13 DEF AcceptDecision, Acceptable, OpenReview, PassState
  <2>2. AttemptOf(p)' = Last' /\ Last' \in Nat
    BY <1>1, <2>1, LenProperties DEF AttemptOf, Last, Record
  <2>3. PassInvariant(p)'
    BY <1>1, <2>1, <2>2 DEF PassInvariant, VersionIdentifiesRecord, Live, ActsOnOpenRecord,
       AttemptsSafely, KnowsItsRequest, ObservesInTime, ObservationIsFinal, Record
  <2> QED BY <1>1, <2>1, <2>3, OnlyPassMoves
<1>14. ASSUME UNCHANGED <<op, pass>>, clock' >= clock, clock' \in Nat, RequestsPreserved,
              \A q \in Passes :
                At(q, "execute") => requests'[AttemptOf(q)] = requests[AttemptOf(q)]
       PROVE  SafetyInvariant'
  <2>1. RecordInvariant'
    BY <1>14, RecordKept
  <2>2. \A q \in Passes : PassInvariant(q)'
    BY <1>14, Bystander
  <2>3. OneExecutionPerAttempt'
    BY <1>1, <1>14 DEF OneExecutionPerAttempt, AttemptOf
  <2> QED BY <1>1, <2>1, <2>2, <2>3 DEF SafetyInvariant
<1>15. ASSUME NEW n \in DOMAIN requests, Land(n) \/ Accept(n) \/ Refuse(n) PROVE SafetyInvariant'
  <2>1. PICK s \in {"landed", "accepted", "refused"} :
          /\ requests' = [requests EXCEPT ![n].state = s]
          /\ requests[n].state \in {"flying", "accepted"}
          /\ s # "refused" => ~Gone(n)
          /\ UNCHANGED <<op, pass, clock>>
    BY <1>15 DEF Land, Accept, Refuse, Gone, CanLand
  <2>2. RequestsPreserved
    BY <1>1, <2>1, StepPreservesRequests DEF RequestStates
  <2>3. ASSUME NEW q \in Passes, At(q, "execute")
        PROVE  requests'[AttemptOf(q)] = requests[AttemptOf(q)]
    <3>1. requests[AttemptOf(q)].state = "unsent" /\ AttemptOf(q) \in 1..Len(requests)
      BY <1>1, <2>3, PassFields
         DEF PassInvariant, KnowsItsRequest, RecordInvariant, RequestsMatchAttempts
    <3> QED BY <1>1, <2>1, <3>1, ChangedRequest DEF RequestStates
  <2> QED BY <1>1, <1>14, <2>1, <2>2, <2>3
<1>16. ASSUME NEW p \in Passes, LoseLock(p) PROVE SafetyInvariant'
  BY <1>1, <1>14, <1>16, TimePreservesRequests DEF LoseLock
<1>17. CASE Tick
  BY <1>1, <1>14, <1>17, TimePreservesRequests DEF Tick
<1>18. CASE UNCHANGED vars
  BY <1>1, <1>14, <1>18, TimePreservesRequests DEF vars
<1> QED
  BY <1>2, <1>3, <1>4, <1>5, <1>6, <1>7, <1>8, <1>9, <1>10, <1>11, <1>12, <1>13, <1>15, <1>16,
     <1>17, <1>18
  DEF Next, Begin, Run, ReviewCall, Fault, Provider

-----------------------------------------------------------------------------
(* What follows for every run *)

\* The strengthened invariant holds in every reachable state.
THEOREM SafetyInvariantHolds == Spec => []SafetyInvariant
<1>1. Init => SafetyInvariant
  BY SafetyInit
<1>2. SafetyInvariant /\ [Next]_vars => SafetyInvariant'
  BY SafetyStep
<1> QED BY <1>1, <1>2, PTL DEF Spec

\* At most one request of an operation ever takes effect.
THEOREM OneEffect == Spec => []AtMostOneEffect
<1>1. SafetyInvariant => AtMostOneEffect
  <2> SUFFICES ASSUME SafetyInvariant,
                      NEW m \in DOMAIN requests, NEW n \in DOMAIN requests, m < n,
                      requests[m].state = "landed"
               PROVE  FALSE
    BY LenProperties DEF AtMostOneEffect, SafetyInvariant, TypeOK
  <2>1. m \in 1..(Len(requests) - 1)
    BY LenProperties DEF SafetyInvariant, TypeOK
  <2> QED BY <2>1 DEF SafetyInvariant, RecordInvariant, EarlierRequestsGone, Gone
<1> QED BY <1>1, SafetyInvariantHolds, PTL

\* Every request but the latest is beyond taking effect before the next is made.
THEOREM NoRetryBeforeGone == Spec => []EarlierRequestsGone
<1>1. SafetyInvariant => EarlierRequestsGone
  BY DEF SafetyInvariant, RecordInvariant
<1> QED BY <1>1, SafetyInvariantHolds, PTL

\* No attempt is stacked on one that is not a settled, retryable NOT_APPLIED.
THEOREM SettledHistory == Spec => []HistoryIsSettled
<1>1. SafetyInvariant => HistoryIsSettled
  BY DEF SafetyInvariant, RecordInvariant
<1> QED BY <1>1, SafetyInvariantHolds, PTL

\* No two calls run execute() for the same attempt.
THEOREM OneExecution == Spec => []OneExecutionPerAttempt
<1>1. SafetyInvariant => OneExecutionPerAttempt
  BY DEF SafetyInvariant
<1> QED BY <1>1, SafetyInvariantHolds, PTL

\* A write of a pass that has read the record open (or awaiting review, or missing)
\* goes through only while the record is still that: a closed one never changes.
LEMMA ClosedStep == SafetyInvariant /\ [Next]_vars => (op.status = "CLOSED" => UNCHANGED op)
<1> SUFFICES ASSUME SafetyInvariant, [Next]_vars, op.status = "CLOSED"
             PROVE  UNCHANGED op
  OBVIOUS
<1>1. ASSUME NEW p \in Passes, NEW r, Write(p, r), pass[p].pc \in WriteSteps PROVE FALSE
  <2>1. VersionIdentifiesRecord(p) /\ ActsOnOpenRecord(p)
    BY DEF SafetyInvariant, PassInvariant
  <2>2. pass[p].rec.status = "CLOSED"
    BY <1>1, <2>1 DEF Write, Current, VersionIdentifiesRecord, Live
  <2>3. NoRecord.status = "NONE"
    BY DEF NoRecord, NewRecord
  <2> QED BY <1>1, <2>1, <2>2, <2>3 DEF ActsOnOpenRecord, WriteSteps
<1>2. ASSUME NEW p \in Passes, Run(p) PROVE UNCHANGED op
  BY <1>1, <1>2 DEF Run, ReadAndReturn, ReadAndContinue, Authorize, CreateAwaitingReview,
     CreateOpen, Reopen, AttemptUnchecked, ApprovalRefused, StartRevalidate, Revalidated,
     WriteBlock, Reserve, Execute, ExecuteReturned, ExecuteFailed, Observe, ResolveAndReturn,
     ResolveAndContinue, At, WriteSteps
<1>3. ASSUME NEW p \in Passes, ReviewCall(p) PROVE UNCHANGED op
  BY <1>1, <1>3 DEF ReviewCall, RefuseDecision, AcceptDecision, RecordDecision, At, WriteSteps
<1> QED
  BY <1>2, <1>3 DEF Next, Begin, BeginRun, BeginReview, Conflict, Fault, Crash, LoseLock,
     Provider, Land, Accept, Refuse, Tick, vars

\* A closed operation never changes again.
THEOREM Closed == Spec => ClosedIsFinal
<1>1. SafetyInvariant /\ [Next]_vars => [op.status = "CLOSED" => UNCHANGED op]_vars
  BY ClosedStep
<1> QED BY <1>1, SafetyInvariantHolds, PTL DEF Spec, ClosedIsFinal

=============================================================================
