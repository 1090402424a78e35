----------------------- MODULE RunEffectOutcomeProofs -----------------------
(***************************************************************************)
(* What a call reports, how many attempts are made, and under which        *)
(* approval and after which observation: OutcomeInvariant is inductive     *)
(* together with SafetyInvariant, whatever the constants.  With            *)
(* PromiseInvariant, RunEffect implements EffectOnce, and every decision   *)
(* answers the review it was made for.                                     *)
(***************************************************************************)
EXTENDS RunEffectProofs

-----------------------------------------------------------------------------
(* What no step takes back *)

RequestsGrow ==
  /\ Len(requests') >= Len(requests)
  /\ \A n \in 1..Len(requests) :
       /\ requests'[n].deadline = requests[n].deadline
       /\ requests[n].state = "landed" => requests'[n].state = "landed"

\* An effect that is there stays there.
LEMMA EffectStays ==
  ASSUME TypeOK, TypeOK', RequestsGrow, HonestEvidence = "APPLIED"
  PROVE  HonestEvidence' = "APPLIED"
<1>1. PICK n \in DOMAIN requests : requests[n].state = "landed"
  BY DEF HonestEvidence
<1>2. n \in 1..Len(requests) /\ Len(requests) \in Nat /\ Len(requests') \in Nat
  BY LenProperties DEF TypeOK
<1>3. n \in DOMAIN requests'
  BY <1>2, LenProperties DEF TypeOK, RequestsGrow
<1> QED BY <1>1, <1>2, <1>3 DEF HonestEvidence, RequestsGrow

\* One request changes state, and not from landed.
LEMMA OneRequestChanges ==
  ASSUME TypeOK, NEW n \in DOMAIN requests, NEW s \in RequestStates,
         requests' = [requests EXCEPT ![n].state = s], requests[n].state # "landed"
  PROVE  RequestsGrow
<1>1. Len(requests) \in Nat
  BY LenProperties DEF TypeOK
<1> QED BY <1>1, ChangedRequest DEF RequestsGrow

LEMMA StepGrows ==
  ASSUME SafetyInvariant, [Next]_vars
  PROVE  RequestsGrow /\ clock \in Nat /\ clock' \in Nat /\ clock' >= clock
<1>1. TypeOK /\ clock \in Nat /\ Len(requests) \in Nat
  BY LenProperties DEF SafetyInvariant, TypeOK
<1>2. clock' \in Nat /\ clock' >= clock
  <2>1. ASSUME NEW p \in Passes, Run(p) PROVE UNCHANGED clock
    BY <2>1 DEF Run, ReadAndReturn, ReadAndContinue, Authorize, CreateAwaitingReview, CreateOpen,
       Reopen, AttemptUnchecked, ApprovalRefused, StartRevalidate, Revalidated, WriteBlock,
       Reserve, Execute, ExecuteReturned, ExecuteFailed, Observe, ResolveAndReturn,
       ResolveAndContinue
  <2>2. ASSUME NEW p \in Passes, Begin(p) \/ ReviewCall(p) \/ Conflict(p) \/ Fault(p)
        PROVE  UNCHANGED clock
    BY <2>2 DEF Begin, BeginRun, BeginReview, ReviewCall, RefuseDecision, AcceptDecision,
       RecordDecision, Conflict, Fault, Crash, LoseLock
  <2>3. CASE Provider \/ UNCHANGED vars
    BY <1>1, <2>3 DEF Provider, Land, Accept, Refuse, vars
  <2>4. CASE Tick
    BY <1>1, <2>4 DEF Tick
  <2> QED BY <1>1, <2>1, <2>2, <2>3, <2>4 DEF Next
<1>3. ASSUME NEW p \in Passes, Reserve(p) PROVE RequestsGrow
  <2>1. PICK r \in Request : requests' = Append(requests, r)
    <3>1. pass[p].contract.maxInFlightMs \in Times /\ pass[p].readAt \in Nat
      BY <1>1, PassFields, ContractFields
    <3>2. Deadline(pass[p].readAt, pass[p].contract.maxInFlightMs) \in Nat
      BY <3>1, BoundsAssumption DEF Deadline, Times, NoTime, NoWindow
    <3> QED BY <1>3, <3>2 DEF Reserve, Request, RequestStates
  <2>2. Len(requests') = Len(requests) + 1 /\ \A n \in 1..Len(requests) : requests'[n] = requests[n]
    BY <1>1, <2>1, AppendProperties DEF TypeOK
  <2> QED BY <1>1, <2>2 DEF RequestsGrow
<1>4. ASSUME NEW p \in Passes, Execute(p) PROVE RequestsGrow
  <2>1. AttemptOf(p) \in 1..Len(requests) /\ requests[AttemptOf(p)].state = "unsent"
    BY <1>1, <1>4, PassFields DEF Execute, At, SafetyInvariant, PassInvariant, KnowsItsRequest,
       RecordInvariant, RequestsMatchAttempts
  <2>2. AttemptOf(p) \in DOMAIN requests
    BY <1>1, <2>1, LenProperties DEF TypeOK
  <2> QED BY <1>1, <1>4, <2>1, <2>2, OneRequestChanges DEF Execute, Send, RequestStates
<1>5. ASSUME NEW n \in DOMAIN requests, Land(n) \/ Accept(n) \/ Refuse(n) PROVE RequestsGrow
  BY <1>1, <1>5, OneRequestChanges DEF Land, Accept, Refuse, RequestStates
<1>6. ASSUME UNCHANGED requests PROVE RequestsGrow
  BY <1>1, <1>6 DEF RequestsGrow
<1> QED
  BY <1>1, <1>2, <1>3, <1>4, <1>5, <1>6
  DEF Next, Begin, BeginRun, BeginReview, Run, ReadAndReturn, ReadAndContinue, Authorize,
     CreateAwaitingReview, CreateOpen, Reopen, AttemptUnchecked, ApprovalRefused, StartRevalidate,
     Revalidated, WriteBlock, ExecuteReturned, ExecuteFailed, Observe, ResolveAndReturn,
     ResolveAndContinue, ReviewCall, RefuseDecision, AcceptDecision, RecordDecision, Conflict,
     Fault, Crash, LoseLock, Provider, Tick, vars

-----------------------------------------------------------------------------
(* Passes and records a step leaves alone *)

\* What the invariants say of the record a step starts from.
LEMMA RecordFacts ==
  ASSUME SafetyInvariant
  PROVE  /\ TypeOK /\ op \in Record /\ op.version \in Int /\ op.version >= -1
         /\ Last \in Nat /\ Len(requests) = Last /\ op.attempts \in Seq(Attempt)
         /\ op.attempts # << >> <=> Last > 0
         /\ Last > 0 => Latest(op) \in Attempt
         /\ op.review \in Review /\ op.episode \in Episode /\ op.status \in Statuses
<1>1. TypeOK /\ op \in Record
  BY DEF SafetyInvariant, TypeOK
<1>2. op.attempts \in Seq(Attempt) /\ op.version \in Int
  BY <1>1 DEF Record
<1>3. Last \in Nat /\ (op.attempts # << >> <=> Last > 0)
  BY <1>2, LenProperties, EmptySeq DEF Last
<1>4. Last > 0 => Latest(op) \in Attempt
  BY <1>1, <1>3, LatestType
<1>5. Len(requests) = Last /\ op.version >= -1
  BY DEF SafetyInvariant, RecordInvariant, RequestsMatchAttempts, NothingBeforeCreation
<1> QED BY <1>1, <1>2, <1>3, <1>4, <1>5 DEF Record

\* Another pass moves or writes, the provider acts, or time passes.
LEMMA OtherPass ==
  ASSUME SafetyInvariant, RequestsGrow, TypeOK', clock \in Nat, clock' \in Nat, clock' >= clock,
         op' = op \/ op'.version = op.version + 1,
         NEW q \in Passes, PassOutcome(q), pass'[q] = pass[q]
  PROVE  PassOutcome(q)'
<1>1. TypeOK /\ VersionIdentifiesRecord(q) /\ pass[q].rec.version \in Int /\ op.version \in Int
      /\ pass[q].review.recordedAt \in Nat
  BY RecordFacts, PassFields DEF SafetyInvariant, PassInvariant, Review
<1>2. AnswersOpenReview(q)'
  BY <1>1 DEF PassOutcome, AnswersOpenReview, At
<1>3. ChecksApproval(q)'
  BY DEF PassOutcome, ChecksApproval, At
<1>4. pass[q].answer = "APPLIED" /\ At(q, "resolve") => HonestEvidence' = "APPLIED"
  BY <1>1, EffectStays DEF PassOutcome, SawInTime
<1>5. CASE op' = op
  <2>1. Last > 0 => requests'[Last].deadline = requests[Last].deadline
    BY RecordFacts DEF RequestsGrow
  <2>2. Settling(op) => Last > 0
    BY RecordFacts DEF Settling
  <2>3. SawInTime(q)'
    BY <1>4, <1>5, <2>1, <2>2 DEF PassOutcome, SawInTime, At, Live, Last
  <2>4. LookedBeforeNext(q)'
    BY <1>5, <2>1 DEF PassOutcome, LookedBeforeNext, At, Live, Last
  <2> QED BY <1>2, <1>3, <2>3, <2>4 DEF PassOutcome
<1>6. CASE op'.version = op.version + 1
  <2>1. ~Live(q)'
    BY <1>1, <1>6 DEF VersionIdentifiesRecord, Live
  <2> QED BY <1>2, <1>3, <1>4, <2>1 DEF PassOutcome, SawInTime, LookedBeforeNext, At
<1> QED BY <1>5, <1>6

\* A step that writes nothing.
LEMMA RecordUnwritten ==
  ASSUME SafetyInvariant, TypeOK', RequestsGrow, clock \in Nat, clock' \in Nat, clock' >= clock,
         RecordOutcome, UNCHANGED op
  PROVE  RecordOutcome'
<1>1. TypeOK /\ op.review.recordedAt \in Nat
  BY RecordFacts DEF Review
<1>2. BlockFitsStatus' /\ BudgetKept'
  BY DEF RecordOutcome, BlockFitsStatus, BudgetKept, RetryBudget, Settling, Last
<1>3. ReviewFitsStatus'
  BY <1>1 DEF RecordOutcome, ReviewFitsStatus
<1>4. OutcomeFitsStatus'
  BY <1>1, EffectStays DEF RecordOutcome, OutcomeFitsStatus, Resolved
<1> QED BY <1>2, <1>3, <1>4 DEF RecordOutcome

\* A call that has returned, or has only begun.
LEMMA AtRest ==
  ASSUME NEW p \in Passes,
         pass'[p].pc \notin {"record", "block", "reserve", "resolve", "check", "revalidate"}
  PROVE  PassOutcome(p)'
  BY DEF PassOutcome, AnswersOpenReview, ChecksApproval, SawInTime, LookedBeforeNext, At

-----------------------------------------------------------------------------
(* The writes *)

\* The check on record is of an earlier version.
LEMMA BlockOutlived ==
  ASSUME RecordOutcome, op.version \in Int, op.blockedBy.recordVersion \in Int,
         op'.blockedBy = op.blockedBy, op'.version = op.version + 1
  PROVE  BlockFitsStatus' /\ CurrentBlock(op') = "none"
<1>1. op'.blockedBy.outcome # "none" => op'.blockedBy.recordVersion < op'.version
  BY DEF RecordOutcome, BlockFitsStatus
<1>2. CurrentBlock(op') = "none"
  BY <1>1 DEF CurrentBlock
<1> QED BY <1>1, <1>2 DEF BlockFitsStatus

\* The write applies to the record p read, which is the stored one.
LEMMA Applies ==
  ASSUME SafetyInvariant, NEW p \in Passes, NEW r \in Record, Write(p, r)
  PROVE  /\ Live(p) /\ pass[p].rec = op /\ op'.version = op.version + 1
         /\ op'.attempts = r.attempts /\ op'.status = r.status /\ op'.review = r.review
         /\ op'.episode = r.episode /\ op'.blockedBy = r.blockedBy
         /\ op'.reviewReason = r.reviewReason
         /\ op.version \in Int /\ op.blockedBy.recordVersion \in Int
<1>1. Live(p) /\ pass[p].rec = op /\ op' = [r EXCEPT !.version = op.version + 1]
  BY WriteFacts
<1>2. op \in Record
  BY RecordFacts
<1>3. op.version \in Int /\ op.blockedBy.recordVersion \in Int
  BY <1>2 DEF Record, Block
<1> QED BY <1>1, <1>3 DEF Record

LEMMA EpisodeFields ==
  ASSUME NEW r \in Record, NEW t \in Nat
  PROVE  LET e == WithNewEpisode(r, t)
         IN  /\ e.status = r.status /\ e.attempts = r.attempts /\ e.blockedBy = r.blockedBy
             /\ e.reviewReason = r.reviewReason
             /\ e.episode = [generation |-> r.episode.generation + 1, openedAt |-> t]
             /\ e.review = IF r.review.token = NoToken THEN NoReview ELSE r.review
  BY DEF WithNewEpisode, Record

\* A new review of an operation nothing has come of.
LEMMA ReviewOpened ==
  ASSUME SafetyInvariant, RecordOutcome, UNCHANGED <<requests, clock>>,
         op.status \in {"OPEN", "AWAITING_REVIEW"}, op'.status = "AWAITING_REVIEW",
         op'.attempts = op.attempts, NEW t,
         op'.episode = [generation |-> op.episode.generation + 1, openedAt |-> t],
         op'.review = IF op.review.token = NoToken THEN NoReview ELSE op.review,
         BlockFitsStatus'
  PROVE  RecordOutcome' /\ Answerable(op')
<1>1. /\ op.episode.generation \in Nat /\ op.review.token \in Nat /\ clock \in Nat
      /\ op.review.recordedAt \in Nat
  BY RecordFacts DEF Episode, Review, TypeOK
<1>2. op.review.decision # "rejected"
  BY DEF RecordOutcome, ReviewFitsStatus
<1>3. OpenReview(op')
  BY <1>1 DEF OpenReview, RecordOutcome, ReviewFitsStatus, NoEpisode, NoToken
<1>4. ReviewFitsStatus'
  BY <1>1, <1>2 DEF RecordOutcome, ReviewFitsStatus, NoReview, NoToken
<1>5. OutcomeFitsStatus'
  BY DEF RecordOutcome, OutcomeFitsStatus, Resolved, HonestEvidence, Latest
<1>6. BudgetKept'
  BY DEF RecordOutcome, BudgetKept, RetryBudget, Settling, Last, Latest
<1> QED BY <1>3, <1>4, <1>5, <1>6 DEF RecordOutcome, Answerable

LEMMA OutcomeAfterReopen ==
  ASSUME SafetyInvariant, RecordOutcome, NEW p \in Passes, Reopen(p)
  PROVE  RecordOutcome' /\ Answerable(op')
<1> DEFINE r == WithNewEpisode(pass[p].rec, clock)
<1>1. clock \in Nat /\ pass[p].rec \in Record /\ r \in Record
  BY RecordFacts, PassFields, WithNewEpisodeType DEF TypeOK
<1>2. Write(p, r) /\ UNCHANGED <<requests, clock>>
  BY DEF Reopen
<1>3. pass[p].rec.status = "AWAITING_REVIEW"
  BY DEF Reopen, At, SafetyInvariant, PassInvariant, ActsOnOpenRecord
<1> HIDE DEF r
<1>4. /\ pass[p].rec = op /\ op'.version = op.version + 1
      /\ op'.attempts = r.attempts /\ op'.status = r.status /\ op'.review = r.review
      /\ op'.episode = r.episode /\ op'.blockedBy = r.blockedBy
      /\ op.version \in Int /\ op.blockedBy.recordVersion \in Int
  BY <1>1, <1>2, Applies
<1>5. /\ op'.status = "AWAITING_REVIEW" /\ op'.attempts = op.attempts
      /\ op'.blockedBy = op.blockedBy
      /\ op'.episode = [generation |-> op.episode.generation + 1, openedAt |-> clock]
      /\ op'.review = IF op.review.token = NoToken THEN NoReview ELSE op.review
  BY <1>1, <1>3, <1>4, EpisodeFields DEF r
<1>6. BlockFitsStatus'
  BY <1>4, <1>5, BlockOutlived
<1> QED BY <1>2, <1>3, <1>4, <1>5, <1>6, ReviewOpened

LEMMA OutcomeAfterWriteBlock ==
  ASSUME SafetyInvariant, RecordOutcome, NEW p \in Passes, PassOutcome(p), WriteBlock(p)
  PROVE  RecordOutcome' /\ Answerable(op')
<1> DEFINE r == Blocked(pass[p].rec, pass[p].outcome, clock)
           block == [outcome |-> pass[p].outcome, recordVersion |-> pass[p].rec.version + 1]
           blocked == [pass[p].rec EXCEPT !.blockedBy = block]
<1>1. clock \in Nat /\ pass[p].rec \in Record /\ pass[p].outcome \in Outcomes /\ r \in Record
  BY RecordFacts, PassFields, BlockedType DEF TypeOK
<1>2. Write(p, r) /\ UNCHANGED <<requests, clock>> /\ At(p, "block")
  BY DEF WriteBlock
<1>3. pass[p].rec.status = "OPEN" /\ pass[p].outcome \in {"requiresReview", "reject", "failed"}
  BY <1>2 DEF At, SafetyInvariant, PassInvariant, ActsOnOpenRecord, PassOutcome, ChecksApproval
<1>4. /\ blocked \in Record /\ blocked.blockedBy = block
      /\ blocked.status = pass[p].rec.status /\ blocked.attempts = pass[p].rec.attempts
      /\ blocked.review = pass[p].rec.review /\ blocked.episode = pass[p].rec.episode
  BY <1>1 DEF Record, Block
<1>5. r = CASE pass[p].outcome = "requiresReview" ->
                [WithNewEpisode(blocked, clock) EXCEPT !.status = "AWAITING_REVIEW",
                                                       !.reviewReason = TRUE]
           [] pass[p].outcome = "reject" -> [blocked EXCEPT !.status = "CLOSED"]
           [] OTHER -> blocked
  BY DEF Blocked
<1> HIDE DEF blocked, r
<1>6. /\ pass[p].rec = op /\ op'.version = op.version + 1
      /\ op'.attempts = r.attempts /\ op'.status = r.status /\ op'.review = r.review
      /\ op'.episode = r.episode /\ op'.blockedBy = r.blockedBy
      /\ op.version \in Int
  BY <1>1, <1>2, Applies
<1>7. CASE pass[p].outcome = "requiresReview"
  <2> DEFINE e == WithNewEpisode(blocked, clock)
  <2>1. /\ e \in Record /\ e.attempts = blocked.attempts /\ e.blockedBy = blocked.blockedBy
        /\ e.episode = [generation |-> blocked.episode.generation + 1, openedAt |-> clock]
        /\ e.review = IF blocked.review.token = NoToken THEN NoReview ELSE blocked.review
    BY <1>1, <1>4, WithNewEpisodeType, EpisodeFields
  <2> HIDE DEF e
  <2>2. r = [e EXCEPT !.status = "AWAITING_REVIEW", !.reviewReason = TRUE]
    BY <1>5, <1>7 DEF e
  <2>3. /\ r.status = "AWAITING_REVIEW" /\ r.attempts = op.attempts /\ r.blockedBy = block
        /\ r.episode = [generation |-> op.episode.generation + 1, openedAt |-> clock]
        /\ r.review = IF op.review.token = NoToken THEN NoReview ELSE op.review
    BY <1>4, <1>6, <2>1, <2>2 DEF Record
  <2>4. BlockFitsStatus'
    BY <1>6, <1>7, <2>3 DEF BlockFitsStatus, CurrentBlock
  <2> QED BY <1>2, <1>3, <1>6, <2>3, <2>4, ReviewOpened
<1>8. CASE pass[p].outcome \in {"reject", "failed"}
  <2>1. /\ r.attempts = op.attempts /\ r.blockedBy = block /\ r.episode = op.episode
        /\ r.review = op.review
        /\ r.status = IF pass[p].outcome = "reject" THEN "CLOSED" ELSE "OPEN"
    BY <1>3, <1>4, <1>5, <1>6, <1>8 DEF Record
  <2>2. CurrentBlock(op') = pass[p].outcome /\ BlockFitsStatus'
    BY <1>6, <1>8, <2>1 DEF BlockFitsStatus, CurrentBlock
  <2>3. ReviewFitsStatus' /\ Answerable(op')
    BY <1>2, <1>3, <1>6, <2>1 DEF RecordOutcome, ReviewFitsStatus, Answerable
  <2>4. OutcomeFitsStatus'
    BY <1>2, <1>3, <1>6, <1>8, <2>1, <2>2
       DEF RecordOutcome, OutcomeFitsStatus, Resolved, HonestEvidence, Latest
  <2>5. BudgetKept'
    BY <1>6, <2>1 DEF RecordOutcome, BudgetKept, RetryBudget, Settling, Last, Latest
  <2> QED BY <2>2, <2>3, <2>4, <2>5 DEF RecordOutcome
<1> QED BY <1>3, <1>7, <1>8

\* The operation is created, by a pass that found none.
LEMMA OutcomeAfterCreate ==
  ASSUME SafetyInvariant, RecordOutcome, NEW p \in Passes,
         CreateAwaitingReview(p) \/ CreateOpen(p)
  PROVE  RecordOutcome' /\ Answerable(op') /\ Last' = 0
<1>1. PICK status \in {"AWAITING_REVIEW", "OPEN"}, reason \in BOOLEAN, episode \in Episode :
        /\ Write(p, NewRecord(status, reason, episode))
        /\ status = "AWAITING_REVIEW" => episode.generation = 1
  <2>1. [generation |-> 1, openedAt |-> clock] \in Episode /\ NoEpisode \in Episode
    BY RecordFacts DEF TypeOK, Episode, NoEpisode
  <2> QED BY <2>1 DEF CreateAwaitingReview, CreateOpen
<1> DEFINE r == NewRecord(status, reason, episode)
<1>2. r \in Record /\ UNCHANGED <<requests, clock>> /\ clock \in Nat
  BY NewRecordType, RecordFacts DEF Statuses, CreateAwaitingReview, CreateOpen, TypeOK
<1>3. /\ r.attempts = << >> /\ r.status = status /\ r.review = NoReview
      /\ r.episode = episode /\ r.blockedBy = NoBlock
  BY DEF NewRecord
<1> HIDE DEF r
<1>4. /\ op'.attempts = << >> /\ op'.status = status /\ op'.review = NoReview
      /\ op'.episode = episode /\ op'.blockedBy = NoBlock
  BY <1>1, <1>2, <1>3, Applies DEF r
<1>5. Last' = 0
  BY <1>4, EmptySeq DEF Last
<1>6. BlockFitsStatus' /\ OutcomeFitsStatus'
  BY <1>4 DEF BlockFitsStatus, CurrentBlock, NoBlock, OutcomeFitsStatus, Resolved
<1>7. ReviewFitsStatus' /\ Answerable(op')
  BY <1>1, <1>2, <1>4 DEF ReviewFitsStatus, Answerable, OpenReview, NoReview, NoToken,
     NoEpisode, Episode
<1>8. BudgetKept'
  BY <1>4, <1>5 DEF BudgetKept, RetryBudget, Settling, Last
<1> QED BY <1>5, <1>6, <1>7, <1>8 DEF RecordOutcome

LEMMA OutcomeAfterReserve ==
  ASSUME SafetyInvariant, RecordOutcome, RequestsGrow, TypeOK', NEW p \in Passes, Reserve(p)
  PROVE  RecordOutcome' /\ Answerable(op')
<1> DEFINE new == Reserved(pass[p].readAt, pass[p].contract.maxInFlightMs)
           r == [pass[p].rec EXCEPT !.attempts = Append(@, new)]
<1>1. pass[p].rec \in Record /\ new \in Attempt /\ UNCHANGED clock
  BY RecordFacts, PassFields, ContractFields, ReservedType DEF Reserve
<1>2. new.status = "RESERVED"
  BY DEF Reserved
<1>3. Write(p, r) /\ At(p, "reserve")
  BY DEF Reserve
<1> HIDE DEF new
<1>4. /\ r \in Record /\ r.attempts = Append(pass[p].rec.attempts, new)
      /\ r.status = pass[p].rec.status /\ r.review = pass[p].rec.review
      /\ r.episode = pass[p].rec.episode /\ r.blockedBy = pass[p].rec.blockedBy
  BY <1>1, AppendProperties DEF Record
<1> HIDE DEF r
<1>5. /\ Live(p) /\ op'.version = op.version + 1 /\ op'.attempts = Append(op.attempts, new)
      /\ op'.status = op.status /\ op'.review = op.review /\ op'.episode = op.episode
      /\ op'.blockedBy = op.blockedBy /\ op.version \in Int /\ op.blockedBy.recordVersion \in Int
      /\ pass[p].rec = op
  BY <1>3, <1>4, Applies
<1>6. op.status = "OPEN" /\ (Last > 0 => Settling(op))
  BY <1>3, <1>5 DEF At, SafetyInvariant, PassInvariant, ActsOnOpenRecord, AttemptsSafely
<1>7. Last' = Last + 1 /\ op'.attempts[Last'] = new /\ Last \in Nat
  BY <1>1, <1>5, RecordFacts, AppendProperties DEF Last
<1>8. ~Resolved' /\ ~Settling(op)'
  BY <1>2, <1>7 DEF Resolved, Settling, Latest, Last
<1>9. BlockFitsStatus'
  BY <1>5, BlockOutlived
<1>10. OutcomeFitsStatus'
  BY <1>5, <1>6, <1>8 DEF OutcomeFitsStatus
<1>11. ReviewFitsStatus' /\ Answerable(op')
  BY <1>1, <1>5, <1>6 DEF RecordOutcome, ReviewFitsStatus, Answerable
<1>12. BudgetKept'
  <2>1. Last > 0 => \E c \in Contracts : Last + 1 <= c.maxAttempts
    BY <1>6, <1>7, ContractFields DEF RecordOutcome, BudgetKept
  <2>2. \A n \in 2..Last : \E c \in Contracts : n <= c.maxAttempts
    BY DEF RecordOutcome, BudgetKept, RetryBudget, Last
  <2>3. \A n \in 2..(Last + 1) : \E c \in Contracts : n <= c.maxAttempts
    BY <1>7, <2>1, <2>2
  <2> QED BY <1>7, <1>8, <2>3 DEF BudgetKept, RetryBudget, Last
<1> QED BY <1>9, <1>10, <1>11, <1>12 DEF RecordOutcome

\* What decideDisposition makes of an observation.
LEMMA DispositionOf ==
  ASSUME TypeOK, NEW p \in Passes, AttemptOf(p) > 0
  PROVE  LET d == DecisionOf(p, clock)
         IN  /\ d.disposition = "COMPLETE" => pass[p].answer = "APPLIED"
             /\ d.disposition = "NULL" <=> pass[p].answer = "PENDING"
             /\ d.disposition = "RETRY" => AttemptOf(p) < pass[p].contract.maxAttempts
             /\ d.disposition \in {"COMPLETE", "REPLAN", "INVESTIGATE", "RETRY", "NULL"}
<1> DEFINE c == pass[p].contract
           a == Latest(pass[p].rec)
           w == SettlementWindow(c.maxInFlightMs, a.maxInFlightMs)
           d == DecisionOf(p, clock)
<1>1. pass[p].answer \in EvidenceStates /\ clock \in Nat /\ pass[p].ok \in BOOLEAN
  BY PassFields DEF TypeOK
<1>2. a.startedAt \in Nat /\ w \in Times
  <2>1. pass[p].rec \in Record /\ c \in Contracts
    BY PassFields
  <2>2. pass[p].rec.attempts # << >>
    BY <2>1, EmptySeq DEF AttemptOf
  <2>3. a.startedAt \in Nat /\ a.maxInFlightMs \in Times
    BY <2>1, <2>2, LatestType DEF Attempt
  <2> QED BY <2>1, <2>3, ContractFields, SettlementWindowType
<1> HIDE DEF w
<1>3. CASE pass[p].answer # "NOT_APPLIED"
  BY <1>1, <1>3 DEF DecisionOf, DecideDisposition, Decision, EvidenceStates
<1>4. CASE pass[p].answer = "NOT_APPLIED" /\ ~(c.retryOnNotApplied /\ AttemptOf(p) < c.maxAttempts)
  BY <1>4 DEF DecisionOf, DecideDisposition, Decision
<1>5. CASE pass[p].answer = "NOT_APPLIED" /\ c.retryOnNotApplied /\ AttemptOf(p) < c.maxAttempts
  <2>1. d = DecideRetry(pass[p].ok, a.startedAt, w, clock)
    BY <1>5 DEF DecisionOf, DecideDisposition, w
  <2>2. DecideRetry(pass[p].ok, a.startedAt, w, clock).disposition \in {"RETRY", "INVESTIGATE"}
    BY <1>1, <1>2 DEF DecideRetry, Decision, Times, NoTime, NoWindow
  <2> HIDE DEF d
  <2>3. d.disposition \in {"RETRY", "INVESTIGATE"}
    BY <2>1, <2>2
  <2> QED BY <1>5, <2>3 DEF d
<1> QED BY <1>3, <1>4, <1>5

\* The record a pass resolves its attempt into, field by field.
LEMMA ResolvedFields ==
  ASSUME SafetyInvariant, NEW p \in Passes, At(p, "resolve"),
         Write(p, WithResolved(p, DecisionOf(p, clock)))
  PROVE  LET d == DecisionOf(p, clock)
         IN  /\ Live(p) /\ pass[p].rec = op /\ AttemptOf(p) = Last /\ Last > 0
             /\ op'.version = op.version + 1 /\ Last' = Last /\ op'.attempts # << >>
             /\ Latest(op)'.status = "RESOLVED" /\ Latest(op)'.ok = pass[p].ok
             /\ Latest(op)'.evidence = pass[p].answer
             /\ Latest(op)'.disposition = d.disposition
             /\ Latest(op)'.retryNotBefore = d.retryNotBefore
             /\ Latest(op)'.observedAt = pass[p].seenAt
             /\ op'.status = StatusAfter(pass[p].answer, d.disposition)
             /\ op'.review = op.review /\ op'.episode = op.episode /\ op'.blockedBy = op.blockedBy
             /\ op.version \in Int /\ op.blockedBy.recordVersion \in Int
<1> DEFINE d == DecisionOf(p, clock)
           r == WithResolved(p, d)
           a == ResolvedAttempt(p, d)
<1>1. /\ pass[p].rec \in Record /\ r \in Record /\ TypeOK /\ AttemptOf(p) > 0
  BY RecordFacts, PassFields, WithResolvedType
     DEF At, SafetyInvariant, PassInvariant, KnowsItsRequest
<1>2. a \in Attempt /\ d \in [disposition : Dispositions, retryNotBefore : Times]
  BY <1>1, ResolvedType
<1>3. /\ a.status = "RESOLVED" /\ a.ok = pass[p].ok /\ a.evidence = pass[p].answer
      /\ a.disposition = d.disposition /\ a.retryNotBefore = d.retryNotBefore
      /\ a.observedAt = pass[p].seenAt
  <2>1. Latest(pass[p].rec) \in Attempt
    <3>1. pass[p].rec.attempts # << >>
      BY <1>1, EmptySeq DEF AttemptOf
    <3> QED BY <1>1, <3>1, LatestType
  <2> QED BY <2>1 DEF ResolvedAttempt, Attempt
<1>4. /\ r.attempts = [pass[p].rec.attempts EXCEPT ![AttemptOf(p)] = a]
      /\ r.status = StatusAfter(pass[p].answer, d.disposition)
      /\ r.review = pass[p].rec.review /\ r.episode = pass[p].rec.episode
      /\ r.blockedBy = pass[p].rec.blockedBy
  BY <1>1 DEF WithResolved, Record
<1> HIDE DEF d, r, a
<1>5. /\ Live(p) /\ pass[p].rec = op /\ op'.version = op.version + 1
      /\ op'.attempts = r.attempts /\ op'.status = r.status /\ op'.review = r.review
      /\ op'.episode = r.episode /\ op'.blockedBy = r.blockedBy
      /\ op.version \in Int /\ op.blockedBy.recordVersion \in Int
  BY <1>1, Applies DEF r, d
<1>6. AttemptOf(p) = Last /\ Last \in 1..Len(op.attempts)
  BY <1>1, <1>5, RecordFacts DEF AttemptOf, Last
<1>7. /\ Len(op'.attempts) = Len(op.attempts) /\ op'.attempts[Last] = a
      /\ op'.attempts \in Seq(Attempt)
  BY <1>2, <1>4, <1>5, <1>6, RecordFacts, ExceptSeq
<1>8. Last' = Last /\ op'.attempts # << >> /\ Latest(op)' = a
  BY <1>6, <1>7, EmptySeq, RecordFacts DEF Last, Latest
<1> QED BY <1>1, <1>3, <1>4, <1>5, <1>6, <1>8 DEF d

LEMMA OutcomeAfterResolve ==
  ASSUME SafetyInvariant, RecordOutcome, NEW p \in Passes, PassOutcome(p),
         ResolveAndReturn(p) \/ ResolveAndContinue(p)
  PROVE  RecordOutcome' /\ Answerable(op')
<1> DEFINE d == DecisionOf(p, clock)
<1>1. At(p, "resolve") /\ Write(p, WithResolved(p, d)) /\ UNCHANGED <<requests, clock>>
  BY DEF ResolveAndReturn, ResolveAndContinue
<1>2. /\ Live(p) /\ pass[p].rec = op /\ AttemptOf(p) = Last /\ Last > 0
      /\ op'.version = op.version + 1 /\ Last' = Last /\ op'.attempts # << >>
      /\ Latest(op)'.status = "RESOLVED" /\ Latest(op)'.evidence = pass[p].answer
      /\ Latest(op)'.disposition = d.disposition
      /\ op'.status = StatusAfter(pass[p].answer, d.disposition)
      /\ op'.review = op.review /\ op'.episode = op.episode /\ op'.blockedBy = op.blockedBy
      /\ op.version \in Int /\ op.blockedBy.recordVersion \in Int
  BY <1>1, ResolvedFields
<1>3. /\ d.disposition = "COMPLETE" => pass[p].answer = "APPLIED"
      /\ d.disposition = "NULL" <=> pass[p].answer = "PENDING"
      /\ d.disposition = "RETRY" => AttemptOf(p) < pass[p].contract.maxAttempts
      /\ d.disposition \in {"COMPLETE", "REPLAN", "INVESTIGATE", "RETRY", "NULL"}
  BY <1>2, RecordFacts, DispositionOf
<1> HIDE DEF d
<1>4. op.status = "OPEN"
  BY <1>1, <1>2 DEF At, SafetyInvariant, PassInvariant, ActsOnOpenRecord
<1>5. BlockFitsStatus'
  BY <1>2, BlockOutlived
<1>6. OutcomeFitsStatus'
  <2>1. pass[p].answer = "APPLIED" => HonestEvidence' = "APPLIED"
    BY <1>1 DEF PassOutcome, SawInTime, HonestEvidence
  <2>2. op'.status = "CLOSED" => /\ ~LatestLeftItOpen(op')
                                 /\ d.disposition \in {"COMPLETE", "REPLAN", "INVESTIGATE"}
    BY <1>2, <1>3 DEF LatestLeftItOpen, StatusAfter
  <2>3. op'.status \in {"OPEN", "AWAITING_REVIEW"} => d.disposition \in {"RETRY", "NULL"}
    BY <1>2, <1>3 DEF StatusAfter
  <2> QED BY <1>2, <1>3, <2>1, <2>2, <2>3 DEF OutcomeFitsStatus, Resolved
<1>7. ReviewFitsStatus' /\ Answerable(op')
  BY <1>1, <1>2, <1>4 DEF RecordOutcome, ReviewFitsStatus, Answerable, StatusAfter
<1>8. BudgetKept'
  <2>1. pass[p].contract \in Contracts
    BY RecordFacts, PassFields
  <2> QED BY <1>2, <1>3, <2>1 DEF RecordOutcome, BudgetKept, RetryBudget, Settling, Last
<1> QED BY <1>5, <1>6, <1>7, <1>8 DEF RecordOutcome

LEMMA OutcomeAfterRecordDecision ==
  ASSUME SafetyInvariant, RecordOutcome, NEW p \in Passes, PassOutcome(p), RecordDecision(p)
  PROVE  RecordOutcome' /\ Answerable(op')
<1> DEFINE status == IF pass[p].review.decision = "approved" THEN "OPEN" ELSE "CLOSED"
           r == [pass[p].rec EXCEPT !.status = status, !.review = pass[p].review]
<1>1. pass[p].rec \in Record /\ pass[p].review \in Review /\ status \in Statuses
  BY RecordFacts, PassFields DEF Statuses
<1>2. Write(p, r) /\ UNCHANGED <<requests, clock>> /\ At(p, "record")
  BY DEF RecordDecision
<1> HIDE DEF status
<1>3. /\ r \in Record /\ r.status = status /\ r.review = pass[p].review
      /\ r.attempts = pass[p].rec.attempts /\ r.episode = pass[p].rec.episode
      /\ r.blockedBy = pass[p].rec.blockedBy
  BY <1>1 DEF Record
<1> HIDE DEF r
<1>4. /\ pass[p].rec = op /\ op'.version = op.version + 1
      /\ op'.status = status /\ op'.review = pass[p].review /\ op'.attempts = op.attempts
      /\ op'.episode = op.episode /\ op'.blockedBy = op.blockedBy
      /\ op.version \in Int /\ op.blockedBy.recordVersion \in Int
  BY <1>2, <1>3, Applies
<1>5. /\ OpenReview(op) /\ pass[p].review.token = op.episode.generation
      /\ pass[p].review.decision \in {"approved", "rejected"}
      /\ pass[p].review.recordedAt <= clock
  BY <1>2, <1>4 DEF PassOutcome, AnswersOpenReview
<1>6. BlockFitsStatus'
  BY <1>4, BlockOutlived
<1>7. OutcomeFitsStatus'
  BY <1>2, <1>4, <1>5 DEF RecordOutcome, OutcomeFitsStatus, Resolved, Latest, HonestEvidence,
     OpenReview, status
<1>8. ReviewFitsStatus' /\ Answerable(op')
  <2>1. op.episode.generation \in Nat
    BY RecordFacts DEF Episode
  <2> QED BY <1>2, <1>4, <1>5, <2>1 DEF ReviewFitsStatus, Answerable, status
<1>9. BudgetKept'
  BY <1>4 DEF RecordOutcome, BudgetKept, RetryBudget, Settling, Last, Latest
<1> QED BY <1>6, <1>7, <1>8, <1>9 DEF RecordOutcome

\* Every write is of the next version.
LEMMA WrittenVersion ==
  ASSUME SafetyInvariant, TypeOK', NEW p \in Passes,
         \/ CreateAwaitingReview(p) \/ CreateOpen(p) \/ Reopen(p) \/ WriteBlock(p)
         \/ Reserve(p) \/ ResolveAndReturn(p) \/ ResolveAndContinue(p) \/ RecordDecision(p)
  PROVE  op'.version = op.version + 1
<1>1. PICK r : Write(p, r)
  BY DEF CreateAwaitingReview, CreateOpen, Reopen, WriteBlock, Reserve, ResolveAndReturn,
     ResolveAndContinue, RecordDecision
<1>2. op' \in Record /\ pass[p].rec.version = op.version /\ op.version \in Int
  BY <1>1, RecordFacts DEF TypeOK, Write, Current
<1> QED BY <1>1, <1>2 DEF Write, Record

-----------------------------------------------------------------------------
(* The pass that moves *)

\* An approval without a problem covers an attempt that starts now.
LEMMA NoProblemCovers ==
  ASSUME NEW c \in Contracts, NEW r \in Record, NEW t \in Nat,
         r.reviewReason, ~ApprovalProblem(c, r, t)
  PROVE  Covered(c, r, t)
<1>1. /\ r.review.decision = "approved" /\ r.review.token # NoToken
      /\ r.review.token = r.episode.generation
      /\ r.review.fingerprint = c.fingerprint /\ ~Expired(c, r.review, t)
  BY DEF ApprovalProblem, Attributed
<1>2. /\ r.review.expiresAt \in Times /\ r.review.decidedAt \in Nat /\ r.review.recordedAt \in Nat
      /\ c.maxApprovalAgeMs \in Times
  BY ContractFields DEF Record, Review
<1>3. \A b \in ExpiryBounds(c, r.review) : ~(t >= b)
  BY <1>1 DEF Expired
<1>4. r.review.expiresAt # NoTime => t < r.review.expiresAt
  <2>1. SUFFICES ASSUME r.review.expiresAt # NoTime PROVE t < r.review.expiresAt
    OBVIOUS
  <2>2. r.review.expiresAt \in ExpiryBounds(c, r.review)
    BY <2>1 DEF ExpiryBounds
  <2> QED BY <1>2, <1>3, <2>1, <2>2 DEF Times, NoTime
<1>5. c.maxApprovalAgeMs # NoTime =>
        t < r.review.decidedAt + c.maxApprovalAgeMs /\ t < r.review.recordedAt + c.maxApprovalAgeMs
  <2>1. SUFFICES ASSUME c.maxApprovalAgeMs # NoTime
                 PROVE  /\ t < r.review.decidedAt + c.maxApprovalAgeMs
                        /\ t < r.review.recordedAt + c.maxApprovalAgeMs
    OBVIOUS
  <2>2. /\ r.review.decidedAt + c.maxApprovalAgeMs \in ExpiryBounds(c, r.review)
        /\ r.review.recordedAt + c.maxApprovalAgeMs \in ExpiryBounds(c, r.review)
    BY <2>1 DEF ExpiryBounds
  <2> QED BY <1>2, <1>3, <2>1, <2>2 DEF Times, NoTime
<1> QED BY <1>1, <1>4, <1>5 DEF Covered

LEMMA AfterRead ==
  ASSUME SafetyInvariant, RecordOutcome, NEW p \in Passes, ReadAndContinue(p)
  PROVE  PassOutcome(p)'
<1>1. /\ pass[p] \in PassState /\ UNCHANGED <<op, requests, clock>>
      /\ pass' = [pass EXCEPT ![p] = [pass[p] EXCEPT !.pc = Branch(op), !.rec = op,
                   !.ok = op.attempts # << >> /\ Latest(op).ok]]
  BY RecordFacts, PassFields DEF ReadAndContinue, Become
<1>2. pass'[p].pc = Branch(op)
  BY <1>1, RecordFacts DEF TypeOK, PassState
<1>3. Branch(op) \in {"authorize", "reopen", "check", "observe", "idle"}
  BY RecordFacts, BranchType
<1>4. CASE Branch(op) # "check"
  BY <1>2, <1>3, <1>4, AtRest
<1>5. CASE Branch(op) = "check"
  <2>1. op.status = "OPEN" /\ BranchForOpen(op) = "check"
    BY <1>5, RecordFacts DEF Branch, Statuses
  <2>2. Last > 0 => Latest(op).ok /\ ~ApprovedSinceLatest(op)
    BY <2>1, RecordFacts DEF BranchForOpen, Finished, Attempt
  <2>3. op.review.decision \in {"none", "approved"}
    BY <2>1, RecordFacts DEF RecordOutcome, ReviewFitsStatus, Review
  <2>4. Last > 0 => op.review.attemptCount # Last
    BY <2>2, <2>3, RecordFacts
       DEF ApprovedSinceLatest, RecordOutcome, ReviewFitsStatus, NoTime, Last
  <2>5. LookedBeforeNext(p)'
    BY <1>1, <2>2, <2>4 DEF LookedBeforeNext, Last
  <2> QED BY <1>2, <1>5, <2>5 DEF PassOutcome, AnswersOpenReview, ChecksApproval, SawInTime, At
<1> QED BY <1>4, <1>5

\* The steps from the check to the reservation.
LEMMA AfterCheck ==
  ASSUME SafetyInvariant, NEW p \in Passes, PassOutcome(p),
         AttemptUnchecked(p) \/ ApprovalRefused(p) \/ StartRevalidate(p) \/ Revalidated(p)
  PROVE  PassOutcome(p)'
<1>1. /\ pass[p] \in PassState /\ pass[p].rec \in Record /\ pass[p].contract \in Contracts
      /\ clock \in Nat /\ pass \in [Passes -> PassState]
  BY RecordFacts, PassFields DEF TypeOK
<1>2. UNCHANGED <<op, requests, clock>> /\ pass[p].pc \in {"check", "revalidate"}
  BY DEF AttemptUnchecked, ApprovalRefused, StartRevalidate, Revalidated, At
<1>3. /\ pass'[p].rec = pass[p].rec /\ pass'[p].contract = pass[p].contract
      /\ pass'[p].pc \in {"reserve", "block", "revalidate"}
      /\ pass'[p].pc = "block" => pass'[p].outcome \in {"requiresReview", "reject", "failed"}
      /\ pass'[p].pc = "reserve" =>
           /\ pass'[p].readAt = clock
           /\ pass[p].rec.reviewReason => ~ApprovalProblem(pass[p].contract, pass[p].rec, clock)
  <2>1. CASE AttemptUnchecked(p)
    <3>1. pass'[p] = [pass[p] EXCEPT !.pc = "reserve", !.readAt = clock]
      BY <1>1, <2>1 DEF AttemptUnchecked, Become
    <3>2. ~pass[p].rec.reviewReason
      BY <2>1 DEF AttemptUnchecked, NeedsCheck
    <3> QED BY <1>1, <3>1, <3>2 DEF PassState
  <2>2. CASE ApprovalRefused(p)
    <3>1. pass'[p] = [pass[p] EXCEPT !.pc = "block", !.outcome = "requiresReview"]
      BY <1>1, <2>2 DEF ApprovalRefused, Become
    <3> QED BY <1>1, <3>1 DEF PassState
  <2>3. CASE StartRevalidate(p)
    <3>1. pass'[p] = [pass[p] EXCEPT !.pc = "revalidate"]
      BY <1>1, <2>3 DEF StartRevalidate, Goto, Become
    <3> QED BY <1>1, <3>1 DEF PassState
  <2>4. CASE Revalidated(p)
    <3>1. PICK outcome \in {"none", "requiresReview", "reject", "failed"} :
            /\ Become(p, [pass[p] EXCEPT !.pc = IF outcome = "none" THEN "reserve" ELSE "block",
                                         !.outcome = outcome, !.readAt = clock])
            /\ outcome = "none" => ~ProblemAfterRevalidate(p)
      BY <2>4, InputsAssumption DEF Revalidated
    <3> DEFINE pc == IF outcome = "none" THEN "reserve" ELSE "block"
    <3>2. pass'[p] = [pass[p] EXCEPT !.pc = pc, !.outcome = outcome, !.readAt = clock]
      BY <1>1, <3>1 DEF Become
    <3>3. pc \in {"reserve", "block"} /\ (pc = "reserve" <=> outcome = "none")
      OBVIOUS
    <3> HIDE DEF pc
    <3>4. /\ pass'[p].rec = pass[p].rec /\ pass'[p].contract = pass[p].contract
          /\ pass'[p].pc = pc /\ pass'[p].outcome = outcome /\ pass'[p].readAt = clock
      BY <1>1, <3>2 DEF PassState
    <3> QED BY <3>1, <3>3, <3>4 DEF ProblemAfterRevalidate
  <2> QED BY <2>1, <2>2, <2>3, <2>4
<1>4. ChecksApproval(p)'
  BY <1>1, <1>3, NoProblemCovers DEF ChecksApproval, At
<1>5. LookedBeforeNext(p)'
  BY <1>2, <1>3 DEF PassOutcome, LookedBeforeNext, Live, Last
<1>6. AnswersOpenReview(p)' /\ SawInTime(p)'
  BY <1>3 DEF AnswersOpenReview, SawInTime, At
<1> QED BY <1>4, <1>5, <1>6 DEF PassOutcome

LEMMA AfterObserve ==
  ASSUME SafetyInvariant, RecordOutcome, NEW p \in Passes, Observe(p)
  PROVE  PassOutcome(p)'
<1>1. PICK answer \in Answers :
        pass' = [pass EXCEPT ![p] = [pass[p] EXCEPT !.pc = "resolve", !.answer = answer,
                                                    !.seenAt = clock]]
  BY DEF Observe, Become
<1>2. /\ pass'[p].pc = "resolve" /\ pass'[p].answer = answer /\ pass'[p].seenAt = clock
      /\ pass'[p].rec = pass[p].rec /\ pass'[p].ok = pass[p].ok
      /\ UNCHANGED <<op, requests, clock>> /\ At(p, "observe")
  BY <1>1, RecordFacts DEF TypeOK, PassState, Observe
<1>3. answer = "APPLIED" => HonestEvidence = "APPLIED"
  BY InputsAssumption DEF Answers
<1>4. op.review.recordedAt <= clock
  BY DEF RecordOutcome, ReviewFitsStatus
<1>5. (Live(p) /\ Settling(op) /\ ~pass[p].ok) => clock >= requests[Last].deadline
  BY <1>2 DEF SafetyInvariant, PassInvariant, ObservesInTime
<1>6. SawInTime(p)'
  BY <1>2, <1>3, <1>4, <1>5 DEF SawInTime, Live, Settling, Latest, Last, HonestEvidence
<1> QED BY <1>2, <1>6 DEF PassOutcome, AnswersOpenReview, ChecksApproval, LookedBeforeNext, At

\* The pass that settled an attempt looked at it late enough.
LEMMA AfterResolve ==
  ASSUME SafetyInvariant, NEW p \in Passes, PassOutcome(p), ResolveAndContinue(p)
  PROVE  PassOutcome(p)'
<1> DEFINE d == DecisionOf(p, clock)
<1>1. At(p, "resolve") /\ Write(p, WithResolved(p, d)) /\ UNCHANGED requests
      /\ GoesOn(pass[p].rec, d)
  BY DEF ResolveAndContinue
<1>2. /\ Live(p) /\ pass[p].rec = op /\ Last' = Last
      /\ Latest(op)'.ok = pass[p].ok /\ Latest(op)'.observedAt = pass[p].seenAt
      /\ op'.review = op.review
  BY <1>1, ResolvedFields
<1>3. pass'[p].pc = "check"
  BY RecordFacts, PassFields DEF ResolveAndContinue, Become, TypeOK, PassState
<1>4. Settling(op)
  BY <1>1, <1>2 DEF GoesOn
<1>5. LookedBeforeNext(p)'
  BY <1>1, <1>2, <1>4 DEF PassOutcome, SawInTime, LookedBeforeNext, Last
<1> QED BY <1>3, <1>5 DEF PassOutcome, AnswersOpenReview, ChecksApproval, SawInTime, At

LEMMA AfterAcceptDecision ==
  ASSUME SafetyInvariant, NEW p \in Passes, AcceptDecision(p)
  PROVE  PassOutcome(p)'
<1>1. PICK d \in Decisions :
        /\ Acceptable(op, pass[p].contract, d, clock)
        /\ Become(p, [pass[p] EXCEPT !.pc = "record", !.rec = op,
                        !.review = RecordedReview(op, pass[p].contract, d, clock)])
  BY DEF AcceptDecision
<1> DEFINE v == RecordedReview(op, pass[p].contract, d, clock)
<1>2. /\ v.decision = d.decision /\ v.token = d.token /\ v.recordedAt = clock
      /\ d.decision \in {"approved", "rejected"} /\ clock \in Nat
  BY RecordFacts, DecisionsType DEF RecordedReview, TypeOK
<1> HIDE DEF v
<1>3. pass'[p].pc = "record" /\ pass'[p].rec = op /\ pass'[p].review = v /\ UNCHANGED clock
  BY <1>1, RecordFacts DEF Become, TypeOK, PassState, v, AcceptDecision
<1>4. OpenReview(op) /\ d.token = op.episode.generation
  BY <1>1 DEF Acceptable
<1>5. AnswersOpenReview(p)'
  BY <1>2, <1>3, <1>4 DEF AnswersOpenReview
<1> QED BY <1>3, <1>5 DEF PassOutcome, ChecksApproval, SawInTime, LookedBeforeNext, At

-----------------------------------------------------------------------------
(* The invariant *)

LEMMA OutcomeInit == Init => OutcomeInvariant
<1> SUFFICES ASSUME Init PROVE OutcomeInvariant
  OBVIOUS
<1>1. /\ op.attempts = << >> /\ op.blockedBy = NoBlock /\ op.status # "CLOSED"
      /\ op.episode = NoEpisode
  <2>1. CASE op = NoRecord
    BY <2>1 DEF NoRecord, NewRecord
  <2>2. CASE op \in OlderRecords
    BY <2>2, OlderRecordFacts
  <2> QED BY <2>1, <2>2, InputsAssumption DEF Init
<1>2. /\ op.review.token = 0 /\ op.review.recordedAt = 0 /\ op.review.decision # "rejected"
      /\ op.review.decision = "none" => op.review.attemptCount = NoTime
  <2>1. CASE op = NoRecord
    BY <2>1 DEF NoRecord, NewRecord, NoReview, NoToken
  <2>2. CASE op \in OlderRecords
    BY <2>2, OlderRecordFacts DEF NoToken
  <2> QED BY <2>1, <2>2, InputsAssumption DEF Init
<1>3. Last = 0 /\ clock = 0
  BY <1>1, EmptySeq DEF Init, Last
<1>4. BlockFitsStatus /\ OutcomeFitsStatus
  BY <1>1 DEF BlockFitsStatus, CurrentBlock, NoBlock, OutcomeFitsStatus, Resolved
<1>5. ReviewFitsStatus
  <2>1. op.episode.generation = 0
    BY <1>1 DEF NoEpisode
  <2> QED BY <1>1, <1>2, <1>3, <2>1 DEF ReviewFitsStatus
<1>6. BudgetKept
  BY <1>1, <1>3 DEF BudgetKept, RetryBudget, Settling, Last
<1>7. \A p \in Passes : PassOutcome(p)
  BY DEF Init, Idle, PassOutcome, AnswersOpenReview, ChecksApproval, SawInTime,
     LookedBeforeNext, At
<1>8. \A p \in Passes : ActsOnUnanswerable(p)
  BY DEF Init, Idle, ActsOnUnanswerable
<1> QED BY <1>4, <1>5, <1>6, <1>7, <1>8 DEF OutcomeInvariant, RecordOutcome

\* What a step of anyone leaves on record, and leaves the passes with.
LEMMA OutcomesStep ==
  ASSUME SafetyInvariant, OutcomeInvariant, [Next]_vars
  PROVE  RecordOutcome' /\ \A p \in Passes : PassOutcome(p)'
<1> DEFINE Kept == RecordOutcome' /\ \A p \in Passes : PassOutcome(p)'
<1>1. /\ TypeOK /\ TypeOK' /\ RequestsGrow
      /\ clock \in Nat /\ clock' \in Nat /\ clock' >= clock
      /\ RecordOutcome /\ \A p \in Passes : PassOutcome(p)
      /\ pass \in [Passes -> PassState]
  BY SafetyStep, StepGrows DEF SafetyInvariant, OutcomeInvariant, TypeOK
<1>2. ASSUME NEW p \in Passes, pass' = [pass EXCEPT ![p] = pass'[p]],
             op' = op \/ (op'.version = op.version + 1 /\ RecordOutcome'), PassOutcome(p)'
      PROVE  Kept
  <2>1. ASSUME NEW q \in Passes, q # p PROVE PassOutcome(q)'
    <3>1. pass'[q] = pass[q]
      BY <1>1, <1>2, <2>1
    <3> QED BY <1>1, <1>2, <3>1, OtherPass
  <2>2. RecordOutcome'
    BY <1>1, <1>2, RecordUnwritten
  <2> QED BY <1>2, <2>1, <2>2
<1>3. ASSUME NEW p \in Passes, Begin(p) PROVE Kept
  <2>1. /\ op' = op /\ pass' = [pass EXCEPT ![p] = pass'[p]]
        /\ pass'[p].pc \in {"read", "review"}
    BY <1>1, <1>3 DEF Begin, BeginRun, BeginReview, Become, Idle
  <2> QED BY <1>2, <2>1, AtRest
<1>4. ASSUME NEW p \in Passes, Return(p),
             op' = op \/ (op'.version = op.version + 1 /\ RecordOutcome')
      PROVE  Kept
  <2>1. pass' = [pass EXCEPT ![p] = pass'[p]] /\ pass'[p].pc = "idle"
    BY <1>1, <1>4 DEF Return, Become, Idle
  <2> QED BY <1>2, <1>4, <2>1, AtRest
<1>5. ASSUME NEW p \in Passes,
             ReadAndReturn(p) \/ RefuseDecision(p) \/ Conflict(p) \/ Crash(p)
      PROVE  Kept
  BY <1>4, <1>5 DEF ReadAndReturn, RefuseDecision, Conflict, Crash
<1>6. ASSUME NEW p \in Passes,
             Authorize(p) \/ Execute(p) \/ ExecuteReturned(p) \/ ExecuteFailed(p)
      PROVE  Kept
  <2>1. /\ op' = op /\ pass' = [pass EXCEPT ![p] = pass'[p]]
        /\ pass'[p].pc \in {"create", "executing", "observe"}
    BY <1>1, <1>6 DEF Authorize, Execute, ExecuteReturned, ExecuteFailed, Become, Goto, PassState
  <2> QED BY <1>2, <2>1, AtRest
<1>7. ASSUME NEW p \in Passes,
             \/ ReadAndContinue(p) \/ AttemptUnchecked(p) \/ ApprovalRefused(p)
             \/ StartRevalidate(p) \/ Revalidated(p) \/ Observe(p) \/ AcceptDecision(p)
      PROVE  Kept
  <2>1. op' = op /\ pass' = [pass EXCEPT ![p] = pass'[p]]
    BY <1>1, <1>7 DEF ReadAndContinue, AttemptUnchecked, ApprovalRefused, StartRevalidate,
       Revalidated, Observe, AcceptDecision, Become, Goto
  <2>2. PassOutcome(p)'
    BY <1>1, <1>7, AfterRead, AfterCheck, AfterObserve, AfterAcceptDecision
  <2> QED BY <1>2, <2>1, <2>2
<1>8. ASSUME NEW p \in Passes, CreateAwaitingReview(p) \/ Reopen(p) \/ WriteBlock(p)
                                 \/ ResolveAndReturn(p) \/ RecordDecision(p)
      PROVE  Kept
  <2>1. Return(p)
    BY <1>8 DEF CreateAwaitingReview, Reopen, WriteBlock, ResolveAndReturn, RecordDecision
  <2>2. RecordOutcome'
    BY <1>1, <1>8, OutcomeAfterCreate, OutcomeAfterReopen, OutcomeAfterWriteBlock,
       OutcomeAfterResolve, OutcomeAfterRecordDecision
  <2>3. op'.version = op.version + 1
    BY <1>1, <1>8, WrittenVersion
  <2> QED BY <1>4, <2>1, <2>2, <2>3
<1>9. ASSUME NEW p \in Passes, CreateOpen(p) \/ Reserve(p) \/ ResolveAndContinue(p)
      PROVE  Kept
  <2>1. pass' = [pass EXCEPT ![p] = pass'[p]]
    BY <1>1, <1>9 DEF CreateOpen, Reserve, ResolveAndContinue, Become
  <2>2. RecordOutcome'
    BY <1>1, <1>9, OutcomeAfterCreate, OutcomeAfterReserve, OutcomeAfterResolve
  <2>3. op'.version = op.version + 1
    BY <1>1, <1>9, WrittenVersion
  <2>4. PassOutcome(p)'
    <3>1. CASE CreateOpen(p)
      <4>1. pass'[p].pc = "check"
        BY <1>1, <3>1 DEF CreateOpen, Become, PassState
      <4>2. Last' = 0
        BY <1>1, <3>1, OutcomeAfterCreate
      <4> QED BY <4>1, <4>2
              DEF PassOutcome, AnswersOpenReview, ChecksApproval, SawInTime, LookedBeforeNext, At
    <3>2. CASE Reserve(p)
      <4>1. pass'[p].pc = "execute"
        BY <1>1, <3>2 DEF Reserve, Become, PassState
      <4> QED BY <4>1, AtRest
    <3>3. CASE ResolveAndContinue(p)
      BY <1>1, <3>3, AfterResolve
    <3> QED BY <1>9, <3>1, <3>2, <3>3
  <2> QED BY <1>2, <2>1, <2>2, <2>3, <2>4
<1>10. ASSUME UNCHANGED <<op, pass>> PROVE Kept
  <2>1. RecordOutcome'
    BY <1>1, <1>10, RecordUnwritten
  <2>2. \A q \in Passes : PassOutcome(q)'
    BY <1>1, <1>10, OtherPass
  <2> QED BY <2>1, <2>2
<1>11. CASE Provider \/ Tick \/ UNCHANGED vars
  BY <1>10, <1>11 DEF Provider, Land, Accept, Refuse, Tick, vars
<1>12. ASSUME NEW p \in Passes, LoseLock(p) PROVE Kept
  BY <1>10, <1>12 DEF LoseLock
<1> QED
  BY <1>3, <1>5, <1>6, <1>7, <1>8, <1>9, <1>11, <1>12 DEF Next, Run, ReviewCall, Fault

\* A step writes no review, or one that can be answered.
LEMMA WritesAnswerable ==
  ASSUME SafetyInvariant, OutcomeInvariant, [Next]_vars
  PROVE  op' = op \/ Answerable(op')
<1>1. /\ TypeOK' /\ RequestsGrow /\ RecordOutcome /\ \A p \in Passes : PassOutcome(p)
  BY SafetyStep, StepGrows DEF SafetyInvariant, OutcomeInvariant
<1>2. ASSUME NEW p \in Passes,
             \/ CreateAwaitingReview(p) \/ CreateOpen(p) \/ Reopen(p) \/ WriteBlock(p)
             \/ Reserve(p) \/ ResolveAndReturn(p) \/ ResolveAndContinue(p) \/ RecordDecision(p)
      PROVE  Answerable(op')
  BY <1>1, <1>2, OutcomeAfterCreate, OutcomeAfterReopen, OutcomeAfterWriteBlock,
     OutcomeAfterReserve, OutcomeAfterResolve, OutcomeAfterRecordDecision
<1> QED
  BY <1>2
  DEF Next, Begin, BeginRun, BeginReview, Run, ReadAndReturn, ReadAndContinue, Authorize,
     AttemptUnchecked, ApprovalRefused, StartRevalidate, Revalidated, Execute, ExecuteReturned,
     ExecuteFailed, Observe, ReviewCall, RefuseDecision, AcceptDecision, Conflict, Fault, Crash,
     LoseLock, Provider, Land, Accept, Refuse, Tick, vars

\* A pass that goes on acts on the record it has read, or has just read the stored one.
LEMMA ActsOnWhatItRead ==
  ASSUME TypeOK, [Next]_vars, op' = op, ~Answerable(op),
         NEW q \in Passes, pass'[q].pc \notin {"idle", "read", "review"}
  PROVE  pass'[q].rec = op
           \/ (pass[q].pc \notin {"idle", "read", "review"} /\ pass'[q].rec = pass[q].rec)
<1> DEFINE Fits == pass'[q].rec = op
             \/ (pass[q].pc \notin {"idle", "read", "review"} /\ pass'[q].rec = pass[q].rec)
<1>1. pass \in [Passes -> PassState] /\ pass[q] \in PassState
  BY DEF TypeOK
<1>2. ASSUME pass'[q] = pass[q] PROVE Fits
  BY <1>2
<1>3. ASSUME NEW p \in Passes, Begin(p) \/ Return(p) PROVE Fits
  <2>1. pass' = [pass EXCEPT ![p] = pass'[p]] /\ pass'[p].pc \in {"idle", "read", "review"}
    <3>1. CASE Begin(p)
      BY <1>1, <3>1 DEF Begin, BeginRun, BeginReview, Become, Idle
    <3>2. CASE Return(p)
      BY <1>1, <3>2 DEF Return, Become, Idle
    <3> QED BY <1>3, <3>1, <3>2
  <2>2. pass'[q] = pass[q]
    BY <1>1, <2>1
  <2> QED BY <1>2, <2>2
<1>4. ASSUME NEW p \in Passes, ReadAndContinue(p) PROVE Fits
  BY <1>1, <1>2, <1>4 DEF ReadAndContinue, Become, PassState
<1>5. ASSUME NEW p \in Passes,
             \/ Authorize(p) \/ AttemptUnchecked(p) \/ ApprovalRefused(p) \/ StartRevalidate(p)
             \/ Revalidated(p) \/ Execute(p) \/ ExecuteReturned(p) \/ ExecuteFailed(p) \/ Observe(p)
      PROVE  Fits
  <2>1. /\ pass' = [pass EXCEPT ![p] = pass'[p]] /\ pass'[p].rec = pass[p].rec
        /\ pass[p].pc \notin {"idle", "read", "review"}
    <3>1. pass[p] \in PassState
      BY <1>1
    <3>2. CASE Authorize(p) \/ AttemptUnchecked(p) \/ ApprovalRefused(p) \/ StartRevalidate(p)
      BY <1>1, <3>1, <3>2 DEF Authorize, AttemptUnchecked, ApprovalRefused, StartRevalidate,
         Become, Goto, At, PassState
    <3>3. CASE Execute(p) \/ ExecuteReturned(p) \/ ExecuteFailed(p)
      BY <1>1, <3>1, <3>3 DEF Execute, ExecuteReturned, ExecuteFailed, Become, Goto, At, PassState
    <3>4. CASE Observe(p)
      BY <1>1, <3>1, <3>4 DEF Observe, Become, At, PassState
    <3>5. CASE Revalidated(p)
      BY <1>1, <3>1, <3>5 DEF Revalidated, Become, At, PassState
    <3> QED BY <1>5, <3>2, <3>3, <3>4, <3>5
  <2> QED BY <1>1, <1>2, <2>1
<1>6. ASSUME NEW p \in Passes, AcceptDecision(p) PROVE Fits
  BY <1>6 DEF AcceptDecision, Acceptable, Answerable
<1>7. ASSUME NEW p \in Passes, CreateOpen(p) \/ Reserve(p) \/ ResolveAndContinue(p) PROVE Fits
  <2>1. /\ pass' = [pass EXCEPT ![p] = pass'[p]] /\ pass'[p].rec = op'
    <3>1. pass[p] \in PassState
      BY <1>1
    <3>2. CASE CreateOpen(p)
      BY <1>1, <3>1, <3>2 DEF CreateOpen, Become, PassState
    <3>3. CASE Reserve(p)
      BY <1>1, <3>1, <3>3 DEF Reserve, Become, PassState
    <3>4. CASE ResolveAndContinue(p)
      BY <1>1, <3>1, <3>4 DEF ResolveAndContinue, Become, PassState
    <3> QED BY <1>7, <3>2, <3>3, <3>4
  <2> QED BY <1>1, <1>2, <2>1
<1>8. CASE Provider \/ Tick \/ UNCHANGED vars
  BY <1>2, <1>8 DEF Provider, Land, Accept, Refuse, Tick, vars
<1>9. ASSUME NEW p \in Passes, LoseLock(p) PROVE Fits
  BY <1>2, <1>9 DEF LoseLock
<1> QED
  BY <1>3, <1>4, <1>5, <1>6, <1>7, <1>8, <1>9
  DEF Next, Run, ReadAndReturn, CreateAwaitingReview, Reopen, WriteBlock, ResolveAndReturn,
     ReviewCall, RefuseDecision, RecordDecision, Conflict, Fault, Crash

\* One step of anyone.
LEMMA OutcomeStep == SafetyInvariant /\ OutcomeInvariant /\ [Next]_vars => OutcomeInvariant'
<1> SUFFICES ASSUME SafetyInvariant, OutcomeInvariant, [Next]_vars PROVE OutcomeInvariant'
  OBVIOUS
<1>1. RecordOutcome' /\ \A p \in Passes : PassOutcome(p)'
  BY OutcomesStep
<1>2. ASSUME NEW q \in Passes PROVE ActsOnUnanswerable(q)'
  <2> SUFFICES ASSUME ~Answerable(op'), pass'[q].pc \notin {"idle", "read", "review"}
               PROVE  pass'[q].rec.version = op'.version
    BY DEF ActsOnUnanswerable, Live
  <2>1. op' = op
    BY WritesAnswerable
  <2>2. pass'[q].rec = op
          \/ (pass[q].pc \notin {"idle", "read", "review"} /\ pass'[q].rec = pass[q].rec)
    BY <2>1, RecordFacts, ActsOnWhatItRead
  <2> QED BY <2>1, <2>2 DEF OutcomeInvariant, ActsOnUnanswerable, Live
<1> QED BY <1>1, <1>2 DEF OutcomeInvariant

-----------------------------------------------------------------------------
(* What follows for every run *)

\* OutcomeInvariant holds for any contracts, callers, reviewers, faults and lateness.
THEOREM OutcomeInvariantHolds == Spec => []OutcomeInvariant
<1>1. Init => SafetyInvariant /\ OutcomeInvariant
  BY SafetyInit, OutcomeInit
<1>2. SafetyInvariant /\ OutcomeInvariant /\ [Next]_vars => SafetyInvariant' /\ OutcomeInvariant'
  BY SafetyStep, OutcomeStep
<1> QED BY <1>1, <1>2, PTL DEF Spec

\* No attempt goes beyond the largest maxAttempts a worker runs with.
THEOREM BudgetHolds == Spec => []RetryBudget
<1>1. OutcomeInvariant => RetryBudget
  BY DEF OutcomeInvariant, RecordOutcome, BudgetKept
<1> QED BY <1>1, OutcomeInvariantHolds, PTL

\* Every write, and every runEffect() that ends by itself, leaves a review that is
\* awaited open to an answer.
THEOREM ReviewAnswerable == Spec => AwaitedReviewIsOpen
<1>1. ASSUME SafetyInvariant, OutcomeInvariant, [Next]_vars, op' = op,
             NEW p \in Passes, RunEnds(p)
      PROVE  Answerable(op)
  <2>1. /\ TypeOK /\ pass \in [Passes -> PassState] /\ faults \in Nat
        /\ pass[p].pc \notin {"idle", "review", "record"} /\ pass'[p].pc = "idle" /\ faults' = faults
    BY <1>1, RecordFacts DEF TypeOK, RunEnds
  <2>2. ASSUME NEW q \in Passes, ReadAndReturn(q) PROVE Answerable(op)
    BY <2>2 DEF ReadAndReturn, Branch, Answerable
  <2>3. ASSUME NEW q \in Passes, Conflict(q) PROVE Answerable(op)
    <3>1. q = p
      BY <2>1, <2>3 DEF Conflict, Return, Become
    <3>2. ~Live(p) /\ pass[p].pc \notin {"idle", "read", "review"}
      BY <2>3, <3>1 DEF Conflict, Current, Live, WriteSteps
    <3> QED BY <1>1, <3>2 DEF OutcomeInvariant, ActsOnUnanswerable
  <2>4. ASSUME NEW q \in Passes,
               \/ CreateAwaitingReview(q) \/ Reopen(q) \/ WriteBlock(q) \/ ResolveAndReturn(q)
        PROVE  FALSE
    <3>1. op'.version = op.version + 1 /\ op.version \in Int
      BY <1>1, <2>4, SafetyStep, RecordFacts, WrittenVersion DEF SafetyInvariant
    <3> QED BY <1>1, <3>1
  <2>5. ASSUME NEW q \in Passes, RefuseDecision(q) \/ RecordDecision(q) PROVE FALSE
    BY <2>1, <2>5 DEF RefuseDecision, RecordDecision, Return, Become, At
  <2>6. ASSUME NEW q \in Passes, Crash(q) PROVE FALSE
    BY <2>1, <2>6 DEF Crash
  <2>7. ASSUME NEW q \in Passes,
               \/ ReadAndContinue(q) \/ Authorize(q) \/ AttemptUnchecked(q) \/ ApprovalRefused(q)
               \/ StartRevalidate(q) \/ Revalidated(q) \/ Execute(q) \/ ExecuteReturned(q)
               \/ ExecuteFailed(q) \/ Observe(q) \/ AcceptDecision(q) \/ Begin(q)
               \/ CreateOpen(q) \/ Reserve(q) \/ ResolveAndContinue(q)
        PROVE  FALSE
    <3>1. pass' = [pass EXCEPT ![q] = pass'[q]] /\ pass'[q].pc # "idle"
      <4>1. pass[q] \in PassState
        BY <2>1
      <4>2. CASE ReadAndContinue(q) \/ Authorize(q) \/ AttemptUnchecked(q) \/ ApprovalRefused(q)
                 \/ StartRevalidate(q)
        BY <2>1, <4>1, <4>2 DEF ReadAndContinue, Authorize, AttemptUnchecked, ApprovalRefused,
           StartRevalidate, Become, Goto, PassState
      <4>3. CASE Execute(q) \/ ExecuteReturned(q) \/ ExecuteFailed(q) \/ Observe(q)
        BY <2>1, <4>1, <4>3 DEF Execute, ExecuteReturned, ExecuteFailed, Observe, Become, Goto,
           PassState
      <4>4. CASE Begin(q)
        BY <2>1, <4>4 DEF Begin, BeginRun, BeginReview, Idle, Become
      <4>6. CASE AcceptDecision(q)
        <5>1. PICK v : pass' = [pass EXCEPT ![q] = [pass[q] EXCEPT !.pc = "record", !.rec = op,
                                                                   !.review = v]]
          BY <4>6 DEF AcceptDecision, Become
        <5> QED BY <2>1, <4>1, <5>1 DEF PassState
      <4>7. CASE Revalidated(q)
        <5>1. PICK outcome, pc : /\ pc \in {"reserve", "block"}
                /\ pass' = [pass EXCEPT ![q] = [pass[q] EXCEPT !.pc = pc, !.outcome = outcome,
                                                               !.readAt = clock]]
          BY <4>7 DEF Revalidated, Become
        <5> QED BY <2>1, <4>1, <5>1 DEF PassState
      <4>5. CASE CreateOpen(q) \/ Reserve(q) \/ ResolveAndContinue(q)
        BY <2>1, <4>1, <4>5 DEF CreateOpen, Reserve, ResolveAndContinue, Become, PassState
      <4> QED BY <2>7, <4>2, <4>3, <4>4, <4>5, <4>6, <4>7
    <3> QED BY <2>1, <3>1
  <2>8. CASE Provider \/ Tick \/ UNCHANGED vars
    BY <2>1, <2>8 DEF Provider, Land, Accept, Refuse, Tick, vars
  <2>9. ASSUME NEW q \in Passes, LoseLock(q) PROVE FALSE
    BY <2>1, <2>9 DEF LoseLock
  <2> QED BY <1>1, <2>2, <2>3, <2>4, <2>5, <2>6, <2>7, <2>8, <2>9
          DEF Next, Run, ReviewCall, Fault
<1>2. SafetyInvariant /\ OutcomeInvariant /\ [Next]_vars
        => [(op' # op \/ \E p \in Passes : RunEnds(p)) => Answerable(op')]_vars
  BY <1>1, WritesAnswerable
<1> QED BY <1>2, SafetyInvariantHolds, OutcomeInvariantHolds, PTL DEF Spec, AwaitedReviewIsOpen

\* What a call reports fits the record, and COMPLETE is said only of an effect.
THEOREM HonestReports == Spec => []ReportIsHonest
<1>1. SafetyInvariant /\ OutcomeInvariant => ReportIsHonest
  <2> SUFFICES ASSUME SafetyInvariant, OutcomeInvariant PROVE ReportIsHonest
    OBVIOUS
  <2>1. BlockFitsStatus /\ OutcomeFitsStatus /\ op \in Record
    BY RecordFacts DEF OutcomeInvariant, RecordOutcome
  <2>2. CurrentBlock(op) \in Outcomes
    BY <2>1 DEF CurrentBlock, Record, Block, Outcomes
  <2>3. op.attempts # << >> => Latest(op).status \in {"RESERVED", "RESOLVED"}
    BY <2>1, LatestType DEF Attempt
  <2>4. op.status = "CLOSED" => Reported(op) \in {"COMPLETE", "REPLAN", "INVESTIGATE", "REVIEW"}
    BY <2>1, <2>2, <2>3
       DEF Reported, BlockFitsStatus, OutcomeFitsStatus, Resolved, LatestLeftItOpen, Outcomes
  <2>5. op.status = "OPEN" => Reported(op) \in {"RETRY", "NULL"}
    BY <2>1, <2>2, <2>3 DEF Reported, BlockFitsStatus, OutcomeFitsStatus, Resolved, Outcomes
  <2>6. Reported(op) = "COMPLETE" => HonestEvidence = "APPLIED"
    BY <2>1, <2>2, <2>3 DEF Reported, OutcomeFitsStatus, Resolved, Outcomes
  <2> QED BY <2>4, <2>5, <2>6 DEF ReportIsHonest, HonestEvidence
<1> QED BY <1>1, SafetyInvariantHolds, OutcomeInvariantHolds, PTL

\* What the reserving step finds: the stored record, and a latest attempt settled for retry.
LEMMA ReservesOn ==
  ASSUME SafetyInvariant, OutcomeInvariant, [Next]_vars, NEW p \in Passes, Reserves(p)
  PROVE  Live(p) /\ pass[p].rec = op /\ PassOutcome(p)
<1>1. pass[p].pc = "reserve" /\ pass'[p].pc = "execute" /\ pass \in [Passes -> PassState]
  BY RecordFacts DEF Reserves, At, TypeOK
<1>2. Current(p)
  <2>1. ASSUME NEW q \in Passes, Run(q) PROVE Current(p)
    <3>1. pass' = [pass EXCEPT ![q] = pass'[q]]
      BY <1>1, <2>1 DEF Run, ReadAndReturn, ReadAndContinue, Authorize, CreateAwaitingReview,
         CreateOpen, Reopen, AttemptUnchecked, ApprovalRefused, StartRevalidate, Revalidated,
         WriteBlock, Reserve, Execute, ExecuteReturned, ExecuteFailed, Observe,
         ResolveAndReturn, ResolveAndContinue, Return, Become, Goto
    <3>2. q = p
      BY <1>1, <3>1
    <3>3. Reserve(p)
      BY <1>1, <2>1, <3>2 DEF Run, ReadAndReturn, ReadAndContinue, Authorize,
         CreateAwaitingReview, CreateOpen, Reopen, AttemptUnchecked, ApprovalRefused,
         StartRevalidate, Revalidated, WriteBlock, Execute, ExecuteReturned, ExecuteFailed,
         Observe, ResolveAndReturn, ResolveAndContinue, At
    <3> QED BY <3>3 DEF Reserve, Write
  <2>2. ASSUME NEW q \in Passes, Begin(q) \/ ReviewCall(q) \/ Conflict(q) \/ Fault(q)
        PROVE  FALSE
    <3>1. CASE Begin(q)
      BY <1>1, <3>1 DEF Begin, BeginRun, BeginReview, Become, Idle, PassState
    <3>2. CASE AcceptDecision(q)
      BY <1>1, <3>2 DEF AcceptDecision, Become, PassState
    <3>3. CASE Return(q)
      BY <1>1, <3>3 DEF Return, Become, Idle
    <3>4. CASE LoseLock(q)
      BY <1>1, <3>4 DEF LoseLock
    <3> QED BY <2>2, <3>1, <3>2, <3>3, <3>4
            DEF ReviewCall, RefuseDecision, RecordDecision, Conflict, Fault, Crash
  <2>3. CASE Provider \/ Tick \/ UNCHANGED vars
    BY <1>1, <2>3 DEF Provider, Land, Accept, Refuse, Tick, vars
  <2> QED BY <2>1, <2>2, <2>3 DEF Next
<1> QED BY <1>2 DEF Current, Live, SafetyInvariant, PassInvariant, VersionIdentifiesRecord,
     OutcomeInvariant

\* After a review, an attempt is reserved only under an approval of that review, for the
\* recorded intent, that has not expired at the attempt's start.
THEOREM ApprovedAttempts == Spec => AttemptsAreApproved
<1>1. SafetyInvariant /\ OutcomeInvariant /\ [Next]_vars
        => [\A p \in Passes :
              (Reserves(p) /\ op.reviewReason) => Covered(pass[p].contract, op, pass[p].readAt)]_vars
  BY ReservesOn DEF PassOutcome, ChecksApproval, Reserves
<1> QED BY <1>1, SafetyInvariantHolds, OutcomeInvariantHolds, PTL DEF Spec, AttemptsAreApproved

\* After a failed or lost response, an attempt is reserved only on an observation made
\* when the earlier request could no longer take hold.
THEOREM LooksBeforeRetry == Spec => ReobservedBeforeRetry
<1>1. SafetyInvariant /\ OutcomeInvariant /\ [Next]_vars
        => [\A p \in Passes :
              (Reserves(p) /\ op.attempts # << >> /\ ~Latest(op).ok)
                => Latest(op).observedAt >= requests[Len(requests)].deadline]_vars
  BY ReservesOn, RecordFacts DEF PassOutcome, LookedBeforeNext, Reserves, At
<1> QED BY <1>1, SafetyInvariantHolds, OutcomeInvariantHolds, PTL DEF Spec, ReobservedBeforeRetry

\* After an approval between two attempts, the next one rests on a later observation.
THEOREM LooksAfterApproval == Spec => ReobservedAfterApproval
<1>1. SafetyInvariant /\ OutcomeInvariant /\ [Next]_vars
        => [\A p \in Passes :
              (Reserves(p) /\ op.attempts # << >> /\ op.review.attemptCount = Len(op.attempts))
                => Latest(op).observedAt >= op.review.recordedAt]_vars
  BY ReservesOn, RecordFacts DEF PassOutcome, LookedBeforeNext, Reserves, At, Last
<1> QED BY <1>1, SafetyInvariantHolds, OutcomeInvariantHolds, PTL
        DEF Spec, ReobservedAfterApproval

-----------------------------------------------------------------------------
(* What each write changes of status, attempts and reviews *)

LEMMA CreateWrites ==
  ASSUME SafetyInvariant, NEW p \in Passes, CreateAwaitingReview(p) \/ CreateOpen(p)
  PROVE  /\ op.status = "NONE" /\ Last = 0 /\ op'.attempts = << >> /\ op'.review = NoReview
         /\ op'.status \in {"OPEN", "AWAITING_REVIEW"} /\ ReviewsAreNumbered'
<1>1. PICK status \in {"AWAITING_REVIEW", "OPEN"}, reason \in BOOLEAN, episode \in Episode :
        /\ Write(p, NewRecord(status, reason, episode))
        /\ episode.generation = 1 \/ episode = NoEpisode
  <2>1. [generation |-> 1, openedAt |-> clock] \in Episode /\ NoEpisode \in Episode
    BY RecordFacts DEF TypeOK, Episode, NoEpisode
  <2> QED BY <2>1 DEF CreateAwaitingReview, CreateOpen
<1> DEFINE r == NewRecord(status, reason, episode)
<1>2. r \in Record
  BY NewRecordType DEF Statuses
<1>3. r.attempts = << >> /\ r.status = status /\ r.review = NoReview /\ r.episode = episode
  BY DEF NewRecord
<1> HIDE DEF r
<1>4. /\ pass[p].rec = op /\ op'.attempts = << >> /\ op'.status = status
      /\ op'.review = NoReview /\ op'.episode = episode
  BY <1>1, <1>2, <1>3, Applies DEF r
<1>5. op = NoRecord
  BY <1>4 DEF CreateAwaitingReview, CreateOpen, At, SafetyInvariant, PassInvariant,
     ActsOnOpenRecord
<1>6. op.status = "NONE" /\ Last = 0
  BY <1>5, EmptySeq DEF NoRecord, NewRecord, Last
<1> QED BY <1>1, <1>4, <1>6 DEF ReviewsAreNumbered

LEMMA ReopenWrites ==
  ASSUME SafetyInvariant, NEW p \in Passes, Reopen(p)
  PROVE  /\ op.status = "AWAITING_REVIEW" /\ op'.status = "AWAITING_REVIEW"
         /\ op'.attempts = op.attempts /\ op'.review \in {op.review, NoReview}
         /\ ReviewsAreNumbered'
<1> DEFINE r == WithNewEpisode(pass[p].rec, clock)
<1>1. clock \in Nat /\ pass[p].rec \in Record /\ r \in Record
  BY RecordFacts, PassFields, WithNewEpisodeType DEF TypeOK
<1>2. Write(p, r) /\ pass[p].rec.status = "AWAITING_REVIEW"
  BY DEF Reopen, At, SafetyInvariant, PassInvariant, ActsOnOpenRecord
<1> HIDE DEF r
<1>3. /\ pass[p].rec = op /\ op'.attempts = r.attempts /\ op'.status = r.status
      /\ op'.review = r.review /\ op'.episode = r.episode
  BY <1>1, <1>2, Applies
<1>4. /\ r.status = op.status /\ r.attempts = op.attempts /\ r.review \in {op.review, NoReview}
      /\ r.episode = [generation |-> op.episode.generation + 1, openedAt |-> clock]
  BY <1>1, <1>3, EpisodeFields DEF r
<1>5. op.episode.generation \in Nat
  BY RecordFacts DEF Episode
<1> QED BY <1>2, <1>3, <1>4, <1>5 DEF ReviewsAreNumbered

LEMMA BlockWrites ==
  ASSUME SafetyInvariant, ReviewsAreNumbered, NEW p \in Passes, PassOutcome(p), WriteBlock(p)
  PROVE  /\ Live(p) /\ op.status = "OPEN" /\ op'.attempts = op.attempts
         /\ op'.review \in {op.review, NoReview} /\ ReviewsAreNumbered'
         /\ op'.status \in {"OPEN", "AWAITING_REVIEW", "CLOSED"}
         /\ op'.status = "CLOSED" => CurrentBlock(op') = "reject" /\ op'.review = op.review
<1> DEFINE r == Blocked(pass[p].rec, pass[p].outcome, clock)
           block == [outcome |-> pass[p].outcome, recordVersion |-> pass[p].rec.version + 1]
           blocked == [pass[p].rec EXCEPT !.blockedBy = block]
<1>1. clock \in Nat /\ pass[p].rec \in Record /\ pass[p].outcome \in Outcomes /\ r \in Record
  BY RecordFacts, PassFields, BlockedType DEF TypeOK
<1>2. Write(p, r) /\ At(p, "block")
  BY DEF WriteBlock
<1>3. pass[p].rec.status = "OPEN" /\ pass[p].outcome \in {"requiresReview", "reject", "failed"}
  BY <1>2 DEF At, SafetyInvariant, PassInvariant, ActsOnOpenRecord, PassOutcome, ChecksApproval
<1>4. /\ blocked \in Record /\ blocked.blockedBy = block
      /\ blocked.status = pass[p].rec.status /\ blocked.attempts = pass[p].rec.attempts
      /\ blocked.review = pass[p].rec.review /\ blocked.episode = pass[p].rec.episode
  BY <1>1 DEF Record, Block
<1>5. r = CASE pass[p].outcome = "requiresReview" ->
                [WithNewEpisode(blocked, clock) EXCEPT !.status = "AWAITING_REVIEW",
                                                       !.reviewReason = TRUE]
           [] pass[p].outcome = "reject" -> [blocked EXCEPT !.status = "CLOSED"]
           [] OTHER -> blocked
  BY DEF Blocked
<1> HIDE DEF blocked, r
<1>6. /\ Live(p) /\ pass[p].rec = op /\ op'.version = op.version + 1
      /\ op'.attempts = r.attempts /\ op'.status = r.status /\ op'.review = r.review
      /\ op'.episode = r.episode /\ op'.blockedBy = r.blockedBy
      /\ op.version \in Int /\ op.episode.generation \in Nat
  BY <1>1, <1>2, Applies, RecordFacts DEF Episode
<1>7. CASE pass[p].outcome = "requiresReview"
  <2> DEFINE e == WithNewEpisode(blocked, clock)
  <2>1. /\ e \in Record /\ e.attempts = blocked.attempts
        /\ e.episode = [generation |-> blocked.episode.generation + 1, openedAt |-> clock]
        /\ e.review \in {blocked.review, NoReview}
    BY <1>1, <1>4, WithNewEpisodeType, EpisodeFields
  <2> HIDE DEF e
  <2>2. r = [e EXCEPT !.status = "AWAITING_REVIEW", !.reviewReason = TRUE]
    BY <1>5, <1>7 DEF e
  <2>3. /\ r.status = "AWAITING_REVIEW" /\ r.attempts = op.attempts
        /\ r.episode = [generation |-> op.episode.generation + 1, openedAt |-> clock]
        /\ r.review \in {op.review, NoReview}
    BY <1>4, <1>6, <2>1, <2>2 DEF Record
  <2> QED BY <1>3, <1>6, <2>3 DEF ReviewsAreNumbered
<1>8. CASE pass[p].outcome \in {"reject", "failed"}
  <2>1. /\ r.attempts = op.attempts /\ r.blockedBy = block /\ r.episode = op.episode
        /\ r.review = op.review
        /\ r.status = IF pass[p].outcome = "reject" THEN "CLOSED" ELSE "OPEN"
    BY <1>3, <1>4, <1>5, <1>6, <1>8 DEF Record
  <2>2. CurrentBlock(op') = pass[p].outcome
    BY <1>6, <1>8, <2>1 DEF CurrentBlock
  <2> QED BY <1>3, <1>6, <1>8, <2>1, <2>2 DEF ReviewsAreNumbered
<1> QED BY <1>3, <1>7, <1>8

LEMMA ReserveWrites ==
  ASSUME SafetyInvariant, NEW p \in Passes, Reserve(p)
  PROVE  /\ Live(p) /\ op.status = "OPEN" /\ op'.status = "OPEN"
         /\ op'.review = op.review /\ op'.episode = op.episode
<1> DEFINE new == Reserved(pass[p].readAt, pass[p].contract.maxInFlightMs)
           r == [pass[p].rec EXCEPT !.attempts = Append(@, new)]
<1>1. pass[p].rec \in Record /\ new \in Attempt
  BY RecordFacts, PassFields, ContractFields, ReservedType
<1>2. Write(p, r) /\ At(p, "reserve")
  BY DEF Reserve
<1> HIDE DEF new
<1>3. /\ r \in Record /\ r.status = pass[p].rec.status /\ r.review = pass[p].rec.review
      /\ r.episode = pass[p].rec.episode
  BY <1>1, AppendProperties DEF Record
<1> HIDE DEF r
<1>4. /\ Live(p) /\ pass[p].rec = op /\ op'.status = op.status /\ op'.review = op.review
      /\ op'.episode = op.episode
  BY <1>2, <1>3, Applies
<1> QED BY <1>2, <1>4 DEF At, SafetyInvariant, PassInvariant, ActsOnOpenRecord

LEMMA ResolveWrites ==
  ASSUME SafetyInvariant, NEW p \in Passes, ResolveAndReturn(p) \/ ResolveAndContinue(p)
  PROVE  /\ op.status = "OPEN" /\ op'.status \in {"OPEN", "CLOSED"}
         /\ Last' = Last /\ op'.review = op.review /\ op'.episode = op.episode
         /\ op'.status = "CLOSED" => op'.attempts # << >> /\ ~LatestLeftItOpen(op')
<1> DEFINE d == DecisionOf(p, clock)
<1>1. At(p, "resolve") /\ Write(p, WithResolved(p, d))
  BY DEF ResolveAndReturn, ResolveAndContinue
<1>2. /\ pass[p].rec = op /\ Last' = Last /\ op'.attempts # << >>
      /\ Latest(op)'.evidence = pass[p].answer /\ Latest(op)'.disposition = d.disposition
      /\ op'.status = StatusAfter(pass[p].answer, d.disposition)
      /\ op'.review = op.review /\ op'.episode = op.episode
  BY <1>1, ResolvedFields
<1> HIDE DEF d
<1>3. op.status = "OPEN"
  BY <1>1, <1>2 DEF At, SafetyInvariant, PassInvariant, ActsOnOpenRecord
<1>4. op'.status = "CLOSED" => ~LatestLeftItOpen(op')
  BY <1>2 DEF LatestLeftItOpen, StatusAfter
<1> QED BY <1>2, <1>3, <1>4 DEF StatusAfter

LEMMA DecisionWrites ==
  ASSUME SafetyInvariant, NEW p \in Passes, PassOutcome(p), RecordDecision(p)
  PROVE  /\ op.status = "AWAITING_REVIEW" /\ op'.attempts = op.attempts
         /\ op'.status = IF op'.review.decision = "approved" THEN "OPEN" ELSE "CLOSED"
         /\ op'.episode = op.episode /\ OpenReview(op)
         /\ op'.review.token = op.episode.generation
         /\ op'.review.decision \in {"approved", "rejected"}
<1> DEFINE status == IF pass[p].review.decision = "approved" THEN "OPEN" ELSE "CLOSED"
           r == [pass[p].rec EXCEPT !.status = status, !.review = pass[p].review]
<1>1. pass[p].rec \in Record /\ pass[p].review \in Review /\ status \in Statuses
  BY RecordFacts, PassFields DEF Statuses
<1>2. Write(p, r) /\ At(p, "record")
  BY DEF RecordDecision
<1> HIDE DEF status
<1>3. /\ r \in Record /\ r.status = status /\ r.review = pass[p].review
      /\ r.attempts = pass[p].rec.attempts /\ r.episode = pass[p].rec.episode
  BY <1>1 DEF Record
<1> HIDE DEF r
<1>4. /\ pass[p].rec = op /\ op'.status = status /\ op'.review = pass[p].review
      /\ op'.attempts = op.attempts /\ op'.episode = op.episode
  BY <1>2, <1>3, Applies
<1>5. /\ OpenReview(op) /\ pass[p].review.token = op.episode.generation
      /\ pass[p].review.decision \in {"approved", "rejected"}
  BY <1>2, <1>4 DEF PassOutcome, AnswersOpenReview
<1> QED BY <1>4, <1>5 DEF OpenReview, status

-----------------------------------------------------------------------------
(* PromiseInvariant is inductive *)

\* What is over stays over.
LEMMA GoneStays ==
  ASSUME SafetyInvariant, [Next]_vars, NEW n \in 1..Last, Gone(n)
  PROVE  Gone(n)'
<1>1. TypeOK /\ Len(requests) = Last /\ Last \in Nat /\ n \in DOMAIN requests /\ clock \in Nat
  BY RecordFacts, LenProperties DEF TypeOK
<1>2. clock' \in Nat /\ clock' >= clock
  BY StepGrows
<1>3. CASE UNCHANGED requests
  BY <1>1, <1>2, <1>3, TimePreservesRequests DEF RequestsPreserved
<1>4. ASSUME NEW m \in DOMAIN requests, Land(m) \/ Accept(m) \/ Refuse(m)
      PROVE  Gone(n)'
  <2>1. PICK s \in {"landed", "accepted", "refused"} :
          /\ requests' = [requests EXCEPT ![m].state = s] /\ UNCHANGED clock
          /\ s # "refused" => ~Gone(m)
    BY <1>4 DEF Land, Accept, Refuse, Gone, CanLand
  <2>2. RequestsPreserved
    BY <1>1, <2>1, StepPreservesRequests DEF RequestStates
  <2> QED BY <1>1, <2>2 DEF RequestsPreserved
<1>5. ASSUME NEW p \in Passes, Execute(p) PROVE Gone(n)'
  <2>1. /\ AttemptOf(p) \in 1..Last /\ requests[AttemptOf(p)].state = "unsent"
        /\ requests' = [requests EXCEPT ![AttemptOf(p)].state = "flying"] /\ UNCHANGED clock
    BY <1>1, <1>5, PassFields, LenProperties
       DEF Execute, Send, At, SafetyInvariant, PassInvariant, KnowsItsRequest, AttemptOf, Record
  <2>2. RequestsPreserved
    BY <1>1, <2>1, StepPreservesRequests, LenProperties DEF RequestStates, TypeOK
  <2> QED BY <1>1, <2>2 DEF RequestsPreserved
<1>6. ASSUME NEW p \in Passes, Reserve(p) PROVE Gone(n)'
  <2>1. PICK new : requests' = Append(requests, new) /\ UNCHANGED clock
    BY <1>6 DEF Reserve
  <2>2. requests'[n] = requests[n]
    BY <1>1, <2>1, AppendProperties DEF TypeOK
  <2> QED BY <2>1, <2>2 DEF Gone, CanLand, InTime
<1>7. ASSUME NEW p \in Passes, Run(p), ~Execute(p), ~Reserve(p) PROVE UNCHANGED requests
  BY <1>7 DEF Run, ReadAndReturn, ReadAndContinue, Authorize, CreateAwaitingReview, CreateOpen,
     Reopen, AttemptUnchecked, ApprovalRefused, StartRevalidate, Revalidated, WriteBlock,
     ExecuteReturned, ExecuteFailed, Observe, ResolveAndReturn, ResolveAndContinue
<1>8. ASSUME NEW p \in Passes, Begin(p) \/ ReviewCall(p) \/ Conflict(p) \/ Fault(p)
      PROVE  UNCHANGED requests
  BY <1>8 DEF Begin, BeginRun, BeginReview, ReviewCall, RefuseDecision, AcceptDecision,
     RecordDecision, Conflict, Fault, Crash, LoseLock
<1>9. CASE Tick \/ UNCHANGED vars
  BY <1>3, <1>9 DEF Tick, vars
<1> QED BY <1>3, <1>4, <1>5, <1>6, <1>7, <1>8, <1>9 DEF Next, Provider

\* A pass on its way to the next attempt has nothing undecided behind it.
LEMMA NextIsSafe ==
  ASSUME SafetyInvariant, NEW p \in Passes, Live(p),
         pass[p].pc \in {"check", "revalidate", "reserve"}
  PROVE  AllGone
<1>1. Len(requests) = Last /\ Last \in Nat
  BY RecordFacts
<1>2. \A n \in 1..(Last - 1) : Gone(n)
  BY <1>1 DEF SafetyInvariant, RecordInvariant, EarlierRequestsGone
<1>3. Last > 0 => Gone(Last)
  BY DEF SafetyInvariant, PassInvariant, AttemptsSafely
<1> QED BY <1>1, <1>2, <1>3 DEF AllGone

LEMMA PromiseInit == Init => PromiseInvariant
<1> SUFFICES ASSUME Init PROVE PromiseInvariant
  OBVIOUS
<1>1. op \in {NoRecord} \cup OlderRecords /\ \A p \in Passes : pass[p].pc = "idle"
  BY InputsAssumption DEF Init, Idle
<1>2. op.episode = NoEpisode /\ op.attempts = << >>
  <2>1. CASE op = NoRecord
    BY <2>1 DEF NoRecord, NewRecord
  <2>2. CASE op \in OlderRecords
    BY <2>2, OlderRecordFacts
  <2> QED BY <1>1, <2>1, <2>2
<1>3. Last = 0
  BY <1>2, EmptySeq DEF Last
<1> QED BY <1>1, <1>2, <1>3
        DEF PromiseInvariant, NothingUnderReview, AllGone, ReviewsAreNumbered, StopsSafely, At

\* A call that returns is idle.
LEMMA Returned ==
  ASSUME TypeOK, NEW p \in Passes, Return(p)
  PROVE  pass' = [pass EXCEPT ![p] = pass'[p]] /\ pass'[p].pc = "idle"
  BY DEF TypeOK, Return, Become, Idle

\* One step of anyone.
LEMMA PromiseStep ==
  SafetyInvariant /\ OutcomeInvariant /\ PromiseInvariant /\ [Next]_vars => PromiseInvariant'
<1> SUFFICES ASSUME SafetyInvariant, OutcomeInvariant, PromiseInvariant, [Next]_vars
             PROVE  PromiseInvariant'
  OBVIOUS
<1>1. /\ SafetyInvariant' /\ TypeOK /\ TypeOK'
      /\ \A p \in Passes : PassOutcome(p) /\ StopsSafely(p)
      /\ NothingUnderReview /\ ReviewsAreNumbered
      /\ pass \in [Passes -> PassState] /\ pass' \in [Passes -> PassState]
      /\ op.version \in Int /\ Last \in Nat
  BY SafetyStep, RecordFacts DEF SafetyInvariant, OutcomeInvariant, PromiseInvariant, TypeOK
<1>2. ASSUME op'.attempts = op.attempts, AllGone PROVE AllGone'
  BY <1>2, GoneStays DEF AllGone, Last
<1>3. ASSUME UNCHANGED op PROVE NothingUnderReview' /\ ReviewsAreNumbered'
  BY <1>1, <1>2, <1>3 DEF NothingUnderReview, ReviewsAreNumbered
<1>4. ASSUME NEW q \in Passes, pass'[q] = pass[q], op' = op \/ op'.version = op.version + 1
      PROVE  StopsSafely(q)'
  <2>1. CASE op' = op
    BY <1>1, <1>2, <1>4, <2>1 DEF StopsSafely, Live, At
  <2>2. CASE op'.version = op.version + 1
    <3>1. pass[q].rec.version <= op.version /\ pass[q].rec.version \in Int
      BY <1>1, PassFields DEF SafetyInvariant, PassInvariant, VersionIdentifiesRecord, Record
    <3> QED BY <1>1, <1>4, <2>2, <3>1 DEF StopsSafely, Live
  <2> QED BY <1>4, <2>1, <2>2
<1>5. ASSUME NEW p \in Passes, pass' = [pass EXCEPT ![p] = pass'[p]],
             op' = op \/ (op'.version = op.version + 1 /\ NothingUnderReview' /\ ReviewsAreNumbered'),
             StopsSafely(p)'
      PROVE  PromiseInvariant'
  <2>1. ASSUME NEW q \in Passes, q # p PROVE StopsSafely(q)'
    <3>1. pass'[q] = pass[q]
      BY <1>1, <1>5, <2>1
    <3> QED BY <1>4, <1>5, <3>1
  <2> QED BY <1>3, <1>5, <2>1 DEF PromiseInvariant
<1>6. ASSUME NEW p \in Passes, pass' = [pass EXCEPT ![p] = pass'[p]], pass'[p].pc # "block",
             op' = op \/ (op'.version = op.version + 1 /\ NothingUnderReview' /\ ReviewsAreNumbered')
      PROVE  PromiseInvariant'
  BY <1>5, <1>6 DEF StopsSafely, At
<1>7. ASSUME NEW p \in Passes,
             \/ CreateAwaitingReview(p) \/ CreateOpen(p) \/ Reopen(p) \/ WriteBlock(p)
             \/ Reserve(p) \/ ResolveAndReturn(p) \/ ResolveAndContinue(p) \/ RecordDecision(p)
      PROVE  PromiseInvariant'
  <2>1. op'.version = op.version + 1
    BY <1>1, <1>7, WrittenVersion
  <2>2. pass' = [pass EXCEPT ![p] = pass'[p]] /\ pass'[p].pc # "block"
    <3>1. CASE Return(p)
      BY <1>1, <3>1, Returned
    <3>2. CASE CreateOpen(p) \/ ResolveAndContinue(p)
      BY <1>1, <3>2 DEF CreateOpen, ResolveAndContinue, Become, PassState
    <3>3. CASE Reserve(p)
      BY <1>1, <3>3 DEF Reserve, Become, PassState
    <3> QED BY <1>7, <3>1, <3>2, <3>3
            DEF CreateAwaitingReview, Reopen, WriteBlock, ResolveAndReturn, RecordDecision
  <2>3. NothingUnderReview' /\ ReviewsAreNumbered'
    <3>1. CASE CreateAwaitingReview(p) \/ CreateOpen(p)
      <4>1. op'.attempts = << >> /\ ReviewsAreNumbered'
        BY <3>1, CreateWrites
      <4> QED BY <4>1, EmptySeq DEF NothingUnderReview, AllGone, Last
    <3>2. CASE Reopen(p)
      BY <1>1, <1>2, <3>2, ReopenWrites DEF NothingUnderReview
    <3>3. CASE WriteBlock(p)
      <4>1. AllGone
        BY <1>1, <3>3, BlockWrites DEF StopsSafely, WriteBlock
      <4> QED BY <1>1, <1>2, <3>3, <4>1, BlockWrites DEF NothingUnderReview
    <3>4. CASE Reserve(p) \/ ResolveAndReturn(p) \/ ResolveAndContinue(p)
      BY <1>1, <3>4, ReserveWrites, ResolveWrites DEF NothingUnderReview, ReviewsAreNumbered
    <3>5. CASE RecordDecision(p)
      BY <1>1, <3>5, DecisionWrites DEF NothingUnderReview, ReviewsAreNumbered
    <3> QED BY <1>7, <3>1, <3>2, <3>3, <3>4, <3>5
  <2> QED BY <1>6, <2>1, <2>2, <2>3
<1>8. ASSUME NEW p \in Passes,
             Begin(p) \/ Conflict(p) \/ Crash(p) \/ RefuseDecision(p) \/ AcceptDecision(p)
      PROVE  PromiseInvariant'
  <2>1. op' = op /\ pass' = [pass EXCEPT ![p] = pass'[p]] /\ pass'[p].pc # "block"
    <3>1. CASE Begin(p)
      BY <1>1, <3>1 DEF Begin, BeginRun, BeginReview, Become, Idle
    <3>2. CASE AcceptDecision(p)
      BY <1>1, <3>2 DEF AcceptDecision, Become, PassState
    <3>3. CASE Conflict(p) \/ Crash(p) \/ RefuseDecision(p)
      BY <1>1, <3>3, Returned DEF Conflict, Crash, RefuseDecision
    <3> QED BY <1>8, <3>1, <3>2, <3>3
  <2> QED BY <1>6, <2>1
<1>9. ASSUME NEW p \in Passes,
             \/ ReadAndReturn(p) \/ ReadAndContinue(p) \/ Authorize(p) \/ AttemptUnchecked(p)
             \/ StartRevalidate(p) \/ Execute(p) \/ ExecuteReturned(p) \/ ExecuteFailed(p)
             \/ Observe(p)
      PROVE  PromiseInvariant'
  <2>1. op' = op /\ pass' = [pass EXCEPT ![p] = pass'[p]]
    BY <1>1, <1>9 DEF ReadAndReturn, ReadAndContinue, Authorize, AttemptUnchecked,
       StartRevalidate, Execute, ExecuteReturned, ExecuteFailed, Observe, Return, Become, Goto
  <2>2. pass'[p].pc # "block"
    <3>1. CASE ReadAndContinue(p)
      <4>1. Branch(op) \in {"idle", "authorize", "reopen", "check", "observe"}
        BY RecordFacts, BranchType
      <4> QED BY <1>1, <3>1, <4>1 DEF ReadAndContinue, Become, PassState
    <3>2. CASE ReadAndReturn(p)
      BY <1>1, <3>2, Returned DEF ReadAndReturn
    <3>3. CASE Authorize(p) \/ AttemptUnchecked(p) \/ Observe(p)
      BY <1>1, <3>3 DEF Authorize, AttemptUnchecked, Observe, Become, PassState
    <3>4. CASE StartRevalidate(p) \/ Execute(p) \/ ExecuteReturned(p) \/ ExecuteFailed(p)
      BY <1>1, <3>4
         DEF StartRevalidate, Execute, ExecuteReturned, ExecuteFailed, Become, Goto, PassState
    <3> QED BY <1>9, <3>1, <3>2, <3>3, <3>4
  <2> QED BY <1>6, <2>1, <2>2
<1>10. ASSUME NEW p \in Passes, ApprovalRefused(p) \/ Revalidated(p)
       PROVE  PromiseInvariant'
  <2>1. /\ op' = op /\ pass' = [pass EXCEPT ![p] = pass'[p]]
        /\ pass[p].pc \in {"check", "revalidate"} /\ pass'[p].rec = pass[p].rec
    BY <1>1, <1>10 DEF ApprovalRefused, Revalidated, Become, At, PassState
  <2>2. Live(p)' => AllGone
    BY <2>1, NextIsSafe DEF Live
  <2> QED BY <1>2, <1>5, <2>1, <2>2 DEF StopsSafely
<1>11. CASE Provider \/ Tick \/ UNCHANGED vars \/ \E p \in Passes : LoseLock(p)
  <2>1. UNCHANGED <<op, pass>>
    BY <1>11 DEF Provider, Land, Accept, Refuse, Tick, vars, LoseLock
  <2> QED BY <1>3, <1>4, <2>1 DEF PromiseInvariant
<1> QED
  BY <1>7, <1>8, <1>9, <1>10, <1>11 DEF Next, Run, ReviewCall, Fault

-----------------------------------------------------------------------------
(* Every step is one of EffectOnce *)

\* The three values of EffectOnce that are not fields of the record.
Pending == \E n \in DOMAIN requests : CanLand(n)
Applied == \E n \in DOMAIN requests : requests[n].state = "landed"
Answer == IF op.status = "CLOSED" THEN Reported(op) ELSE "NULL"

LEMMA NothingDone ==
  ASSUME SafetyInvariant, AllGone
  PROVE  ~Pending /\ ~Applied
<1>1. DOMAIN requests = 1..Last
  BY RecordFacts, LenProperties DEF TypeOK
<1> QED BY <1>1 DEF AllGone, Gone, Pending, Applied

\* Only the latest request is ever undecided, and none has taken effect before it.
LEMMA OnlyLatestPends ==
  ASSUME SafetyInvariant, NEW n \in DOMAIN requests, CanLand(n),
         NEW m \in DOMAIN requests, m # n
  PROVE  Gone(m)
<1>1. DOMAIN requests = 1..Len(requests) /\ Len(requests) \in Nat
  BY RecordFacts, LenProperties DEF TypeOK
<1>2. \A k \in 1..(Len(requests) - 1) : Gone(k)
  BY DEF SafetyInvariant, RecordInvariant, EarlierRequestsGone
<1>3. n = Len(requests)
  BY <1>1, <1>2 DEF Gone
<1> QED BY <1>1, <1>2, <1>3

\* A step that leaves the world alone.
LEMMA WorldKept ==
  ASSUME UNCHANGED <<requests, clock>>
  PROVE  Pending' = Pending /\ Applied' = Applied
  BY DEF Pending, Applied, CanLand, InTime

\* The provider takes, applies or refuses a request.
LEMMA ProviderSteps ==
  ASSUME SafetyInvariant, NEW n \in DOMAIN requests, Land(n) \/ Accept(n) \/ Refuse(n)
  PROVE  \/ Pending /\ ~Pending' /\ ~Applied /\ Applied'
         \/ Pending /\ ~Pending' /\ Applied' = Applied
         \/ Pending' = Pending /\ Applied' = Applied
<1>1. PICK s \in {"landed", "accepted", "refused"} :
        /\ requests' = [requests EXCEPT ![n].state = s] /\ UNCHANGED clock
        /\ s = "landed" => Land(n)
        /\ s = "accepted" => Accept(n)
        /\ s = "refused" => Refuse(n)
  BY DEF Land, Accept, Refuse
<1>2. TypeOK /\ DOMAIN requests = 1..Len(requests) /\ requests' \in Seq(Request)
  BY <1>1, RecordFacts, RequestUpdateType, LenProperties DEF TypeOK, RequestStates
<1>3. /\ Len(requests') = Len(requests) /\ requests'[n].state = s
      /\ requests'[n].deadline = requests[n].deadline
      /\ \A m \in DOMAIN requests : m # n => requests'[m] = requests[m]
  BY <1>1, <1>2, ChangedRequest DEF RequestStates
<1>4. DOMAIN requests' = DOMAIN requests
  BY <1>2, <1>3, LenProperties
<1>5. \A m \in DOMAIN requests : m # n => /\ CanLand(m)' <=> CanLand(m)
                                          /\ requests'[m].state = requests[m].state
  BY <1>1, <1>3 DEF CanLand, InTime
<1>6. requests[n].state # "landed"
  BY DEF Land, Accept, Refuse
<1>7. CASE s = "landed"
  <2>1. CanLand(n) /\ ~CanLand(n)'
    BY <1>1, <1>3, <1>7 DEF Land, CanLand
  <2>2. \A m \in DOMAIN requests : m # n => ~CanLand(m)' /\ requests[m].state # "landed"
    BY <1>5, <2>1, OnlyLatestPends DEF Gone
  <2> QED BY <1>3, <1>4, <1>6, <1>7, <2>1, <2>2 DEF Pending, Applied
<1>8. CASE s = "accepted"
  <2>1. CanLand(n) /\ CanLand(n)'
    BY <1>1, <1>3, <1>8 DEF Accept, CanLand
  <2>2. Pending /\ Pending'
    BY <1>4, <2>1 DEF Pending
  <2>3. Applied' <=> Applied
    BY <1>3, <1>4, <1>5, <1>6, <1>8 DEF Applied
  <2> QED BY <2>2, <2>3 DEF Pending, Applied
<1>9. CASE s = "refused"
  <2>1. ~CanLand(n)'
    BY <1>3, <1>9 DEF CanLand
  <2>2. Applied' <=> Applied
    BY <1>3, <1>4, <1>5, <1>6, <1>9 DEF Applied
  <2>3. CASE CanLand(n)
    <3>1. \A m \in DOMAIN requests : ~CanLand(m)'
      BY <1>5, <2>1, <2>3, OnlyLatestPends DEF Gone
    <3> QED BY <1>4, <2>2, <2>3, <3>1 DEF Pending, Applied
  <2>4. CASE ~CanLand(n)
    <3>1. Pending' <=> Pending
      BY <1>4, <1>5, <2>1, <2>4 DEF Pending
    <3> QED BY <2>2, <3>1 DEF Pending, Applied
  <2> QED BY <2>3, <2>4
<1> QED BY <1>1, <1>7, <1>8, <1>9

\* Time passes: a request may lapse.
LEMMA TimePasses ==
  ASSUME SafetyInvariant, Tick
  PROVE  Applied' = Applied /\ (Pending' = Pending \/ (Pending /\ ~Pending'))
<1>1. clock \in Nat /\ clock' = clock + 1 /\ requests' = requests
  BY RecordFacts DEF Tick, TypeOK
<1>2. \A n \in DOMAIN requests : requests[n].deadline \in Nat
  BY RecordFacts, RequestFields, LenProperties DEF TypeOK
<1>3. \A n \in DOMAIN requests : CanLand(n)' => CanLand(n)
  BY <1>1, <1>2 DEF CanLand, InTime
<1>4. Pending' => Pending
  BY <1>1, <1>3 DEF Pending
<1> QED BY <1>1, <1>4 DEF Pending, Applied

\* A request is sent: it could take effect before, and can now.
LEMMA SendingChangesNothing ==
  ASSUME SafetyInvariant, NEW p \in Passes, Execute(p)
  PROVE  Pending' = Pending /\ Applied' = Applied
<1> DEFINE n == AttemptOf(p)
<1>1. DOMAIN requests = 1..Len(requests) /\ TypeOK /\ Len(requests) = Last
  BY RecordFacts, LenProperties DEF TypeOK
<1>2. n \in DOMAIN requests /\ requests[n].state = "unsent"
  BY <1>1, PassFields, LenProperties
     DEF Execute, At, SafetyInvariant, PassInvariant, KnowsItsRequest, AttemptOf, Record
<1>3. requests' = [requests EXCEPT ![n].state = "flying"] /\ UNCHANGED clock
  BY DEF Execute, Send
<1> HIDE DEF n
<1>4. requests' \in Seq(Request)
  BY <1>1, <1>2, <1>3, RequestUpdateType DEF RequestStates, TypeOK
<1>5. /\ Len(requests') = Len(requests) /\ requests'[n].state = "flying"
      /\ requests'[n].deadline = requests[n].deadline
      /\ \A m \in DOMAIN requests : m # n => requests'[m] = requests[m]
  BY <1>1, <1>2, <1>3, ChangedRequest DEF RequestStates
<1>6. DOMAIN requests' = DOMAIN requests
  BY <1>1, <1>4, <1>5, LenProperties
<1>7. \A m \in DOMAIN requests : /\ CanLand(m)' <=> CanLand(m)
                                 /\ requests'[m].state = "landed" <=> requests[m].state = "landed"
  BY <1>2, <1>3, <1>5 DEF CanLand, InTime
<1>8. (Pending' <=> Pending) /\ (Applied' <=> Applied)
  BY <1>6, <1>7 DEF Pending, Applied
<1> QED BY <1>8 DEF Pending, Applied

\* An attempt is reserved: its request may take effect from now on.
LEMMA ReservingAttempts ==
  ASSUME SafetyInvariant, NEW p \in Passes, Reserve(p)
  PROVE  ~Pending /\ ~Applied /\ ~Applied'
<1>1. Live(p) /\ pass[p].pc = "reserve"
  BY ReserveWrites DEF Reserve, At
<1>2. AllGone
  BY <1>1, NextIsSafe
<1>3. ~Pending /\ ~Applied
  BY <1>2, NothingDone
<1> DEFINE new == [state |-> "unsent",
                   deadline |-> Deadline(pass[p].readAt, pass[p].contract.maxInFlightMs)]
<1>4. requests' = Append(requests, new)
  BY DEF Reserve
<1>5. new.state = "unsent"
  OBVIOUS
<1> HIDE DEF new
<1>6. /\ requests \in Seq(Request) /\ Len(requests) \in Nat /\ DOMAIN requests = 1..Len(requests)
      /\ DOMAIN requests' = 1..(Len(requests) + 1)
      /\ requests'[Len(requests) + 1] = new
      /\ \A n \in 1..Len(requests) : requests'[n] = requests[n]
  BY <1>4, RecordFacts, LenProperties, AppendProperties DEF TypeOK
<1>7. ~Applied'
  BY <1>3, <1>5, <1>6 DEF Applied
<1> QED BY <1>3, <1>7

\* The steps of EffectOnce, in the terms of RunEffect.
LEMMA OnceActions ==
  /\ UNCHANGED <<op.status, Pending, Applied, Answer>> => UNCHANGED Once!promised
  /\ /\ op.status = "NONE" /\ op'.status \in {"OPEN", "AWAITING_REVIEW"}
     /\ UNCHANGED <<Pending, Applied, Answer>>
     => Once!Begin
  /\ /\ op.status = "OPEN" /\ ~Pending /\ ~Applied /\ Pending'
     /\ UNCHANGED <<op.status, Applied, Answer>>
     => Once!Attempt
  /\ /\ Pending /\ ~Pending' /\ Applied' /\ UNCHANGED <<op.status, Answer>>
     => Once!Apply
  /\ /\ Pending /\ ~Pending' /\ UNCHANGED <<op.status, Applied, Answer>>
     => Once!Lapse
  /\ /\ op.status = "OPEN" /\ ~Pending /\ ~Applied /\ op'.status = "AWAITING_REVIEW"
     /\ UNCHANGED <<Pending, Applied, Answer>>
     => Once!AskReview
  /\ /\ op.status = "AWAITING_REVIEW" /\ op'.status = "OPEN"
     /\ UNCHANGED <<Pending, Applied, Answer>>
     => Once!Approve
  /\ /\ op.status = "AWAITING_REVIEW" /\ ~Pending /\ ~Applied /\ op'.status = "CLOSED"
     /\ Answer' = "REVIEW" /\ UNCHANGED <<Pending, Applied>>
     => Once!Reject
  /\ /\ op.status = "OPEN" /\ op'.status = "CLOSED"
     /\ Answer' \in {"COMPLETE", "REPLAN", "INVESTIGATE"} /\ (Answer' = "COMPLETE" => Applied')
     /\ UNCHANGED <<Pending, Applied>>
     => Once!Conclude
<1>1. UNCHANGED <<op.status, Pending, Applied, Answer>> => UNCHANGED Once!promised
  BY DEF Once!promised, Pending, Applied, Answer
<1>2. /\ op.status = "NONE" /\ op'.status \in {"OPEN", "AWAITING_REVIEW"}
      /\ UNCHANGED <<Pending, Applied, Answer>>
      => Once!Begin
  BY DEF Once!Begin, Pending, Applied, Answer
<1>3. /\ op.status = "OPEN" /\ ~Pending /\ ~Applied /\ Pending'
      /\ UNCHANGED <<op.status, Applied, Answer>>
      => Once!Attempt
  BY DEF Once!Attempt, Once!Untouched, Pending, Applied, Answer
<1>4. Pending /\ ~Pending' /\ Applied' /\ UNCHANGED <<op.status, Answer>> => Once!Apply
  BY DEF Once!Apply, Pending, Applied, Answer
<1>5. Pending /\ ~Pending' /\ UNCHANGED <<op.status, Applied, Answer>> => Once!Lapse
  BY DEF Once!Lapse, Pending, Applied, Answer
<1>6. /\ op.status = "OPEN" /\ ~Pending /\ ~Applied /\ op'.status = "AWAITING_REVIEW"
      /\ UNCHANGED <<Pending, Applied, Answer>>
      => Once!AskReview
  BY DEF Once!AskReview, Once!Untouched, Pending, Applied, Answer
<1>7. /\ op.status = "AWAITING_REVIEW" /\ op'.status = "OPEN"
      /\ UNCHANGED <<Pending, Applied, Answer>>
      => Once!Approve
  BY DEF Once!Approve, Pending, Applied, Answer
<1>8. /\ op.status = "AWAITING_REVIEW" /\ ~Pending /\ ~Applied /\ op'.status = "CLOSED"
      /\ Answer' = "REVIEW" /\ UNCHANGED <<Pending, Applied>>
      => Once!Reject
  BY DEF Once!Reject, Once!Untouched, Pending, Applied, Answer
<1>9. /\ op.status = "OPEN" /\ op'.status = "CLOSED"
      /\ Answer' \in {"COMPLETE", "REPLAN", "INVESTIGATE"} /\ (Answer' = "COMPLETE" => Applied')
      /\ UNCHANGED <<Pending, Applied>>
      => Once!Conclude
  BY DEF Once!Conclude, Once!Answers, Pending, Applied, Answer
<1> QED BY <1>1, <1>2, <1>3, <1>4, <1>5, <1>6, <1>7, <1>8, <1>9

\* An operation that was attempted and closed by its outcome is not reported as reviewed.
LEMMA ReportsReview ==
  ASSUME NEW r \in Record, r.status = "CLOSED", r.review.decision # "rejected",
         r.attempts # << >>, ~LatestLeftItOpen(r)
  PROVE  Reported(r) # "REVIEW"
<1>1. Latest(r).disposition # "REVIEW"
  BY LatestType DEF Attempt, Dispositions
<1> QED BY <1>1 DEF Reported

LEMMA OnceInit == Init => Once!Init
<1> SUFFICES ASSUME Init PROVE Once!Init
  OBVIOUS
<1>1. requests = << >> /\ DOMAIN requests = {}
  BY DEF Init
<1>2. op.status \in {"NONE", "OPEN", "AWAITING_REVIEW"}
  <2>1. NoRecord.status = "NONE"
    BY DEF NoRecord, NewRecord
  <2>2. ASSUME op \in OlderRecords PROVE op.status \in {"OPEN", "AWAITING_REVIEW"}
    BY <2>2, OlderRecordFacts
  <2> QED BY <2>1, <2>2, InputsAssumption DEF Init
<1> QED BY <1>1, <1>2 DEF Once!Init, Once!Untouched

\* A step of a call, of the provider, of the clock or a fault.
LEMMA OnceStep ==
  ASSUME SafetyInvariant, OutcomeInvariant, PromiseInvariant, ReportIsHonest', [Next]_vars
  PROVE  [Once!Next]_(Once!promised)
<1>1. /\ \A p \in Passes : PassOutcome(p) /\ StopsSafely(p)
      /\ NothingUnderReview /\ ReviewsAreNumbered /\ RecordOutcome
  BY DEF OutcomeInvariant, PromiseInvariant
<1>2. CASE UNCHANGED op /\ Pending' = Pending /\ Applied' = Applied
  BY <1>2, OnceActions DEF Answer
<1>3. CASE UNCHANGED <<op, requests, clock>>
  BY <1>2, <1>3, WorldKept
<1>4. ASSUME NEW p \in Passes, Begin(p) \/ Conflict(p) \/ Fault(p) PROVE UNCHANGED <<op, requests, clock>>
  BY <1>4 DEF Begin, BeginRun, BeginReview, Conflict, Fault, Crash, LoseLock
<1>5. ASSUME NEW p \in Passes,
             \/ ReadAndReturn(p) \/ ReadAndContinue(p) \/ Authorize(p) \/ AttemptUnchecked(p)
             \/ ApprovalRefused(p) \/ StartRevalidate(p) \/ Revalidated(p) \/ ExecuteReturned(p)
             \/ ExecuteFailed(p) \/ Observe(p) \/ RefuseDecision(p) \/ AcceptDecision(p)
      PROVE  UNCHANGED <<op, requests, clock>>
  BY <1>5 DEF ReadAndReturn, ReadAndContinue, Authorize, AttemptUnchecked, ApprovalRefused,
     StartRevalidate, Revalidated, ExecuteReturned, ExecuteFailed, Observe, RefuseDecision,
     AcceptDecision
<1>6. ASSUME NEW p \in Passes, Execute(p) PROVE [Once!Next]_(Once!promised)
  <2>1. UNCHANGED op
    BY <1>6 DEF Execute
  <2> QED BY <1>2, <1>6, <2>1, SendingChangesNothing
<1>7. ASSUME NEW p \in Passes, CreateAwaitingReview(p) \/ CreateOpen(p) \/ Reopen(p)
      PROVE  [Once!Next]_(Once!promised)
  <2>1. UNCHANGED <<requests, clock>>
    BY <1>7 DEF CreateAwaitingReview, CreateOpen, Reopen
  <2>2. CASE CreateAwaitingReview(p) \/ CreateOpen(p)
    <3>1. op.status = "NONE" /\ op'.status \in {"OPEN", "AWAITING_REVIEW"}
      BY <2>2, CreateWrites
    <3>2. Once!Begin
      BY <2>1, <3>1, WorldKept, OnceActions DEF Answer
    <3> QED BY <3>2 DEF Once!Next
  <2>3. CASE Reopen(p)
    BY <2>1, <2>3, ReopenWrites, WorldKept, OnceActions DEF Answer
  <2> QED BY <1>7, <2>2, <2>3
<1>8. ASSUME NEW p \in Passes, WriteBlock(p) PROVE [Once!Next]_(Once!promised)
  <2>1. UNCHANGED <<requests, clock>> /\ At(p, "block")
    BY <1>8 DEF WriteBlock
  <2>2. /\ Live(p) /\ op.status = "OPEN" /\ op'.status \in {"OPEN", "AWAITING_REVIEW", "CLOSED"}
        /\ op'.status = "CLOSED" => CurrentBlock(op') = "reject" /\ op'.review = op.review
    BY <1>1, <1>8, BlockWrites
  <2>3. ~Pending /\ ~Applied
    BY <1>1, <2>1, <2>2, NothingDone DEF StopsSafely
  <2>4. CASE op'.status = "OPEN"
    BY <2>1, <2>2, <2>4, WorldKept, OnceActions DEF Answer
  <2>5. CASE op'.status = "AWAITING_REVIEW"
    <3>1. Once!AskReview
      BY <2>1, <2>2, <2>3, <2>5, WorldKept, OnceActions DEF Answer
    <3> QED BY <3>1 DEF Once!Next
  <2>6. CASE op'.status = "CLOSED"
    <3>1. op'.review.decision # "rejected"
      BY <1>1, <2>2, <2>6 DEF RecordOutcome, ReviewFitsStatus
    <3>2. Answer' = "REPLAN"
      BY <2>2, <2>6, <3>1 DEF Answer, Reported
    <3>3. Once!Conclude
      BY <2>1, <2>2, <2>6, <3>2, WorldKept, OnceActions
    <3> QED BY <3>3 DEF Once!Next
  <2> QED BY <2>2, <2>4, <2>5, <2>6
<1>9. ASSUME NEW p \in Passes, Reserve(p) PROVE [Once!Next]_(Once!promised)
  <2>1. ~Pending /\ ~Applied /\ ~Applied' /\ op.status = "OPEN" /\ op'.status = "OPEN"
    BY <1>9, ReserveWrites, ReservingAttempts
  <2>2. UNCHANGED <<op.status, Applied, Answer>>
    BY <2>1 DEF Answer, Applied
  <2>3. CASE Pending'
    <3>1. Once!Attempt
      BY <2>1, <2>2, <2>3, OnceActions
    <3> QED BY <3>1 DEF Once!Next
  <2>4. CASE ~Pending'
    <3>1. Pending' = Pending
      BY <2>1, <2>4 DEF Pending
    <3> QED BY <2>2, <3>1, OnceActions
  <2> QED BY <2>3, <2>4
<1>10. ASSUME NEW p \in Passes, ResolveAndReturn(p) \/ ResolveAndContinue(p)
       PROVE  [Once!Next]_(Once!promised)
  <2>1. UNCHANGED <<requests, clock>>
    BY <1>10 DEF ResolveAndReturn, ResolveAndContinue
  <2>2. /\ op.status = "OPEN" /\ op'.status \in {"OPEN", "CLOSED"} /\ op'.review = op.review
        /\ op'.status = "CLOSED" => op'.attempts # << >> /\ ~LatestLeftItOpen(op')
    BY <1>10, ResolveWrites
  <2>3. CASE op'.status = "OPEN"
    BY <2>1, <2>2, <2>3, WorldKept, OnceActions DEF Answer
  <2>4. CASE op'.status = "CLOSED"
    <3>1. op'.review.decision # "rejected"
      BY <1>1, <2>2, <2>4 DEF RecordOutcome, ReviewFitsStatus
    <3>2. Answer' = Reported(op') /\ Answer' \in {"COMPLETE", "REPLAN", "INVESTIGATE", "REVIEW"}
      BY <2>4 DEF Answer, ReportIsHonest
    <3>3. Answer' # "REVIEW"
      <4>1. op' \in Record
        BY SafetyStep DEF SafetyInvariant, TypeOK
      <4> QED BY <2>2, <2>4, <3>1, <3>2, <4>1, ReportsReview
    <3>4. Answer' = "COMPLETE" => Applied'
      BY <3>2 DEF ReportIsHonest, Applied
    <3>5. Once!Conclude
      BY <2>1, <2>2, <2>4, <3>2, <3>3, <3>4, WorldKept, OnceActions
    <3> QED BY <3>5 DEF Once!Next
  <2> QED BY <2>2, <2>3, <2>4
<1>11. ASSUME NEW p \in Passes, RecordDecision(p) PROVE [Once!Next]_(Once!promised)
  <2>1. UNCHANGED <<requests, clock>>
    BY <1>11 DEF RecordDecision
  <2>2. /\ op.status = "AWAITING_REVIEW"
        /\ op'.status = IF op'.review.decision = "approved" THEN "OPEN" ELSE "CLOSED"
        /\ op'.review.decision \in {"approved", "rejected"}
    BY <1>1, <1>11, DecisionWrites
  <2>3. CASE op'.review.decision = "approved"
    <3>1. Once!Approve
      BY <2>1, <2>2, <2>3, WorldKept, OnceActions DEF Answer
    <3> QED BY <3>1 DEF Once!Next
  <2>4. CASE op'.review.decision = "rejected"
    <3>1. ~Pending /\ ~Applied
      BY <1>1, <2>2, NothingDone DEF NothingUnderReview
    <3>2. op'.status = "CLOSED" /\ Answer' = "REVIEW"
      BY <2>2, <2>4 DEF Answer, Reported
    <3>3. Once!Reject
      BY <2>1, <2>2, <3>1, <3>2, WorldKept, OnceActions
    <3> QED BY <3>3 DEF Once!Next
  <2> QED BY <2>2, <2>3, <2>4
<1>12. CASE Provider
  <2>1. UNCHANGED op
    BY <1>12 DEF Provider, Land, Accept, Refuse
  <2>2. UNCHANGED <<op.status, Answer>>
    BY <2>1 DEF Answer
  <2>3. \/ Pending /\ ~Pending' /\ ~Applied /\ Applied'
        \/ Pending /\ ~Pending' /\ Applied' = Applied
        \/ Pending' = Pending /\ Applied' = Applied
    BY <1>12, ProviderSteps DEF Provider
  <2>4. Once!Apply \/ Once!Lapse \/ UNCHANGED Once!promised
    BY <2>2, <2>3, OnceActions
  <2> QED BY <2>4 DEF Once!Next
<1>13. CASE Tick
  <2>1. UNCHANGED <<op.status, Answer>>
    BY <1>13 DEF Tick, Answer
  <2>2. Once!Lapse \/ UNCHANGED Once!promised
    BY <1>13, <2>1, TimePasses, OnceActions
  <2> QED BY <2>2 DEF Once!Next
<1>14. CASE UNCHANGED vars
  BY <1>3, <1>14 DEF vars
<1> QED
  BY <1>3, <1>4, <1>5, <1>6, <1>7, <1>8, <1>9, <1>10, <1>11, <1>12, <1>13, <1>14
     DEF Next, Run, ReviewCall

-----------------------------------------------------------------------------
(* What follows for every run *)

\* PromiseInvariant holds for any contracts, callers, reviewers, faults and lateness: nothing
\* undecided is ever before a reviewer.
THEOREM PromiseInvariantHolds == Spec => []PromiseInvariant
<1>1. Init => PromiseInvariant
  BY PromiseInit
<1>2. SafetyInvariant /\ OutcomeInvariant /\ PromiseInvariant /\ [Next]_vars => PromiseInvariant'
  BY PromiseStep
<1> QED BY <1>1, <1>2, SafetyInvariantHolds, OutcomeInvariantHolds, PTL DEF Spec

\* RunEffect implements EffectOnce: whatever callers, reviewers, deploys, faults and late
\* requests do, the operation behaves as one effect that is attempted and answered for.
THEOREM PromiseKept == Spec => Promise
<1>1. Init => Once!Init
  BY OnceInit
<1>2. SafetyInvariant /\ OutcomeInvariant /\ PromiseInvariant /\ ReportIsHonest' /\ [Next]_vars
        => [Once!Next]_(Once!promised)
  BY OnceStep
<1> QED BY <1>1, <1>2, SafetyInvariantHolds, OutcomeInvariantHolds, PromiseInvariantHolds,
           HonestReports, PTL DEF Spec, Promise, Once!Spec

\* A decision is recorded only on the open review whose token it carries, and once.
THEOREM DecisionsAnswer == Spec => DecisionAnswersItsReview
<1>1. SafetyInvariant /\ OutcomeInvariant /\ PromiseInvariant /\ [Next]_vars
        => [op'.review \notin {op.review, NoReview} =>
              /\ op.status = "AWAITING_REVIEW"
              /\ op'.review.token = op.episode.generation
              /\ op.review.token # op'.review.token]_vars
  <2> SUFFICES ASSUME SafetyInvariant, OutcomeInvariant, PromiseInvariant, [Next]_vars,
                      op'.review \notin {op.review, NoReview}
               PROVE  /\ op.status = "AWAITING_REVIEW"
                      /\ op'.review.token = op.episode.generation
                      /\ op.review.token # op'.review.token
    OBVIOUS
  <2>1. (\A p \in Passes : PassOutcome(p)) /\ ReviewsAreNumbered
    BY DEF OutcomeInvariant, PromiseInvariant
  <2>2. PICK p \in Passes : RecordDecision(p)
    <3>1. ASSUME NEW p \in Passes, Run(p) PROVE FALSE
      <4>1. ~CreateAwaitingReview(p) /\ ~CreateOpen(p) /\ ~Reopen(p) /\ ~WriteBlock(p)
            /\ ~Reserve(p) /\ ~ResolveAndReturn(p) /\ ~ResolveAndContinue(p)
        BY <2>1, CreateWrites, ReopenWrites, BlockWrites, ReserveWrites, ResolveWrites
      <4> QED BY <3>1, <4>1 DEF Run, ReadAndReturn, ReadAndContinue, Authorize,
           AttemptUnchecked, ApprovalRefused, StartRevalidate, Revalidated, Execute,
           ExecuteReturned, ExecuteFailed, Observe
    <3>2. ASSUME NEW p \in Passes, Begin(p) \/ Conflict(p) \/ Fault(p) PROVE FALSE
      BY <3>2 DEF Begin, BeginRun, BeginReview, Conflict, Fault, Crash, LoseLock
    <3>3. ASSUME NEW p \in Passes, ReviewCall(p) PROVE RecordDecision(p)
      BY <3>3 DEF ReviewCall, RefuseDecision, AcceptDecision
    <3>4. CASE Provider \/ Tick \/ UNCHANGED vars
      BY <3>4 DEF Provider, Land, Accept, Refuse, Tick, vars
    <3> QED BY <3>1, <3>2, <3>3, <3>4 DEF Next
  <2>3. /\ op.status = "AWAITING_REVIEW" /\ OpenReview(op)
        /\ op'.review.token = op.episode.generation
    BY <2>1, <2>2, DecisionWrites
  <2>4. op.review.token # op.episode.generation
    BY <2>1, <2>3 DEF OpenReview, ReviewsAreNumbered, NoReview, NoToken
  <2> QED BY <2>3, <2>4
<1> QED BY <1>1, SafetyInvariantHolds, OutcomeInvariantHolds, PromiseInvariantHolds, PTL
        DEF Spec, DecisionAnswersItsReview

=============================================================================
