----------------------------- MODULE RunEffect -----------------------------
(***************************************************************************)
(* The life of ONE operation identity in corrobo: concurrent runEffect()   *)
(* and reviewEffect() calls over one store record, the external system     *)
(* their requests reach, and time.  Identities share nothing but the       *)
(* connection pool, so one identity is the whole protocol.                 *)
(*                                                                         *)
(* A call is a pass p.  Its steps are the stretches of code between two    *)
(* awaits that another actor can tell apart: acquire the lock, read the    *)
(* record and choose the branch, each hook, each clock reading that is     *)
(* later compared, each store write.  A pass keeps the record it read and  *)
(* every write is applied only if the stored version is still that one.    *)
(*                                                                         *)
(* Deploys: every call brings the contract of the worker that makes it, so *)
(* old and new contracts interleave as they do during a rolling deploy.    *)
(* Faults: a pass can vanish at any step (a crash, a hook or query that    *)
(* throws), and it can lose its lock and go on (its database session died).*)
(*                                                                         *)
(* The external system is a request per attempt.  A request sent under a   *)
(* window w takes hold, if ever, before w has passed since the attempt's   *)
(* start; one sent under no declared window, before Lateness has.          *)
(***************************************************************************)
EXTENDS EffectRecord, FiniteSets

CONSTANTS
  Passes,          \* concurrent callers
  NoPass,          \* the lock is free
  Contracts,       \* the contract versions workers run with
  InitialRecords,  \* what the store may hold at the start
  Authorizations,  \* authorize()'s possible answers: requiresReview or not
  Verdicts,        \* revalidate()'s possible answers
  Doubts,          \* answers reconcile() may give whatever happened: UNKNOWN, CONFLICTED
  Async,           \* whether the provider may accept a request and settle it later
  DecidedAts,      \* the decidedAt a reviewer may state (NoTime: none)
  Expiries,        \* the expiresAt an approval may carry (NoTime: none)
  Lateness,        \* how late a request sent under no declared window takes hold
  MaxClock,        \* bound: the clock's last value
  MaxVersion,      \* bound: no call begins once the record's version reaches it
  MaxFaults        \* bound: crashes and lost locks

ASSUME PassesAssumption == NoPass \notin Passes
ASSUME BoundsAssumption ==
  /\ Lateness \in Nat /\ MaxClock \in Nat /\ MaxVersion \in Nat /\ MaxFaults \in Nat
\* validateContract: maxAttempts >= 1.  The windows are honest: no shorter than
\* a request sent under no window takes.
ASSUME ContractsAssumption ==
  /\ Contracts # {}
  /\ \A c \in Contracts :
       /\ c.maxInFlightMs \in Times /\ c.maxApprovalAgeMs \in Times
       /\ c.maxAttempts \in Nat \ {0} /\ c.retryOnNotApplied \in BOOLEAN
       /\ c.revalidates \in BOOLEAN /\ c.fingerprint \in Nat \ {0}
       /\ c.maxInFlightMs # NoWindow => c.maxInFlightMs >= Lateness

\* What older releases may have left: their approvals are of intents as the contracts
\* fingerprint them, and expire as approvals do.
OlderRecords ==
  LegacyRecords({c.fingerprint : c \in Contracts}, Expiries \cup {NoTime})

ASSUME InputsAssumption ==
  /\ InitialRecords \subseteq {NoRecord} \cup OlderRecords
  /\ InitialRecords # {}
  /\ Authorizations \subseteq BOOLEAN
  /\ Verdicts \subseteq {"proceed", "requiresReview", "reject", "failed"}
  /\ Doubts \subseteq {"UNKNOWN", "CONFLICTED"}
  /\ Async \in BOOLEAN
  /\ DecidedAts \subseteq Times /\ Expiries \subseteq Times

VARIABLES
  op,        \* the stored record, NoRecord if there is none
  lock,      \* the pass that holds the identity's lock, or NoPass
  clock,     \* the store's clock
  requests,  \* requests[n]: the request attempt n sends
  pass,      \* pass[p]: the private state of call p
  faults     \* crashes and lost locks so far

vars == <<op, lock, clock, requests, pass, faults>>

Steps ==
  {"idle", "read", "authorize", "create", "reopen", "check", "revalidate", "block",
   "reserve", "execute", "executing", "observe", "resolve", "review", "record"}
RequestStates == {"unsent", "flying", "accepted", "landed", "refused"}
Request == [state : RequestStates, deadline : Nat]
PassState ==
  [pc : Steps, contract : Contracts, rec : Record, readAt : Nat, ok : BOOLEAN,
   answer : EvidenceStates, seenAt : Times, outcome : Outcomes, review : Review]

\* A caller between calls; the contract field is a placeholder.
Idle ==
  [pc |-> "idle", contract |-> CHOOSE c \in Contracts : TRUE, rec |-> NoRecord, readAt |-> 0,
   ok |-> FALSE, answer |-> "UNKNOWN", seenAt |-> NoTime, outcome |-> "none",
   review |-> NoReview]

Init ==
  /\ op \in InitialRecords
  /\ lock = NoPass
  /\ clock = 0
  /\ requests = << >>
  /\ pass = [p \in Passes |-> Idle]
  /\ faults = 0

-----------------------------------------------------------------------------
(* The external system *)

Send(n) == requests' = [requests EXCEPT ![n].state = "flying"]

InTime(n) == clock < requests[n].deadline

\* Request n could still take effect.
CanLand(n) ==
  \/ requests[n].state = "accepted"
  \/ requests[n].state \in {"unsent", "flying"} /\ InTime(n)

\* Request n has no effect and never will.
Gone(n) == ~CanLand(n) /\ requests[n].state # "landed"

\* The effect happens: also long after the client gave up on the request.
Land(n) ==
  /\ \/ requests[n].state = "flying" /\ InTime(n)
     \/ requests[n].state = "accepted"
  /\ requests' = [requests EXCEPT ![n].state = "landed"]
  /\ UNCHANGED <<op, lock, clock, pass, faults>>

\* An asynchronous provider takes the request and settles it in its own time.
Accept(n) ==
  /\ Async
  /\ requests[n].state = "flying" /\ InTime(n)
  /\ requests' = [requests EXCEPT ![n].state = "accepted"]
  /\ UNCHANGED <<op, lock, clock, pass, faults>>

Refuse(n) ==
  /\ requests[n].state \in {"flying", "accepted"}
  /\ requests' = [requests EXCEPT ![n].state = "refused"]
  /\ UNCHANGED <<op, lock, clock, pass, faults>>

\* What an authoritative read says: observe() and reconcile() together.
HonestEvidence ==
  IF \E n \in DOMAIN requests : requests[n].state = "landed" THEN "APPLIED"
  ELSE IF \E n \in DOMAIN requests : requests[n].state = "accepted" THEN "PENDING"
  ELSE "NOT_APPLIED"

\* safeObserve and safeReconcile: a failed read or reconciliation is UNKNOWN.
Answers == {HonestEvidence} \cup Doubts

-----------------------------------------------------------------------------
(* Steps of a pass *)

At(p, pc) == pass[p].pc = pc

\* p's private state becomes s; whatever else the step changes, it says.
Become(p, s) == pass' = [pass EXCEPT ![p] = s]

Goto(p, pc) == Become(p, [pass[p] EXCEPT !.pc = pc])

\* The call returns or throws; its finally clause releases the lock it still holds.
Return(p) ==
  /\ Become(p, Idle)
  /\ lock' = IF lock = p THEN NoPass ELSE lock

\* The store's version check.
AlwaysCurrent(p) == TRUE

Current(p) == op.version = pass[p].rec.version

\* A version-checked write of r: it replaces the record p read.
Write(p, r) ==
  /\ Current(p)
  /\ op' = [r EXCEPT !.version = pass[p].rec.version + 1]

-----------------------------------------------------------------------------
(* Starting a call.  A caller that doesn't get the lock reads the record and
   returns (runEffect) or is told the operation is busy (reviewEffect): no state
   changes, so those calls are not steps. *)

AcquireLock(p) ==
  /\ At(p, "idle")
  /\ lock = NoPass
  /\ op.version < MaxVersion
  /\ lock' = p

BeginRun(p) ==
  /\ AcquireLock(p)
  /\ \E c \in Contracts : Become(p, [Idle EXCEPT !.pc = "read", !.contract = c])
  /\ UNCHANGED <<op, clock, requests, faults>>

\* What a reviewer may send: parseReviewDecision's well-formed decisions,
\* carrying the token of any review of this operation shown so far, or (0) of
\* another operation.
Decisions ==
  {d \in [decision : {"approved", "rejected"}, token : 0..op.episode.generation,
          decidedAt : DecidedAts, expiresAt : Expiries,
          fingerprint : {0} \cup {c.fingerprint : c \in Contracts}] :
     /\ d.decision = "rejected" => d.expiresAt = NoTime
     /\ (NoTime \notin {d.decidedAt, d.expiresAt}) => d.expiresAt > d.decidedAt}

BeginReview(p) ==
  /\ AcquireLock(p)
  /\ op # NoRecord
  /\ Decisions # {}  \* there is a reviewer
  /\ \E c \in Contracts : Become(p, [Idle EXCEPT !.pc = "review", !.contract = c])
  /\ UNCHANGED <<op, clock, requests, faults>>

-----------------------------------------------------------------------------
(* runCoordinated and continueOpen: read the record, choose the branch *)

\* A RETRY whose time has not come.
Delayed(r) == Latest(r).retryNotBefore # NoTime /\ clock < Latest(r).retryNotBefore

\* A RETRY that may go straight to the next attempt: a response finished its
\* request, and no review has been waited for since.
FinishedIgnoringReview(r) == Latest(r).ok

Finished(r) == Latest(r).ok /\ ~ApprovedSinceLatest(r)

BranchForOpenStuckOnReserved(r) ==
  CASE r.attempts = << >> -> "check"
    [] r.attempts # << >> /\ Latest(r).evidence = "PENDING" -> "observe"
    [] r.attempts # << >> /\ Latest(r).disposition = "RETRY" ->
         IF Finished(r) THEN "check" ELSE IF Delayed(r) THEN "idle" ELSE "observe"
    [] OTHER -> "idle"

BranchForOpenWithoutSettling(r) ==
  CASE r.attempts = << >> -> "check"
    [] r.attempts # << >> /\ Latest(r).disposition = "RETRY" ->
         IF Delayed(r) THEN "idle" ELSE "check"
    [] OTHER -> "observe"

BranchForOpenReexecuting(r) ==
  CASE r.attempts = << >> \/ Latest(r).status = "RESERVED" -> "check"
    [] OTHER -> IF Delayed(r) THEN "idle" ELSE "observe"

BranchForOpen(r) ==
  CASE r.attempts = << >> -> "check"
    [] r.attempts # << >> /\ Latest(r).status = "RESERVED" -> "observe"
    [] r.attempts # << >> /\ Latest(r).status = "RESOLVED" ->
         CASE Latest(r).evidence = "PENDING"   -> "observe"
           [] Latest(r).disposition = "RETRY" ->
                IF Finished(r) THEN "check" ELSE IF Delayed(r) THEN "idle" ELSE "observe"
           [] OTHER -> "idle"

BranchWithoutReopening(r) ==
  CASE r.status = "NONE"                         -> "authorize"
    [] r.status \in {"CLOSED", "AWAITING_REVIEW"} -> "idle"
    [] r.status = "OPEN"                         -> BranchForOpen(r)

\* The branch taken for record r; "idle" means the call returns r as it is.
Branch(r) ==
  CASE r.status = "NONE"            -> "authorize"
    [] r.status = "CLOSED"          -> "idle"
    [] r.status = "AWAITING_REVIEW" -> IF OpenReview(r) THEN "idle" ELSE "reopen"
    [] r.status = "OPEN"            -> BranchForOpen(r)

ReadAndReturn(p) ==
  /\ At(p, "read")
  /\ Branch(op) = "idle"
  /\ Return(p)
  /\ UNCHANGED <<op, clock, requests, faults>>

\* Re-observation takes the attempt's transport outcome with it, which a
\* reserved attempt doesn't have.
ReadAndContinue(p) ==
  /\ At(p, "read")
  /\ Branch(op) # "idle"
  /\ Become(p, [pass[p] EXCEPT !.pc = Branch(op), !.rec = op,
                 !.ok = op.attempts # << >> /\ Latest(op).ok])
  /\ UNCHANGED <<op, lock, clock, requests, faults>>

-----------------------------------------------------------------------------
(* Creating the operation, and opening a review for one that lost it.  The
   clock is read just before the write: both are one step, since a write that
   is delayed after the reading either conflicts or might as well be earlier. *)

Authorize(p) ==
  /\ At(p, "authorize")
  /\ \E requiresReview \in Authorizations :
       Become(p, [pass[p] EXCEPT !.pc = "create",
                  !.outcome = IF requiresReview THEN "requiresReview" ELSE "none"])
  /\ UNCHANGED <<op, lock, clock, requests, faults>>

CreateAwaitingReview(p) ==
  /\ At(p, "create") /\ pass[p].outcome = "requiresReview"
  /\ Write(p, NewRecord("AWAITING_REVIEW", TRUE,
                        [generation |-> 1, openedAt |-> clock]))
  /\ Return(p)
  /\ UNCHANGED <<clock, requests, faults>>

CreateOpen(p) ==
  /\ At(p, "create") /\ pass[p].outcome = "none"
  /\ Write(p, NewRecord("OPEN", FALSE, NoEpisode))
  /\ Become(p, [pass[p] EXCEPT !.pc = "check", !.rec = op'])
  /\ UNCHANGED <<lock, clock, requests, faults>>

Reopen(p) ==
  /\ At(p, "reopen")
  /\ Write(p, WithNewEpisode(pass[p].rec, clock))
  /\ Return(p)
  /\ UNCHANGED <<clock, requests, faults>>

-----------------------------------------------------------------------------
(* checkThenAttempt *)

\* Whether anything has to be checked before the attempt.
NeedsCheck(c, r) == c.revalidates \/ Attributed(r) \/ r.reviewReason

AttemptUnchecked(p) ==
  /\ At(p, "check")
  /\ ~NeedsCheck(pass[p].contract, pass[p].rec)
  /\ Become(p, [pass[p] EXCEPT !.pc = "reserve", !.readAt = clock])
  /\ UNCHANGED <<op, lock, clock, requests, faults>>

\* The approval's own problems come first; revalidate() never sees a bad one.
ApprovalRefused(p) ==
  /\ At(p, "check")
  /\ NeedsCheck(pass[p].contract, pass[p].rec)
  /\ ApprovalProblem(pass[p].contract, pass[p].rec, clock)
  /\ Become(p, [pass[p] EXCEPT !.pc = "block", !.outcome = "requiresReview"])
  /\ UNCHANGED <<op, lock, clock, requests, faults>>

StartRevalidate(p) ==
  /\ At(p, "check")
  /\ NeedsCheck(pass[p].contract, pass[p].rec)
  /\ ~ApprovalProblem(pass[p].contract, pass[p].rec, clock)
  /\ Goto(p, "revalidate")
  /\ UNCHANGED <<op, lock, clock, requests, faults>>

\* revalidate() has answered (a contract without one proceeds), the clock is read
\* again, and the approval is checked again at that reading.
NoSecondCheck(p) == FALSE

ProblemAfterRevalidate(p) == ApprovalProblem(pass[p].contract, pass[p].rec, clock)

Revalidated(p) ==
  /\ At(p, "revalidate")
  /\ \E verdict \in IF pass[p].contract.revalidates THEN Verdicts ELSE {"proceed"} :
       LET outcome == IF verdict # "proceed" THEN verdict
                      ELSE IF ProblemAfterRevalidate(p) THEN "requiresReview"
                      ELSE "none"
       IN  Become(p, [pass[p] EXCEPT !.pc = IF outcome = "none" THEN "reserve" ELSE "block",
                                     !.outcome = outcome, !.readAt = clock])
  /\ UNCHANGED <<op, lock, clock, requests, faults>>

\* What a check that stopped the attempt writes: back to review under a new
\* episode, closed for good, or still open.
Blocked(r, outcome, now) ==
  LET blocked == [r EXCEPT !.blockedBy = [outcome |-> outcome,
                                          recordVersion |-> r.version + 1]]
  IN  CASE outcome = "requiresReview" ->
             [WithNewEpisode(blocked, now) EXCEPT !.status = "AWAITING_REVIEW",
                                                     !.reviewReason = TRUE]
        [] outcome = "reject" -> [blocked EXCEPT !.status = "CLOSED"]
        [] OTHER -> blocked

WriteBlock(p) ==
  /\ At(p, "block")
  /\ Write(p, Blocked(pass[p].rec, pass[p].outcome, clock))
  /\ Return(p)
  /\ UNCHANGED <<clock, requests, faults>>

-----------------------------------------------------------------------------
(* performAttempt: reserve, execute, observe, resolve *)

\* When a request sent under this window can no longer take hold.
Deadline(startedAt, window) == startedAt + (IF window = NoWindow THEN Lateness ELSE window)

Reserve(p) ==
  /\ At(p, "reserve")
  /\ LET window == pass[p].contract.maxInFlightMs
         startedAt == pass[p].readAt
     IN  /\ Write(p, [pass[p].rec EXCEPT !.attempts = Append(@, Reserved(startedAt, window))])
         /\ requests' = Append(requests, [state |-> "unsent",
                                          deadline |-> Deadline(startedAt, window)])
  /\ Become(p, [pass[p] EXCEPT !.pc = "execute", !.rec = op'])
  /\ UNCHANGED <<lock, clock, faults>>

\* The attempt p is making or looking at.
AttemptOf(p) == Len(pass[p].rec.attempts)

Execute(p) ==
  /\ At(p, "execute")
  /\ Send(AttemptOf(p))
  /\ Goto(p, "executing")
  /\ UNCHANGED <<op, lock, clock, faults>>

\* safeExecute: a response means the provider is done with the request, or
\* has taken it over.
ExecuteReturned(p) ==
  /\ At(p, "executing")
  /\ requests[AttemptOf(p)].state \in {"accepted", "landed", "refused"}
  /\ Become(p, [pass[p] EXCEPT !.pc = "observe", !.ok = TRUE])
  /\ UNCHANGED <<op, lock, clock, requests, faults>>

\* A timeout, a reset, a lost response: whatever became of the request.
ExecuteFailedAfterAnswer(p) ==
  /\ At(p, "executing")
  /\ requests[AttemptOf(p)].state \in {"accepted", "landed", "refused"}
  /\ Become(p, [pass[p] EXCEPT !.pc = "observe", !.ok = FALSE])
  /\ UNCHANGED <<op, lock, clock, requests, faults>>

ExecuteFailed(p) ==
  /\ At(p, "executing")
  /\ Become(p, [pass[p] EXCEPT !.pc = "observe", !.ok = FALSE])
  /\ UNCHANGED <<op, lock, clock, requests, faults>>

Observe(p) ==
  /\ At(p, "observe")
  /\ \E answer \in Answers :
       Become(p, [pass[p] EXCEPT !.pc = "resolve", !.answer = answer, !.seenAt = clock])
  /\ UNCHANGED <<op, lock, clock, requests, faults>>

\* p re-observes an attempt already settled as RETRY, to make the next one.
Settling(r) == r.attempts # << >> /\ Latest(r).status = "RESOLVED" /\ Latest(r).disposition = "RETRY"

\* resolveAttempt: decide from what was observed and the clock as it is now.
DecisionOf(p, now) ==
  LET c == pass[p].contract
      a == Latest(pass[p].rec)
  IN  DecideDisposition(pass[p].answer, AttemptOf(p), c,
        [ok |-> pass[p].ok, startedAt |-> a.startedAt, now |-> now,
         window |-> SettlementWindow(c.maxInFlightMs, a.maxInFlightMs)])

ResolvedAttempt(p, d) ==
  [Latest(pass[p].rec) EXCEPT
     !.status = "RESOLVED", !.ok = pass[p].ok, !.evidence = pass[p].answer,
     !.disposition = d.disposition, !.retryNotBefore = d.retryNotBefore,
     !.observedAt = pass[p].seenAt]

WithResolved(p, d) ==
  [pass[p].rec EXCEPT !.attempts[AttemptOf(p)] = ResolvedAttempt(p, d),
                      !.status = StatusAfter(pass[p].answer, d.disposition)]

\* After settling a RETRY that may go now, the same call makes the attempt.
GoesOnDelayed(r, d) == Settling(r) /\ d.disposition = "RETRY"

GoesOn(r, d) == Settling(r) /\ d.disposition = "RETRY" /\ d.retryNotBefore = NoTime

ResolveAndReturn(p) ==
  /\ At(p, "resolve")
  /\ ~GoesOn(pass[p].rec, DecisionOf(p, clock))
  /\ Write(p, WithResolved(p, DecisionOf(p, clock)))
  /\ Return(p)
  /\ UNCHANGED <<clock, requests, faults>>

ResolveAndContinue(p) ==
  /\ At(p, "resolve")
  /\ GoesOn(pass[p].rec, DecisionOf(p, clock))
  /\ Write(p, WithResolved(p, DecisionOf(p, clock)))
  /\ Become(p, [pass[p] EXCEPT !.pc = "check", !.rec = op'])
  /\ UNCHANGED <<lock, clock, requests, faults>>

-----------------------------------------------------------------------------
(* reviewEffect *)

\* recordReview's RecordedReview.
RecordedReviewAsStated(r, c, d, now) ==
  [decision |-> d.decision, token |-> d.token, recordedAt |-> now, decidedAt |-> d.decidedAt,
   expiresAt |-> d.expiresAt, fingerprint |-> c.fingerprint,
   attemptCount |-> Len(r.attempts)]

RecordedReview(r, c, d, now) ==
  [decision |-> d.decision, token |-> d.token, recordedAt |-> now,
   decidedAt |-> IF d.decidedAt = NoTime THEN now ELSE d.decidedAt,
   expiresAt |-> d.expiresAt, fingerprint |-> c.fingerprint,
   attemptCount |-> Len(r.attempts)]

AcceptableWithStaleToken(r, c, d, now) ==
  /\ OpenReview(r)
  /\ d.decidedAt # NoTime => d.decidedAt >= r.episode.openedAt
  /\ d.fingerprint \in {0, c.fingerprint}
  /\ d.decision = "approved" => ~Expired(c, RecordedReview(r, c, d, now), now)

Acceptable(r, c, d, now) ==
  /\ OpenReview(r)
  /\ d.token = r.episode.generation
  /\ d.decidedAt # NoTime => d.decidedAt >= r.episode.openedAt
  /\ d.fingerprint \in {0, c.fingerprint}
  /\ d.decision = "approved" => ~Expired(c, RecordedReview(r, c, d, now), now)

RefuseDecision(p) ==
  /\ At(p, "review")
  /\ \E d \in Decisions : ~Acceptable(op, pass[p].contract, d, clock)
  /\ Return(p)
  /\ UNCHANGED <<op, clock, requests, faults>>

AcceptDecision(p) ==
  /\ At(p, "review")
  /\ \E d \in Decisions :
       /\ Acceptable(op, pass[p].contract, d, clock)
       /\ Become(p, [pass[p] EXCEPT !.pc = "record", !.rec = op,
                       !.review = RecordedReview(op, pass[p].contract, d, clock)])
  /\ UNCHANGED <<op, lock, clock, requests, faults>>

RecordDecision(p) ==
  /\ At(p, "record")
  /\ Write(p, [pass[p].rec EXCEPT
                 !.status = IF pass[p].review.decision = "approved" THEN "OPEN" ELSE "CLOSED",
                 !.review = pass[p].review])
  /\ Return(p)
  /\ UNCHANGED <<clock, requests, faults>>

-----------------------------------------------------------------------------
(* Conflicts, faults, time *)

WriteSteps == {"create", "reopen", "block", "reserve", "resolve", "record"}

\* StoreConflictError: the write is not applied and the call ends.
Conflict(p) ==
  /\ pass[p].pc \in WriteSteps
  /\ ~Current(p)
  /\ Return(p)
  /\ UNCHANGED <<op, clock, requests, faults>>

\* The process dies, or a hook or a query throws: nothing more is written, and
\* the lock goes with the session.
Crash(p) ==
  /\ ~At(p, "idle")
  /\ faults < MaxFaults
  /\ faults' = faults + 1
  /\ Return(p)
  /\ UNCHANGED <<op, clock, requests>>

\* The session that holds the lock dies; the pass doesn't know and goes on.
LoseLock(p) ==
  /\ lock = p
  /\ faults < MaxFaults
  /\ faults' = faults + 1
  /\ lock' = NoPass
  /\ UNCHANGED <<op, clock, requests, pass>>

Tick ==
  /\ clock < MaxClock
  /\ clock' = clock + 1
  /\ UNCHANGED <<op, lock, requests, pass, faults>>

-----------------------------------------------------------------------------
Run(p) ==
  \/ ReadAndReturn(p) \/ ReadAndContinue(p)
  \/ Authorize(p) \/ CreateAwaitingReview(p) \/ CreateOpen(p) \/ Reopen(p)
  \/ AttemptUnchecked(p) \/ ApprovalRefused(p) \/ StartRevalidate(p) \/ Revalidated(p)
  \/ WriteBlock(p)
  \/ Reserve(p) \/ Execute(p) \/ ExecuteReturned(p) \/ ExecuteFailed(p)
  \/ Observe(p) \/ ResolveAndReturn(p) \/ ResolveAndContinue(p)

ReviewCall(p) == RefuseDecision(p) \/ AcceptDecision(p) \/ RecordDecision(p)

Begin(p) == BeginRun(p) \/ BeginReview(p)

Fault(p) == Crash(p) \/ LoseLock(p)

Provider == \E n \in DOMAIN requests : Land(n) \/ Accept(n) \/ Refuse(n)

Next ==
  \/ \E p \in Passes : Begin(p) \/ Run(p) \/ ReviewCall(p) \/ Conflict(p) \/ Fault(p)
  \/ Provider
  \/ Tick

Spec == Init /\ [][Next]_vars

=============================================================================
