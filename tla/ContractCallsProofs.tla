------------------------ MODULE ContractCallsProofs ------------------------
(***************************************************************************)
(* ExamplesInvariant is inductive, for any providers an example may start  *)
(* with, any number of workers, faults and polls; and what ContractCalls   *)
(* says of effects, answers, histories and rows follows.                   *)
(***************************************************************************)
EXTENDS ProviderProofs, SequenceTheorems

-----------------------------------------------------------------------------
(* Windows and decisions *)

LEMMA Windows ==
  ASSUME example \in Examples
  PROVE  /\ Window \in Times /\ Window \in {-1, 0, 1}
         /\ ~Deduplicates => Window = 1
         /\ example = "stripe" => Window = 0
         /\ NoWindow = -1 /\ NoTime = -1
<1>1. example \in {"stripe", "ledger", "payments", "rest", "judged"}
  BY DEF Examples
<1> QED BY <1>1 DEF Window, Deduplicates, Times, NoWindow, NoTime

\* What is decided on a piece of evidence.
LEMMA Decides ==
  ASSUME NEW evidence \in EvidenceStates, NEW n \in Nat \ {0}, NEW s,
         s.ok \in BOOLEAN, s.startedAt \in Nat, s.now \in Nat, s.window \in {-1, 0, 1},
         NEW d, d = DecideDisposition(evidence, n, Policy, s)
  PROVE  /\ d.disposition \in Dispositions /\ d.retryNotBefore \in Times
         /\ evidence = "APPLIED" => d.disposition = "COMPLETE"
         /\ evidence = "CONFLICTED" => d.disposition = "REPLAN"
         /\ evidence = "PENDING" => d.disposition = "NULL"
         /\ evidence = "UNKNOWN" => d.disposition = "INVESTIGATE"
         /\ evidence = "NOT_APPLIED" => d.disposition \in {"RETRY", "INVESTIGATE"}
         /\ d.disposition = "RETRY" =>
              \/ s.ok
              \/ /\ d.retryNotBefore = NoTime
                 /\ s.window # NoWindow /\ s.now >= s.startedAt + s.window
              \/ s.window # NoWindow /\ d.retryNotBefore = s.startedAt + s.window
         /\ d.disposition = "RETRY" /\ d.retryNotBefore = NoTime =>
              s.ok \/ (s.window # NoWindow /\ s.now >= s.startedAt + s.window)
         /\ evidence = "NOT_APPLIED" /\ n < 3 /\ s.window # NoWindow => d.disposition = "RETRY"
<1>1. Policy.maxAttempts = 3 /\ Policy.retryOnNotApplied
  BY DEF Policy
<1>2. CASE evidence # "NOT_APPLIED"
  BY <1>2 DEF DecideDisposition, Decision, EvidenceStates, Dispositions, Times, NoTime
<1>3. CASE evidence = "NOT_APPLIED" /\ ~(n < 3)
  BY <1>1, <1>3 DEF DecideDisposition, Decision, Dispositions, Times, NoTime
<1>4. CASE evidence = "NOT_APPLIED" /\ n < 3
  <2>1. d = DecideRetry(s.ok, s.startedAt, s.window, s.now)
    BY <1>1, <1>4 DEF DecideDisposition
  <2>2. CASE s.ok \/ (s.window # NoWindow /\ s.now >= s.startedAt + s.window)
    BY <1>4, <2>1, <2>2 DEF DecideRetry, Decision, Dispositions, Times, NoTime, NoWindow
  <2>3. CASE ~s.ok /\ s.window = NoWindow
    BY <1>4, <2>1, <2>3 DEF DecideRetry, Decision, Dispositions, Times, NoTime, NoWindow
  <2>4. CASE ~s.ok /\ s.window # NoWindow /\ s.now < s.startedAt + s.window
    BY <1>4, <2>1, <2>4 DEF DecideRetry, Decision, Dispositions, Times, NoTime, NoWindow
  <2> QED BY <2>2, <2>3, <2>4
<1> QED BY <1>2, <1>3, <1>4

-----------------------------------------------------------------------------
(* Records *)

LEMMA NewRecordFields ==
  ASSUME NEW status \in Statuses, NEW needsReview \in BOOLEAN, NEW episode \in Episode,
         NEW r, r = NewRecord(status, needsReview, episode)
  PROVE  /\ r \in Record
         /\ r.status = status /\ r.attempts = << >> /\ r.blockedBy = NoBlock
         /\ r.review.decision = "none"
  BY DEF NewRecord, Record, NoReview, Review, NoBlock, Block, Outcomes, Times, NoTime, NoToken

\* A record as it is before there is one, or as an older release created it.
LEMMA FreshRecordFields ==
  ASSUME NEW status \in {"NONE", "OPEN"}, NEW r, r = NewRecord(status, FALSE, NoEpisode)
  PROVE  /\ r \in Record
         /\ r.status = status /\ r.attempts = << >> /\ r.blockedBy = NoBlock
         /\ r.review.decision = "none"
<1>1. NoEpisode \in Episode
  BY DEF NoEpisode, Episode
<1>2. status \in Statuses
  BY DEF Statuses
<1> QED BY <1>1, <1>2 DEF NewRecord, Record, NoReview, Review, NoBlock, Block, Outcomes,
                          Times, NoTime, NoToken

LEMMA LatestFields ==
  ASSUME NEW r \in Record, r.attempts # << >>
  PROVE  /\ Latest(r) \in Attempt
         /\ Len(r.attempts) \in Nat \ {0}
         /\ Len(r.attempts) \in DOMAIN r.attempts /\ DOMAIN r.attempts = 1..Len(r.attempts)
         /\ Latest(r) = r.attempts[Len(r.attempts)]
         /\ Latest(r).status \in {"RESERVED", "RESOLVED"} /\ Latest(r).startedAt \in Nat
         /\ Latest(r).ok \in BOOLEAN /\ Latest(r).evidence \in EvidenceStates
         /\ Latest(r).disposition \in Dispositions /\ Latest(r).retryNotBefore \in Times
<1>1. r.attempts \in Seq(Attempt)
  BY DEF Record
<1>2. Len(r.attempts) \in Nat \ {0}
  BY <1>1, EmptySeq
<1>3. Latest(r) \in Attempt /\ DOMAIN r.attempts = 1..Len(r.attempts)
  BY <1>1, <1>2, ElementOfSeq, LenProperties DEF Latest
<1> QED BY <1>2, <1>3 DEF Latest, Attempt

LEMMA ReservedFields ==
  ASSUME NEW startedAt \in Nat, NEW window \in Times, NEW a, a = Reserved(startedAt, window)
  PROVE  /\ a \in Attempt
         /\ a.status = "RESERVED" /\ a.startedAt = startedAt /\ ~a.ok /\ a.evidence = "UNKNOWN"
  BY DEF Reserved, Attempt, EvidenceStates, Dispositions, Times, NoTime

\* The record after performAttempt reserved another attempt.
LEMMA AppendedFields ==
  ASSUME NEW r \in Record, NEW a \in Attempt,
         NEW s,
         s = [version |-> r.version + 1, status |-> r.status, reviewReason |-> r.reviewReason,
              attempts |-> Append(r.attempts, a), review |-> r.review, episode |-> r.episode,
              blockedBy |-> r.blockedBy]
  PROVE  /\ s \in Record
         /\ s.status = r.status /\ s.review = r.review /\ s.blockedBy = r.blockedBy
         /\ s.attempts # << >> /\ Latest(s) = a
         /\ Len(s.attempts) = Len(r.attempts) + 1 /\ Len(r.attempts) \in Nat
         /\ DOMAIN s.attempts = 1..Len(r.attempts) + 1
         /\ DOMAIN r.attempts = 1..Len(r.attempts)
         /\ \A n \in DOMAIN r.attempts : s.attempts[n] = r.attempts[n]
<1>1. r.attempts \in Seq(Attempt) /\ r.version \in Int
  BY DEF Record
<1>2. /\ Append(r.attempts, a) \in Seq(Attempt)
      /\ Len(Append(r.attempts, a)) = Len(r.attempts) + 1 /\ Len(r.attempts) \in Nat
      /\ Append(r.attempts, a)[Len(r.attempts) + 1] = a
      /\ \A n \in 1..Len(r.attempts) : Append(r.attempts, a)[n] = r.attempts[n]
      /\ DOMAIN r.attempts = 1..Len(r.attempts)
      /\ DOMAIN Append(r.attempts, a) = 1..Len(r.attempts) + 1
      /\ Append(r.attempts, a) # << >>
  <2>1. PICK list \in Seq(Attempt) : list = r.attempts
    BY <1>1
  <2>2. /\ Len(list) \in Nat /\ DOMAIN list = 1..Len(list)
        /\ Append(list, a) \in Seq(Attempt) /\ Len(Append(list, a)) = Len(list) + 1
        /\ Append(list, a)[Len(list) + 1] = a
        /\ \A n \in 1..Len(list) : Append(list, a)[n] = list[n]
        /\ DOMAIN Append(list, a) = 1..Len(list) + 1
        /\ Append(list, a) # << >>
    OBVIOUS
  <2> QED BY <2>1, <2>2
<1>3. s \in Record
  BY <1>1, <1>2 DEF Record
<1> QED BY <1>2, <1>3 DEF Latest

\* The record after resolveAttempt.
LEMMA ResolvedFields ==
  ASSUME NEW r \in Record, r.attempts # << >>, NEW ok \in BOOLEAN,
         NEW evidence \in EvidenceStates, NEW window \in {-1, 0, 1}, NEW now \in Nat,
         NEW s, s = ResolvedRecord(r, ok, evidence, Policy, window, now)
  PROVE  /\ s \in Record
         /\ s.status = StatusAfter(evidence, Latest(s).disposition)
         /\ s.review = r.review /\ s.blockedBy = r.blockedBy
         /\ s.attempts # << >> /\ Len(s.attempts) = Len(r.attempts)
         /\ DOMAIN s.attempts = DOMAIN r.attempts
         /\ Latest(s).status = "RESOLVED" /\ Latest(s).ok = ok /\ Latest(s).evidence = evidence
         /\ Latest(s).startedAt = Latest(r).startedAt
         /\ \A n \in DOMAIN r.attempts : s.attempts[n].startedAt = r.attempts[n].startedAt
         /\ evidence = "APPLIED" => Latest(s).disposition = "COMPLETE"
         /\ evidence = "CONFLICTED" => Latest(s).disposition = "REPLAN"
         /\ evidence = "PENDING" => Latest(s).disposition = "NULL"
         /\ evidence = "UNKNOWN" => Latest(s).disposition = "INVESTIGATE"
         /\ evidence = "NOT_APPLIED" => Latest(s).disposition \in {"RETRY", "INVESTIGATE"}
         /\ Latest(s).disposition = "RETRY" =>
              LET passed == window # NoWindow /\ now >= Latest(s).startedAt + window
              IN  \/ ok
                  \/ Latest(s).retryNotBefore = NoTime /\ passed
                  \/ /\ window # NoWindow
                     /\ Latest(s).retryNotBefore = Latest(s).startedAt + window
         /\ Latest(s).disposition = "RETRY" /\ Latest(s).retryNotBefore = NoTime =>
              ok \/ (window # NoWindow /\ now >= Latest(s).startedAt + window)
         /\ evidence = "NOT_APPLIED" /\ Len(r.attempts) < 3 /\ window # NoWindow =>
              Latest(s).disposition = "RETRY"
<1> DEFINE a == Latest(r)
           n == Len(r.attempts)
<1>0. PICK u : u = [ok |-> ok, startedAt |-> a.startedAt, window |-> window, now |-> now]
  OBVIOUS
<1>d. PICK d : d = DecideDisposition(evidence, n, Policy, u)
  OBVIOUS
<1>1. PICK b : b = [a EXCEPT !.status = "RESOLVED", !.ok = ok, !.evidence = evidence,
                      !.disposition = d.disposition, !.retryNotBefore = d.retryNotBefore]
  OBVIOUS
<1>2. /\ a \in Attempt /\ n \in Nat \ {0} /\ a = r.attempts[n] /\ a.startedAt \in Nat
      /\ DOMAIN r.attempts = 1..n
  BY LatestFields
<1> HIDE DEF a, n
<1>3. /\ d.disposition \in Dispositions /\ d.retryNotBefore \in Times
      /\ evidence = "APPLIED" => d.disposition = "COMPLETE"
      /\ evidence = "CONFLICTED" => d.disposition = "REPLAN"
      /\ evidence = "PENDING" => d.disposition = "NULL"
      /\ evidence = "UNKNOWN" => d.disposition = "INVESTIGATE"
      /\ evidence = "NOT_APPLIED" => d.disposition \in {"RETRY", "INVESTIGATE"}
      /\ d.disposition = "RETRY" =>
           \/ ok
           \/ d.retryNotBefore = NoTime /\ window # NoWindow /\ now >= a.startedAt + window
           \/ window # NoWindow /\ d.retryNotBefore = a.startedAt + window
      /\ d.disposition = "RETRY" /\ d.retryNotBefore = NoTime =>
           ok \/ (window # NoWindow /\ now >= a.startedAt + window)
      /\ evidence = "NOT_APPLIED" /\ n < 3 /\ window # NoWindow => d.disposition = "RETRY"
  <2>1. u.ok = ok /\ u.startedAt = a.startedAt /\ u.window = window /\ u.now = now
    BY <1>0
  <2>2. u.ok \in BOOLEAN /\ u.startedAt \in Nat /\ u.now \in Nat /\ u.window \in {-1, 0, 1}
    BY <1>2, <2>1
  <2> QED BY <1>2, <1>d, <2>1, <2>2, Decides
<1>4. /\ b \in Attempt /\ b.startedAt = a.startedAt
      /\ b.status = "RESOLVED" /\ b.ok = ok /\ b.evidence = evidence
      /\ b.disposition = d.disposition /\ b.retryNotBefore = d.retryNotBefore
  BY <1>1, <1>2, <1>3 DEF Attempt
<1>5. PICK list : list = [r.attempts EXCEPT ![n] = b]
  OBVIOUS
<1>6. s = [r EXCEPT !.version = @ + 1, !.status = StatusAfter(evidence, d.disposition),
                    !.attempts = list]
  BY <1>0, <1>d, <1>1, <1>5 DEF ResolvedRecord, a, n
<1>7. /\ r = [version |-> r.version, status |-> r.status, reviewReason |-> r.reviewReason,
              attempts |-> r.attempts, review |-> r.review, episode |-> r.episode,
              blockedBy |-> r.blockedBy]
      /\ r.attempts \in Seq(Attempt) /\ r.version \in Int
  BY DEF Record
<1>8. s = [version |-> r.version + 1, status |-> StatusAfter(evidence, d.disposition),
           reviewReason |-> r.reviewReason, attempts |-> list, review |-> r.review,
           episode |-> r.episode, blockedBy |-> r.blockedBy]
  BY <1>6, <1>7
<1>9. /\ list \in Seq(Attempt) /\ Len(list) = n /\ DOMAIN list = 1..n /\ list[n] = b
      /\ \A i \in 1..n : i # n => list[i] = r.attempts[i]
  BY <1>2, <1>4, <1>5, <1>7
<1>10. list # << >>
  BY <1>2, <1>9
<1>11. StatusAfter(evidence, d.disposition) \in Statuses
  BY DEF StatusAfter, Statuses
<1>12. s \in Record
  BY <1>7, <1>8, <1>9, <1>11 DEF Record
<1>13. Latest(s) = b
  BY <1>8, <1>9 DEF Latest
<1>14. Len(r.attempts) = n /\ Latest(r) = a
  BY DEF a, n
<1> QED BY <1>2, <1>3, <1>4, <1>8, <1>9, <1>10, <1>12, <1>13, <1>14

\* What RecordFits says of a record by itself.
Settles(r) ==
  /\ r \in Record /\ r.blockedBy = NoBlock
  /\ r.status \in {"NONE", "AWAITING_REVIEW"} => r.attempts = << >>
  /\ r.review.decision = "rejected" <=> r.status = "CLOSED" /\ r.attempts = << >>
  /\ r.attempts # << >> /\ Latest(r).status = "RESERVED" => r.status = "OPEN"
  /\ r.attempts # << >> /\ Latest(r).status = "RESOLVED" =>
       /\ r.status = StatusAfter(Latest(r).evidence, Latest(r).disposition)
       /\ Latest(r).evidence = "APPLIED" => Latest(r).disposition = "COMPLETE"
       /\ Latest(r).evidence = "CONFLICTED" => Latest(r).disposition = "REPLAN"
       /\ Latest(r).evidence = "PENDING" => Latest(r).disposition = "NULL"
       /\ Latest(r).evidence = "UNKNOWN" => Latest(r).disposition = "INVESTIGATE"
       /\ Latest(r).evidence = "NOT_APPLIED" => Latest(r).disposition \in {"RETRY", "INVESTIGATE"}

LEMMA RecordSettles ==
  ASSUME op \in Record, RecordFits
  PROVE  Settles(op)
<1>1. CASE op.attempts = << >>
  BY <1>1 DEF RecordFits, Settles
<1>2. CASE op.attempts # << >> /\ Latest(op).status = "RESERVED"
  BY <1>2 DEF RecordFits, LatestFits, Settles
<1>3. CASE op.attempts # << >> /\ Latest(op).status = "RESOLVED"
  <2>1. Latest(op).evidence \in EvidenceStates
    BY <1>3, LatestFields
  <2> QED BY <1>3, <2>1 DEF RecordFits, LatestFits, Settles, EvidenceStates
<1> QED BY <1>1, <1>2, <1>3, LatestFields

\* What a call reports of such a record.
LEMMA Reports ==
  ASSUME NEW r, Settles(r)
  PROVE  /\ Reported(r) \in Results
         /\ r.status \in {"NONE", "OPEN"} => Reported(r) \in {"RETRY", "NULL"}
         /\ r.status = "CLOSED" => Reported(r) \in {"COMPLETE", "REPLAN", "INVESTIGATE", "REVIEW"}
         /\ r.status = "CLOSED" /\ Reported(r) # "REVIEW" =>
              /\ r.attempts # << >> /\ Latest(r).status = "RESOLVED"
              /\ Reported(r) = Latest(r).disposition
              /\ Reported(r) = "COMPLETE" => Latest(r).evidence = "APPLIED"
              /\ Reported(r) = "REPLAN" => Latest(r).evidence = "CONFLICTED"
         /\ r.status = "CLOSED" /\ Reported(r) = "REVIEW" => r.attempts = << >>
<1>1. /\ r \in Record /\ r.blockedBy = NoBlock /\ r.status \in Statuses
      /\ CurrentBlock(r) = "none"
  BY DEF Settles, Record, CurrentBlock, NoBlock
<1>2. CASE r.attempts = << >>
  BY <1>1, <1>2 DEF Settles, Reported, Results, Dispositions, Statuses, LatestLeftItOpen
<1>3. CASE r.attempts # << >> /\ Latest(r).status = "RESERVED"
  BY <1>1, <1>3 DEF Settles, Reported, Results, Dispositions, Statuses, LatestLeftItOpen
<1>4. CASE r.attempts # << >> /\ Latest(r).status = "RESOLVED"
  <2>1. Latest(r).evidence \in EvidenceStates /\ Latest(r).disposition \in Dispositions
    BY <1>1, <1>4, LatestFields
  <2>2. r.status = StatusAfter(Latest(r).evidence, Latest(r).disposition)
    BY <1>4 DEF Settles
  <2>3. CASE r.status = "OPEN"
    <3>1. Reported(r) = Latest(r).disposition
      BY <1>1, <1>4, <2>3 DEF Reported
    <3> QED BY <1>4, <2>1, <2>2, <2>3, <3>1
            DEF Settles, Results, Dispositions, StatusAfter, EvidenceStates
  <2>4. CASE r.status = "CLOSED"
    <3>1. Reported(r) = Latest(r).disposition
      BY <1>1, <1>4, <2>2, <2>4 DEF Reported, LatestLeftItOpen, Settles
    <3> QED BY <1>4, <2>1, <2>2, <2>4, <3>1
            DEF Settles, Results, Dispositions, StatusAfter, EvidenceStates
  <2> QED BY <2>2, <2>3, <2>4 DEF StatusAfter
<1> QED BY <1>1, <1>2, <1>3, <1>4, LatestFields

-----------------------------------------------------------------------------
(* Passes *)

LEMMA PassMoves ==
  ASSUME pass \in [Workers -> PassState], NEW w \in Workers, NEW s \in PassState,
         pass' = [pass EXCEPT ![w] = s]
  PROVE  /\ pass' \in [Workers -> PassState]
         /\ pass'[w] = s
         /\ \A v \in Workers : v # w => pass'[v] = pass[v]
OBVIOUS

LEMMA PassFields ==
  ASSUME NEW s \in PassState
  PROVE  /\ s = [pc |-> s.pc, ok |-> s.ok, answer |-> s.answer, evidence |-> s.evidence,
                 result |-> s.result]
         /\ s.ok \in BOOLEAN /\ s.answer \in AnswerKinds /\ s.evidence \in EvidenceStates
         /\ s.result \in Results /\ s.pc \in Working \cup {"idle", "project"}
  BY DEF PassState

\* Who does not have the lock has nothing to lose but the result it carries.
LEMMA Bystander ==
  ASSUME TypeOK, NEW w \in Workers, WorkerFits(w), pass[w].pc \notin Working,
         example' = example, ProviderKeeps, pass'[w] = pass[w],
         op.status = "CLOSED" => op' = op
  PROVE  WorkerFits(w)'
<1>1. pass[w] \in PassState
  BY DEF TypeOK
<1>2. /\ pass[w].pc \notin {"create", "reserve", "execute", "observe", "save"}
      /\ pass[w].answer \in AnswerKinds
  BY <1>1, PassFields DEF Working
<1>3. PassFits(w)'
  BY <1>2 DEF WorkerFits, PassFits, At
<1>4. AnswerHolds(pass[w].answer)'
  <2> DEFINE answer == pass[w].answer
  <2>1. answer \in AnswerKinds /\ AnswerHolds(answer)
    BY <1>2 DEF WorkerFits
  <2>2. pass'[w].answer = answer
    OBVIOUS
  <2> HIDE DEF answer
  <2>3. ASSUME NEW a, a = answer PROVE AnswerHolds(a)'
    BY <2>1, <2>3 DEF ProviderKeeps
  <2>4. PICK a : a = answer
    OBVIOUS
  <2>5. AnswerHolds(a)' /\ pass'[w].answer = a
    BY <2>2, <2>3, <2>4
  <2> QED BY <2>5 DEF AnswerHolds
<1>5. RequestsOf(w)' /\ EvidenceOf(w)'
  BY <1>2 DEF RequestsOf, EvidenceOf, MayRetry, At
<1>6. ASSUME At(w, "project")' PROVE ResultHolds(pass[w].result)'
  <2>1. At(w, "project")
    BY <1>6 DEF At
  <2>2. ResultHolds(pass[w].result)
    BY <2>1 DEF WorkerFits
  <2>3. InPlace => InPlace'
    BY DEF ProviderKeeps
  <2> QED BY <2>2, <2>3 DEF ResultHolds
<1> QED BY <1>3, <1>4, <1>5, <1>6 DEF WorkerFits

\* A worker that is back where it started.
LEMMA IdleFits ==
  ASSUME NEW w \in Workers, pass'[w] = Idle
  PROVE  WorkerFits(w)'
<1>1. /\ pass'[w].pc = "idle" /\ pass'[w].ok = FALSE /\ pass'[w].answer = "none"
  BY DEF Idle
<1> QED BY <1>1 DEF WorkerFits, PassFits, AnswerHolds, RequestsOf, EvidenceOf, MayRetry, At

\* A worker that takes its result to the application's row.
LEMMA ProjectFits ==
  ASSUME NEW w \in Workers, NEW result, example' = "payments", ResultHolds(result)',
         pass'[w] = [Idle EXCEPT !.pc = "project", !.result = result]
  PROVE  WorkerFits(w)'
<1>1. /\ pass'[w].pc = "project" /\ pass'[w].ok = FALSE /\ pass'[w].answer = "none"
      /\ pass'[w].result = result
  BY DEF Idle
<1>2. ResultHolds(pass[w].result)'
  BY <1>1 DEF ResultHolds
<1> QED BY <1>1, <1>2 DEF WorkerFits, PassFits, AnswerHolds, RequestsOf, EvidenceOf, MayRetry, At

-----------------------------------------------------------------------------
(* Steps that leave the operation and the provider as they are *)

LEMMA Unmoved ==
  ASSUME ExamplesInvariant, UNCHANGED <<example, world, op, kept, flying, clock>>,
         faults' \in Nat, faults' >= faults
  PROVE  /\ ProviderKeeps /\ ProviderFits'
         /\ HistoryKeepsEnds' /\ RecordFits' /\ RequestsFit'
         /\ row' = row => RowTellsTruth'
         /\ (lock' = NoWorker => lock = NoWorker \/ faults' > 0) => EvidenceFits'
<1>1. faults \in Nat
  BY DEF ExamplesInvariant, TypeOK
<1>2. ProviderKeeps
  BY NothingHappens DEF ExamplesInvariant, TypeOK, ProviderFits
<1>3. ProviderFits'
  BY DEF ExamplesInvariant, ProviderFits, ChargeFits, OrderFits, CreditsFit, AnswerHolds, Untouched
<1>4. HistoryKeepsEnds'
  BY DEF ExamplesInvariant, HistoryKeepsEnds
<1>5. RecordFits'
  BY DEF ExamplesInvariant, RecordFits, LatestFits, WindowPassed, Window, Deduplicates
<1>6. RequestsFit'
  BY DEF ExamplesInvariant, RequestsFit, Landable, Untouched, Orphaned, Window, Deduplicates
<1>7. ASSUME row' = row PROVE RowTellsTruth'
  BY <1>7 DEF ExamplesInvariant, RowTellsTruth, InPlace
<1>8. ASSUME lock' = NoWorker => lock = NoWorker \/ faults' > 0
      PROVE  EvidenceFits'
  <2>1. /\ InPlace' <=> InPlace
        /\ Unclear' <=> Unclear
        /\ LeftByOlder' <=> LeftByOlder
    BY DEF InPlace, Unclear, LeftByOlder
  <2> QED BY <1>1, <1>8, <2>1 DEF ExamplesInvariant, EvidenceFits, EvidenceHolds
<1> QED BY <1>2, <1>3, <1>4, <1>5, <1>6, <1>7, <1>8

\* A worker that such a step is not about.
LEMMA Undisturbed ==
  ASSUME TypeOK, NEW w \in Workers, WorkerFits(w), pass'[w] = pass[w],
         UNCHANGED <<example, world, op, kept, flying, clock>>,
         faults' \in Nat, faults' >= faults
  PROVE  WorkerFits(w)'
<1>1. faults \in Nat
  BY DEF TypeOK
<1>2. /\ InPlace' <=> InPlace
      /\ Unclear' <=> Unclear
      /\ LeftByOlder' <=> LeftByOlder
      /\ Orphaned' <=> Orphaned
      /\ Untouched' <=> Untouched
      /\ WindowPassed' <=> WindowPassed
  BY DEF InPlace, Unclear, LeftByOlder, Orphaned, Untouched, WindowPassed, Window
<1>3. PassFits(w)'
  BY <1>2 DEF WorkerFits, PassFits, RetryObserved, At
<1>4. AnswerHolds(pass[w].answer)'
  BY <1>2 DEF WorkerFits, AnswerHolds
<1>5. RequestsOf(w)'
  BY <1>2 DEF WorkerFits, RequestsOf, Quiet, Landable, MayRetry, Window, Deduplicates, At
<1>6. EvidenceOf(w)'
  BY <1>1, <1>2 DEF WorkerFits, EvidenceOf, EvidenceHolds, At
<1>7. At(w, "project")' => ResultHolds(pass[w].result)'
  BY <1>2 DEF WorkerFits, ResultHolds, At
<1> QED BY <1>3, <1>4, <1>5, <1>6, <1>7 DEF WorkerFits

\* The lock of a worker at work, and of one that comes to it or leaves.
LEMMA LockMoves ==
  ASSUME LockIsHeld, NEW w \in Workers, \A v \in Workers : v # w => pass'[v] = pass[v],
         \/ lock \in {w, NoWorker} /\ lock' = IF pass'[w].pc \in Working THEN w ELSE NoWorker
         \/ lock' = lock /\ pass[w].pc \notin Working /\ pass'[w].pc \notin Working
  PROVE  LockIsHeld'
  BY WorkersAssumption DEF LockIsHeld

LEMMA AtWork ==
  ASSUME LockIsHeld, NEW w \in Workers, pass[w].pc \in Working
  PROVE  lock = w /\ \A v \in Workers : v # w => pass[v].pc \notin Working
  BY DEF LockIsHeld

\* Steps that change a pass, and who holds the lock.
LEMMA PassStep ==
  ASSUME ExamplesInvariant, UNCHANGED <<example, world, op, kept, flying, clock>>,
         faults' \in Nat, faults' >= faults,
         lock' \in Workers \cup {NoWorker},
         lock' = NoWorker => lock = NoWorker \/ faults' > 0,
         NEW w \in Workers, NEW s \in PassState, pass' = [pass EXCEPT ![w] = s],
         \/ lock \in {w, NoWorker} /\ lock' = IF s.pc \in Working THEN w ELSE NoWorker
         \/ lock' = lock /\ pass[w].pc \notin Working /\ s.pc \notin Working,
         row' \in {"confirmed", "waiting", "refunded", "needs_attention"},
         RowTellsTruth', WorkerFits(w)'
  PROVE  ExamplesInvariant'
<1>1. /\ pass' \in [Workers -> PassState] /\ pass'[w] = s
      /\ \A v \in Workers : v # w => pass'[v] = pass[v]
  BY PassMoves DEF ExamplesInvariant, TypeOK
<1>2. TypeOK'
  BY <1>1 DEF ExamplesInvariant, TypeOK, Worlds
<1>3. LockIsHeld'
  BY <1>1, LockMoves DEF ExamplesInvariant
<1>4. \A v \in Workers : WorkerFits(v)'
  BY <1>1, Undisturbed DEF ExamplesInvariant
<1>5. /\ ProviderFits' /\ HistoryKeepsEnds' /\ RecordFits' /\ RequestsFit' /\ EvidenceFits'
  BY Unmoved
<1> QED BY <1>2, <1>3, <1>4, <1>5 DEF ExamplesInvariant

LEMMA IdleState == Idle \in PassState /\ Idle.pc = "idle" /\ "idle" \notin Working
  BY DEF Idle, PassState, AnswerKinds, EvidenceStates, Results, Dispositions, Working

LEMMA ProjectState ==
  ASSUME NEW result \in Results, NEW s, s = [Idle EXCEPT !.pc = "project", !.result = result]
  PROVE  s \in PassState /\ s.pc = "project" /\ "project" \notin Working
<1>1. PICK q \in PassState : q = Idle
  BY IdleState
<1>2. PICK t : t = [q EXCEPT !.pc = "project", !.result = result]
  OBVIOUS
<1>3. s = t
  BY <1>1, <1>2
<1>4. /\ q = [pc |-> q.pc, ok |-> q.ok, answer |-> q.answer, evidence |-> q.evidence,
              result |-> q.result]
      /\ q.ok \in BOOLEAN /\ q.answer \in AnswerKinds /\ q.evidence \in EvidenceStates
  BY PassFields
<1>5. t = [pc |-> "project", ok |-> q.ok, answer |-> q.answer, evidence |-> q.evidence,
           result |-> result]
  BY <1>2, <1>4
<1>6. t \in PassState /\ t.pc = "project"
  BY <1>4, <1>5 DEF PassState
<1>7. "project" \notin Working
  BY DEF Working
<1> QED BY <1>3, <1>6, <1>7

\* What is reported of the operation is true.
LEMMA ReportHolds ==
  ASSUME Settles(op'), op'.status # "AWAITING_REVIEW",
         (op'.attempts # << >> /\ Latest(op').status = "RESOLVED"
            /\ Latest(op').evidence = "APPLIED") => InPlace'
  PROVE  /\ Reported(op') \in Results
         /\ Reported(op') = "COMPLETE" => InPlace'
         /\ Reported(op') \notin {"COMPLETE", "RETRY", "NULL"} => op'.status = "CLOSED"
<1>1. op'.status \in Statuses
  BY DEF Settles, Record
<1> QED BY <1>1, Reports DEF Statuses

LEMMA FinishFits ==
  ASSUME NEW w \in Workers, Finish(w, op'), UNCHANGED example, example \in Examples,
         Settles(op'), op'.status = "AWAITING_REVIEW" => Deduplicates,
         (op'.attempts # << >> /\ Latest(op').status = "RESOLVED"
            /\ Latest(op').evidence = "APPLIED") => InPlace',
         pass \in [Workers -> PassState]
  PROVE  /\ lock' = NoWorker
         /\ WorkerFits(w)'
         /\ \E s \in PassState : pass' = [pass EXCEPT ![w] = s] /\ s.pc \notin Working
<1>1. lock' = NoWorker
  BY DEF Finish
<1>2. CASE example = "payments"
  <2>1. op'.status # "AWAITING_REVIEW"
    BY <1>2 DEF Deduplicates
  <2>2. PICK result : result = Reported(op')
    OBVIOUS
  <2>3. /\ result \in Results /\ (result = "COMPLETE" => InPlace')
        /\ result \notin {"COMPLETE", "RETRY", "NULL"} => op'.status = "CLOSED"
    BY <2>1, <2>2, ReportHolds
  <2>4. PICK s : s = [Idle EXCEPT !.pc = "project", !.result = result]
    OBVIOUS
  <2>5. pass' = [pass EXCEPT ![w] = s]
    BY <1>2, <2>2, <2>4 DEF Finish, Become
  <2>6. s \in PassState /\ s.pc \notin Working
    BY <2>3, <2>4, ProjectState
  <2>7. pass'[w] = s
    BY <2>5, <2>6, PassMoves
  <2>8. ResultHolds(result)'
    BY <2>2, <2>3 DEF ResultHolds
  <2>9. WorkerFits(w)'
    BY <1>2, <2>4, <2>7, <2>8, ProjectFits
  <2> QED BY <1>1, <2>5, <2>6, <2>9
<1>3. CASE example # "payments"
  <2>1. pass' = [pass EXCEPT ![w] = Idle]
    BY <1>3 DEF Finish, Become
  <2>2. pass'[w] = Idle
    BY <2>1, IdleState, PassMoves
  <2>3. WorkerFits(w)'
    BY <2>2, IdleFits
  <2> QED BY <1>1, <2>1, <2>3, IdleState
<1> QED BY <1>2, <1>3

LEMMA InvariantSettles ==
  ASSUME ExamplesInvariant
  PROVE  /\ Settles(op)
         /\ op.status = "AWAITING_REVIEW" => Deduplicates
         /\ (op.attempts # << >> /\ Latest(op).status = "RESOLVED"
               /\ Latest(op).evidence = "APPLIED") => InPlace
  BY RecordSettles DEF ExamplesInvariant, TypeOK, RecordFits, EvidenceFits, EvidenceHolds

LEMMA CallReturnsKeeps ==
  ASSUME ExamplesInvariant, NEW w \in Workers, CallReturns(w)
  PROVE  ExamplesInvariant'
<1>1. /\ UNCHANGED <<example, world, op, kept, flying, row, clock, faults>>
      /\ lock = NoWorker /\ Finish(w, op)
  BY DEF CallReturns
<1>2. Finish(w, op')
  BY <1>1
<1>3. /\ Settles(op') /\ (op'.status = "AWAITING_REVIEW" => Deduplicates)
      /\ (op'.attempts # << >> /\ Latest(op').status = "RESOLVED"
            /\ Latest(op').evidence = "APPLIED") => InPlace'
  <2>1. InPlace' <=> InPlace
    BY <1>1 DEF InPlace
  <2> QED BY <1>1, <2>1, InvariantSettles
<1>4. /\ lock' = NoWorker /\ WorkerFits(w)'
      /\ \E s \in PassState : pass' = [pass EXCEPT ![w] = s] /\ s.pc \notin Working
  BY <1>1, <1>2, <1>3, FinishFits DEF ExamplesInvariant, TypeOK
<1>5. PICK s \in PassState : pass' = [pass EXCEPT ![w] = s] /\ s.pc \notin Working
  BY <1>4
<1>6. faults' \in Nat /\ faults' >= faults /\ row' \in {"confirmed", "waiting", "refunded", "needs_attention"}
  BY <1>1 DEF ExamplesInvariant, TypeOK
<1>7. RowTellsTruth'
  BY <1>1, <1>6, Unmoved
<1> QED BY <1>1, <1>4, <1>5, <1>6, <1>7, PassStep

LEMMA CallBusyKeeps ==
  ASSUME ExamplesInvariant, NEW w \in Workers, CallBusy(w)
  PROVE  ExamplesInvariant'
<1>1. /\ UNCHANGED <<example, world, op, kept, flying, lock, row, clock, faults>>
      /\ example = "payments" /\ At(w, "idle")
      /\ pass' = [pass EXCEPT ![w] = [Idle EXCEPT !.pc = "project", !.result = Reported(op)]]
  BY DEF CallBusy, Calls, Become
<1>2. PICK result : result = Reported(op')
  OBVIOUS
<1>3. /\ result \in Results /\ (result = "COMPLETE" => InPlace')
      /\ result \notin {"COMPLETE", "RETRY", "NULL"} => op'.status = "CLOSED"
  <2>1. InPlace' <=> InPlace
    BY <1>1 DEF InPlace
  <2>2. Settles(op') /\ op'.status # "AWAITING_REVIEW"
    BY <1>1, InvariantSettles DEF Deduplicates
  <2> QED BY <1>1, <1>2, <2>1, <2>2, InvariantSettles, ReportHolds
<1>4. PICK s : s = [Idle EXCEPT !.pc = "project", !.result = result]
  OBVIOUS
<1>5. s \in PassState /\ s.pc \notin Working
  BY <1>3, <1>4, ProjectState
<1>6. pass' = [pass EXCEPT ![w] = s]
  BY <1>1, <1>2, <1>4
<1>7. pass'[w] = s
  BY <1>5, <1>6, PassMoves DEF ExamplesInvariant, TypeOK
<1>8. ResultHolds(result)'
  BY <1>2, <1>3 DEF ResultHolds
<1>9. WorkerFits(w)'
  BY <1>1, <1>4, <1>7, <1>8, ProjectFits
<1>10. /\ faults' \in Nat /\ faults' >= faults /\ lock' \in Workers \cup {NoWorker}
       /\ row' \in {"confirmed", "waiting", "refunded", "needs_attention"}
  BY <1>1 DEF ExamplesInvariant, TypeOK
<1>11. RowTellsTruth'
  BY <1>1, <1>10, Unmoved
<1>12. pass[w].pc \notin Working
  BY <1>1, IdleState DEF At
<1> QED BY <1>1, <1>5, <1>6, <1>9, <1>10, <1>11, <1>12, PassStep

LEMMA ProjectKeeps ==
  ASSUME ExamplesInvariant, NEW w \in Workers, Project(w)
  PROVE  ExamplesInvariant'
<1>1. /\ UNCHANGED <<example, world, op, kept, flying, lock, clock, faults>>
      /\ At(w, "project") /\ pass' = [pass EXCEPT ![w] = Idle]
      /\ row' = Projected(pass[w].result)
  BY DEF Project, Become
<1>2. pass'[w] = Idle
  BY <1>1, IdleState, PassMoves DEF ExamplesInvariant, TypeOK
<1>3. WorkerFits(w)'
  BY <1>2, IdleFits
<1>4. ResultHolds(pass[w].result)
  BY <1>1 DEF ExamplesInvariant, WorkerFits
<1>5. InPlace' <=> InPlace
  BY <1>1 DEF InPlace
<1>6. RowTellsTruth'
  BY <1>1, <1>4, <1>5 DEF RowTellsTruth, ResultHolds, Projected
<1>7. row' \in {"confirmed", "waiting", "refunded", "needs_attention"}
  BY <1>1 DEF Projected
<1>8. faults' \in Nat /\ faults' >= faults /\ lock' \in Workers \cup {NoWorker}
  BY <1>1 DEF ExamplesInvariant, TypeOK
<1>9. pass[w].pc \notin Working
  BY <1>1 DEF At, Working
<1> QED BY <1>1, <1>3, <1>6, <1>7, <1>8, <1>9, IdleState, PassStep

LEMMA CrashKeeps ==
  ASSUME ExamplesInvariant, NEW w \in Workers, Crash(w)
  PROVE  ExamplesInvariant'
<1>1. /\ UNCHANGED <<example, world, op, kept, flying, row, clock>>
      /\ pass' = [pass EXCEPT ![w] = Idle] /\ faults' = faults + 1
      /\ lock' = IF lock = w THEN NoWorker ELSE lock
  BY DEF Crash, Become, Fault
<1>2. pass'[w] = Idle
  BY <1>1, IdleState, PassMoves DEF ExamplesInvariant, TypeOK
<1>3. WorkerFits(w)'
  BY <1>2, IdleFits
<1>4. /\ faults' \in Nat /\ faults' >= faults /\ faults' > 0
      /\ lock' \in Workers \cup {NoWorker}
      /\ row' \in {"confirmed", "waiting", "refunded", "needs_attention"}
  BY <1>1 DEF ExamplesInvariant, TypeOK
<1>5. RowTellsTruth'
  BY <1>1, <1>4, Unmoved
<1>6. \/ lock \in {w, NoWorker} /\ lock' = NoWorker
      \/ lock' = lock /\ pass[w].pc \notin Working
  BY <1>1 DEF ExamplesInvariant, LockIsHeld
<1> QED BY <1>1, <1>3, <1>4, <1>5, <1>6, IdleState, PassStep

\* What the next step needs of the record, and what it says.
LEMMA BranchTells ==
  ASSUME ExamplesInvariant, Branch # "idle"
  PROVE  /\ Branch \in {"create", "reserve", "observe"}
         /\ Branch = "create" => op.status = "NONE"
         /\ Branch # "create" => op.status = "OPEN"
         /\ Branch = "observe" =>
              /\ op.attempts # << >>
              /\ (Latest(op).status = "RESOLVED" /\ Latest(op).disposition = "RETRY") => WindowPassed
         /\ Branch = "reserve" =>
              \/ op.attempts = << >>
              \/ /\ op.attempts # << >> /\ Latest(op).status = "RESOLVED"
                 /\ Latest(op).ok /\ Latest(op).evidence = "NOT_APPLIED"
<1>1. /\ op \in Record /\ op.status \in Statuses /\ clock \in Nat /\ RecordFits /\ example \in Examples
  BY DEF ExamplesInvariant, TypeOK, Record
<1>2. CASE op.status # "OPEN"
  BY <1>1, <1>2 DEF Branch, NextStep, Statuses
<1>3. CASE op.status = "OPEN" /\ op.attempts = << >>
  BY <1>3 DEF Branch, NextStep
<1>4. CASE op.status = "OPEN" /\ op.attempts # << >>
  <2> DEFINE a == Latest(op)
  <2>1. /\ a.status \in {"RESERVED", "RESOLVED"} /\ a.startedAt \in Nat /\ a.evidence \in EvidenceStates
        /\ a.disposition \in Dispositions /\ a.retryNotBefore \in Times
    BY <1>1, <1>4, LatestFields
  <2>2. LatestFits
    BY <1>1, <1>4 DEF RecordFits
  <2>3. Branch = IF a.status = "RESERVED" \/ a.evidence = "PENDING" THEN "observe"
                 ELSE IF a.ok THEN "reserve"
                 ELSE IF Delayed(op, clock) THEN "idle" ELSE "observe"
    BY <1>4 DEF Branch, NextStep
  <2>4. CASE a.status = "RESERVED" \/ a.evidence = "PENDING"
    <3>1. a.status = "RESOLVED" => a.disposition = "NULL"
      BY <2>1, <2>2, <2>4 DEF LatestFits
    <3> QED BY <1>4, <2>1, <2>3, <2>4, <3>1
  <2>5. CASE a.status = "RESOLVED" /\ a.evidence # "PENDING"
    <3>1. a.disposition = "RETRY"
      BY <1>4, <2>1, <2>2, <2>5 DEF LatestFits, StatusAfter
    <3>2. a.evidence = "NOT_APPLIED"
      BY <2>1, <2>2, <2>5, <3>1 DEF LatestFits, EvidenceStates
    <3>3. CASE a.ok
      BY <1>4, <2>3, <2>5, <3>2, <3>3
    <3>4. CASE ~a.ok
      <4>1. Branch = "observe" /\ ~Delayed(op, clock)
        BY <2>3, <2>5, <3>4
      <4>2. a.retryNotBefore = NoTime \/ clock >= a.retryNotBefore
        BY <1>1, <1>4, <2>1, <4>1 DEF Delayed, Times, NoTime
      <4>3. WindowPassed
        <5>1. Window \in {-1, 0, 1} /\ NoWindow = -1 /\ NoTime = -1
          BY <1>1, Windows
        <5> QED BY <1>1, <2>1, <2>2, <2>5, <3>1, <3>4, <4>2, <5>1 DEF LatestFits, WindowPassed
      <4> QED BY <1>4, <4>1, <4>3
    <3> QED BY <3>3, <3>4
  <2> QED BY <2>1, <2>4, <2>5
<1> QED BY <1>1, <1>2, <1>3, <1>4 DEF Statuses

LEMMA CallGoesOnKeeps ==
  ASSUME ExamplesInvariant, NEW w \in Workers, CallGoesOn(w)
  PROVE  ExamplesInvariant'
<1>1. /\ UNCHANGED <<example, world, op, kept, flying, row, clock, faults>>
      /\ lock = NoWorker /\ lock' = w /\ Branch # "idle"
      /\ pass' = [pass EXCEPT ![w] =
                    [Idle EXCEPT !.pc = Branch, !.answer = kept.answer,
                                 !.ok = op.attempts # << >> /\ Latest(op).ok]]
  BY DEF CallGoesOn, Calls, Become
<1>2. /\ op \in Record /\ clock \in Nat /\ example \in Examples /\ kept.answer \in AnswerKinds
      /\ flying \subseteq DOMAIN op.attempts /\ pass \in [Workers -> PassState]
  BY DEF ExamplesInvariant, TypeOK
<1> DEFINE ok == op.attempts # << >> /\ Latest(op).ok
<1>3. /\ ok \in BOOLEAN
      /\ ok <=> kept.answer # "none"
  <2>1. CASE op.attempts = << >>
    BY <2>1 DEF ExamplesInvariant, RecordFits, NothingKept
  <2>2. CASE op.attempts # << >>
    BY <1>2, <2>2, LatestFields DEF ExamplesInvariant, RecordFits, LatestFits
  <2> QED BY <2>1, <2>2
<1>4. PICK b : b = ok
  OBVIOUS
<1>5. PICK s : s = [Idle EXCEPT !.pc = Branch, !.answer = kept.answer, !.ok = b]
  OBVIOUS
<1>6. pass' = [pass EXCEPT ![w] = s]
  BY <1>1, <1>4, <1>5
<1> HIDE DEF ok
<1>7. s = [pc |-> Branch, ok |-> b, answer |-> kept.answer, evidence |-> "UNKNOWN",
           result |-> "NULL"]
  BY <1>5 DEF Idle
<1>8. Branch \in {"create", "reserve", "observe"}
  BY <1>1, BranchTells
<1>9. b \in BOOLEAN /\ (b <=> kept.answer # "none")
  BY <1>3, <1>4
<1>10. s \in PassState /\ s.pc \in Working
  BY <1>2, <1>7, <1>8, <1>9
     DEF PassState, Working, EvidenceStates, Results, Dispositions
<1>11. /\ pass'[w] = s /\ s.pc = Branch /\ s.answer = kept.answer /\ s.ok = b
  BY <1>2, <1>6, <1>7, <1>10, PassMoves
<1>12. /\ Orphaned' <=> Orphaned
       /\ Untouched' <=> Untouched
       /\ WindowPassed' <=> WindowPassed
       /\ LeftByOlder' <=> LeftByOlder
  BY <1>1 DEF LeftByOlder, Orphaned, Untouched, WindowPassed, Window
<1>13. PassFits(w)'
  <2>1. RetryObserved(w)' \/ Branch # "observe"
    BY <1>1, <1>12, BranchTells DEF RetryObserved
  <2> QED BY <1>1, <1>8, <1>9, <1>11, <2>1, BranchTells DEF PassFits, At
<1>14. AnswerHolds(pass[w].answer)'
  BY <1>1, <1>11, <1>12 DEF ExamplesInvariant, ProviderFits, AnswerHolds
<1>15. RequestsOf(w)'
  <2>1. ~MayRetry(w)' /\ pass'[w].pc \notin {"execute", "save"}
    BY <1>8, <1>11 DEF MayRetry, At
  <2>2. CASE Branch # "reserve"
    BY <1>11, <2>1, <2>2 DEF RequestsOf, At
  <2>3. CASE Branch = "reserve" /\ op.attempts = << >>
    <3>1. Untouched /\ flying = {}
      BY <1>2, <2>3 DEF ExamplesInvariant, RequestsFit
    <3>2. ~Orphaned
      BY <3>1 DEF Untouched, Orphaned
    <3> QED BY <1>1, <1>12, <2>1, <3>1, <3>2 DEF RequestsOf, Quiet, At
  <2>4. CASE Branch = "reserve" /\ op.attempts # << >>
    <3>1. /\ Latest(op).status = "RESOLVED" /\ Latest(op).ok /\ Latest(op).evidence = "NOT_APPLIED"
      BY <1>1, <2>4, BranchTells
    <3>2. ~Orphaned
      BY <3>1 DEF ExamplesInvariant, RequestsFit
    <3>3. example = "stripe"
      BY <2>4, <3>1
         DEF ExamplesInvariant, EvidenceFits, EvidenceHolds, RecordFits, LatestFits
    <3>4. Deduplicates'
      BY <1>1, <3>3 DEF Deduplicates
    <3> QED BY <1>12, <2>1, <3>2, <3>4 DEF RequestsOf, At
  <2> QED BY <2>2, <2>3, <2>4
<1>16. EvidenceOf(w)'
  <2>1. Branch = "observe" /\ faults' = 0 /\ kept.answer = "none" => LeftByOlder'
    BY <1>1, <1>12, BranchTells DEF ExamplesInvariant, EvidenceFits
  <2> QED BY <1>8, <1>11, <2>1 DEF EvidenceOf, At
<1>17. WorkerFits(w)'
  BY <1>8, <1>11, <1>13, <1>14, <1>15, <1>16 DEF WorkerFits, At
<1>18. /\ faults' \in Nat /\ faults' >= faults /\ lock' # NoWorker
       /\ row' \in {"confirmed", "waiting", "refunded", "needs_attention"}
  BY <1>1, WorkersAssumption DEF ExamplesInvariant, TypeOK
<1>19. RowTellsTruth'
  BY <1>1, <1>18, Unmoved
<1> QED BY <1>1, <1>6, <1>10, <1>17, <1>18, <1>19, PassStep

LEMMA ObservedKeeps ==
  ASSUME ExamplesInvariant, NEW w \in Workers, At(w, "observe"),
         UNCHANGED <<example, world, op, kept, flying, lock, row, clock>>,
         faults' \in {faults, faults + 1}, NEW evidence \in EvidenceStates,
         pass' = [pass EXCEPT ![w] = [pass[w] EXCEPT !.pc = "save", !.evidence = evidence]],
         NEW answer, answer = pass[w].answer,
         Shows(answer, evidence) \/ (evidence = "UNKNOWN" /\ faults' > 0)
  PROVE  ExamplesInvariant'
<1>1. /\ clock \in Nat /\ example \in Examples /\ faults \in Nat
      /\ pass \in [Workers -> PassState] /\ WorkerFits(w) /\ op \in Record
  BY DEF ExamplesInvariant, TypeOK
<1>2. PICK q \in PassState : q = pass[w]
  BY <1>1
<1>3. PICK s : s = [q EXCEPT !.pc = "save", !.evidence = evidence]
  OBVIOUS
<1>4. pass' = [pass EXCEPT ![w] = s]
  BY <1>2, <1>3
<1>5. s = [pc |-> "save", ok |-> q.ok, answer |-> q.answer, evidence |-> evidence,
           result |-> q.result]
  <2>1. q = [pc |-> q.pc, ok |-> q.ok, answer |-> q.answer, evidence |-> q.evidence,
             result |-> q.result]
    BY PassFields
  <2> QED BY <1>3, <2>1
<1>6. s \in PassState /\ s.pc \in Working
  BY <1>5, PassFields DEF PassState, Working
<1>7. /\ pass'[w] = s /\ s.pc = "save" /\ s.answer = answer /\ s.ok = pass[w].ok
      /\ s.evidence = evidence
  BY <1>1, <1>2, <1>4, <1>5, <1>6, PassMoves
<1>8. /\ op.attempts # << >> /\ RetryObserved(w) /\ op.status = "OPEN"
      /\ Latest(op).status = "RESOLVED" => answer = kept.answer
      /\ pass[w].ok <=> answer # "none"
  BY <1>1 DEF WorkerFits, PassFits, At
<1>9. /\ Orphaned' <=> Orphaned
      /\ Untouched' <=> Untouched
      /\ WindowPassed' <=> WindowPassed
      /\ LeftByOlder' <=> LeftByOlder
      /\ Unclear' <=> Unclear
      /\ InPlace' <=> InPlace
      /\ Deduplicates' <=> Deduplicates
      /\ Window' = Window
      /\ Latest(op)' = Latest(op)
  BY DEF LeftByOlder, Orphaned, Untouched, WindowPassed, Window, Unclear, InPlace, Deduplicates
<1>10. PassFits(w)'
  BY <1>7, <1>8, <1>9 DEF PassFits, RetryObserved, At
<1>11. AnswerHolds(pass[w].answer)'
  <2>1. AnswerHolds(answer)
    BY <1>1 DEF WorkerFits
  <2> QED BY <1>7, <1>9, <2>1 DEF AnswerHolds
<1>12. RequestsOf(w)'
  <2>1. ASSUME ~Deduplicates, evidence = "NOT_APPLIED",
               Latest(op).status = "RESOLVED", Latest(op).disposition = "RETRY"
        PROVE  Quiet'
    <3>1. Untouched /\ answer = "none"
      BY <2>1 DEF Shows, EvidenceHolds, Deduplicates
    <3>2. WindowPassed
      BY <1>8, <2>1, <3>1 DEF RetryObserved
    <3>3. \A n \in flying : ~Landable(n)
      <4>1. Latest(op).startedAt \in Nat /\ Latest(op) = op.attempts[Len(op.attempts)]
        BY <1>1, <1>8, LatestFields
      <4>2. Window \in {-1, 0, 1}
        BY <1>1, Windows
      <4>3. \A n \in flying : Landable(n) => n = Len(op.attempts)
        BY DEF ExamplesInvariant, RequestsFit
      <4> QED BY <1>1, <3>2, <4>1, <4>2, <4>3 DEF Landable, WindowPassed
    <3> QED BY <1>9, <3>1, <3>3 DEF Quiet, Landable
  <2>2. Orphaned => evidence # "NOT_APPLIED"
    BY DEF Shows
  <2> QED BY <1>7, <1>9, <2>1, <2>2 DEF RequestsOf, MayRetry, At
<1>13. EvidenceOf(w)'
  <2>1. faults' = 0 /\ answer = "none" => LeftByOlder
    BY <1>1 DEF WorkerFits, EvidenceOf, At
  <2>2. EvidenceHolds(evidence, answer)
    BY DEF Shows, EvidenceHolds
  <2>3. EvidenceHolds(evidence, answer)'
    BY <1>9, <2>2 DEF EvidenceHolds
  <2>4. evidence \in {"UNKNOWN", "NOT_APPLIED"} =>
          faults' > 0 \/ Unclear \/ (evidence = "NOT_APPLIED" /\ LeftByOlder)
    BY <1>1, <2>1 DEF Shows
  <2> QED BY <1>7, <1>9, <2>1, <2>3, <2>4 DEF EvidenceOf, EvidenceHolds, At
<1>14. WorkerFits(w)'
  BY <1>7, <1>10, <1>11, <1>12, <1>13 DEF WorkerFits, At
<1>15. /\ faults' \in Nat /\ faults' >= faults /\ lock' \in Workers \cup {NoWorker}
       /\ row' \in {"confirmed", "waiting", "refunded", "needs_attention"}
  BY <1>1 DEF ExamplesInvariant, TypeOK
<1>16. RowTellsTruth'
  BY <1>15, Unmoved
<1>17. lock = w
  BY AtWork DEF ExamplesInvariant, At, Working
<1> QED BY <1>4, <1>6, <1>14, <1>15, <1>16, <1>17, PassStep

LEMMA ObserveKeeps ==
  ASSUME ExamplesInvariant, NEW w \in Workers, Observe(w) \/ ObserveFails(w)
  PROVE  ExamplesInvariant'
<1>1. /\ example \in Examples /\ world \in Worlds /\ ChargeFits /\ OrderFits /\ CreditsFit
      /\ pass[w] \in PassState /\ AnswerHolds(pass[w].answer) /\ faults \in Nat
  BY DEF ExamplesInvariant, TypeOK, ProviderFits, WorkerFits
<1>2. PICK answer \in AnswerKinds : answer = pass[w].answer
  BY <1>1, PassFields
<1>3. AnswerHolds(answer)
  BY <1>1, <1>2
<1>4. CASE Observe(w)
  <2>1. PICK evidence : evidence = Evidence(answer, See(answer))
    OBVIOUS
  <2>2. Shows(answer, evidence)
    BY <1>1, <1>3, <2>1, ObservationShows
  <2>3. evidence \in EvidenceStates
    BY <2>2 DEF Shows
  <2>4. /\ At(w, "observe")
        /\ UNCHANGED <<example, world, op, kept, flying, lock, row, clock, faults>>
        /\ pass' = [pass EXCEPT ![w] = [pass[w] EXCEPT !.pc = "save", !.evidence = evidence]]
    BY <1>2, <1>4, <2>1 DEF Observe, Become
  <2> QED BY <1>2, <2>2, <2>3, <2>4, ObservedKeeps
<1>5. CASE ObserveFails(w)
  <2>1. PICK evidence : evidence = Evidence(answer, [status |-> "failed"])
    OBVIOUS
  <2>2. evidence = "UNKNOWN"
    BY <1>1, <2>1, FailedReadShows
  <2>3. evidence \in EvidenceStates
    BY <2>2 DEF EvidenceStates
  <2>4. /\ At(w, "observe") /\ faults' = faults + 1
        /\ UNCHANGED <<example, world, op, kept, flying, lock, row, clock>>
        /\ pass' = [pass EXCEPT ![w] = [pass[w] EXCEPT !.pc = "save", !.evidence = evidence]]
    BY <1>2, <1>5, <2>1 DEF ObserveFails, Become, Fault
  <2>5. faults' > 0
    BY <1>1, <2>4
  <2> QED BY <1>2, <2>2, <2>3, <2>4, <2>5, ObservedKeeps
<1> QED BY <1>4, <1>5

-----------------------------------------------------------------------------
(* Steps of the worker that has the lock *)

LEMMA WorkStep ==
  ASSUME ExamplesInvariant, NEW w \in Workers, pass[w].pc \in Working, op.status # "CLOSED",
         example' = example, row' = row, ProviderKeeps,
         NEW s \in PassState, pass' = [pass EXCEPT ![w] = s],
         lock' = IF s.pc \in Working THEN w ELSE NoWorker, WorkerFits(w)'
  PROVE  /\ LockIsHeld' /\ RowTellsTruth' /\ \A v \in Workers : WorkerFits(v)'
         /\ pass' \in [Workers -> PassState] /\ lock' \in Workers \cup {NoWorker}
<1>1. /\ pass' \in [Workers -> PassState] /\ pass'[w] = s
      /\ \A v \in Workers : v # w => pass'[v] = pass[v]
  BY PassMoves DEF ExamplesInvariant, TypeOK
<1>2. lock = w /\ \A v \in Workers : v # w => pass[v].pc \notin Working
  BY AtWork DEF ExamplesInvariant
<1>3. LockIsHeld'
  BY <1>1, <1>2, LockMoves DEF ExamplesInvariant
<1>4. RowTellsTruth'
  BY DEF ExamplesInvariant, RowTellsTruth, ProviderKeeps
<1>5. ASSUME NEW v \in Workers PROVE WorkerFits(v)'
  <2>1. CASE v = w
    BY <2>1
  <2>2. CASE v # w
    BY <1>1, <1>2, <2>2, Bystander DEF ExamplesInvariant
  <2> QED BY <2>1, <2>2
<1> QED BY <1>1, <1>3, <1>4, <1>5

\* The worker goes on with another step, and nothing else about it changes.
LEMMA GotoState ==
  ASSUME pass \in [Workers -> PassState], NEW w \in Workers, NEW pc \in Working,
         Goto(w, pc)
  PROVE  \E s \in PassState : /\ pass' = [pass EXCEPT ![w] = s] /\ pass'[w] = s
                              /\ s.pc = pc /\ s.ok = pass[w].ok /\ s.answer = pass[w].answer
                              /\ s.evidence = pass[w].evidence
<1>1. PICK q \in PassState : q = pass[w]
  OBVIOUS
<1>2. q = [pc |-> q.pc, ok |-> q.ok, answer |-> q.answer, evidence |-> q.evidence,
           result |-> q.result]
  BY PassFields
<1>3. PICK s : s = [q EXCEPT !.pc = pc]
  OBVIOUS
<1>4. s = [pc |-> pc, ok |-> q.ok, answer |-> q.answer, evidence |-> q.evidence,
           result |-> q.result]
  BY <1>2, <1>3
<1>5. s \in PassState
  BY <1>4, PassFields DEF PassState
<1>6. pass' = [pass EXCEPT ![w] = s]
  BY <1>1, <1>3 DEF Goto, Become
<1>7. pass'[w] = s
  BY <1>5, <1>6, PassMoves
<1> QED BY <1>1, <1>4, <1>5, <1>6, <1>7

LEMMA CreateKeeps ==
  ASSUME ExamplesInvariant, NEW w \in Workers, Create(w)
  PROVE  ExamplesInvariant'
<1>1. /\ pass[w].pc = "create" /\ At(w, "create")
      /\ UNCHANGED <<example, world, kept, flying, row, clock, faults>>
  BY DEF Create, At
<1>2. /\ clock \in Nat /\ example \in Examples /\ faults \in Nat /\ op \in Record
      /\ pass \in [Workers -> PassState] /\ WorkerFits(w)
      /\ flying \subseteq DOMAIN op.attempts
  BY DEF ExamplesInvariant, TypeOK
<1>3. op.status = "NONE" /\ (pass[w].ok <=> pass[w].answer # "none")
  BY <1>1, <1>2 DEF WorkerFits, PassFits
<1>4. op.attempts = << >> /\ kept = NothingKept
  BY <1>3 DEF ExamplesInvariant, RecordFits
<1>5. Untouched /\ flying = {} /\ ~Orphaned
  <2>1. Untouched /\ flying = {}
    BY <1>2, <1>4 DEF ExamplesInvariant, RequestsFit
  <2> QED BY <2>1 DEF Untouched, Orphaned
<1>6. ProviderKeeps
  BY <1>1, NothingHappens DEF ExamplesInvariant, TypeOK, ProviderFits
<1>7. PICK status \in {"OPEN", "AWAITING_REVIEW"}, needed \in BOOLEAN, episode \in Episode :
        /\ op' = NewRecord(status, needed, episode)
        /\ status = "AWAITING_REVIEW" => Deduplicates /\ Finish(w, op')
        /\ status = "OPEN" => Goto(w, "reserve") /\ UNCHANGED lock
  <2>1. PICK review \in ReviewsAsked :
          IF review
          THEN /\ op' = NewRecord("AWAITING_REVIEW", TRUE, [generation |-> 1, openedAt |-> clock])
               /\ Finish(w, op')
          ELSE /\ op' = NewRecord("OPEN", FALSE, NoEpisode)
               /\ Goto(w, "reserve") /\ UNCHANGED lock
    BY DEF Create
  <2>2. [generation |-> 1, openedAt |-> clock] \in Episode /\ NoEpisode \in Episode
    BY <1>2 DEF Episode, NoEpisode
  <2>3. CASE review
    <3>1. Deduplicates
      BY <2>3 DEF ReviewsAsked, Deduplicates
    <3> QED BY <2>1, <2>2, <2>3, <3>1
  <2>4. CASE ~review
    BY <2>1, <2>2, <2>4
  <2> QED BY <2>3, <2>4
<1>8. /\ op' \in Record /\ op'.status = status /\ op'.attempts = << >>
      /\ op'.blockedBy = NoBlock /\ op'.review.decision = "none"
  BY <1>7, NewRecordFields DEF Statuses
<1>9. /\ Untouched' /\ ~Orphaned' /\ (Deduplicates' <=> Deduplicates)
  BY <1>1, <1>5 DEF Untouched, Orphaned, Deduplicates
<1>10. /\ HistoryKeepsEnds' /\ ProviderFits' /\ RecordFits' /\ RequestsFit' /\ EvidenceFits'
  <2>1. HistoryKeepsEnds'
    BY <1>1 DEF ExamplesInvariant, HistoryKeepsEnds
  <2>2. ProviderFits'
    BY <1>1, <1>4, <1>6 DEF ProviderKeeps, ProviderFits, AnswerHolds, NothingKept
  <2>3. RecordFits'
    BY <1>1, <1>4, <1>7, <1>8, <1>9 DEF RecordFits
  <2>4. RequestsFit'
    BY <1>1, <1>5, <1>9 DEF RequestsFit
  <2>5. EvidenceFits'
    BY <1>8 DEF EvidenceFits
  <2> QED BY <2>1, <2>2, <2>3, <2>4, <2>5
<1>11. \E s \in PassState : /\ pass' = [pass EXCEPT ![w] = s]
                            /\ lock' = IF s.pc \in Working THEN w ELSE NoWorker
                            /\ WorkerFits(w)'
  <2>1. CASE status = "AWAITING_REVIEW"
    <3>1. Settles(op')
      BY <1>8, <2>1 DEF Settles
    <3>2. /\ lock' = NoWorker /\ WorkerFits(w)'
          /\ \E s \in PassState : pass' = [pass EXCEPT ![w] = s] /\ s.pc \notin Working
      BY <1>1, <1>2, <1>7, <1>8, <2>1, <3>1, FinishFits
    <3> QED BY <3>2
  <2>2. CASE status = "OPEN"
    <3>1. Goto(w, "reserve") /\ lock' = lock /\ "reserve" \in Working
      BY <1>7, <2>2 DEF Working
    <3>2. PICK s \in PassState : /\ pass' = [pass EXCEPT ![w] = s] /\ pass'[w] = s
                                 /\ s.pc = "reserve" /\ s.ok = pass[w].ok
                                 /\ s.answer = pass[w].answer
      BY <1>2, <3>1, GotoState
    <3>3. lock' = w
      BY <1>1, <3>1, AtWork DEF ExamplesInvariant, Working
    <3>4. PassFits(w)'
      BY <1>3, <1>8, <2>2, <3>2 DEF PassFits, At
    <3>5. AnswerHolds(pass[w].answer)'
      <4>1. AnswerHolds(pass[w].answer)
        BY <1>2 DEF WorkerFits
      <4> QED BY <1>1, <1>5, <1>9, <3>2, <4>1 DEF AnswerHolds
    <3>6. RequestsOf(w)' /\ EvidenceOf(w)'
      BY <1>1, <1>5, <1>9, <3>2 DEF RequestsOf, EvidenceOf, MayRetry, Quiet, At
    <3>7. WorkerFits(w)'
      BY <3>2, <3>4, <3>5, <3>6 DEF WorkerFits, At
    <3> QED BY <3>1, <3>2, <3>3, <3>7
  <2> QED BY <2>1, <2>2
<1>12. PICK s \in PassState : /\ pass' = [pass EXCEPT ![w] = s]
                              /\ lock' = IF s.pc \in Working THEN w ELSE NoWorker
                              /\ WorkerFits(w)'
  BY <1>11
<1>13. /\ LockIsHeld' /\ RowTellsTruth' /\ \A v \in Workers : WorkerFits(v)'
       /\ pass' \in [Workers -> PassState] /\ lock' \in Workers \cup {NoWorker}
  BY <1>1, <1>3, <1>6, <1>12, WorkStep DEF Working
<1>14. TypeOK'
  BY <1>1, <1>5, <1>6, <1>8, <1>13 DEF ExamplesInvariant, TypeOK, ProviderKeeps
<1> QED BY <1>10, <1>13, <1>14 DEF ExamplesInvariant

LEMMA ReserveKeeps ==
  ASSUME ExamplesInvariant, NEW w \in Workers, Reserve(w)
  PROVE  ExamplesInvariant'
<1>1. /\ pass[w].pc = "reserve" /\ kept' = NothingKept
      /\ UNCHANGED <<example, world, flying, lock, row, clock, faults>>
      /\ op' = [op EXCEPT !.version = @ + 1, !.attempts = Append(@, Reserved(clock, Window))]
      /\ pass' = [pass EXCEPT ![w] = [Idle EXCEPT !.pc = "execute"]]
  BY DEF Reserve, At, Become
<1>2. /\ clock \in Nat /\ example \in Examples /\ faults \in Nat /\ op \in Record
      /\ pass \in [Workers -> PassState] /\ WorkerFits(w)
      /\ flying \subseteq DOMAIN op.attempts /\ RecordFits /\ lock = w
  BY <1>1, AtWork DEF ExamplesInvariant, TypeOK, Working
<1>3. op.status = "OPEN"
  BY <1>1, <1>2 DEF WorkerFits, PassFits
<1>4. PICK a : a = Reserved(clock, Window)
  OBVIOUS
<1>5. Window \in Times
  BY <1>2, Windows
<1>6. /\ a \in Attempt /\ a.status = "RESERVED" /\ a.startedAt = clock /\ ~a.ok
      /\ a.evidence = "UNKNOWN"
  BY <1>2, <1>4, <1>5, ReservedFields
<1>7. PICK r : r = [op EXCEPT !.version = @ + 1, !.attempts = Append(@, a)]
  OBVIOUS
<1>8. /\ r \in Record
      /\ r.status = op.status /\ r.review = op.review /\ r.blockedBy = op.blockedBy
      /\ r.attempts # << >> /\ Latest(r) = a
      /\ Len(r.attempts) = Len(op.attempts) + 1 /\ Len(op.attempts) \in Nat
      /\ DOMAIN r.attempts = 1..Len(op.attempts) + 1
      /\ DOMAIN op.attempts = 1..Len(op.attempts)
      /\ \A n \in DOMAIN op.attempts : r.attempts[n] = op.attempts[n]
  <2>1. op = [version |-> op.version, status |-> op.status, reviewReason |-> op.reviewReason,
              attempts |-> op.attempts, review |-> op.review, episode |-> op.episode,
              blockedBy |-> op.blockedBy]
    BY <1>2 DEF Record
  <2>2. r = [version |-> op.version + 1, status |-> op.status, reviewReason |-> op.reviewReason,
             attempts |-> Append(op.attempts, a), review |-> op.review, episode |-> op.episode,
             blockedBy |-> op.blockedBy]
    BY <1>7, <2>1
  <2>3. op \in Record /\ a \in Attempt
    BY <1>2, <1>6
  <2> HIDE <1>7
  <2> QED BY <2>2, <2>3, AppendedFields
<1>9. op' = r
  BY <1>1, <1>4, <1>7
<1>10. PICK s : s = [Idle EXCEPT !.pc = "execute"]
  OBVIOUS
<1>11. /\ s = [pc |-> "execute", ok |-> FALSE, answer |-> "none", evidence |-> "UNKNOWN",
               result |-> "NULL"]
  BY <1>10 DEF Idle
<1>12. s \in PassState
  <2>1. /\ s.pc \in Working \cup {"idle", "project"} /\ s.ok \in BOOLEAN
        /\ s.answer \in AnswerKinds /\ s.evidence \in EvidenceStates /\ s.result \in Results
    <3>1. PICK q \in PassState : q = Idle
      BY IdleState
    <3>2. /\ s.pc = "execute" /\ s.ok = q.ok /\ s.answer = q.answer /\ s.evidence = q.evidence
          /\ s.result = q.result
      BY <1>11, <3>1 DEF Idle
    <3> QED BY <3>2, PassFields DEF Working
  <2>2. s = [pc |-> s.pc, ok |-> s.ok, answer |-> s.answer, evidence |-> s.evidence,
             result |-> s.result]
    BY <1>11
  <2> QED BY <2>1, <2>2 DEF PassState
<1>13. /\ pass' = [pass EXCEPT ![w] = s] /\ pass'[w] = s /\ s.pc \in Working
  <2>1. pass' = [pass EXCEPT ![w] = s]
    BY <1>1, <1>10
  <2> QED BY <1>2, <1>11, <1>12, <2>1, PassMoves DEF Working
<1>14. /\ ~Orphaned /\ (~Deduplicates => Quiet)
  BY <1>1, <1>2 DEF WorkerFits, RequestsOf
<1>15. /\ Orphaned' <=> Orphaned
       /\ Untouched' <=> Untouched
       /\ Deduplicates' <=> Deduplicates
       /\ Window' = Window
       /\ Latest(op') = a
  BY <1>1, <1>8, <1>9 DEF Orphaned, Untouched, Deduplicates, Window
<1>16. ~Deduplicates => Untouched' /\ \A n \in flying' : ~Landable(n)'
  <2>1. ~Deduplicates => Untouched /\ \A n \in flying : ~(clock < op.attempts[n].startedAt + Window)
    BY <1>14 DEF Quiet, Landable
  <2>2. \A n \in flying : op'.attempts[n] = op.attempts[n]
    BY <1>2, <1>8, <1>9
  <2> QED BY <1>1, <1>15, <2>1, <2>2 DEF Landable
<1>17. ProviderKeeps
  BY <1>1, NothingHappens DEF ExamplesInvariant, TypeOK, ProviderFits
<1>18. /\ HistoryKeepsEnds' /\ ProviderFits' /\ RecordFits' /\ RequestsFit' /\ EvidenceFits'
  <2>1. HistoryKeepsEnds'
    <3>1. Len(<< >>) = 0
      OBVIOUS
    <3> QED BY <1>1, <3>1, BoundsAssumption DEF HistoryKeepsEnds, NothingKept
  <2>2. ProviderFits'
    BY <1>1, <1>17 DEF ProviderKeeps, ProviderFits, AnswerHolds, NothingKept
  <2>3. LatestFits'
    BY <1>1, <1>3, <1>6, <1>8, <1>9, <1>15 DEF LatestFits, NothingKept
  <2>4. \A n \in DOMAIN op'.attempts : op'.attempts[n].startedAt <= clock'
    <3>1. \A n \in DOMAIN op.attempts : op.attempts[n].startedAt <= clock
      BY <1>2 DEF RecordFits
    <3>2. op'.attempts[Len(op.attempts) + 1] = a
      BY <1>8, <1>9 DEF Latest
    <3> QED BY <1>1, <1>2, <1>6, <1>8, <1>9, <3>1, <3>2
  <2>5. RecordFits'
    BY <1>2, <1>3, <1>8, <1>9, <2>3, <2>4 DEF RecordFits
  <2>6. RequestsFit'
    BY <1>8, <1>9, <1>14, <1>15, <1>16 DEF RequestsFit, Landable
  <2>7. EvidenceFits'
    BY <1>1, <1>2, <1>6, <1>15, WorkersAssumption DEF EvidenceFits
  <2> QED BY <2>1, <2>2, <2>5, <2>6, <2>7
<1>19. WorkerFits(w)'
  <2>1. PassFits(w)'
    <3>1. Len(op'.attempts) \notin flying'
      BY <1>1, <1>2, <1>8, <1>9
    <3> QED BY <1>3, <1>6, <1>8, <1>9, <1>11, <1>13, <1>15, <3>1 DEF PassFits, At
  <2>2. AnswerHolds(pass[w].answer)'
    BY <1>11, <1>13 DEF AnswerHolds
  <2>3. RequestsOf(w)'
    <3>1. ~Deduplicates' => Quiet'
      BY <1>15, <1>16 DEF Quiet
    <3> QED BY <1>14, <1>15, <3>1 DEF RequestsOf
  <2>4. EvidenceOf(w)'
    BY <1>11, <1>13 DEF EvidenceOf, At
  <2> QED BY <1>11, <1>13, <2>1, <2>2, <2>3, <2>4 DEF WorkerFits, At
<1>20. /\ LockIsHeld' /\ RowTellsTruth' /\ \A v \in Workers : WorkerFits(v)'
       /\ pass' \in [Workers -> PassState] /\ lock' \in Workers \cup {NoWorker}
  BY <1>1, <1>2, <1>3, <1>12, <1>13, <1>17, <1>19, WorkStep DEF Working
<1>21. TypeOK'
  <2>1. kept' \in [answer : AnswerKinds, observations : Seq(Nat), polls : Nat]
    BY <1>1 DEF NothingKept, AnswerKinds
  <2>2. flying' \subseteq DOMAIN op'.attempts
    BY <1>1, <1>2, <1>8, <1>9
  <2> QED BY <1>1, <1>8, <1>9, <1>17, <1>20, <2>1, <2>2 DEF ExamplesInvariant, TypeOK, ProviderKeeps
<1> QED BY <1>18, <1>20, <1>21 DEF ExamplesInvariant

\* A request that is served, or is left on its way, whatever its caller gets to know.
LEMMA ExecuteKeeps ==
  ASSUME ExamplesInvariant, NEW w \in Workers, ExecuteAnswered(w) \/ ExecuteUnanswered(w)
  PROVE  ExamplesInvariant'
<1>1. /\ pass[w].pc = "execute" /\ UNCHANGED <<example, op, kept, lock, row, clock>>
      /\ \/ world' = Serve.world /\ flying' = flying
         \/ world' = world /\ flying' = flying \cup {Len(op.attempts)}
  BY DEF ExecuteAnswered, ExecuteUnanswered, At
<1>2. /\ clock \in Nat /\ example \in Examples /\ faults \in Nat /\ op \in Record
      /\ pass \in [Workers -> PassState] /\ WorkerFits(w) /\ world \in Worlds
      /\ flying \subseteq DOMAIN op.attempts /\ RecordFits /\ lock = w
      /\ ChargeFits /\ OrderFits /\ CreditsFit
  BY <1>1, AtWork DEF ExamplesInvariant, TypeOK, Working, ProviderFits
<1>3. /\ op.status = "OPEN" /\ op.attempts # << >> /\ Latest(op).status = "RESERVED"
      /\ pass[w].answer = "none" /\ ~pass[w].ok /\ kept.answer = "none"
      /\ Len(op.attempts) \in DOMAIN op.attempts
  <2>1. /\ op.status = "OPEN" /\ op.attempts # << >> /\ Latest(op).status = "RESERVED"
        /\ pass[w].answer = "none" /\ ~pass[w].ok
    BY <1>1, <1>2 DEF WorkerFits, PassFits, At
  <2> QED BY <1>2, <2>1, LatestFields DEF RecordFits, LatestFits
<1>4. ~Orphaned /\ (~Deduplicates => Quiet) /\ (~Deduplicates => Untouched)
  BY <1>1, <1>2 DEF WorkerFits, RequestsOf, Quiet
<1>5. PICK answer : answer = Serve.answer
  OBVIOUS
<1>6. /\ ProviderKeeps
      /\ world' = Serve.world => answer \in AnswerKinds \ {"none"} /\ AnswerHolds(answer)'
  <2>1. CASE world' = Serve.world
    BY <1>1, <1>2, <1>4, <1>5, <2>1, Serves
  <2>2. CASE world' = world
    <3>1. ProviderKeeps
      BY <1>1, <1>2, <2>2, NothingHappens
    <3>2. CASE world' = Serve.world
      BY <2>1, <3>2
    <3> QED BY <3>1, <3>2
  <2> QED BY <1>1, <2>1, <2>2
<1>7. \E s \in PassState :
        /\ pass' = [pass EXCEPT ![w] = s] /\ pass'[w] = s /\ s.pc = "observe"
        /\ \/ /\ s.ok /\ s.answer = answer /\ answer \in AnswerKinds \ {"none"}
              /\ AnswerHolds(answer)' /\ faults' = faults
           \/ ~s.ok /\ s.answer = "none" /\ faults' > 0 /\ faults' \in Nat
  <2>1. CASE ExecuteAnswered(w)
    <3>1. /\ world' = Serve.world /\ faults' = faults
          /\ pass' = [pass EXCEPT ![w] = [pass[w] EXCEPT !.pc = "observe", !.ok = TRUE,
                                                         !.answer = Serve.answer]]
      BY <2>1 DEF ExecuteAnswered, Become
    <3>2. PICK q \in PassState : q = pass[w]
      BY <1>2
    <3>3. PICK s : s = [q EXCEPT !.pc = "observe", !.ok = TRUE, !.answer = answer]
      OBVIOUS
    <3>4. q = [pc |-> q.pc, ok |-> q.ok, answer |-> q.answer, evidence |-> q.evidence,
               result |-> q.result]
      BY PassFields
    <3>5. s = [pc |-> "observe", ok |-> TRUE, answer |-> answer, evidence |-> q.evidence,
               result |-> q.result]
      BY <3>3, <3>4
    <3>6. answer \in AnswerKinds \ {"none"} /\ AnswerHolds(answer)'
      BY <1>6, <3>1
    <3>7. s \in PassState
      BY <3>5, <3>6, PassFields DEF PassState, Working
    <3>8. pass' = [pass EXCEPT ![w] = s]
      BY <1>5, <3>1, <3>2, <3>3
    <3>9. pass'[w] = s
      BY <1>2, <3>7, <3>8, PassMoves
    <3>10. s.pc = "observe" /\ s.ok /\ s.answer = answer
      BY <3>5
    <3> HIDE <1>5
    <3> QED BY <3>1, <3>6, <3>7, <3>8, <3>9, <3>10
  <2>2. CASE ExecuteUnanswered(w)
    <3>1. Goto(w, "observe") /\ faults' = faults + 1 /\ "observe" \in Working
      BY <2>2 DEF ExecuteUnanswered, Fault, Working
    <3>2. faults' > 0 /\ faults' \in Nat
      BY <1>2, <3>1
    <3> QED BY <1>2, <1>3, <3>1, <3>2, GotoState
  <2> QED BY <2>1, <2>2
<1>8. PICK s \in PassState :
        /\ pass' = [pass EXCEPT ![w] = s] /\ pass'[w] = s /\ s.pc = "observe"
        /\ \/ /\ s.ok /\ s.answer = answer /\ answer \in AnswerKinds \ {"none"}
              /\ AnswerHolds(answer)' /\ faults' = faults
           \/ ~s.ok /\ s.answer = "none" /\ faults' > 0 /\ faults' \in Nat
  BY <1>7
<1>9. /\ ~Orphaned' /\ (Deduplicates' <=> Deduplicates) /\ Window' = Window
      /\ (WindowPassed' <=> WindowPassed) /\ Latest(op)' = Latest(op)
  BY <1>1, <1>4, <1>6 DEF ProviderKeeps, Deduplicates, Window, WindowPassed
<1>10. HistoryKeepsEnds'
  BY <1>1 DEF ExamplesInvariant, HistoryKeepsEnds
<1>11. ProviderFits'
  BY <1>1, <1>3, <1>6 DEF ProviderKeeps, ProviderFits, AnswerHolds
<1>12. RecordFits'
  BY <1>1, <1>2, <1>9 DEF RecordFits, LatestFits
<1>13. RequestsFit'
  <2>1. \A n \in flying' : Landable(n)' => n = Len(op.attempts) /\ Untouched'
    <3>1. ASSUME NEW n \in flying', Landable(n)'
          PROVE  n = Len(op.attempts) /\ Untouched'
      <4>1. Landable(n) /\ ~Deduplicates
        BY <1>1, <1>9, <3>1 DEF Landable
      <4>2. n \notin flying
        BY <1>4, <4>1 DEF Quiet
      <4>3. n = Len(op.attempts) /\ world' = world
        BY <1>1, <3>1, <4>2
      <4> QED BY <1>1, <1>4, <4>1, <4>3 DEF Untouched
    <3> QED BY <3>1
  <2> QED BY <1>1, <1>3, <1>9, <2>1 DEF RequestsFit
<1>14. EvidenceFits'
  BY <1>1, <1>2, <1>3, <1>9, WorkersAssumption DEF EvidenceFits
<1>15. WorkerFits(w)'
  <2>1. PassFits(w)'
    BY <1>1, <1>3, <1>8, <1>9 DEF PassFits, RetryObserved, At
  <2>2. AnswerHolds(pass[w].answer)'
    BY <1>8 DEF AnswerHolds
  <2>3. RequestsOf(w)'
    BY <1>8, <1>9 DEF RequestsOf, MayRetry, At
  <2>4. EvidenceOf(w)'
    BY <1>8 DEF EvidenceOf, At
  <2> QED BY <1>8, <2>1, <2>2, <2>3, <2>4 DEF WorkerFits, At
<1>16. s.pc \in Working /\ lock' = w
  BY <1>1, <1>2, <1>8 DEF Working
<1>17. /\ LockIsHeld' /\ RowTellsTruth' /\ \A v \in Workers : WorkerFits(v)'
       /\ pass' \in [Workers -> PassState] /\ lock' \in Workers \cup {NoWorker}
  BY <1>1, <1>3, <1>6, <1>8, <1>15, <1>16, WorkStep DEF Working
<1>18. TypeOK'
  <2>1. faults' \in Nat
    BY <1>2, <1>8
  <2>2. flying' \subseteq DOMAIN op'.attempts
    BY <1>1, <1>2, <1>3
  <2> QED BY <1>1, <1>6, <1>17, <2>1, <2>2 DEF ExamplesInvariant, TypeOK, ProviderKeeps
<1> QED BY <1>10, <1>11, <1>12, <1>13, <1>14, <1>17, <1>18 DEF ExamplesInvariant

LEMMA FirstAndRest ==
  ASSUME NEW e \in Nat, NEW rest \in Seq(Nat), NEW b, b = <<e>> \o rest
  PROVE  /\ b \in Seq(Nat) /\ Len(b) = Len(rest) + 1
         /\ b[1] = e
         /\ \A i \in 2..Len(rest) + 1 : b[i] = rest[i - 1]
<1>0. <<e>> \in Seq(Nat)
  OBVIOUS
<1>1. PICK first \in Seq(Nat) : first = <<e>>
  BY <1>0
<1>2. Len(first) = 1 /\ first[1] = e
  BY <1>1
<1>3. b = first \o rest
  BY <1>1
<1> QED BY <1>2, <1>3, ConcatProperties, LenProperties

\* A history of so many observations that keeps its ends.
EndsKept(list, polls) ==
  /\ list \in Seq(Nat)
  /\ Len(list) = IF polls < MaxObservations THEN polls ELSE MaxObservations
  /\ Len(list) > 0 => list[1] = 1
  /\ \A i \in 2..Len(list) : list[i] = polls - Len(list) + i

\* boundedObservations keeps the first observation and, without a gap, the latest ones.
LEMMA BoundedEnds ==
  ASSUME NEW list, NEW polls \in Nat, EndsKept(list, polls),
         NEW b, b = BoundedObservations(Append(list, polls + 1))
  PROVE  EndsKept(b, polls + 1)
<1>0. /\ list \in Seq(Nat)
      /\ Len(list) = IF polls < MaxObservations THEN polls ELSE MaxObservations
      /\ Len(list) > 0 => list[1] = 1
      /\ \A i \in 2..Len(list) : list[i] = polls - Len(list) + i
  BY DEF EndsKept
<1> DEFINE m == Len(list)
<1>1. MaxObservations \in Nat \ {0} /\ m \in Nat
  BY <1>0, BoundsAssumption
<1>2. PICK c : c = Append(list, polls + 1)
  OBVIOUS
<1>3. /\ c \in Seq(Nat) /\ Len(c) = m + 1 /\ c[m + 1] = polls + 1
      /\ \A i \in 1..m : c[i] = list[i]
      /\ c # << >> /\ Head(c) = c[1]
  BY <1>0, <1>2
<1>4. b = IF Len(c) <= MaxObservations THEN c
          ELSE <<Head(c)>> \o SubSeq(c, Len(c) - MaxObservations + 2, Len(c))
  BY <1>2 DEF BoundedObservations
<1>5. CASE m + 1 <= MaxObservations
  <2>1. b = c /\ m = polls
    BY <1>0, <1>1, <1>3, <1>4, <1>5
  <2> QED BY <1>0, <1>1, <1>3, <1>5, <2>1 DEF EndsKept
<1>6. CASE ~(m + 1 <= MaxObservations)
  <2>1. m = MaxObservations /\ polls >= m
    BY <1>0, <1>1, <1>6
  <2>2. PICK rest : rest = SubSeq(c, 3, m + 1)
    OBVIOUS
  <2>3. /\ rest \in Seq(Nat) /\ Len(rest) = m - 1
        /\ \A i \in 1..m - 1 : rest[i] = c[i + 2]
    BY <1>1, <1>3, <2>1, <2>2, SubSeqProperties
  <2>4. b = <<c[1]>> \o rest
    <3>1. Len(c) - MaxObservations + 2 = 3 /\ ~(Len(c) <= MaxObservations)
      BY <1>1, <1>3, <2>1
    <3> QED BY <1>3, <1>4, <2>2, <3>1
  <2>5. c[1] = 1
    BY <1>0, <1>1, <1>3, <2>1
  <2>6. /\ b \in Seq(Nat) /\ Len(b) = m
        /\ b[1] = 1
        /\ \A i \in 2..m : b[i] = rest[i - 1]
    <3>1. PICK e \in Nat : e = 1
      OBVIOUS
    <3>2. b = <<e>> \o rest
      BY <2>4, <2>5, <3>1
    <3>3. PICK q : q = b
      OBVIOUS
    <3>4. q = <<e>> \o rest
      BY <3>2, <3>3
    <3>5. /\ q \in Seq(Nat) /\ Len(q) = Len(rest) + 1 /\ q[1] = e
          /\ \A i \in 2..Len(rest) + 1 : q[i] = rest[i - 1]
      BY <2>3, <3>4, FirstAndRest
    <3>6. Len(rest) + 1 = m
      BY <1>1, <2>3
    <3> QED BY <3>1, <3>3, <3>5, <3>6
  <2>7. \A i \in 2..m : b[i] = polls + 1 - m + i
    <3>1. ASSUME NEW i \in 2..m PROVE b[i] = polls + 1 - m + i
      <4>1. b[i] = c[i + 1]
        <5>1. b[i] = rest[i - 1] /\ i - 1 \in 1..m - 1 /\ (i - 1) + 2 = i + 1
          BY <1>1, <2>6
        <5> QED BY <2>3, <5>1
      <4>2. CASE i = m
        BY <1>1, <1>3, <4>1, <4>2
      <4>3. CASE i + 1 \in 2..m
        BY <1>0, <1>1, <1>3, <4>1, <4>3
      <4> QED BY <1>1, <4>2, <4>3
    <3> QED BY <3>1
  <2>8. Len(b) = IF polls + 1 < MaxObservations THEN polls + 1 ELSE MaxObservations
    BY <1>1, <2>1, <2>6
  <2>9. \A i \in 2..Len(b) : b[i] = polls + 1 - Len(b) + i
    BY <2>6, <2>7
  <2> QED BY <2>6, <2>8, <2>9 DEF EndsKept
<1> QED BY <1>5, <1>6

\* The record after the answer to a pass, and what it says of it.
LEMMA SavedRecord ==
  ASSUME ExamplesInvariant, NEW w \in Workers, pass[w].pc = "save",
         UNCHANGED <<example, world, flying, row, clock, faults>>, op' = Resolved(w),
         kept'.answer = pass[w].answer, op.status = "OPEN", op.attempts # << >>
  PROVE  /\ op' \in Record
         /\ RecordFits' /\ RequestsFit' /\ EvidenceFits'
         /\ op'.attempts # << >> /\ Len(op'.attempts) = Len(op.attempts)
         /\ DOMAIN op'.attempts = DOMAIN op.attempts
         /\ Latest(op').status = "RESOLVED" /\ Latest(op').evidence = pass[w].evidence
         /\ Latest(op').disposition = "RETRY" =>
              op'.status = "OPEN" /\ pass[w].evidence = "NOT_APPLIED"
         /\ op'.status # "AWAITING_REVIEW"
         /\ \A n \in DOMAIN op.attempts : op'.attempts[n].startedAt = op.attempts[n].startedAt
<1>1. /\ clock \in Nat /\ example \in Examples /\ faults \in Nat /\ op \in Record
      /\ pass[w] \in PassState /\ WorkerFits(w)
      /\ flying \subseteq DOMAIN op.attempts /\ RecordFits
  BY DEF ExamplesInvariant, TypeOK
<1>2. /\ pass[w].ok \in BOOLEAN /\ pass[w].evidence \in EvidenceStates
      /\ pass[w].ok <=> pass[w].answer # "none"
  BY <1>1, PassFields DEF WorkerFits, PassFits
<1>3. PICK window \in {-1, 0, 1} : window = Window
  BY <1>1, Windows
<1>4. PICK ok, evidence : ok = pass[w].ok /\ evidence = pass[w].evidence
  OBVIOUS
<1>5. PICK r : r = ResolvedRecord(op, ok, evidence, Policy, window, clock)
  OBVIOUS
<1>6. op' = r
  BY <1>3, <1>4, <1>5 DEF Resolved
<1>7. ok \in BOOLEAN /\ evidence \in EvidenceStates
  BY <1>2, <1>4
<1>8. /\ r \in Record
      /\ r.status = StatusAfter(evidence, Latest(r).disposition)
      /\ r.review = op.review /\ r.blockedBy = op.blockedBy
      /\ r.attempts # << >> /\ Len(r.attempts) = Len(op.attempts)
      /\ DOMAIN r.attempts = DOMAIN op.attempts
      /\ Latest(r).status = "RESOLVED" /\ Latest(r).ok = ok /\ Latest(r).evidence = evidence
      /\ Latest(r).startedAt = Latest(op).startedAt
      /\ \A n \in DOMAIN op.attempts : r.attempts[n].startedAt = op.attempts[n].startedAt
      /\ evidence = "APPLIED" => Latest(r).disposition = "COMPLETE"
      /\ evidence = "CONFLICTED" => Latest(r).disposition = "REPLAN"
      /\ evidence = "PENDING" => Latest(r).disposition = "NULL"
      /\ evidence = "UNKNOWN" => Latest(r).disposition = "INVESTIGATE"
      /\ evidence = "NOT_APPLIED" => Latest(r).disposition \in {"RETRY", "INVESTIGATE"}
      /\ Latest(r).disposition = "RETRY" =>
           LET passed == window # NoWindow /\ clock >= Latest(r).startedAt + window
           IN  \/ ok
               \/ Latest(r).retryNotBefore = NoTime /\ passed
               \/ /\ window # NoWindow
                  /\ Latest(r).retryNotBefore = Latest(r).startedAt + window
      /\ evidence = "NOT_APPLIED" /\ Len(op.attempts) < 3 /\ window # NoWindow =>
           Latest(r).disposition = "RETRY"
  BY <1>1, <1>5, <1>7, ResolvedFields
<1>9. /\ Latest(op') = Latest(r) /\ Window' = window
      /\ Orphaned' <=> Orphaned
      /\ Untouched' <=> Untouched
      /\ Deduplicates' <=> Deduplicates
      /\ LeftByOlder' <=> LeftByOlder
      /\ Unclear' <=> Unclear
      /\ InPlace' <=> InPlace
  <2>1. Window' = window
    BY <1>3 DEF Window
  <2> QED BY <1>6, <1>8, <2>1
          DEF Orphaned, Untouched, Deduplicates, LeftByOlder, Unclear, InPlace
<1>10. /\ kept'.answer = "none" <=> ~ok
       /\ ok <=> kept'.answer # "none"
  BY <1>2, <1>4
<1>11. LatestFits'
  <2>1. WindowPassed' <=> window # NoWindow /\ clock >= Latest(r).startedAt + window
    BY <1>9 DEF WindowPassed
  <2> QED BY <1>6, <1>7, <1>8, <1>9, <1>10, <2>1 DEF LatestFits, EvidenceStates
<1>12. /\ op'.status \in {"OPEN", "CLOSED"}
       /\ Latest(r).disposition = "RETRY" => op'.status = "OPEN" /\ evidence = "NOT_APPLIED"
       /\ Latest(r).disposition = "INVESTIGATE" => evidence \in {"UNKNOWN", "NOT_APPLIED"}
  BY <1>6, <1>7, <1>8 DEF StatusAfter, EvidenceStates
<1>13. RecordFits'
  <2>1. \A n \in DOMAIN op'.attempts : op'.attempts[n].startedAt <= clock'
    BY <1>1, <1>6, <1>8 DEF RecordFits
  <2>2. op'.review.decision # "rejected" /\ op'.blockedBy = NoBlock
    BY <1>1, <1>6, <1>8 DEF RecordFits
  <2> QED BY <1>6, <1>8, <1>11, <1>12, <2>1, <2>2 DEF RecordFits
<1>14. RequestsFit'
  <2>1. \A n \in flying : Landable(n)' => n = Len(op'.attempts) /\ Untouched'
    <3>1. ASSUME NEW n \in flying, Landable(n)'
          PROVE  n = Len(op'.attempts) /\ Untouched'
      <4>1. Landable(n)
        BY <1>1, <1>3, <1>6, <1>8, <1>9, <3>1 DEF Landable
      <4> QED BY <1>6, <1>8, <1>9, <4>1 DEF ExamplesInvariant, RequestsFit
    <3> QED BY <3>1
  <2>2. Orphaned => flying = {} /\ evidence # "NOT_APPLIED"
    BY <1>1, <1>4 DEF ExamplesInvariant, RequestsFit, WorkerFits, RequestsOf, At
  <2> QED BY <1>6, <1>8, <1>9, <2>1, <2>2 DEF RequestsFit
<1>15. EvidenceFits'
  <2>1. /\ EvidenceHolds(evidence, kept'.answer)
        /\ evidence \in {"UNKNOWN", "NOT_APPLIED"} =>
             faults > 0 \/ Unclear \/ (evidence = "NOT_APPLIED" /\ LeftByOlder)
        /\ faults = 0 /\ kept'.answer = "none" => LeftByOlder
    BY <1>1, <1>4 DEF WorkerFits, EvidenceOf, At
  <2>2. Latest(r).disposition = "INVESTIGATE" => faults > 0 \/ Unclear
    <3>1. ASSUME Latest(r).disposition = "INVESTIGATE", evidence = "NOT_APPLIED", LeftByOlder
          PROVE  FALSE
      <4>1. Len(op.attempts) < 3 /\ window # NoWindow
        BY <1>1, <1>3, <3>1, Windows DEF LeftByOlder
      <4> QED BY <1>8, <3>1, <4>1
    <3> QED BY <1>12, <2>1, <3>1
  <2>3. EvidenceHolds(Latest(op).evidence, kept.answer)'
    BY <1>8, <1>9, <2>1 DEF EvidenceHolds
  <2> QED BY <1>9, <2>1, <2>2, <2>3 DEF EvidenceFits
<1> QED BY <1>4, <1>6, <1>8, <1>12, <1>13, <1>14, <1>15

LEMMA SaveKeeps ==
  ASSUME ExamplesInvariant, NEW w \in Workers, Save(w)
  PROVE  ExamplesInvariant'
<1>1. /\ pass[w].pc = "save" /\ op' = Resolved(w)
      /\ UNCHANGED <<example, world, flying, row, clock, faults>>
      /\ kept' = [answer |-> pass[w].answer, polls |-> kept.polls + 1,
                  observations |-> BoundedObservations(Append(kept.observations, kept.polls + 1))]
      /\ IF RetriesNow(op, op')
         THEN Goto(w, "reserve") /\ lock' = lock
         ELSE Finish(w, op')
  BY DEF Save, At
<1>2. /\ clock \in Nat /\ example \in Examples /\ faults \in Nat /\ op \in Record
      /\ pass \in [Workers -> PassState] /\ WorkerFits(w)
      /\ flying \subseteq DOMAIN op.attempts /\ lock = w
      /\ kept \in [answer : AnswerKinds, observations : Seq(Nat), polls : Nat]
  BY <1>1, AtWork DEF ExamplesInvariant, TypeOK, Working
<1>3. /\ op.status = "OPEN" /\ op.attempts # << >> /\ (pass[w].ok <=> pass[w].answer # "none")
      /\ kept'.answer = pass[w].answer /\ pass[w].answer \in AnswerKinds
  BY <1>1, <1>2, PassFields DEF WorkerFits, PassFits
<1>4. /\ op' \in Record
      /\ RecordFits' /\ RequestsFit' /\ EvidenceFits'
      /\ op'.attempts # << >> /\ Len(op'.attempts) = Len(op.attempts)
      /\ DOMAIN op'.attempts = DOMAIN op.attempts
      /\ Latest(op').status = "RESOLVED" /\ Latest(op').evidence = pass[w].evidence
      /\ Latest(op').disposition = "RETRY" =>
           op'.status = "OPEN" /\ pass[w].evidence = "NOT_APPLIED"
      /\ op'.status # "AWAITING_REVIEW"
      /\ \A n \in DOMAIN op.attempts : op'.attempts[n].startedAt = op.attempts[n].startedAt
  BY <1>1, <1>3, SavedRecord
<1>5. ProviderKeeps
  BY <1>1, NothingHappens DEF ExamplesInvariant, TypeOK, ProviderFits
<1>6. /\ Orphaned' <=> Orphaned
      /\ Untouched' <=> Untouched
      /\ Deduplicates' <=> Deduplicates
      /\ Window' = Window
  BY <1>1 DEF Orphaned, Untouched, Deduplicates, Window
<1>7. AnswerHolds(kept.answer)' /\ AnswerHolds(pass[w].answer)
  <2>1. AnswerHolds(pass[w].answer)
    BY <1>2 DEF WorkerFits
  <2> QED BY <1>1, <1>3, <1>6, <2>1 DEF AnswerHolds
<1>8. ProviderFits'
  BY <1>5, <1>7 DEF ProviderKeeps, ProviderFits
<1>9. HistoryKeepsEnds' /\ kept'.observations \in Seq(Nat) /\ kept'.polls \in Nat
  <2>1. EndsKept(kept.observations, kept.polls) /\ kept.polls \in Nat
    BY <1>2 DEF ExamplesInvariant, HistoryKeepsEnds, EndsKept
  <2>2. EndsKept(kept'.observations, kept.polls + 1) /\ kept'.polls = kept.polls + 1
    BY <1>1, <2>1, BoundedEnds
  <2>3. EndsKept(kept.observations, kept.polls)'
    BY <2>2 DEF EndsKept
  <2>4. HistoryKeepsEnds'
    BY <2>3 DEF HistoryKeepsEnds, EndsKept
  <2>5. kept'.observations \in Seq(Nat)
    BY <2>2 DEF EndsKept
  <2>6. kept'.polls \in Nat
    BY <2>1, <2>2
  <2> QED BY <2>4, <2>5, <2>6
<1>10. \E s \in PassState : /\ pass' = [pass EXCEPT ![w] = s]
                            /\ lock' = IF s.pc \in Working THEN w ELSE NoWorker
                            /\ WorkerFits(w)'
  <2>1. CASE RetriesNow(op, op')
    <3>1. Goto(w, "reserve") /\ lock' = w /\ "reserve" \in Working
      BY <1>1, <1>2, <2>1 DEF Working
    <3>2. PICK s \in PassState : /\ pass' = [pass EXCEPT ![w] = s] /\ pass'[w] = s
                                 /\ s.pc = "reserve" /\ s.ok = pass[w].ok
                                 /\ s.answer = pass[w].answer
      BY <1>2, <3>1, GotoState
    <3>3. /\ Latest(op).status = "RESOLVED" /\ Latest(op).disposition = "RETRY"
          /\ op'.status = "OPEN" /\ pass[w].evidence = "NOT_APPLIED"
      BY <1>4, <2>1 DEF RetriesNow
    <3>4. ~Orphaned /\ (~Deduplicates => Quiet)
      BY <1>1, <1>2, <3>3 DEF WorkerFits, RequestsOf, MayRetry, At
    <3>5. ~Deduplicates' => Quiet'
      <4>1. \A n \in flying : op'.attempts[n].startedAt = op.attempts[n].startedAt
        BY <1>2, <1>4
      <4> QED BY <1>1, <1>6, <3>4, <4>1 DEF Quiet, Landable
    <3>6. PassFits(w)'
      BY <1>3, <3>2, <3>3 DEF PassFits, At
    <3>7. AnswerHolds(pass[w].answer)'
      BY <1>3, <1>7, <3>2 DEF AnswerHolds
    <3>8. RequestsOf(w)' /\ EvidenceOf(w)'
      BY <1>6, <3>2, <3>4, <3>5 DEF RequestsOf, EvidenceOf, At
    <3>9. WorkerFits(w)'
      BY <3>2, <3>6, <3>7, <3>8 DEF WorkerFits, At
    <3> QED BY <3>1, <3>2, <3>9
  <2>2. CASE ~RetriesNow(op, op')
    <3>1. Settles(op')
      <4>1. op'.attempts # << >> => LatestFits'
        BY <1>4 DEF RecordFits
      <4>2. Latest(op').evidence \in EvidenceStates
        BY <1>4, LatestFields
      <4> QED BY <1>4, <4>1, <4>2 DEF RecordFits, LatestFits, Settles, EvidenceStates
    <3>2. Latest(op').evidence = "APPLIED" => InPlace'
      BY <1>4 DEF EvidenceFits, EvidenceHolds
    <3>3. /\ lock' = NoWorker /\ WorkerFits(w)'
          /\ \E s \in PassState : pass' = [pass EXCEPT ![w] = s] /\ s.pc \notin Working
      <4>1. Finish(w, op')
        BY <1>1, <2>2
      <4> QED BY <1>1, <1>2, <1>4, <3>1, <3>2, <4>1, FinishFits
    <3> QED BY <3>3
  <2> QED BY <2>1, <2>2
<1>11. PICK s \in PassState : /\ pass' = [pass EXCEPT ![w] = s]
                              /\ lock' = IF s.pc \in Working THEN w ELSE NoWorker
                              /\ WorkerFits(w)'
  BY <1>10
<1>12. /\ LockIsHeld' /\ RowTellsTruth' /\ \A v \in Workers : WorkerFits(v)'
       /\ pass' \in [Workers -> PassState] /\ lock' \in Workers \cup {NoWorker}
  BY <1>1, <1>3, <1>5, <1>11, WorkStep DEF Working
<1>13. TypeOK'
  <2>1. kept' \in [answer : AnswerKinds, observations : Seq(Nat), polls : Nat]
    <3>1. kept' = [answer |-> kept'.answer, observations |-> kept'.observations,
                   polls |-> kept'.polls]
      BY <1>1
    <3> QED BY <1>3, <1>9, <3>1
  <2>2. flying' \subseteq DOMAIN op'.attempts
    BY <1>1, <1>2, <1>4
  <2> QED BY <1>1, <1>4, <1>5, <1>12, <2>1, <2>2 DEF ExamplesInvariant, TypeOK, ProviderKeeps
<1> QED BY <1>4, <1>8, <1>9, <1>12, <1>13 DEF ExamplesInvariant

-----------------------------------------------------------------------------
(* Steps of the provider, of others and of time *)

\* What an answer says stays true of a worker that is left alone.
LEMMA AnswerStays ==
  ASSUME ProviderKeeps, NEW answer \in AnswerKinds, AnswerHolds(answer),
         NEW later, later = answer
  PROVE  AnswerHolds(later)'
<1>1. ASSUME NEW a, a = answer PROVE AnswerHolds(a)'
  BY <1>1 DEF ProviderKeeps
<1> QED BY <1>1

\* Nothing but the provider changes; and where that may end Untouched, nobody relies on it.
LEMMA WorldStep ==
  ASSUME ExamplesInvariant, UNCHANGED <<example, op, kept, lock, pass, row, clock>>,
         flying' \subseteq flying, faults' \in {faults, faults + 1}, ProviderKeeps,
         \/ Untouched => Untouched'
         \/ /\ op.attempts # << >> /\ \A n \in flying' : ~Landable(n)
            /\ \A w \in Workers : ~Deduplicates =>
                 pass[w].pc \notin {"reserve", "execute"} /\ ~MayRetry(w)
  PROVE  ExamplesInvariant'
<1>1. /\ clock \in Nat /\ example \in Examples /\ faults \in Nat /\ faults' \in Nat
      /\ faults' >= faults /\ kept.answer \in AnswerKinds /\ pass \in [Workers -> PassState]
  BY DEF ExamplesInvariant, TypeOK
<1>2. /\ Orphaned' => Orphaned
      /\ Deduplicates' <=> Deduplicates
      /\ Window' = Window
      /\ WindowPassed' <=> WindowPassed
      /\ LeftByOlder' <=> LeftByOlder
      /\ Unclear => Unclear'
      /\ InPlace => InPlace'
  <2>1. Window' = Window
    BY DEF Window
  <2> QED BY <2>1 DEF ProviderKeeps, Deduplicates, Window, WindowPassed, LeftByOlder
<1>3. TypeOK'
  BY <1>1 DEF ExamplesInvariant, TypeOK, ProviderKeeps
<1>4. HistoryKeepsEnds' /\ LockIsHeld'
  BY DEF ExamplesInvariant, HistoryKeepsEnds, LockIsHeld
<1>5. ProviderFits'
  <2>1. AnswerHolds(kept.answer)
    BY DEF ExamplesInvariant, ProviderFits
  <2>2. PICK a \in AnswerKinds : a = kept.answer
    BY <1>1
  <2>3. AnswerHolds(a)'
    BY <2>1, <2>2, AnswerStays
  <2>4. AnswerHolds(kept.answer)'
    BY <2>2, <2>3 DEF AnswerHolds
  <2> QED BY <2>4 DEF ProviderFits, ProviderKeeps
<1>6. RecordFits'
  BY <1>2 DEF ExamplesInvariant, RecordFits, LatestFits
<1>7. RequestsFit'
  <2>1. \A n \in flying' : Landable(n)' => Landable(n) /\ n = Len(op.attempts) /\ Untouched
    BY <1>2 DEF ExamplesInvariant, RequestsFit, Landable
  <2>2. op.attempts = << >> => Untouched
    BY DEF ExamplesInvariant, RequestsFit
  <2>3. Orphaned => flying = {} /\ Latest(op).evidence # "NOT_APPLIED"
    BY DEF ExamplesInvariant, RequestsFit
  <2> QED BY <1>2, <2>1, <2>2, <2>3 DEF RequestsFit
<1>8. EvidenceFits'
  BY <1>1, <1>2 DEF ExamplesInvariant, EvidenceFits, EvidenceHolds
<1>9. RowTellsTruth'
  BY <1>2 DEF ExamplesInvariant, RowTellsTruth
<1>10. ASSUME NEW w \in Workers PROVE WorkerFits(w)'
  <2>1. WorkerFits(w) /\ pass[w] \in PassState
    BY <1>1 DEF ExamplesInvariant
  <2>2. PassFits(w)'
    BY <1>1, <1>2, <2>1 DEF WorkerFits, PassFits, RetryObserved, At
  <2>3. AnswerHolds(pass[w].answer)'
    <3>1. PICK a \in AnswerKinds : a = pass[w].answer
      BY <2>1, PassFields
    <3>2. AnswerHolds(a)
      BY <2>1, <3>1 DEF WorkerFits
    <3>3. AnswerHolds(a)'
      BY <3>2, AnswerStays
    <3> QED BY <3>1, <3>3 DEF AnswerHolds
  <2>4. RequestsOf(w)'
    <3>1. MayRetry(w)' <=> MayRetry(w)
      BY DEF MayRetry, At
    <3>2. Quiet => \A n \in flying' : ~Landable(n)'
      BY <1>2 DEF Quiet, Landable
    <3> QED BY <1>2, <2>1, <3>1, <3>2 DEF WorkerFits, RequestsOf, Quiet, At
  <2>5. EvidenceOf(w)'
    BY <1>1, <1>2, <2>1 DEF WorkerFits, EvidenceOf, EvidenceHolds, At
  <2>6. At(w, "project")' => ResultHolds(pass[w].result)'
    BY <1>2, <2>1 DEF WorkerFits, ResultHolds, At
  <2> QED BY <2>2, <2>3, <2>4, <2>5, <2>6 DEF WorkerFits
<1> QED BY <1>3, <1>4, <1>5, <1>6, <1>7, <1>8, <1>9, <1>10 DEF ExamplesInvariant

LEMMA MovesKeep ==
  ASSUME ExamplesInvariant, Settle \/ Others
  PROVE  ExamplesInvariant'
<1>1. /\ UNCHANGED <<example, op, kept, flying, lock, pass, row, clock>>
      /\ faults' \in {faults, faults + 1} /\ (world' \in WorldSteps \/ world' \in OthersSteps)
  BY DEF Settle, Others, Fault
<1>2. ProviderKeeps /\ (Untouched => Untouched')
  BY <1>1, MovesByItself DEF ExamplesInvariant, TypeOK, ProviderFits
<1> QED BY <1>1, <1>2, WorldStep

LEMMA LandKeeps ==
  ASSUME ExamplesInvariant, NEW n \in flying, Land(n)
  PROVE  ExamplesInvariant'
<1>1. /\ UNCHANGED <<example, op, kept, lock, pass, row, clock, faults>>
      /\ flying' = flying \ {n} /\ world' = Serve.world
      /\ ~Deduplicates => Landable(n)
  BY DEF Land, Landable
<1>2. /\ example \in Examples /\ world \in Worlds /\ flying \subseteq DOMAIN op.attempts
      /\ ChargeFits /\ OrderFits /\ CreditsFit
  BY DEF ExamplesInvariant, TypeOK, ProviderFits
<1>3. /\ ~Orphaned
      /\ \A i \in flying : Landable(i) => i = Len(op.attempts) /\ Untouched
  BY DEF ExamplesInvariant, RequestsFit
<1>4. PICK answer : answer = Serve.answer
  OBVIOUS
<1>5. ProviderKeeps
  BY <1>1, <1>2, <1>3, <1>4, Serves
<1>6. op.attempts # << >>
  <2>1. DOMAIN << >> = {}
    OBVIOUS
  <2> QED BY <1>2, <2>1
<1>7. \A i \in flying' : ~Landable(i)
  BY <1>1, <1>3 DEF Landable
<1>8. \A w \in Workers : ~Deduplicates =>
        pass[w].pc \notin {"reserve", "execute"} /\ ~MayRetry(w)
  BY <1>1 DEF ExamplesInvariant, WorkerFits, RequestsOf, Quiet
<1> QED BY <1>1, <1>5, <1>6, <1>7, <1>8, WorldStep

LEMMA TickKeeps ==
  ASSUME ExamplesInvariant, Tick
  PROVE  ExamplesInvariant'
<1>1. clock' = clock + 1 /\ UNCHANGED <<example, world, op, kept, flying, lock, pass, row, faults>>
  BY DEF Tick
<1>2. /\ clock \in Nat /\ example \in Examples /\ op \in Record
      /\ flying \subseteq DOMAIN op.attempts
  BY DEF ExamplesInvariant, TypeOK
<1>3. /\ Orphaned' <=> Orphaned
      /\ Untouched' <=> Untouched
      /\ Deduplicates' <=> Deduplicates
      /\ Window' = Window
      /\ LeftByOlder' <=> LeftByOlder
      /\ Unclear' <=> Unclear
      /\ InPlace' <=> InPlace
  BY <1>1 DEF Orphaned, Untouched, Deduplicates, Window, LeftByOlder, Unclear, InPlace
<1>4. Window \in {-1, 0, 1}
  BY <1>2, Windows
<1>5. op.attempts # << >> => (WindowPassed => WindowPassed')
  <2>1. op.attempts # << >> => Latest(op).startedAt \in Nat
    BY <1>2, LatestFields
  <2> QED BY <1>1, <1>2, <1>3, <1>4, <2>1 DEF WindowPassed
<1>6. \A n \in DOMAIN op.attempts : op.attempts[n].startedAt \in Nat
  <2>1. op.attempts \in Seq(Attempt)
    BY <1>2 DEF Record
  <2>2. \A n \in DOMAIN op.attempts : op.attempts[n] \in Attempt
    BY <2>1, ElementOfSeq, LenProperties
  <2> QED BY <2>2 DEF Attempt
<1>7. \A n \in flying : Landable(n)' => Landable(n)
  BY <1>1, <1>2, <1>3, <1>4, <1>6 DEF Landable
<1>8. TypeOK'
  BY <1>1, <1>2 DEF ExamplesInvariant, TypeOK, Worlds
<1>9. HistoryKeepsEnds' /\ LockIsHeld'
  BY <1>1 DEF ExamplesInvariant, HistoryKeepsEnds, LockIsHeld
<1>10. ProviderFits' /\ EvidenceFits' /\ RowTellsTruth'
  BY <1>1, <1>3 DEF ExamplesInvariant, ProviderFits, ChargeFits, OrderFits, CreditsFit, AnswerHolds,
                    EvidenceFits, EvidenceHolds, RowTellsTruth
<1>11. RecordFits'
  <2>1. \A n \in DOMAIN op.attempts : op.attempts[n].startedAt <= clock + 1
    BY <1>2, <1>6 DEF ExamplesInvariant, RecordFits
  <2>2. op.attempts # << >> => LatestFits'
    BY <1>1, <1>3, <1>5 DEF ExamplesInvariant, RecordFits, LatestFits
  <2> QED BY <1>1, <1>3, <2>1, <2>2 DEF ExamplesInvariant, RecordFits
<1>12. RequestsFit'
  BY <1>1, <1>3, <1>7 DEF ExamplesInvariant, RequestsFit
<1>13. ASSUME NEW w \in Workers PROVE WorkerFits(w)'
  <2>1. WorkerFits(w)
    BY DEF ExamplesInvariant
  <2>2. PassFits(w)'
    BY <1>1, <1>5, <2>1 DEF WorkerFits, PassFits, RetryObserved, At
  <2>3. AnswerHolds(pass[w].answer)'
    BY <1>1, <1>3, <2>1 DEF WorkerFits, AnswerHolds
  <2>4. RequestsOf(w)'
    <3>1. Quiet => Quiet'
      BY <1>1, <1>3, <1>7 DEF Quiet
    <3>2. MayRetry(w)' <=> MayRetry(w)
      BY <1>1 DEF MayRetry, At
    <3> QED BY <1>1, <1>3, <2>1, <3>1, <3>2 DEF WorkerFits, RequestsOf, At
  <2>5. EvidenceOf(w)'
    BY <1>1, <1>3, <2>1 DEF WorkerFits, EvidenceOf, EvidenceHolds, At
  <2>6. At(w, "project")' => ResultHolds(pass[w].result)'
    BY <1>1, <1>3, <2>1 DEF WorkerFits, ResultHolds, At
  <2> QED BY <2>2, <2>3, <2>4, <2>5, <2>6 DEF WorkerFits
<1> QED BY <1>8, <1>9, <1>10, <1>11, <1>12, <1>13 DEF ExamplesInvariant

LEMMA DecideKeeps ==
  ASSUME ExamplesInvariant, Decide
  PROVE  ExamplesInvariant'
<1>1. /\ UNCHANGED <<example, world, kept, flying, lock, pass, row, clock, faults>>
      /\ lock = NoWorker /\ op.status = "AWAITING_REVIEW"
  BY DEF Decide
<1>2. /\ op \in Record /\ flying \subseteq DOMAIN op.attempts /\ RecordFits
  BY DEF ExamplesInvariant, TypeOK
<1>3. op.attempts = << >> /\ kept = NothingKept /\ op.blockedBy = NoBlock
  BY <1>1, <1>2 DEF RecordFits
<1>4. PICK decision \in {"approved", "rejected"} :
        op' = [op EXCEPT !.version = @ + 1,
                         !.status = IF decision = "approved" THEN "OPEN" ELSE "CLOSED",
                         !.review = [NoReview EXCEPT !.decision = decision, !.token = 1,
                                                     !.attemptCount = 0]]
  BY DEF Decide
<1>5. PICK review : review = [NoReview EXCEPT !.decision = decision, !.token = 1, !.attemptCount = 0]
  OBVIOUS
<1>6. review = [decision |-> decision, token |-> 1, decidedAt |-> 0, recordedAt |-> 0,
                expiresAt |-> NoTime, fingerprint |-> 0, attemptCount |-> 0]
  BY <1>5 DEF NoReview
<1>7. review \in Review /\ review.decision = decision
  BY <1>4, <1>6 DEF Review, Times, NoTime
<1>8. PICK status \in {"OPEN", "CLOSED"} :
        status = IF decision = "approved" THEN "OPEN" ELSE "CLOSED"
  OBVIOUS
<1>9. PICK r : r = [op EXCEPT !.version = @ + 1, !.status = status, !.review = review]
  OBVIOUS
<1>10. op' = r
  BY <1>4, <1>5, <1>8, <1>9
<1>11. r = [version |-> op.version + 1, status |-> status, reviewReason |-> op.reviewReason,
            attempts |-> op.attempts, review |-> review, episode |-> op.episode,
            blockedBy |-> op.blockedBy]
  <2>1. op = [version |-> op.version, status |-> op.status, reviewReason |-> op.reviewReason,
              attempts |-> op.attempts, review |-> op.review, episode |-> op.episode,
              blockedBy |-> op.blockedBy]
    BY <1>2 DEF Record
  <2> QED BY <1>9, <2>1
<1>12. op' \in Record
  <2>1. /\ op.version + 1 \in Int /\ op.reviewReason \in BOOLEAN /\ op.attempts \in Seq(Attempt)
        /\ op.episode \in Episode /\ op.blockedBy \in Block /\ status \in Statuses
    BY <1>2, <1>8 DEF Record, Statuses
  <2> QED BY <1>7, <1>10, <1>11, <2>1 DEF Record
<1>13. /\ op'.attempts = << >> /\ op'.blockedBy = NoBlock /\ op'.status = status
       /\ op'.review.decision = decision
  BY <1>3, <1>7, <1>10, <1>11
<1>14. status = "CLOSED" <=> decision = "rejected"
  BY <1>8, <1>4
<1>15. /\ Untouched' <=> Untouched
       /\ InPlace' <=> InPlace
  BY <1>1 DEF Untouched, InPlace
<1>16. /\ Untouched' /\ ~Orphaned' /\ flying = {}
  <2>1. Untouched /\ flying = {}
    BY <1>2, <1>3 DEF ExamplesInvariant, RequestsFit
  <2> QED BY <1>15, <2>1 DEF Untouched, Orphaned
<1>17. ProviderKeeps
  BY <1>1, NothingHappens DEF ExamplesInvariant, TypeOK, ProviderFits
<1>18. TypeOK'
  BY <1>1, <1>12, <1>16, <1>17 DEF ExamplesInvariant, TypeOK, ProviderKeeps
<1>19. HistoryKeepsEnds' /\ LockIsHeld'
  BY <1>1 DEF ExamplesInvariant, HistoryKeepsEnds, LockIsHeld
<1>20. ProviderFits'
  BY <1>1, <1>3, <1>17 DEF ProviderKeeps, ProviderFits, AnswerHolds, NothingKept
<1>21. RecordFits'
  BY <1>1, <1>3, <1>8, <1>13, <1>14 DEF RecordFits
<1>22. RequestsFit' /\ EvidenceFits'
  BY <1>1, <1>13, <1>16 DEF RequestsFit, EvidenceFits
<1>23. RowTellsTruth'
  BY <1>1, <1>15 DEF ExamplesInvariant, RowTellsTruth
<1>24. \A w \in Workers : WorkerFits(w)'
  <2>1. \A w \in Workers : pass[w].pc \notin Working
    BY <1>1, WorkersAssumption DEF ExamplesInvariant, LockIsHeld
  <2> QED BY <1>1, <1>17, <2>1, Bystander DEF ExamplesInvariant
<1> QED BY <1>18, <1>19, <1>20, <1>21, <1>22, <1>23, <1>24 DEF ExamplesInvariant

-----------------------------------------------------------------------------
(* The invariant *)

LEMMA InitFits ==
  ASSUME Init
  PROVE  ExamplesInvariant
<1>1. PICK s \in Starts :
        /\ example = s.example
        /\ world = s.world
        /\ op = IF s.reserved
                THEN [NewRecord("OPEN", FALSE, NoEpisode)
                        EXCEPT !.attempts = <<Reserved(0, Window)>>]
                ELSE NoRecord
  BY DEF Init
<1>2. /\ kept = NothingKept /\ flying = {} /\ lock = NoWorker /\ pass = [w \in Workers |-> Idle]
      /\ row = "confirmed" /\ clock = 0 /\ faults = 0
  BY DEF Init
<1>3. /\ example \in Examples /\ world \in Worlds
      /\ ChargeFits /\ OrderFits /\ CreditsFit
      /\ ~s.reserved => Untouched
  BY <1>1, ProviderStarts
<1>4. s.reserved \in BOOLEAN /\ (s.reserved => example = "stripe")
  BY <1>1, StartsAssumption
<1>5. /\ op \in Record /\ op.blockedBy = NoBlock /\ op.review.decision = "none"
      /\ \/ ~s.reserved /\ op.status = "NONE" /\ op.attempts = << >>
         \/ /\ s.reserved /\ op.status = "OPEN" /\ op.attempts # << >>
            /\ Len(op.attempts) = 1 /\ DOMAIN op.attempts = {1}
            /\ op.attempts[1].startedAt = 0
            /\ Latest(op).status = "RESERVED" /\ ~Latest(op).ok /\ Latest(op).evidence = "UNKNOWN"
  <2>1. CASE ~s.reserved
    <3>1. PICK r : r = NewRecord("NONE", FALSE, NoEpisode)
      OBVIOUS
    <3>2. /\ r \in Record /\ r.status = "NONE" /\ r.attempts = << >> /\ r.blockedBy = NoBlock
          /\ r.review.decision = "none"
      BY <3>1, FreshRecordFields
    <3>3. op = [r EXCEPT !.version = -1]
      BY <1>1, <2>1, <3>1 DEF NoRecord
    <3>4. op \in Record /\ op.status = r.status /\ op.attempts = r.attempts
          /\ op.blockedBy = r.blockedBy /\ op.review = r.review
      BY <3>2, <3>3 DEF Record
    <3> QED BY <2>1, <3>2, <3>4
  <2>2. CASE s.reserved
    <3>1. PICK r : r = NewRecord("OPEN", FALSE, NoEpisode)
      OBVIOUS
    <3>2. /\ r \in Record /\ r.status = "OPEN" /\ r.blockedBy = NoBlock
          /\ r.review.decision = "none"
      BY <3>1, FreshRecordFields
    <3>3. PICK a : a = Reserved(0, Window)
      OBVIOUS
    <3>4. Window \in Times
      BY <1>3, Windows
    <3>5. /\ a \in Attempt /\ a.status = "RESERVED" /\ a.startedAt = 0 /\ ~a.ok
          /\ a.evidence = "UNKNOWN"
      BY <3>3, <3>4, ReservedFields
    <3>6. op = [r EXCEPT !.attempts = <<a>>]
      BY <1>1, <2>2, <3>1, <3>3
    <3>7. <<a>> \in Seq(Attempt) /\ Len(<<a>>) = 1 /\ <<a>>[1] = a /\ <<a>> # << >>
          /\ DOMAIN <<a>> = {1}
      BY <3>5
    <3>8. op \in Record /\ op.status = r.status /\ op.attempts = <<a>>
          /\ op.blockedBy = r.blockedBy /\ op.review = r.review
      BY <3>2, <3>6, <3>7 DEF Record
    <3>9. Latest(op) = a
      BY <3>7, <3>8 DEF Latest
    <3> QED BY <2>2, <3>2, <3>5, <3>7, <3>8, <3>9
  <2> QED BY <1>4, <2>1, <2>2
<1>6. TypeOK
  <2>1. kept \in [answer : AnswerKinds, observations : Seq(Nat), polls : Nat]
    BY <1>2 DEF NothingKept, AnswerKinds
  <2>2. pass \in [Workers -> PassState]
    BY <1>2, IdleState
  <2> QED BY <1>2, <1>3, <1>5, <2>1, <2>2 DEF TypeOK
<1>7. HistoryKeepsEnds
  <2>1. Len(<< >>) = 0
    OBVIOUS
  <2> QED BY <1>2, <2>1, BoundsAssumption DEF HistoryKeepsEnds, NothingKept
<1>8. ProviderFits
  BY <1>2, <1>3 DEF ProviderFits, AnswerHolds, NothingKept
<1>9. LockIsHeld
  BY <1>2, IdleState, WorkersAssumption DEF LockIsHeld
<1>10. RecordFits
  <2>1. op.attempts # << >> => LatestFits
    BY <1>2, <1>5 DEF LatestFits, NothingKept
  <2> QED BY <1>2, <1>5, <2>1 DEF RecordFits
<1>11. RequestsFit
  <2>1. Untouched => ~Orphaned
    BY DEF Untouched, Orphaned
  <2> QED BY <1>2, <1>3, <1>5, <2>1 DEF RequestsFit
<1>12. EvidenceFits
  BY <1>2, <1>4, <1>5 DEF EvidenceFits, LeftByOlder
<1>13. RowTellsTruth
  BY <1>2 DEF RowTellsTruth
<1>14. ASSUME NEW w \in Workers PROVE WorkerFits(w)
  <2>1. pass[w].pc = "idle" /\ pass[w].ok = FALSE /\ pass[w].answer = "none"
    BY <1>2 DEF Idle
  <2> QED BY <2>1 DEF WorkerFits, PassFits, AnswerHolds, RequestsOf, EvidenceOf, MayRetry, At
<1> QED BY <1>6, <1>7, <1>8, <1>9, <1>10, <1>11, <1>12, <1>13, <1>14 DEF ExamplesInvariant

LEMMA StutterKeeps ==
  ASSUME ExamplesInvariant, UNCHANGED vars
  PROVE  ExamplesInvariant'
<1>1. UNCHANGED <<example, world, op, kept, flying, lock, pass, row, clock, faults>>
  BY DEF vars
<1>2. ProviderKeeps
  BY <1>1, NothingHappens DEF ExamplesInvariant, TypeOK, ProviderFits
<1>3. Untouched => Untouched'
  BY <1>1 DEF Untouched
<1> QED BY <1>1, <1>2, <1>3, WorldStep

LEMMA StepsKeep ==
  ASSUME ExamplesInvariant, [Next]_vars
  PROVE  ExamplesInvariant'
<1>1. ASSUME NEW w \in Workers, Call(w) PROVE ExamplesInvariant'
  BY <1>1, CallBusyKeeps, CallReturnsKeeps, CallGoesOnKeeps DEF Call
<1>2. ASSUME NEW w \in Workers, Run(w) PROVE ExamplesInvariant'
  BY <1>2, CreateKeeps, ReserveKeeps, ExecuteKeeps, ObserveKeeps, SaveKeeps, ProjectKeeps DEF Run
<1>3. ASSUME NEW w \in Workers, Crash(w) PROVE ExamplesInvariant'
  BY <1>3, CrashKeeps
<1>4. ASSUME NEW n \in flying, Land(n) PROVE ExamplesInvariant'
  BY <1>4, LandKeeps
<1>5. ASSUME Decide \/ Settle \/ Others \/ Tick PROVE ExamplesInvariant'
  BY <1>5, DecideKeeps, MovesKeep, TickKeeps
<1>6. CASE UNCHANGED vars
  BY <1>6, StutterKeeps
<1> QED BY <1>1, <1>2, <1>3, <1>4, <1>5, <1>6 DEF Next

\* The invariant holds of the five examples, for all providers they may start with, any number
\* of workers calling processRefund(), and any bounds on observations, time and faults.
THEOREM ExamplesInvariantHolds == Spec => []ExamplesInvariant
<1>1. Init => ExamplesInvariant
  BY InitFits
<1>2. ExamplesInvariant /\ [Next]_vars => ExamplesInvariant'
  BY StepsKeep
<1> QED BY <1>1, <1>2, PTL DEF Spec

-----------------------------------------------------------------------------
(* What follows from it *)

\* No provider ever holds two effects of one operation, however often it is called, however
\* late a request arrives, and also where an older release sent the refund without a label.
THEOREM OneEffectAlways == Spec => []OneEffect
<1>1. ExamplesInvariant => OneEffect
  BY ProviderCounts DEF ExamplesInvariant, TypeOK, ProviderFits, OneEffect
<1> QED BY <1>1, ExamplesInvariantHolds, PTL

\* COMPLETE is reported only with the effect in place, REPLAN and a rejection only with none,
\* and both stay true.
THEOREM AnswerIsTrueAlways == Spec => []AnswerIsTrue
<1>1. ExamplesInvariant => AnswerIsTrue
  <2> SUFFICES ASSUME ExamplesInvariant, op.status = "CLOSED"
               PROVE  /\ Reported(op) = "COMPLETE" => InPlace
                      /\ Reported(op) \in {"REPLAN", "REVIEW"} => Effects = 0
    BY DEF AnswerIsTrue
  <2>1. Settles(op)
    BY InvariantSettles
  <2>2. Reported(op) = "COMPLETE" => InPlace
    BY <2>1, Reports, InvariantSettles
  <2>3. Reported(op) = "REVIEW" => Untouched
    BY <2>1, Reports DEF ExamplesInvariant, RequestsFit
  <2>4. ASSUME Reported(op) = "REPLAN" PROVE Untouched
    <3>1. /\ op.attempts # << >> /\ Latest(op).status = "RESOLVED"
          /\ Latest(op).evidence = "CONFLICTED"
      BY <2>1, <2>4, Reports
    <3>2. kept.answer = "conflict"
      BY <3>1 DEF ExamplesInvariant, EvidenceFits, EvidenceHolds
    <3> QED BY <3>2 DEF ExamplesInvariant, ProviderFits, AnswerHolds
  <2>5. Untouched => Effects = 0
    BY ProviderCounts DEF ExamplesInvariant, TypeOK, ProviderFits
  <2> QED BY <2>2, <2>3, <2>4, <2>5
<1> QED BY <1>1, ExamplesInvariantHolds, PTL

\* A person is asked to investigate only after a fault, or where the provider cannot tell.
THEOREM NoFalseAlarmAlways == Spec => []NoFalseAlarm
<1>1. ExamplesInvariant => NoFalseAlarm
  <2> SUFFICES ASSUME ExamplesInvariant, op.status = "CLOSED", Reported(op) = "INVESTIGATE"
               PROVE  faults > 0 \/ Unclear
    BY DEF NoFalseAlarm
  <2>1. /\ op.attempts # << >> /\ Latest(op).status = "RESOLVED"
        /\ Latest(op).disposition = "INVESTIGATE"
    BY InvariantSettles, Reports
  <2> QED BY <2>1 DEF ExamplesInvariant, EvidenceFits
<1> QED BY <1>1, ExamplesInvariantHolds, PTL

\* boundedObservations never loses the first observation, nor one of the latest.
THEOREM HistoryKeepsEndsAlways == Spec => []HistoryKeepsEnds
<1>1. ExamplesInvariant => HistoryKeepsEnds
  BY DEF ExamplesInvariant
<1> QED BY <1>1, ExamplesInvariantHolds, PTL

\* The action table's row says refunded only of a refund that exists, and needs attention only
\* of an operation that ended without one.
THEOREM RowTellsTruthAlways == Spec => []RowTellsTruth
<1>1. ExamplesInvariant => RowTellsTruth
  BY DEF ExamplesInvariant
<1> QED BY <1>1, ExamplesInvariantHolds, PTL

=============================================================================
