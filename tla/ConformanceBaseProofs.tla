------------------------ MODULE ConformanceBaseProofs ------------------------
(***************************************************************************)
(* What the proofs about the harness rest on: what each operator, command  *)
(* and step of Conformance does, that every step keeps the types, the      *)
(* place in the scenario and the records, and what each broken contract    *)
(* has done by then.                                                       *)
(***************************************************************************)
EXTENDS ConformanceInvariant, SequenceTheorems, FiniteSetTheorems, TLAPS

-----------------------------------------------------------------------------
(* Records: as they are created, with another attempt, with their latest one resolved *)

\* The latest attempt of a record that has one.
LEMMA LatestFields ==
  ASSUME NEW r \in Record, r.attempts # << >>
  PROVE  /\ Latest(r) \in Attempt
         /\ Len(r.attempts) \in Nat \ {0}
         /\ Len(r.attempts) \in DOMAIN r.attempts /\ DOMAIN r.attempts = 1..Len(r.attempts)
         /\ Latest(r) = r.attempts[Len(r.attempts)]
         /\ Latest(r).status \in {"RESERVED", "RESOLVED"} /\ Latest(r).startedAt \in Nat
         /\ Latest(r).ok \in BOOLEAN /\ Latest(r).evidence \in EvidenceStates
         /\ Latest(r).disposition \in Dispositions /\ Latest(r).retryNotBefore \in Times
<1>1. r.attempts \in Seq(Attempt)
  BY DEF Record
<1>2. Len(r.attempts) \in Nat \ {0}
  BY <1>1, EmptySeq
<1>3. Latest(r) \in Attempt /\ DOMAIN r.attempts = 1..Len(r.attempts)
  BY <1>1, <1>2, ElementOfSeq, LenProperties DEF Latest
<1> QED BY <1>2, <1>3 DEF Latest, Attempt

\* An attempt as performAttempt reserves it.
LEMMA ReservedFields ==
  ASSUME NEW startedAt \in Nat, NEW window \in Times, NEW a, a = Reserved(startedAt, window)
  PROVE  /\ a \in Attempt
         /\ a.status = "RESERVED" /\ a.startedAt = startedAt /\ ~a.ok /\ a.evidence = "UNKNOWN"
  BY DEF Reserved, Attempt, EvidenceStates, Dispositions, Times, NoTime

\* The record after performAttempt reserved another attempt.
LEMMA AppendedFields ==
  ASSUME NEW r \in Record, NEW a \in Attempt,
         NEW s,
         s = [version |-> r.version + 1, status |-> r.status, reviewReason |-> r.reviewReason,
              attempts |-> Append(r.attempts, a), review |-> r.review, episode |-> r.episode,
              blockedBy |-> r.blockedBy]
  PROVE  /\ s \in Record
         /\ s.status = r.status /\ s.review = r.review /\ s.blockedBy = r.blockedBy
         /\ s.attempts # << >> /\ Latest(s) = a
         /\ Len(s.attempts) = Len(r.attempts) + 1 /\ Len(r.attempts) \in Nat
         /\ DOMAIN s.attempts = 1..Len(r.attempts) + 1
         /\ DOMAIN r.attempts = 1..Len(r.attempts)
         /\ \A k \in DOMAIN r.attempts : s.attempts[k] = r.attempts[k]
<1>1. r.attempts \in Seq(Attempt) /\ r.version \in Int
  BY DEF Record
<1>2. /\ Append(r.attempts, a) \in Seq(Attempt)
      /\ Len(Append(r.attempts, a)) = Len(r.attempts) + 1 /\ Len(r.attempts) \in Nat
      /\ Append(r.attempts, a)[Len(r.attempts) + 1] = a
      /\ \A k \in 1..Len(r.attempts) : Append(r.attempts, a)[k] = r.attempts[k]
      /\ DOMAIN r.attempts = 1..Len(r.attempts)
      /\ DOMAIN Append(r.attempts, a) = 1..Len(r.attempts) + 1
      /\ Append(r.attempts, a) # << >>
  <2>1. PICK list \in Seq(Attempt) : list = r.attempts
    BY <1>1
  <2>2. /\ Len(list) \in Nat /\ DOMAIN list = 1..Len(list)
        /\ Append(list, a) \in Seq(Attempt) /\ Len(Append(list, a)) = Len(list) + 1
        /\ Append(list, a)[Len(list) + 1] = a
        /\ \A k \in 1..Len(list) : Append(list, a)[k] = list[k]
        /\ DOMAIN Append(list, a) = 1..Len(list) + 1
        /\ Append(list, a) # << >>
    OBVIOUS
  <2> QED BY <2>1, <2>2
<1>3. s \in Record
  BY <1>1, <1>2 DEF Record
<1> QED BY <1>2, <1>3 DEF Latest

\* What is decided on a piece of evidence.
LEMMA DecisionFields ==
  ASSUME NEW evidence \in EvidenceStates, NEW number \in Nat \ {0}, NEW policy,
         policy.retryOnNotApplied \in BOOLEAN, policy.maxAttempts \in Nat,
         NEW answered \in BOOLEAN, NEW startedAt \in Nat, NEW window \in Times, NEW now \in Nat, NEW s,
         s = [ok |-> answered, startedAt |-> startedAt, window |-> window, now |-> now],
         NEW d, d = DecideDisposition(evidence, number, policy, s)
  PROVE  /\ d.disposition \in Dispositions /\ d.retryNotBefore \in Times
         /\ evidence = "APPLIED" => d.disposition = "COMPLETE"
         /\ evidence = "CONFLICTED" => d.disposition = "REPLAN"
         /\ evidence = "PENDING" => d.disposition = "NULL"
         /\ evidence = "UNKNOWN" => d.disposition = "INVESTIGATE"
         /\ evidence = "NOT_APPLIED" =>
              LET retries == policy.retryOnNotApplied /\ number < policy.maxAttempts
              IN  /\ d.disposition =
                       IF retries /\ (answered \/ window # NoWindow) THEN "RETRY" ELSE "INVESTIGATE"
                  /\ d.retryNotBefore =
                       IF retries /\ ~answered /\ window # NoWindow /\ now < startedAt + window
                       THEN startedAt + window ELSE NoTime
<1>1. s.ok = answered /\ s.startedAt = startedAt /\ s.window = window /\ s.now = now
  OBVIOUS
<1>2. CASE evidence # "NOT_APPLIED"
  BY <1>2 DEF DecideDisposition, Decision, EvidenceStates, Dispositions, Times, NoTime
<1>3. CASE evidence = "NOT_APPLIED" /\ ~(policy.retryOnNotApplied /\ number < policy.maxAttempts)
  BY <1>3 DEF DecideDisposition, Decision, Dispositions, Times, NoTime
<1>4. CASE evidence = "NOT_APPLIED" /\ policy.retryOnNotApplied /\ number < policy.maxAttempts
  <2>1. d = DecideRetry(answered, startedAt, window, now)
    BY <1>1, <1>4 DEF DecideDisposition
  <2>2. CASE answered \/ (window # NoWindow /\ now >= startedAt + window)
    BY <1>4, <2>1, <2>2 DEF DecideRetry, Decision, Dispositions, Times, NoTime, NoWindow
  <2>3. CASE ~answered /\ window = NoWindow
    BY <1>4, <2>1, <2>3 DEF DecideRetry, Decision, Dispositions, Times, NoTime, NoWindow
  <2>4. CASE ~answered /\ window # NoWindow /\ now < startedAt + window
    BY <1>4, <2>1, <2>4 DEF DecideRetry, Decision, Dispositions, Times, NoTime, NoWindow
  <2> QED BY <2>2, <2>3, <2>4 DEF Times, NoTime, NoWindow
<1> QED BY <1>2, <1>3, <1>4

\* The record after resolveAttempt.
LEMMA ResolvedRecordFields ==
  ASSUME NEW r \in Record, r.attempts # << >>, NEW answered \in BOOLEAN,
         NEW evidence \in EvidenceStates, NEW policy,
         policy.retryOnNotApplied \in BOOLEAN, policy.maxAttempts \in Nat,
         NEW window \in Times, NEW now \in Nat,
         NEW s, s = ResolvedRecord(r, answered, evidence, policy, window, now)
  PROVE  /\ s \in Record
         /\ s.status = StatusAfter(evidence, Latest(s).disposition)
         /\ s.review = r.review /\ s.blockedBy = r.blockedBy
         /\ s.attempts # << >> /\ Len(s.attempts) = Len(r.attempts)
         /\ DOMAIN s.attempts = DOMAIN r.attempts
         /\ Latest(s).status = "RESOLVED" /\ Latest(s).ok = answered /\ Latest(s).evidence = evidence
         /\ Latest(s).startedAt = Latest(r).startedAt
         /\ Latest(s).maxInFlightMs = Latest(r).maxInFlightMs
         /\ \A i \in DOMAIN r.attempts : s.attempts[i].startedAt = r.attempts[i].startedAt
         /\ evidence = "APPLIED" => Latest(s).disposition = "COMPLETE"
         /\ evidence = "CONFLICTED" => Latest(s).disposition = "REPLAN"
         /\ evidence = "PENDING" => Latest(s).disposition = "NULL"
         /\ evidence = "UNKNOWN" => Latest(s).disposition = "INVESTIGATE"
         /\ evidence = "NOT_APPLIED" =>
              LET retries == policy.retryOnNotApplied /\ Len(r.attempts) < policy.maxAttempts
              IN  /\ Latest(s).disposition =
                       IF retries /\ (answered \/ window # NoWindow) THEN "RETRY" ELSE "INVESTIGATE"
                  /\ Latest(s).retryNotBefore =
                       IF retries /\ ~answered /\ window # NoWindow /\ now < Latest(r).startedAt + window
                       THEN Latest(r).startedAt + window ELSE NoTime
<1> DEFINE a == Latest(r)
           k == Len(r.attempts)
<1>0. PICK u : u = [ok |-> answered, startedAt |-> a.startedAt, window |-> window, now |-> now]
  OBVIOUS
<1>d. PICK d : d = DecideDisposition(evidence, k, policy, u)
  OBVIOUS
<1>1. PICK b : b = [a EXCEPT !.status = "RESOLVED", !.ok = answered, !.evidence = evidence,
                      !.disposition = d.disposition, !.retryNotBefore = d.retryNotBefore]
  OBVIOUS
<1>2. /\ a \in Attempt /\ k \in Nat \ {0} /\ a = r.attempts[k] /\ a.startedAt \in Nat
      /\ DOMAIN r.attempts = 1..k
  BY LatestFields
<1>14. Len(r.attempts) = k /\ Latest(r) = a
  OBVIOUS
<1> HIDE DEF a, k
<1>3. /\ d.disposition \in Dispositions /\ d.retryNotBefore \in Times
      /\ evidence = "APPLIED" => d.disposition = "COMPLETE"
      /\ evidence = "CONFLICTED" => d.disposition = "REPLAN"
      /\ evidence = "PENDING" => d.disposition = "NULL"
      /\ evidence = "UNKNOWN" => d.disposition = "INVESTIGATE"
      /\ evidence = "NOT_APPLIED" =>
           LET retries == policy.retryOnNotApplied /\ k < policy.maxAttempts
           IN  /\ d.disposition =
                    IF retries /\ (answered \/ window # NoWindow) THEN "RETRY" ELSE "INVESTIGATE"
               /\ d.retryNotBefore =
                    IF retries /\ ~answered /\ window # NoWindow /\ now < a.startedAt + window
                    THEN a.startedAt + window ELSE NoTime
  BY <1>0, <1>d, <1>2, DecisionFields
<1>4. /\ b \in Attempt /\ b.startedAt = a.startedAt /\ b.maxInFlightMs = a.maxInFlightMs
      /\ b.status = "RESOLVED" /\ b.ok = answered /\ b.evidence = evidence
      /\ b.disposition = d.disposition /\ b.retryNotBefore = d.retryNotBefore
  BY <1>1, <1>2, <1>3 DEF Attempt
<1>5. PICK list : list = [r.attempts EXCEPT ![k] = b]
  OBVIOUS
<1>6. s = [r EXCEPT !.version = @ + 1, !.status = StatusAfter(evidence, d.disposition),
                    !.attempts = list]
  BY <1>0, <1>d, <1>1, <1>5 DEF ResolvedRecord, a, k
<1>7. /\ r = [version |-> r.version, status |-> r.status, reviewReason |-> r.reviewReason,
              attempts |-> r.attempts, review |-> r.review, episode |-> r.episode,
              blockedBy |-> r.blockedBy]
      /\ r.attempts \in Seq(Attempt) /\ r.version \in Int
  BY DEF Record
<1>8. s = [version |-> r.version + 1, status |-> StatusAfter(evidence, d.disposition),
           reviewReason |-> r.reviewReason, attempts |-> list, review |-> r.review,
           episode |-> r.episode, blockedBy |-> r.blockedBy]
  BY <1>6, <1>7
<1>9. /\ list \in Seq(Attempt) /\ Len(list) = k /\ DOMAIN list = 1..k /\ list[k] = b
      /\ \A i \in 1..k : i # k => list[i] = r.attempts[i]
  BY <1>2, <1>4, <1>5, <1>7
<1>10. list # << >>
  BY <1>2, <1>9
<1>11. StatusAfter(evidence, d.disposition) \in Statuses
  BY DEF StatusAfter, Statuses
<1>12. s \in Record
  BY <1>7, <1>8, <1>9, <1>11 DEF Record
<1>13. Latest(s) = b
  BY <1>8, <1>9 DEF Latest
<1> QED BY <1>2, <1>3, <1>4, <1>8, <1>9, <1>10, <1>12, <1>13, <1>14

-----------------------------------------------------------------------------
(* Contracts, options and names *)

\* What contracts and options are made of.
LEMMA ContractFields ==
  ASSUME Inputs
  PROVE  /\ contract.window \in Times /\ contract.retryOnNotApplied \in BOOLEAN
         /\ contract.maxAttempts \in Nat /\ contract.scope \in {"own", "all"}
         /\ contract.onFailedRead \in EvidenceStates /\ contract.onPending \in EvidenceStates
         /\ contract.trusts \in {"observation", "transport"} /\ contract.cautious \in BOOLEAN
         /\ contract.writes \in {"once", "twice", "untilAnswered"} /\ contract.tells \in BOOLEAN
         /\ Policy.retryOnNotApplied = contract.retryOnNotApplied
         /\ Policy.maxAttempts = contract.maxAttempts
         /\ NoTime = -1 /\ NoWindow = -1
<1>1. contract \in F!Contract
  BY ContractsAssumption DEF Inputs
<1> QED BY <1>1 DEF F!Contract, F!Times, F!NoTime, F!EvidenceStates, Times, EvidenceStates, Policy,
                 NoTime, NoWindow

LEMMA OptionsFields ==
  ASSUME Inputs
  PROVE  /\ options.late \in Times /\ options.pendings \in BOOLEAN
         /\ options.otherIntent \in BOOLEAN /\ options.scenarios \subseteq Names
  BY OptionsAssumption DEF Inputs, Names

\* The twelve scenarios, all different.
LEMMA ScenarioNames ==
  /\ Len(Scenarios) = 12 /\ DOMAIN Scenarios = 1..12
  /\ Names = {"normal", "response-lost-after-commit", "request-lost-before-commit", "late-landing",
              "read-fails-after-lost-response", "crash-after-effect-before-save",
              "crash-before-execute", "concurrent-same-identity", "identity-reuse-different-intent",
              "pending-then-settled", "pending-then-rejected", "neighbor-effect-isolation"}
  /\ \A i, j \in 1..12 : Scenarios[i] = Scenarios[j] => i = j
<1>1. Len(Scenarios) = 12 /\ DOMAIN Scenarios = 1..12
  BY DEF Scenarios
<1>2. \A i, j \in 1..12 : Scenarios[i] = Scenarios[j] => i = j
  BY DEF Scenarios
<1>3. /\ Scenarios[1] = "normal" /\ Scenarios[2] = "response-lost-after-commit"
      /\ Scenarios[3] = "request-lost-before-commit" /\ Scenarios[4] = "late-landing"
      /\ Scenarios[5] = "read-fails-after-lost-response"
      /\ Scenarios[6] = "crash-after-effect-before-save" /\ Scenarios[7] = "crash-before-execute"
      /\ Scenarios[8] = "concurrent-same-identity"
      /\ Scenarios[9] = "identity-reuse-different-intent" /\ Scenarios[10] = "pending-then-settled"
      /\ Scenarios[11] = "pending-then-rejected" /\ Scenarios[12] = "neighbor-effect-isolation"
  BY DEF Scenarios
<1>4. \A i \in 1..12 : i \in {1, 2, 3, 4, 5, 6, 7, 8, 9, 10, 11, 12}
  OBVIOUS
<1> QED BY <1>1, <1>2, <1>3, <1>4 DEF Names

LEMMA Steps ==
  ASSUME Inputs
  PROVE  SettleStep \in Nat /\ SettleStep > OrZero(contract.window)
         /\ OrZero(contract.window) \in Nat
  BY ContractFields, OptionsFields DEF SettleStep, OrZero, Times, NoTime

-----------------------------------------------------------------------------
(* The commands of each scenario *)

LEMMA CommandFields ==
  /\ \A o \in Ops, k \in {1, 2} : Cmd("run", o, k) \in Commands
  /\ \A m \in {"normal", "loseResponse", "loseRequest", "hold", "pending"} : Fault(m) \in Commands
  /\ \A w \in {"onResolve", "afterReserve"} : Cmd("crash", w, 0) \in Commands
  /\ \A t \in Nat : Advance(t) \in Commands
  /\ \A e \in Expectations : Expect(e) \in Commands
  /\ \A d \in {"failRead", "land", "settle", "reject"} : Cmd(d, "op", 0) \in Commands
  /\ Once \in Commands
<1>1. \A o \in Ops, k \in {1, 2} : Cmd("run", o, k) \in Commands
  BY DEF Commands, Cmd
<1>2. \A m \in {"normal", "loseResponse", "loseRequest", "hold", "pending"} : Fault(m) \in Commands
  BY DEF Commands, Cmd, Fault, F!Modes
<1>3. \A w \in {"onResolve", "afterReserve"} : Cmd("crash", w, 0) \in Commands
  BY DEF Commands, Cmd
<1>4. \A t \in Nat : Advance(t) \in Commands
  BY DEF Commands, Cmd, Advance
<1>5. \A e \in Expectations : Expect(e) \in Commands
  BY DEF Commands, Cmd, Expect
<1>6. \A d \in {"failRead", "land", "settle", "reject"} : Cmd(d, "op", 0) \in Commands
  BY DEF Commands, Cmd
<1>7. Once \in Commands
  BY <1>1 DEF Once, Ops
<1> QED BY <1>1, <1>2, <1>3, <1>4, <1>5, <1>6, <1>7

\* FollowUp, from position i on.
Follows(i) ==
  /\ Plan[i] = Advance(SettleStep) /\ Plan[i + 1] = Once /\ Plan[i + 2] = Advance(SettleStep)
  /\ Plan[i + 3] = Once /\ Plan[i + 4] = Advance(SettleStep) /\ Plan[i + 5] = Once

LEMMA Expects == {"one", "none", "atMostOne", "neighbor", "executedOnce", "recovered",
                  "recoveredFromRejection", "rejectsReuse", "APPLIED", "PENDING", "UNKNOWN"}
                   \subseteq Expectations
  BY DEF Expectations, EvidenceStates

\* What is played in each scenario, command by command.
LEMMA NormalPlan ==
  ASSUME Inputs, Driven, Now = "normal"
  PROVE  /\ Plan \in Seq(Commands) /\ Len(Plan) = 10 /\ Plan[1] = Once /\ Follows(2)
         /\ Plan[8] = Expect("one") /\ Plan[9] = Expect("executedOnce")
         /\ Plan[10] = Expect("APPLIED")
<1>1. Plan = <<Once>>
                \o FollowUp \o <<Expect("one"), Expect("executedOnce"), Expect("APPLIED")>>
  BY DEF Plan, Script
<1>2. /\ Once \in Commands /\ Expect("one") \in Commands /\ Expect("executedOnce") \in Commands
      /\ Expect("APPLIED") \in Commands
  BY CommandFields, Expects DEF Ops
<1>3. Advance(SettleStep) \in Commands
  BY Steps, CommandFields
<1> QED BY <1>1, <1>2, <1>3 DEF FollowUp, Follows

LEMMA ResponseLostPlan ==
  ASSUME Inputs, Driven, Now = "response-lost-after-commit"
  PROVE  /\ Plan \in Seq(Commands) /\ Len(Plan) = 11 /\ Plan[1] = Fault("loseResponse")
         /\ Plan[2] = Once /\ Follows(3) /\ Plan[9] = Expect("one")
         /\ Plan[10] = Expect("executedOnce") /\ Plan[11] = Expect("APPLIED")
<1>1. Plan = <<Fault("loseResponse"), Once>>
                \o FollowUp \o <<Expect("one"), Expect("executedOnce"), Expect("APPLIED")>>
  BY DEF Plan, Script
<1>2. /\ Fault("loseResponse") \in Commands /\ Once \in Commands /\ Expect("one") \in Commands
      /\ Expect("executedOnce") \in Commands /\ Expect("APPLIED") \in Commands
  BY CommandFields, Expects DEF Ops
<1>3. Advance(SettleStep) \in Commands
  BY Steps, CommandFields
<1> QED BY <1>1, <1>2, <1>3 DEF FollowUp, Follows

LEMMA RequestLostPlan ==
  ASSUME Inputs, Driven, Now = "request-lost-before-commit"
  PROVE  /\ Plan \in Seq(Commands) /\ Len(Plan) = 10 /\ Plan[1] = Fault("loseRequest")
         /\ Plan[2] = Once /\ Follows(3) /\ Plan[9] = Expect("atMostOne")
         /\ Plan[10] = Expect("recovered")
<1>1. Plan = <<Fault("loseRequest"), Once>>
                \o FollowUp \o <<Expect("atMostOne"), Expect("recovered")>>
  BY DEF Plan, Script
<1>2. /\ Fault("loseRequest") \in Commands /\ Once \in Commands
      /\ Expect("atMostOne") \in Commands /\ Expect("recovered") \in Commands
  BY CommandFields, Expects DEF Ops
<1>3. Advance(SettleStep) \in Commands
  BY Steps, CommandFields
<1> QED BY <1>1, <1>2, <1>3 DEF FollowUp, Follows

LEMMA ReadFailsPlan ==
  ASSUME Inputs, Driven, Now = "read-fails-after-lost-response"
  PROVE  /\ Plan \in Seq(Commands) /\ Len(Plan) = 11 /\ Plan[1] = Fault("loseResponse")
         /\ Plan[2] = Cmd("failRead", "op", 0) /\ Plan[3] = Once /\ Plan[4] = Expect("UNKNOWN")
         /\ Follows(5) /\ Plan[11] = Expect("one")
<1>1. Plan = <<Fault("loseResponse"), Cmd("failRead", "op", 0), Once, Expect("UNKNOWN")>>
                \o FollowUp \o <<Expect("one")>>
  BY DEF Plan, Script
<1>2. /\ Fault("loseResponse") \in Commands /\ Cmd("failRead", "op", 0) \in Commands
      /\ Once \in Commands /\ Expect("UNKNOWN") \in Commands /\ Expect("one") \in Commands
  BY CommandFields, Expects DEF Ops
<1>3. Advance(SettleStep) \in Commands
  BY Steps, CommandFields
<1> QED BY <1>1, <1>2, <1>3 DEF FollowUp, Follows

LEMMA CrashAfterPlan ==
  ASSUME Inputs, Driven, Now = "crash-after-effect-before-save"
  PROVE  /\ Plan \in Seq(Commands) /\ Len(Plan) = 11 /\ Plan[1] = Cmd("crash", "onResolve", 0)
         /\ Plan[2] = Once /\ Follows(3) /\ Plan[9] = Expect("one")
         /\ Plan[10] = Expect("executedOnce") /\ Plan[11] = Expect("APPLIED")
<1>1. Plan = <<Cmd("crash", "onResolve", 0), Once>>
                \o FollowUp \o <<Expect("one"), Expect("executedOnce"), Expect("APPLIED")>>
  BY DEF Plan, Script
<1>2. /\ Cmd("crash", "onResolve", 0) \in Commands /\ Once \in Commands
      /\ Expect("one") \in Commands /\ Expect("executedOnce") \in Commands
      /\ Expect("APPLIED") \in Commands
  BY CommandFields, Expects DEF Ops
<1>3. Advance(SettleStep) \in Commands
  BY Steps, CommandFields
<1> QED BY <1>1, <1>2, <1>3 DEF FollowUp, Follows

LEMMA CrashBeforePlan ==
  ASSUME Inputs, Driven, Now = "crash-before-execute"
  PROVE  /\ Plan \in Seq(Commands) /\ Len(Plan) = 10 /\ Plan[1] = Cmd("crash", "afterReserve", 0)
         /\ Plan[2] = Once /\ Follows(3) /\ Plan[9] = Expect("atMostOne")
         /\ Plan[10] = Expect("recovered")
<1>1. Plan = <<Cmd("crash", "afterReserve", 0), Once>>
                \o FollowUp \o <<Expect("atMostOne"), Expect("recovered")>>
  BY DEF Plan, Script
<1>2. /\ Cmd("crash", "afterReserve", 0) \in Commands /\ Once \in Commands
      /\ Expect("atMostOne") \in Commands /\ Expect("recovered") \in Commands
  BY CommandFields, Expects DEF Ops
<1>3. Advance(SettleStep) \in Commands
  BY Steps, CommandFields
<1> QED BY <1>1, <1>2, <1>3 DEF FollowUp, Follows

LEMMA ConcurrentPlan ==
  ASSUME Inputs, Driven, Now = "concurrent-same-identity"
  PROVE  /\ Plan \in Seq(Commands) /\ Len(Plan) = 9 /\ Plan[1] = Cmd("run", "op", 2)
         /\ Follows(2) /\ Plan[8] = Expect("one") /\ Plan[9] = Expect("executedOnce")
<1>1. Plan = <<Cmd("run", "op", 2)>>
                \o FollowUp \o <<Expect("one"), Expect("executedOnce")>>
  BY DEF Plan, Script
<1>2. /\ Cmd("run", "op", 2) \in Commands /\ Expect("one") \in Commands
      /\ Expect("executedOnce") \in Commands /\ Once \in Commands
  BY CommandFields, Expects DEF Ops
<1>3. Advance(SettleStep) \in Commands
  BY Steps, CommandFields
<1> QED BY <1>1, <1>2, <1>3 DEF FollowUp, Follows

LEMMA ReusePlan ==
  ASSUME Inputs, Driven, Now = "identity-reuse-different-intent"
  PROVE  /\ Plan \in Seq(Commands) /\ Len(Plan) = 2 /\ Plan[1] = Once
         /\ Plan[2] = Expect("rejectsReuse")
<1>1. Plan = <<Once, Expect("rejectsReuse")>>
  BY DEF Plan, Script
<1>2. /\ Once \in Commands /\ Expect("rejectsReuse") \in Commands
  BY CommandFields, Expects DEF Ops
<1> QED BY <1>1, <1>2

LEMMA SettledPlan ==
  ASSUME Inputs, Driven, Now = "pending-then-settled"
  PROVE  /\ Plan \in Seq(Commands) /\ Len(Plan) = 16 /\ Plan[1] = Fault("pending")
         /\ Plan[2] = Once /\ Plan[3] = Expect("PENDING") /\ Plan[4] = Once
         /\ Plan[5] = Expect("executedOnce") /\ Plan[6] = Expect("none")
         /\ Plan[7] = Cmd("settle", "op", 0) /\ Follows(8) /\ Plan[14] = Expect("one")
         /\ Plan[15] = Expect("executedOnce") /\ Plan[16] = Expect("APPLIED")
<1>1. Plan = Accepted \o <<Cmd("settle", "op", 0)>>
                \o FollowUp \o <<Expect("one"), Expect("executedOnce"), Expect("APPLIED")>>
  BY DEF Plan, Script
<1>2. /\ Fault("pending") \in Commands /\ Once \in Commands /\ Expect("PENDING") \in Commands
      /\ Expect("executedOnce") \in Commands /\ Expect("none") \in Commands
      /\ Cmd("settle", "op", 0) \in Commands /\ Expect("one") \in Commands
      /\ Expect("APPLIED") \in Commands
  BY CommandFields, Expects DEF Ops
<1>3. Advance(SettleStep) \in Commands
  BY Steps, CommandFields
<1> QED BY <1>1, <1>2, <1>3 DEF FollowUp, Follows, Accepted

LEMMA RejectedPlan ==
  ASSUME Inputs, Driven, Now = "pending-then-rejected"
  PROVE  /\ Plan \in Seq(Commands) /\ Len(Plan) = 15 /\ Plan[1] = Fault("pending")
         /\ Plan[2] = Once /\ Plan[3] = Expect("PENDING") /\ Plan[4] = Once
         /\ Plan[5] = Expect("executedOnce") /\ Plan[6] = Expect("none")
         /\ Plan[7] = Cmd("reject", "op", 0) /\ Follows(8) /\ Plan[14] = Expect("atMostOne")
         /\ Plan[15] = Expect("recoveredFromRejection")
<1>1. Plan = Accepted \o <<Cmd("reject", "op", 0)>>
                \o FollowUp \o <<Expect("atMostOne"), Expect("recoveredFromRejection")>>
  BY DEF Plan, Script
<1>2. /\ Fault("pending") \in Commands /\ Once \in Commands /\ Expect("PENDING") \in Commands
      /\ Expect("executedOnce") \in Commands /\ Expect("none") \in Commands
      /\ Cmd("reject", "op", 0) \in Commands /\ Expect("atMostOne") \in Commands
      /\ Expect("recoveredFromRejection") \in Commands
  BY CommandFields, Expects DEF Ops
<1>3. Advance(SettleStep) \in Commands
  BY Steps, CommandFields
<1> QED BY <1>1, <1>2, <1>3 DEF FollowUp, Follows, Accepted

LEMMA NeighborPlan ==
  ASSUME Inputs, Driven, Now = "neighbor-effect-isolation"
  PROVE  /\ Plan \in Seq(Commands) /\ Len(Plan) = 11 /\ Plan[1] = Cmd("run", "neighbor", 1)
         /\ Plan[2] = Expect("neighbor") /\ Plan[3] = Fault("loseRequest") /\ Plan[4] = Once
         /\ Follows(5) /\ Plan[11] = Expect("recovered")
<1>1. Plan = <<Cmd("run", "neighbor", 1), Expect("neighbor"), Fault("loseRequest"), Once>>
                \o FollowUp \o <<Expect("recovered")>>
  BY DEF Plan, Script
<1>2. /\ Cmd("run", "neighbor", 1) \in Commands /\ Expect("neighbor") \in Commands
      /\ Fault("loseRequest") \in Commands /\ Once \in Commands
      /\ Expect("recovered") \in Commands
  BY CommandFields, Expects DEF Ops
<1>3. Advance(SettleStep) \in Commands
  BY Steps, CommandFields
<1> QED BY <1>1, <1>2, <1>3 DEF FollowUp, Follows

\* late-landing, for a contract that may retry before the request lands, and for one that does not.
LEMMA HastyPlan ==
  ASSUME Inputs, Driven, Now = "late-landing", RunAt < options.late
  PROVE  /\ Plan \in Seq(Commands) /\ Len(Plan) = 13
         /\ Declared /\ RunAt = contract.window /\ RunAt \in Nat /\ options.late \in Nat
         /\ Plan[1] = Fault("hold") /\ Plan[2] = Once /\ Plan[3] = Advance(RunAt) /\ Plan[4] = Once
         /\ Plan[5] = Advance(options.late - RunAt) /\ Plan[6] = Cmd("land", "op", 0)
         /\ Follows(7) /\ Plan[13] = Expect("one")
<1>1. Declared /\ RunAt = contract.window /\ RunAt \in Nat /\ options.late \in Nat
  BY ContractFields, OptionsFields DEF RunAt, Declared, Times, Driven, Skipped
<1>2. Plan = <<Fault("hold"), Once, Advance(RunAt), Once, Advance(options.late - RunAt),
               Cmd("land", "op", 0)>> \o FollowUp \o <<Expect("one")>> \o << >>
  BY <1>1 DEF Plan, Script, LateLanding, RunAt
<1>3. /\ Fault("hold") \in Commands /\ Once \in Commands /\ Cmd("land", "op", 0) \in Commands
      /\ Expect("one") \in Commands
  BY CommandFields, Expects
<1>4. /\ Advance(SettleStep) \in Commands /\ Advance(RunAt) \in Commands
      /\ Advance(options.late - RunAt) \in Commands
  BY <1>1, Steps, CommandFields
<1> QED BY <1>1, <1>2, <1>3, <1>4 DEF FollowUp, Follows

LEMMA PatientPlan ==
  ASSUME Inputs, Driven, Now = "late-landing", ~(RunAt < options.late)
  PROVE  /\ Plan \in Seq(Commands) /\ RunAt \in Nat /\ options.late \in Nat
         /\ Len(Plan) = IF Declared THEN 15 ELSE 13
         /\ Plan[1] = Fault("hold") /\ Plan[2] = Once /\ Plan[3] = Advance(options.late)
         /\ Plan[4] = Cmd("land", "op", 0) /\ Plan[5] = Advance(RunAt - options.late)
         /\ Plan[6] = Once /\ Follows(7) /\ Plan[13] = Expect("one")
         /\ Declared => Plan[14] = Expect("executedOnce") /\ Plan[15] = Expect("APPLIED")
<1>1. RunAt \in Nat /\ options.late \in Nat /\ RunAt >= options.late
  BY ContractFields, OptionsFields DEF RunAt, Declared, Times, Driven, Skipped
<1>2. Plan = <<Fault("hold"), Once, Advance(options.late), Cmd("land", "op", 0),
               Advance(RunAt - options.late), Once>> \o FollowUp \o <<Expect("one")>>
               \o (IF Declared THEN <<Expect("executedOnce"), Expect("APPLIED")>> ELSE << >>)
  BY <1>1 DEF Plan, Script, LateLanding, RunAt
<1>3. /\ Fault("hold") \in Commands /\ Once \in Commands /\ Cmd("land", "op", 0) \in Commands
      /\ Expect("one") \in Commands /\ Expect("executedOnce") \in Commands
      /\ Expect("APPLIED") \in Commands
  BY CommandFields, Expects
<1>4. /\ Advance(SettleStep) \in Commands /\ Advance(options.late) \in Commands
      /\ Advance(RunAt - options.late) \in Commands
  BY <1>1, Steps, CommandFields
<1>5. CASE Declared
  BY <1>1, <1>2, <1>3, <1>4, <1>5 DEF FollowUp, Follows
<1>6. CASE ~Declared
  BY <1>1, <1>2, <1>3, <1>4, <1>6 DEF FollowUp, Follows
<1> QED BY <1>5, <1>6

\* Whatever is played consists of commands.
LEMMA PlanFits == Inputs => Plan \in Seq(Commands)
<1>1. CASE ~Driven
  BY <1>1 DEF Plan
<1>2. ASSUME Inputs, Driven PROVE Plan \in Seq(Commands)
  <2>1. Now \in Names
    BY <1>2 DEF Driven, Now, Names
  <2> QED BY <1>2, <2>1, ScenarioNames, NormalPlan, ResponseLostPlan, RequestLostPlan,
             ReadFailsPlan, CrashAfterPlan, CrashBeforePlan, ConcurrentPlan, ReusePlan,
             SettledPlan, RejectedPlan, NeighborPlan, HastyPlan, PatientPlan
<1> QED BY <1>1, <1>2

-----------------------------------------------------------------------------
(* The target *)

\* What the fake ledger does to its target, operation by operation.
LEMMA ResetFields ==
  /\ F!Reset \in Target
  /\ F!Reset.applied = [o \in Ops |-> 0] /\ F!Reset.pending = [o \in Ops |-> FALSE]
  /\ F!Reset.mode = "normal" /\ F!Reset.held = "none" /\ ~F!Reset.failRead
  BY DEF F!Reset, Target, F!Modes

\* An effect more of an operation.
Adds(t, u, o, k) ==
  /\ u.applied[o] = t.applied[o] + k
  /\ \A p \in Ops : p # o => u.applied[p] = t.applied[p]

LEMMA ApplyFields ==
  ASSUME NEW t \in Target, NEW o \in Ops, NEW u, u = F!Apply(t, o)
  PROVE  /\ u \in Target /\ Adds(t, u, o, 1)
         /\ u.pending = t.pending /\ u.mode = t.mode /\ u.held = t.held
         /\ u.failRead = t.failRead
<1>1. u = [applied |-> [t.applied EXCEPT ![o] = @ + 1], pending |-> t.pending,
           mode |-> t.mode, held |-> t.held, failRead |-> t.failRead]
  BY DEF F!Apply, Target
<1>2. t.applied \in [Ops -> Nat]
  BY DEF Target
<1> QED BY <1>1, <1>2 DEF Target, Adds

LEMMA WriteFields ==
  ASSUME NEW t \in Target, NEW o \in Ops, NEW w, w = F!Write(t, o)
  PROVE  /\ w.target \in Target /\ w.ok \in BOOLEAN
         /\ w.target.mode = "normal" /\ w.target.failRead = t.failRead
         /\ w.ok <=> t.mode \in {"normal", "pending"}
         /\ Adds(t, w.target, o, IF t.mode \in {"normal", "loseResponse"} THEN 1 ELSE 0)
         /\ w.target.held = IF t.mode = "hold" THEN o ELSE t.held
         /\ w.target.pending[o] <=> (t.pending[o] \/ t.mode = "pending")
         /\ \A p \in Ops : p # o => (w.target.pending[p] <=> t.pending[p])
<1>1. PICK u : u = [t EXCEPT !.mode = "normal"]
  OBVIOUS
<1>2. /\ u = [applied |-> t.applied, pending |-> t.pending, mode |-> "normal", held |-> t.held,
              failRead |-> t.failRead]
      /\ u \in Target
  BY <1>1 DEF Target, F!Modes
<1>3. /\ t.mode \in {"normal", "loseResponse", "loseRequest", "hold", "pending"}
      /\ t.applied \in [Ops -> Nat] /\ t.pending \in [Ops -> BOOLEAN]
  BY DEF Target, F!Modes
<1>4. CASE t.mode = "loseRequest"
  <2>1. w = [target |-> u, ok |-> FALSE]
    BY <1>1, <1>4 DEF F!Write
  <2> QED BY <1>2, <1>3, <1>4, <2>1 DEF Adds
<1>5. CASE t.mode = "hold"
  <2>1. w = [target |-> [u EXCEPT !.held = o], ok |-> FALSE]
    BY <1>1, <1>5 DEF F!Write
  <2>2. [u EXCEPT !.held = o] = [applied |-> t.applied, pending |-> t.pending,
           mode |-> "normal", held |-> o, failRead |-> t.failRead]
    BY <1>2
  <2>3. [u EXCEPT !.held = o] \in Target
    BY <2>2 DEF Target, F!Modes
  <2> QED BY <1>2, <1>3, <1>5, <2>1, <2>2, <2>3 DEF Adds
<1>6. CASE t.mode = "pending"
  <2>1. PICK p : p = [u.pending EXCEPT ![o] = TRUE]
    OBVIOUS
  <2>2. p \in [Ops -> BOOLEAN] /\ p[o] /\ \A q \in Ops : q # o => (p[q] <=> t.pending[q])
    BY <1>2, <1>3, <2>1
  <2>3. PICK v : v = [u EXCEPT !.pending = p]
    OBVIOUS
  <2>4. w = [target |-> v, ok |-> TRUE]
    BY <1>1, <1>6, <2>1, <2>3 DEF F!Write
  <2>5. v = [applied |-> t.applied, pending |-> p, mode |-> "normal", held |-> t.held,
             failRead |-> t.failRead]
    BY <1>2, <2>3
  <2>6. v \in Target
    BY <1>2, <2>2, <2>5 DEF Target, F!Modes
  <2> QED BY <1>2, <1>3, <1>6, <2>2, <2>4, <2>5, <2>6 DEF Adds
<1>7. CASE t.mode = "loseResponse"
  <2>1. PICK v : v = F!Apply(u, o)
    OBVIOUS
  <2>2. w = [target |-> v, ok |-> FALSE]
    BY <1>1, <1>7, <2>1 DEF F!Write
  <2>3. /\ v \in Target /\ Adds(u, v, o, 1) /\ v.pending = u.pending /\ v.mode = u.mode
        /\ v.held = u.held /\ v.failRead = u.failRead
    BY <1>2, <2>1, ApplyFields
  <2>4. Adds(t, v, o, 1)
    BY <1>2, <2>3 DEF Adds
  <2> QED BY <1>2, <1>3, <1>7, <2>2, <2>3, <2>4
<1>8. CASE t.mode = "normal"
  <2>1. PICK v : v = F!Apply(u, o)
    OBVIOUS
  <2>2. w = [target |-> v, ok |-> TRUE]
    BY <1>1, <1>8, <2>1 DEF F!Write
  <2>3. /\ v \in Target /\ Adds(u, v, o, 1) /\ v.pending = u.pending /\ v.mode = u.mode
        /\ v.held = u.held /\ v.failRead = u.failRead
    BY <1>2, <2>1, ApplyFields
  <2>4. Adds(t, v, o, 1)
    BY <1>2, <2>3 DEF Adds
  <2> QED BY <1>2, <1>3, <1>8, <2>2, <2>3, <2>4
<1> QED BY <1>3, <1>4, <1>5, <1>6, <1>7, <1>8

\* How often a contract's execute() writes.
LEMMA ExecuteFields ==
  ASSUME NEW t \in Target, NEW o \in Ops,
         contract.writes \in {"once", "twice", "untilAnswered"},
         NEW w, w = F!Execute(contract, t, o)
  PROVE  /\ w.target \in Target /\ w.ok \in BOOLEAN
         /\ w.target.mode = "normal" /\ w.target.failRead = t.failRead
         /\ t.held \in {"none", o} => w.target.held \in {"none", o}
         /\ t.held = "none" /\ t.mode # "hold" => w.target.held = "none"
         /\ t.mode # "pending" => (w.target.pending[o] <=> t.pending[o])
         /\ w.target.applied[o] >= t.applied[o]
         /\ t.mode \in {"normal", "loseResponse"} => w.target.applied[o] > t.applied[o]
         /\ \A p \in Ops : p # o =>
              w.target.applied[p] = t.applied[p] /\ (w.target.pending[p] <=> t.pending[p])
         /\ contract.writes = "once" =>
              /\ w.ok <=> t.mode \in {"normal", "pending"}
              /\ Adds(t, w.target, o, IF t.mode \in {"normal", "loseResponse"} THEN 1 ELSE 0)
              /\ w.target.held = IF t.mode = "hold" THEN o ELSE t.held
              /\ w.target.pending[o] <=> (t.pending[o] \/ t.mode = "pending")
         /\ contract.writes = "twice" /\ t.mode = "normal" => Adds(t, w.target, o, 2)
         /\ contract.writes = "untilAnswered" =>
              Adds(t, w.target, o, IF t.mode = "loseResponse" THEN 2
                                   ELSE IF t.mode = "pending" THEN 0 ELSE 1)
<1>1. PICK v : v = F!Write(t, o)
  OBVIOUS
<1>2. /\ v.target \in Target /\ v.ok \in BOOLEAN
      /\ v.target.mode = "normal" /\ v.target.failRead = t.failRead
      /\ v.ok <=> t.mode \in {"normal", "pending"}
      /\ Adds(t, v.target, o, IF t.mode \in {"normal", "loseResponse"} THEN 1 ELSE 0)
      /\ v.target.held = IF t.mode = "hold" THEN o ELSE t.held
      /\ v.target.pending[o] <=> (t.pending[o] \/ t.mode = "pending")
      /\ \A p \in Ops : p # o => (v.target.pending[p] <=> t.pending[p])
  BY <1>1, WriteFields
<1>3. /\ t.applied[o] \in Nat /\ \A p \in Ops : t.applied[p] \in Nat
      /\ t.mode \in {"normal", "loseResponse", "loseRequest", "hold", "pending"}
  BY DEF Target, F!Modes
<1>4. CASE contract.writes # (IF v.ok THEN "twice" ELSE "untilAnswered")
  <2>1. w = v
    BY <1>1, <1>4 DEF F!Execute
  <2> QED BY <1>2, <1>3, <1>4, <2>1 DEF Adds
<1>5. CASE contract.writes = (IF v.ok THEN "twice" ELSE "untilAnswered")
  <2>1. w = F!Write(v.target, o)
    BY <1>1, <1>5 DEF F!Execute
  <2>2. /\ w.target \in Target /\ w.ok \in BOOLEAN
        /\ w.target.mode = "normal" /\ w.target.failRead = v.target.failRead
        /\ Adds(v.target, w.target, o, 1)
        /\ w.target.held = v.target.held
        /\ (w.target.pending[o] <=> v.target.pending[o])
        /\ \A p \in Ops : p # o => (w.target.pending[p] <=> v.target.pending[p])
    BY <1>2, <2>1, WriteFields
  <2> QED BY <1>2, <1>3, <1>5, <2>2 DEF Adds
<1> QED BY <1>4, <1>5

LEMMA LandFields ==
  ASSUME NEW t \in Target, NEW u, u = F!Land(t)
  PROVE  /\ u \in Target
         /\ u.pending = t.pending /\ u.mode = t.mode /\ u.held = t.held /\ u.failRead = t.failRead
         /\ t.held = "none" => u = t
         /\ t.held # "none" => t.held \in Ops /\ Adds(t, u, t.held, 1)
<1>1. t.held \in Ops \cup {"none"}
  BY DEF Target
<1> QED BY <1>1, ApplyFields DEF F!Land

LEMMA SettleFields ==
  ASSUME NEW t \in Target, NEW u, u = F!Settle(t)
  PROVE  /\ u \in Target /\ u.mode = t.mode /\ u.held = t.held /\ u.failRead = t.failRead
         /\ \A o \in Ops :
              ~u.pending[o] /\ u.applied[o] = t.applied[o] + (IF t.pending[o] THEN 1 ELSE 0)
<1>1. t.applied \in [Ops -> Nat] /\ t.pending \in [Ops -> BOOLEAN]
  BY DEF Target
<1>2. u = [applied |-> [o \in Ops |-> t.applied[o] + (IF t.pending[o] THEN 1 ELSE 0)],
           pending |-> [o \in Ops |-> FALSE], mode |-> t.mode, held |-> t.held,
           failRead |-> t.failRead]
  BY DEF F!Settle, Target
<1> QED BY <1>1, <1>2 DEF Target

LEMMA RejectFields ==
  ASSUME NEW t \in Target, NEW u, u = F!Reject(t)
  PROVE  /\ u \in Target /\ u.mode = t.mode /\ u.held = t.held /\ u.failRead = t.failRead
         /\ u.applied = t.applied /\ \A o \in Ops : ~u.pending[o]
<1>1. u = [applied |-> t.applied, pending |-> [o \in Ops |-> FALSE], mode |-> t.mode,
           held |-> t.held, failRead |-> t.failRead]
  BY DEF F!Reject, Target
<1> QED BY <1>1 DEF Target

\* The evidence of an observation.
LEMMA ObserveFields ==
  ASSUME TypeOK, NEW o \in Ops, NEW sent \in BOOLEAN, NEW read, NEW evidence,
         read = F!Observe(contract, target, o),
         evidence = F!Reconcile(contract, sent, read.seen)
  PROVE  /\ read.target \in Target /\ ~read.target.failRead
         /\ read.target.applied = target.applied /\ read.target.pending = target.pending
         /\ read.target.mode = target.mode /\ read.target.held = target.held
         /\ evidence \in EvidenceStates
         /\ contract.trusts = "transport" => evidence = IF sent THEN "APPLIED" ELSE "NOT_APPLIED"
         /\ contract.trusts = "observation" =>
              /\ target.failRead => evidence = contract.onFailedRead
              /\ ~target.failRead /\ target.pending[o] => evidence = contract.onPending
              /\ evidence = "PENDING" =>
                   \/ target.failRead /\ contract.onFailedRead = "PENDING"
                   \/ contract.onPending = "PENDING"
              /\ ~target.failRead /\ ~target.pending[o]
                   /\ (contract.scope = "own" \/ \A p \in Ops : p # o => target.applied[p] = 0 /\ ~target.pending[p]) =>
                   evidence = IF target.applied[o] = 0
                              THEN IF contract.cautious /\ ~sent THEN "UNKNOWN" ELSE "NOT_APPLIED"
                              ELSE IF target.applied[o] = 1 \/ contract.scope = "all" THEN "APPLIED"
                              ELSE "CONFLICTED"
              /\ ~target.failRead /\ contract.scope = "all" /\ (\A p \in Ops : ~target.pending[p])
                   /\ (\E p \in Ops : target.applied[p] > 0) => evidence = "APPLIED"
<1>1. target \in Target
  BY DEF TypeOK
<1>2. /\ target.applied \in [Ops -> Nat] /\ target.pending \in [Ops -> BOOLEAN]
      /\ target.failRead \in BOOLEAN
  BY <1>1 DEF Target
<1>3. read.target = [applied |-> target.applied, pending |-> target.pending, mode |-> target.mode,
                     held |-> target.held, failRead |-> FALSE]
  BY <1>1 DEF F!Observe, Target
<1>4. read.target \in Target
  BY <1>1, <1>3 DEF Target
<1> DEFINE reads == IF contract.scope = "own" THEN {o} ELSE Ops
<1>5. /\ read.seen.failed = target.failRead
      /\ read.seen.pending = \E p \in reads : target.pending[p]
      /\ read.seen.applied = IF contract.scope = "own" THEN target.applied[o]
                             ELSE IF \E p \in Ops : target.applied[p] > 0 THEN 1 ELSE 0
  BY DEF F!Observe
<1>6. /\ read.seen.pending \in BOOLEAN /\ read.seen.applied \in Nat
      /\ target.pending[o] => read.seen.pending
      /\ (\A p \in Ops : ~target.pending[p]) => ~read.seen.pending
      /\ contract.scope = "own" => (read.seen.pending <=> target.pending[o]) /\ read.seen.applied = target.applied[o]
  BY <1>2, <1>5
<1> HIDE DEF reads
<1>7. contract.trusts = "transport" => evidence = IF sent THEN "APPLIED" ELSE "NOT_APPLIED"
  BY DEF F!Reconcile
<1>8. ASSUME contract.trusts = "observation"
      PROVE  /\ read.seen.failed => evidence = contract.onFailedRead
             /\ ~read.seen.failed /\ read.seen.pending => evidence = contract.onPending
             /\ ~read.seen.failed /\ ~read.seen.pending =>
                  evidence = IF read.seen.applied = 0
                             THEN IF contract.cautious /\ ~sent THEN "UNKNOWN" ELSE "NOT_APPLIED"
                             ELSE IF read.seen.applied = 1 THEN "APPLIED" ELSE "CONFLICTED"
  <2>1. read.seen.applied \notin {0, 1} => read.seen.applied # 0 /\ read.seen.applied # 1
    OBVIOUS
  <2> QED BY <1>2, <1>5, <1>6, <1>8 DEF F!Reconcile
<1>9. contract.trusts \in {"observation", "transport"} /\ contract.scope \in {"own", "all"}
      /\ contract.onFailedRead \in EvidenceStates /\ contract.onPending \in EvidenceStates
  BY ContractFields DEF TypeOK
<1>10. evidence \in EvidenceStates
  BY <1>2, <1>5, <1>6, <1>7, <1>8, <1>9 DEF EvidenceStates
<1>11. \A p \in Ops : target.applied[p] \in Nat
  BY <1>2
<1>12. contract.scope = "all" => read.seen.applied = IF \E p \in Ops : target.applied[p] > 0 THEN 1 ELSE 0
  BY <1>5
<1>13. ASSUME contract.scope = "all", \A p \in Ops : p # o => target.applied[p] = 0 /\ ~target.pending[p],
              ~target.pending[o]
       PROVE  ~read.seen.pending /\ read.seen.applied = IF target.applied[o] = 0 THEN 0 ELSE 1
  BY <1>6, <1>11, <1>12, <1>13
<1> QED BY <1>2, <1>3, <1>4, <1>5, <1>6, <1>7, <1>8, <1>9, <1>10, <1>12, <1>13

-----------------------------------------------------------------------------
(* Playing a scenario *)

\* Nothing is played but what was planned while contract, options and scenario stay.
LEMMA SamePlan ==
  ASSUME UNCHANGED <<contract, options, n>>
  PROVE  /\ Now' = Now /\ (Driven' <=> Driven) /\ Plan' = Plan
         /\ Policy' = Policy /\ RetryAllowed' = RetryAllowed /\ Declared' = Declared
         /\ Plain' = Plain /\ Honest' = Honest /\ WaitsLongEnough' = WaitsLongEnough
         /\ Recovers' = Recovers /\ Conservative' = Conservative /\ SettleStep' = SettleStep
         /\ RunAt' = RunAt
<1>1. Now' = Now
  BY DEF Now
<1>2. /\ Policy' = Policy /\ RetryAllowed' = RetryAllowed /\ Declared' = Declared
      /\ SettleStep' = SettleStep /\ Plain' = Plain
  BY DEF Policy, RetryAllowed, Declared, Plain, SettleStep
<1>3. Driven' <=> Driven
  BY <1>1 DEF Driven, Skipped
<1>4. FollowUp' = FollowUp /\ RunAt' = RunAt
  BY <1>2 DEF FollowUp, RunAt
<1>5. LateLanding' = LateLanding
  BY <1>2, <1>4 DEF LateLanding
<1>6. Script(Now)' = Script(Now)
  BY <1>1, <1>4, <1>5 DEF Script
<1>7. Plan' = Plan
  BY <1>3, <1>6 DEF Plan
<1> QED BY <1>1, <1>2, <1>3, <1>4, <1>7 DEF Honest, WaitsLongEnough, Recovers, Conservative

LEMMA Stays ==
  ASSUME UNCHANGED <<contract, options, n, script>>, ScriptFits
  PROVE  /\ ScriptFits' /\ Played' = Played
         /\ Now' = Now /\ (Driven' <=> Driven) /\ Plan' = Plan
  BY SamePlan DEF ScriptFits, Played

\* A command is the next one of the plan.
LEMMA Plays ==
  ASSUME TypeOK, ScriptFits, script # << >>, script' = Tail(script),
         UNCHANGED <<contract, options, n>>
  PROVE  /\ Driven /\ Driven' /\ Now' = Now /\ Plan' = Plan
         /\ Played \in Nat /\ Played + 1 \in 1..Len(Plan) /\ Len(Plan) \in Nat
         /\ Played' = Played + 1
         /\ Head(script) = Plan[Played + 1] /\ Head(script) \in Commands
         /\ script' \in Seq(Commands) /\ ScriptFits'
<1>1. /\ Now' = Now /\ (Driven' <=> Driven) /\ Plan' = Plan
      /\ Plan \in Seq(Commands) /\ Len(Plan) \in Nat
  BY SamePlan, PlanFits DEF TypeOK
<1>2. PICK list \in Seq(Commands) : list = script
  BY DEF TypeOK
<1>3. /\ Len(list) \in Nat \ {0} /\ Len(Tail(list)) = Len(list) - 1 /\ Tail(list) \in Seq(Commands)
      /\ \A i \in 1..Len(list) - 1 : Tail(list)[i] = list[i + 1]
      /\ Head(list) = list[1] /\ Head(list) \in Commands
  <2>1. list # << >>
    BY <1>2
  <2> QED BY <2>1, EmptySeq, HeadTailProperties
<1>4. Driven
  <2>1. CASE ~Driven
    <3>1. Len(Plan) = 0
      BY <2>1 DEF Plan
    <3> QED BY <1>2, <1>3, <3>1 DEF ScriptFits
  <2> QED BY <2>1
<1>5. /\ Played = Len(Plan) - Len(list) /\ Len(list) <= Len(Plan)
      /\ \A i \in 1..Len(list) : list[i] = Plan[Played + i]
      /\ Played' = Len(Plan) - (Len(list) - 1)
  BY <1>1, <1>2, <1>3 DEF ScriptFits, Played
<1>6. Head(script) = Plan[Played + 1]
  BY <1>2, <1>3, <1>5
<1>7. ScriptFits'
  <2>1. \A i \in 1..Len(list) - 1 : Tail(list)[i] = Plan[Played' + i]
    <3>1. TAKE i \in 1..Len(list) - 1
    <3>2. list[i + 1] = Plan[Played + (i + 1)] /\ Played + (i + 1) = Played' + i
      BY <1>1, <1>3, <1>5
    <3> QED BY <1>3, <3>2
  <2>2. script' = Tail(list) /\ Len(script') <= Len(Plan)
    BY <1>1, <1>2, <1>3, <1>5
  <2> QED BY <1>1, <1>3, <2>1, <2>2 DEF ScriptFits
<1> QED BY <1>1, <1>2, <1>3, <1>4, <1>5, <1>6, <1>7

\* The place in the scenario is within it.
LEMMA PlayedFits ==
  ASSUME TypeOK, ScriptFits
  PROVE  /\ Played \in Nat /\ Len(Plan) \in Nat /\ Plan \in Seq(Commands) /\ Played <= Len(Plan)
         /\ Played = Len(Plan) <=> script = << >>
         /\ \A i \in 1..Len(Plan) : Plan[i] \in Commands
         /\ Driven => Now \in Names
<1>1. script \in Seq(Commands) /\ Plan \in Seq(Commands)
  BY PlanFits DEF TypeOK
<1>2. /\ Len(script) \in Nat /\ Len(Plan) \in Nat /\ (Len(script) = 0 <=> script = << >>)
      /\ \A i \in 1..Len(Plan) : Plan[i] \in Commands
  BY <1>1, EmptySeq, ElementOfSeq
<1>3. Driven => Now \in Names
  BY DEF Driven, Now, Names
<1> QED BY <1>1, <1>2, <1>3 DEF ScriptFits, Played

\* Each kind of command has its own argument.
LEMMA CommandKinds ==
  ASSUME NEW x \in Commands
  PROVE  /\ x.do \in {"run", "fault", "crash", "advance", "expect", "failRead", "land", "settle",
                      "reject"}
         /\ x.do = "run" => x.what \in Ops /\ x.by \in {1, 2}
         /\ x.do = "fault" => x.what \in F!Modes
         /\ x.do = "crash" => x.what \in {"onResolve", "afterReserve"}
         /\ x.do = "advance" => x.by \in Nat
         /\ x.do = "expect" => x.what \in Expectations
  BY DEF Commands

\* The next scenario starts from nothing.
LEMMA NextStarts ==
  ASSUME TypeOK, NextScenario
  PROVE  /\ script' = Plan' /\ Played' = 0
         /\ Driven' => n + 1 \in DOMAIN Scenarios
         /\ n' = n + 1 /\ n + 1 \in 1..13
<1>1. n \in 0..13 /\ n' = n + 1 /\ ~(n > 12) /\ UNCHANGED <<contract, options>>
  BY ScenarioNames DEF TypeOK, NextScenario, Fresh, Finished
<1>2. CASE n' = 13
  <2>1. Now' = "none" /\ ~Driven' /\ script' = << >>
    BY <1>1, <1>2, ScenarioNames DEF Now, Driven, NextScenario, Fresh
  <2> QED BY <1>1, <2>1 DEF Plan, Played
<1>3. CASE n' # 13
  <2>1. n + 1 \in DOMAIN Scenarios /\ n' \in DOMAIN Scenarios
    BY <1>1, <1>3, ScenarioNames
  <2>2. Now' = Scenarios[n + 1] /\ Scenarios[n + 1] # "none"
    BY <1>1, <2>1, ScenarioNames DEF Now, Names
  <2>3. Driven' <=> Scenarios[n + 1] \in options.scenarios /\ ~Skipped(Scenarios[n + 1])
    BY <1>1, <2>2 DEF Driven, Skipped
  <2>4. Script(Now)' = Script(Scenarios[n + 1])
    <3>1. /\ Declared' = Declared /\ SettleStep' = SettleStep
      BY <1>1 DEF Declared, SettleStep
    <3>2. FollowUp' = FollowUp
      BY <3>1 DEF FollowUp
    <3>3. LateLanding' = LateLanding
      BY <1>1, <3>1, <3>2 DEF LateLanding
    <3> QED BY <1>1, <2>2, <3>2, <3>3 DEF Script
  <2>5. script' = IF Driven' THEN Script(Scenarios[n + 1]) ELSE << >>
    BY <1>1, <1>3, <2>3, ScenarioNames DEF NextScenario, Fresh
  <2>6. script' = Plan'
    BY <2>4, <2>5 DEF Plan
  <2>7. Plan' \in Seq(Commands)
    <3>1. Inputs'
      BY <1>1 DEF TypeOK, Inputs
    <3>2. (Inputs => Plan \in Seq(Commands))'
      BY PlanFits, PTL
    <3> QED BY <3>1, <3>2
  <2> QED BY <1>1, <2>1, <2>6, <2>7 DEF Played
<1> QED BY <1>1, <1>2, <1>3

-----------------------------------------------------------------------------
(* What the steps of a call do *)

\* One caller moves, to state s.
Moves(c, s) == s \in CallerState /\ caller' \in [Callers -> CallerState] /\ caller'[c] = s
                 /\ \A d \in Callers : d # c => caller'[d] = caller[d]

\* How a caller moves, answers, and ends.
LEMMA CallerMoves ==
  ASSUME TypeOK, NEW c \in Callers, NEW s \in CallerState, Become(c, s)
  PROVE  Moves(c, s)
  BY DEF TypeOK, Become, Moves

LEMMA CallerFields ==
  ASSUME TypeOK, NEW c \in Callers
  PROVE  /\ caller[c] \in CallerState /\ caller[c].op \in Ops /\ caller[c].ok \in BOOLEAN
         /\ caller[c].evidence \in EvidenceStates
         /\ caller[c].pc \in {"idle", "begin", "reserve", "execute", "observe", "save"}
         /\ record[caller[c].op] \in Record
         /\ Quiet \in CallerState /\ Quiet.pc = "idle"
  BY DEF TypeOK, CallerState, Quiet, Ops, EvidenceStates

Pcs == {"idle", "begin", "reserve", "execute", "observe", "save"}

LEMMA CallerGoes ==
  ASSUME TypeOK, NEW c \in Callers, NEW pc \in Pcs, NEW s, s = [caller[c] EXCEPT !.pc = pc]
  PROVE  /\ s = [pc |-> pc, op |-> caller[c].op, ok |-> caller[c].ok,
                 evidence |-> caller[c].evidence]
         /\ s \in CallerState
<1>1. PICK q \in CallerState : q = caller[c]
  BY CallerFields
<1>2. q = [pc |-> q.pc, op |-> q.op, ok |-> q.ok, evidence |-> q.evidence]
  BY DEF CallerState
<1>3. s = [pc |-> pc, op |-> q.op, ok |-> q.ok, evidence |-> q.evidence]
  BY <1>1, <1>2
<1> QED BY <1>1, <1>3 DEF CallerState, Pcs

LEMMA CallerHears ==
  ASSUME TypeOK, NEW c \in Callers, NEW pc \in Pcs, NEW sent \in BOOLEAN,
         NEW s, s = [caller[c] EXCEPT !.pc = pc, !.ok = sent]
  PROVE  /\ s = [pc |-> pc, op |-> caller[c].op, ok |-> sent, evidence |-> caller[c].evidence]
         /\ s \in CallerState
<1>1. PICK q \in CallerState : q = caller[c]
  BY CallerFields
<1>2. q = [pc |-> q.pc, op |-> q.op, ok |-> q.ok, evidence |-> q.evidence]
  BY DEF CallerState
<1>3. s = [pc |-> pc, op |-> q.op, ok |-> sent, evidence |-> q.evidence]
  BY <1>1, <1>2
<1> QED BY <1>1, <1>3 DEF CallerState, Pcs

LEMMA CallerSees ==
  ASSUME TypeOK, NEW c \in Callers, NEW pc \in Pcs, NEW evidence \in EvidenceStates,
         NEW s, s = [caller[c] EXCEPT !.pc = pc, !.evidence = evidence]
  PROVE  /\ s = [pc |-> pc, op |-> caller[c].op, ok |-> caller[c].ok, evidence |-> evidence]
         /\ s \in CallerState
<1>1. PICK q \in CallerState : q = caller[c]
  BY CallerFields
<1>2. q = [pc |-> q.pc, op |-> q.op, ok |-> q.ok, evidence |-> q.evidence]
  BY DEF CallerState
<1>3. s = [pc |-> pc, op |-> q.op, ok |-> q.ok, evidence |-> evidence]
  BY <1>1, <1>2
<1> QED BY <1>1, <1>3 DEF CallerState, Pcs

Answers == [evidence : EvidenceStates \cup {"none"}, disposition : Dispositions \cup {"REVIEW"}]

\* What a call answers of a record.
LEMMA AnswerFields ==
  ASSUME NEW r \in Record
  PROVE  /\ Answer(r) \in Answers
         /\ Answer(r).evidence = IF r.attempts = << >> \/ Latest(r).status = "RESERVED" THEN "none"
                                 ELSE Latest(r).evidence
         /\ RecordFits(r) =>
              Answer(r).disposition = IF r.attempts = << >> \/ Latest(r).status = "RESERVED"
                                      THEN "NULL" ELSE Latest(r).disposition
<1>1. CASE r.attempts = << >>
  <2>1. Answer(r).evidence = "none" /\ Answer(r).disposition = Reported(r)
    BY <1>1 DEF Answer
  <2>2. RecordFits(r) => Reported(r) = "NULL"
    BY <1>1 DEF RecordFits, Reported, CurrentBlock, NoBlock, NoReview
  <2>3. Reported(r) \in {"REVIEW", "REPLAN", "NULL"}
    BY <1>1 DEF Reported
  <2> QED BY <1>1, <2>1, <2>2, <2>3 DEF Answers, Answer, Dispositions
<1>2. CASE r.attempts # << >>
  <2>1. /\ Latest(r).evidence \in EvidenceStates /\ Latest(r).disposition \in Dispositions
        /\ Latest(r).status \in {"RESERVED", "RESOLVED"}
    BY <1>2, LatestFields
  <2>2. /\ Answer(r).evidence = IF Latest(r).status = "RESERVED" THEN "none" ELSE Latest(r).evidence
        /\ Answer(r).disposition = Reported(r)
    BY <1>2 DEF Answer
  <2>3. Reported(r) \in {"REVIEW", "REPLAN", "NULL", Latest(r).disposition}
    BY <1>2 DEF Reported
  <2>4. ASSUME RecordFits(r)
        PROVE  Reported(r) = IF Latest(r).status = "RESERVED" THEN "NULL" ELSE Latest(r).disposition
    <3>1. /\ r.status \in {"NONE", "OPEN", "CLOSED"} /\ CurrentBlock(r) = "none"
          /\ r.review.decision # "rejected"
      BY <2>4 DEF RecordFits, CurrentBlock, NoBlock, NoReview
    <3>2. /\ Latest(r).status = "RESERVED" => r.status # "CLOSED"
          /\ r.status = "CLOSED" => ~LatestLeftItOpen(r)
      BY <1>2, <2>1, <2>4 DEF RecordFits, LatestLeftItOpen
    <3> QED BY <1>2, <3>1, <3>2 DEF Reported
  <2>5. Answer(r) \in Answers
    BY <2>1, <2>2, <2>3 DEF Answers, Answer, Dispositions
  <2> QED BY <1>2, <2>2, <2>4, <2>5
<1> QED BY <1>1, <1>2

\* Where a call takes a record up, as nextStep decides it.
LEMMA NextStepFields ==
  ASSUME NEW r \in Record, NEW now \in Nat, RecordFits(r)
  PROVE  /\ NextStep(r, now) \in {"create", "idle", "reserve", "observe"}
         /\ NextStep(r, now) = "create" <=> r.status = "NONE"
         /\ r.status = "CLOSED" => NextStep(r, now) = "idle"
         /\ NextStep(r, now) \in {"reserve", "observe"} => r.status = "OPEN"
         /\ r.status = "OPEN" /\ r.attempts = << >> => NextStep(r, now) = "reserve"
         /\ r.status = "OPEN" /\ r.attempts # << >> =>
              NextStep(r, now) =
                IF Latest(r).status = "RESERVED" \/ Latest(r).evidence = "PENDING" THEN "observe"
                ELSE IF Latest(r).ok THEN "reserve"
                ELSE IF Latest(r).retryNotBefore # NoTime /\ now < Latest(r).retryNotBefore
                THEN "idle" ELSE "observe"
<1>1. r.status \in {"NONE", "OPEN", "CLOSED"}
  BY DEF RecordFits
<1>2. CASE r.status = "NONE"
  BY <1>2 DEF NextStep
<1>3. CASE r.status = "CLOSED"
  BY <1>3 DEF NextStep
<1>4. CASE r.status = "OPEN"
  BY <1>4 DEF NextStep, Delayed
<1> QED BY <1>1, <1>2, <1>3, <1>4

\* A call that ends.
Ends(c) ==
  /\ Moves(c, Quiet) /\ record' = record
  /\ last' = IF caller[c].op = "op" THEN Answer(record[caller[c].op]) ELSE last

\* A call that meets the lock answers what is on record.
LEMMA BusyDoes ==
  ASSUME TypeOK, NEW c \in Callers, Busy(c)
  PROVE  /\ At(c, "begin") /\ lock[caller[c].op] # "none" /\ Ends(c)
         /\ UNCHANGED <<Running, target, lock, crashOn, executes>>
  BY CallerFields, CallerMoves DEF Busy, Return, Of, Ends

\* The lock of one operation, and its record.
Locks(o, c) == lock' = [lock EXCEPT ![o] = c]

\* A call that gets the lock creates the record, takes it up or answers it.
LEMMA BeginDoes ==
  ASSUME TypeOK, RecordsFit, NEW c \in Callers, Begin(c), NEW o, o = caller[c].op
  PROVE  /\ At(c, "begin") /\ lock[o] = "none"
         /\ UNCHANGED <<Running, target, crashOn, executes>>
         /\ \/ NextStep(record[o], clock) = "idle" /\ Ends(c) /\ lock' = lock
            \/ /\ record[o].status = "NONE" /\ record[o] = NoRecord
               /\ record' = [record EXCEPT ![o] = New]
               /\ Locks(o, c) /\ last' = last
               /\ Moves(c, [pc |-> "reserve", op |-> o, ok |-> FALSE, evidence |-> caller[c].evidence])
            \/ /\ NextStep(record[o], clock) \in {"reserve", "observe"} /\ record[o].status = "OPEN"
               /\ record' = record /\ Locks(o, c) /\ last' = last
               /\ Moves(c, [pc |-> NextStep(record[o], clock), op |-> o,
                            ok |-> record[o].attempts # << >> /\ Latest(record[o]).ok,
                            evidence |-> caller[c].evidence])
<1>1. /\ o \in Ops /\ record[o] \in Record /\ RecordFits(record[o]) /\ clock \in Nat
  BY CallerFields DEF RecordsFit, TypeOK
<1>2. /\ NextStep(record[o], clock) \in {"create", "idle", "reserve", "observe"}
      /\ NextStep(record[o], clock) = "create" <=> record[o].status = "NONE"
      /\ NextStep(record[o], clock) \in {"reserve", "observe"} => record[o].status = "OPEN"
  BY <1>1, NextStepFields
<1>3. /\ At(c, "begin") /\ lock[o] = "none" /\ UNCHANGED <<Running, target, crashOn, executes>>
  BY DEF Begin
<1>4. CASE NextStep(record[o], clock) = "idle"
  <2>1. Return(c, record[o]) /\ UNCHANGED <<lock, record>>
    BY <1>4 DEF Begin, Of
  <2> QED BY <1>3, <1>4, <2>1, CallerFields, CallerMoves DEF Return, Ends
<1>5. CASE NextStep(record[o], clock) # "idle"
  <2> DEFINE step == NextStep(record[o], clock)
             sent == record[o].attempts # << >> /\ Latest(record[o]).ok
  <2>1. /\ Locks(o, c) /\ last' = last
        /\ record' = IF step = "create" THEN [record EXCEPT ![o] = New] ELSE record
        /\ Become(c, [caller[c] EXCEPT !.pc = IF step = "create" THEN "reserve" ELSE step,
                                       !.ok = sent])
    BY <1>5 DEF Begin, Of, Locks, New
  <2>2. sent \in BOOLEAN
    OBVIOUS
  <2>3. Moves(c, [pc |-> IF step = "create" THEN "reserve" ELSE step, op |-> o, ok |-> sent,
                  evidence |-> caller[c].evidence])
    <3>1. PICK pc : pc = IF step = "create" THEN "reserve" ELSE step
      OBVIOUS
    <3>2. pc \in Pcs
      BY <1>2, <1>5, <3>1 DEF Pcs
    <3> HIDE DEF step
    <3>3. PICK heard \in BOOLEAN : heard = sent
      BY <2>2
    <3> HIDE DEF sent
    <3>4. PICK s : s = [caller[c] EXCEPT !.pc = pc, !.ok = heard]
      OBVIOUS
    <3>5. s = [pc |-> pc, op |-> o, ok |-> heard, evidence |-> caller[c].evidence]
          /\ s \in CallerState
      BY <3>2, <3>4, CallerHears
    <3>6. Become(c, s)
      BY <2>1, <3>1, <3>3, <3>4
    <3>7. Moves(c, s)
      BY <3>5, <3>6, CallerMoves
    <3> QED BY <3>1, <3>3, <3>5, <3>7
  <2>4. CASE step = "create"
    <3>1. record[o] = NoRecord
      BY <1>1, <1>2, <2>4 DEF RecordFits
    <3>2. ~sent
      BY <3>1 DEF NoRecord, NewRecord
    <3> QED BY <1>2, <1>3, <2>1, <2>3, <2>4, <3>1, <3>2
  <2>5. CASE step # "create"
    BY <1>2, <1>3, <1>5, <2>1, <2>3, <2>5
  <2> QED BY <2>4, <2>5
<1> QED BY <1>4, <1>5

LEMMA ReserveRecord ==
  ASSUME TypeOK, NEW c \in Callers, Reserve(c), NEW o, o = caller[c].op
  PROVE  /\ record[o] \in Record /\ record'[o] \in Record /\ o \in Ops
         /\ record' \in [Ops -> Record] /\ \A p \in Ops : p # o => record'[p] = record[p]
         /\ record'[o] =
              [version |-> record[o].version + 1, status |-> record[o].status,
               reviewReason |-> record[o].reviewReason,
               attempts |-> Append(record[o].attempts, Reserved(clock, contract.window)),
               review |-> record[o].review, episode |-> record[o].episode,
               blockedBy |-> record[o].blockedBy]
         /\ record'[o].status = record[o].status /\ record'[o].review = record[o].review
         /\ record'[o].blockedBy = record[o].blockedBy
         /\ record'[o].attempts # << >>
         /\ Latest(record'[o]) = Reserved(clock, contract.window)
         /\ Len(record'[o].attempts) = Len(record[o].attempts) + 1 /\ Len(record[o].attempts) \in Nat
<1>0. PICK r, s : r = record[o] /\ s = record'[o]
  OBVIOUS
<1>1. /\ o \in Ops /\ r \in Record /\ record[o] \in Record /\ record \in [Ops -> Record] /\ clock \in Nat
      /\ contract.window \in Times /\ At(c, "reserve") /\ UNCHANGED <<Running, target, executes, last>>
  BY <1>0, CallerFields, ContractFields DEF TypeOK, Reserve
<1>2. PICK a : a = Reserved(clock, contract.window)
  OBVIOUS
<1>3. a \in Attempt
  BY <1>1, <1>2, ReservedFields
<1>r. r = [version |-> r.version, status |-> r.status, reviewReason |-> r.reviewReason,
           attempts |-> r.attempts, review |-> r.review, episode |-> r.episode,
           blockedBy |-> r.blockedBy]
  BY <1>1 DEF Record
<1>s. PICK x : x = [r EXCEPT !.version = @ + 1, !.attempts = Append(@, a)]
  OBVIOUS
<1>4. x = [version |-> r.version + 1, status |-> r.status,
           reviewReason |-> r.reviewReason, attempts |-> Append(r.attempts, a),
           review |-> r.review, episode |-> r.episode, blockedBy |-> r.blockedBy]
  BY <1>r, <1>s
<1>y. record' = [record EXCEPT ![o] = [r EXCEPT !.version = @ + 1, !.attempts = Append(@, a)]]
  BY <1>0, <1>2 DEF Reserve, Of
<1>z. record' = [record EXCEPT ![o] = x]
  BY <1>s, <1>y
<1>5. s = x
  BY <1>0, <1>1, <1>z
<1>6. s = [version |-> r.version + 1, status |-> r.status, reviewReason |-> r.reviewReason,
           attempts |-> Append(r.attempts, a), review |-> r.review, episode |-> r.episode,
           blockedBy |-> r.blockedBy]
  BY <1>5, <1>4
<1>7. /\ s \in Record
      /\ s.status = r.status /\ s.review = r.review /\ s.blockedBy = r.blockedBy
      /\ s.attempts # << >> /\ Latest(s) = a
      /\ Len(s.attempts) = Len(r.attempts) + 1 /\ Len(r.attempts) \in Nat
  <2>1. r \in Record
    BY <1>1
  <2> QED BY <2>1, <1>3, <1>6, AppendedFields
<1>8. record' \in [Ops -> Record] /\ \A p \in Ops : p # o => record'[p] = record[p]
  BY <1>0, <1>1, <1>z, <1>5, <1>7
<1> QED BY <1>0, <1>1, <1>2, <1>6, <1>7, <1>8

\* The reservation of an attempt, or the crash after it.
LEMMA ReserveDoes ==
  ASSUME TypeOK, NEW c \in Callers, Reserve(c), NEW o, o = caller[c].op
  PROVE  /\ At(c, "reserve") /\ UNCHANGED <<Running, target, executes, last>>
         /\ record' \in [Ops -> Record] /\ \A p \in Ops : p # o => record'[p] = record[p]
         /\ record[o] \in Record
         /\ \E r, s \in Record :
              /\ r = record[o] /\ s = record'[o]
              /\ s = [version |-> r.version + 1, status |-> r.status, reviewReason |-> r.reviewReason,
                      attempts |-> Append(r.attempts, Reserved(clock, contract.window)),
                      review |-> r.review, episode |-> r.episode, blockedBy |-> r.blockedBy]
              /\ s.status = r.status /\ s.review = r.review /\ s.blockedBy = r.blockedBy
              /\ s.attempts # << >> /\ Latest(s) = Reserved(clock, contract.window)
              /\ Len(s.attempts) = Len(r.attempts) + 1 /\ Len(r.attempts) \in Nat
         /\ \/ /\ crashOn = "afterReserve" /\ crashOn' = "none" /\ Locks(o, "none") /\ Moves(c, Quiet)
            \/ /\ crashOn # "afterReserve" /\ crashOn' = crashOn /\ lock' = lock
               /\ Moves(c, [pc |-> "execute", op |-> o, ok |-> caller[c].ok,
                            evidence |-> caller[c].evidence])
<1>1. /\ o \in Ops /\ record[o] \in Record /\ At(c, "reserve")
      /\ UNCHANGED <<Running, target, executes, last>>
  BY CallerFields DEF Reserve
<1>8. record' \in [Ops -> Record] /\ \A p \in Ops : p # o => record'[p] = record[p]
  BY ReserveRecord, ZenonT(60)
<1>11. \E p, q \in Record :
         /\ p = record[o] /\ q = record'[o]
         /\ q = [version |-> p.version + 1, status |-> p.status, reviewReason |-> p.reviewReason,
                 attempts |-> Append(p.attempts, Reserved(clock, contract.window)),
                 review |-> p.review, episode |-> p.episode, blockedBy |-> p.blockedBy]
         /\ q.status = p.status /\ q.review = p.review /\ q.blockedBy = p.blockedBy
         /\ q.attempts # << >> /\ Latest(q) = Reserved(clock, contract.window)
         /\ Len(q.attempts) = Len(p.attempts) + 1 /\ Len(p.attempts) \in Nat
  <2>1. PICK r, s : r = record[o] /\ s = record'[o]
    OBVIOUS
  <2>2. /\ r \in Record /\ s \in Record
        /\ s = [version |-> r.version + 1, status |-> r.status, reviewReason |-> r.reviewReason,
                attempts |-> Append(r.attempts, Reserved(clock, contract.window)),
                review |-> r.review, episode |-> r.episode, blockedBy |-> r.blockedBy]
        /\ s.status = r.status /\ s.review = r.review /\ s.blockedBy = r.blockedBy
        /\ s.attempts # << >> /\ Latest(s) = Reserved(clock, contract.window)
        /\ Len(s.attempts) = Len(r.attempts) + 1 /\ Len(r.attempts) \in Nat
    BY <2>1, ReserveRecord
  <2> QED BY <2>1, <2>2
<1>9. CASE crashOn = "afterReserve"
  <2>1. crashOn' = "none" /\ Locks(o, "none") /\ Become(c, Quiet)
    BY <1>9 DEF Reserve, Dies, Unlock, Locks
  <2> QED BY <1>1, <1>8, <1>11, <1>9, <2>1, CallerMoves, CallerFields
<1>10. CASE crashOn # "afterReserve"
  <2>1. crashOn' = crashOn /\ lock' = lock /\ Become(c, [caller[c] EXCEPT !.pc = "execute"])
    BY <1>10 DEF Reserve, Goto
  <2>2. PICK q : q = [caller[c] EXCEPT !.pc = "execute"]
    OBVIOUS
  <2>3. /\ q = [pc |-> "execute", op |-> o, ok |-> caller[c].ok, evidence |-> caller[c].evidence]
        /\ q \in CallerState
    BY <2>2, CallerGoes DEF Pcs
  <2>4. Moves(c, q)
    BY <2>1, <2>2, <2>3, CallerMoves
  <2> QED BY <1>1, <1>8, <1>11, <1>10, <2>1, <2>3, <2>4
<1> QED BY <1>9, <1>10

\* What the contract's execute() does to the target: one, two or no writes that count.
LEMMA ExecuteDoes ==
  ASSUME TypeOK, NEW c \in Callers, Execute(c), NEW o, o = caller[c].op
  PROVE  /\ At(c, "execute") /\ executes' = executes + 1
         /\ UNCHANGED <<Running, record, lock, crashOn, last>>
         /\ target' \in Target /\ target'.mode = "normal" /\ target'.failRead = target.failRead
         /\ \E sent \in BOOLEAN :
              /\ Moves(c, [pc |-> "observe", op |-> o, ok |-> sent, evidence |-> caller[c].evidence])
              /\ contract.writes = "once" => (sent <=> target.mode \in {"normal", "pending"})
              /\ contract.writes = "untilAnswered" \/ target.mode \in {"normal", "pending"} \/ ~sent
         /\ target.held \in {"none", o} => target'.held \in {"none", o}
         /\ target.mode # "pending" => (target'.pending[o] <=> target.pending[o])
         /\ \A p \in Ops : p # o =>
              target'.applied[p] = target.applied[p] /\ (target'.pending[p] <=> target.pending[p])
         /\ contract.writes = "once" =>
              /\ target'.applied[o] =
                   target.applied[o] + IF target.mode \in {"normal", "loseResponse"} THEN 1 ELSE 0
              /\ target'.held = IF target.mode = "hold" THEN o ELSE target.held
              /\ target'.pending[o] <=> (target.pending[o] \/ target.mode = "pending")
         /\ contract.writes = "twice" /\ target.mode = "normal" =>
              target'.applied[o] = target.applied[o] + 2
         /\ contract.writes = "untilAnswered" =>
              target'.applied[o] = target.applied[o] +
                (IF target.mode = "loseResponse" THEN 2 ELSE IF target.mode = "pending" THEN 0 ELSE 1)
<1>1. /\ o \in Ops /\ target \in Target /\ caller[c].evidence \in EvidenceStates
      /\ contract.writes \in {"once", "twice", "untilAnswered"}
  BY CallerFields, ContractFields DEF TypeOK
<1>2. PICK w : w = F!Execute(contract, target, o)
  OBVIOUS
<1>3. /\ At(c, "execute") /\ executes' = executes + 1 /\ target' = w.target
      /\ UNCHANGED <<Running, record, lock, crashOn, last>>
      /\ Become(c, [caller[c] EXCEPT !.pc = "observe", !.ok = w.ok])
  BY <1>2 DEF Execute
<1>4. PICK sent \in BOOLEAN : sent = w.ok
  BY <1>1, <1>2, ExecuteFields
<1>u. PICK u : u = w.target
  OBVIOUS
<1>5. /\ u \in Target /\ sent \in BOOLEAN
      /\ u.mode = "normal" /\ u.failRead = target.failRead
      /\ target.held \in {"none", o} => u.held \in {"none", o}
      /\ target.mode # "pending" => (u.pending[o] <=> target.pending[o])
      /\ \A p \in Ops : p # o =>
           u.applied[p] = target.applied[p] /\ (u.pending[p] <=> target.pending[p])
      /\ contract.writes = "once" =>
           /\ sent <=> target.mode \in {"normal", "pending"}
           /\ Adds(target, u, o, IF target.mode \in {"normal", "loseResponse"} THEN 1 ELSE 0)
           /\ u.held = IF target.mode = "hold" THEN o ELSE target.held
           /\ u.pending[o] <=> (target.pending[o] \/ target.mode = "pending")
      /\ contract.writes = "twice" /\ target.mode = "normal" => Adds(target, u, o, 2)
      /\ contract.writes = "untilAnswered" =>
           Adds(target, u, o, IF target.mode = "loseResponse" THEN 2
                              ELSE IF target.mode = "pending" THEN 0 ELSE 1)
  BY <1>1, <1>2, <1>4, <1>u, ExecuteFields
<1>p. PICK pc \in Pcs : pc = "observe"
  BY DEF Pcs
<1>6. PICK q : q = [caller[c] EXCEPT !.pc = pc, !.ok = sent]
  OBVIOUS
<1>7. /\ q = [pc |-> pc, op |-> o, ok |-> sent, evidence |-> caller[c].evidence]
      /\ q \in CallerState
  BY <1>6, CallerHears
<1>8. Become(c, q)
  BY <1>3, <1>4, <1>6, <1>p
<1>9. Moves(c, q)
  BY <1>7, <1>8, CallerMoves
<1>10. contract.writes = "twice" => ( target.mode \in {"normal", "pending"} \/ ~sent)
  <2>1. SUFFICES ASSUME contract.writes = "twice", target.mode \notin {"normal", "pending"}
                 PROVE  ~sent
    OBVIOUS
  <2>2. PICK v : v = F!Write(target, o)
    OBVIOUS
  <2>3. ~v.ok
    BY <1>1, <2>1, <2>2, WriteFields
  <2>4. w = v
    BY <1>2, <2>1, <2>2, <2>3 DEF F!Execute
  <2> QED BY <1>4, <2>3, <2>4
<1> QED BY <1>1, <1>3, <1>u, <1>4, <1>5, <1>p, <1>7, <1>9, <1>10 DEF Adds

\* observe() and reconcile().
LEMMA ObserveDoes ==
  ASSUME TypeOK, NEW c \in Callers, Observe(c), NEW o, o = caller[c].op
  PROVE  /\ At(c, "observe") /\ UNCHANGED <<Running, record, lock, crashOn, executes, last>>
         /\ target' \in Target /\ ~target'.failRead
         /\ target'.applied = target.applied /\ target'.pending = target.pending
         /\ target'.mode = target.mode /\ target'.held = target.held
         /\ \E evidence \in EvidenceStates :
              /\ Moves(c, [pc |-> "save", op |-> o, ok |-> caller[c].ok, evidence |-> evidence])
              /\ contract.trusts = "transport" =>
                   evidence = IF caller[c].ok THEN "APPLIED" ELSE "NOT_APPLIED"
              /\ contract.trusts = "observation" =>
                   /\ target.failRead => evidence = contract.onFailedRead
                   /\ ~target.failRead /\ target.pending[o] => evidence = contract.onPending
                   /\ evidence = "PENDING" =>
                        \/ target.failRead /\ contract.onFailedRead = "PENDING"
                        \/ contract.onPending = "PENDING"
                   /\ ~target.failRead /\ ~target.pending[o]
                        /\ (contract.scope = "own"
                            \/ \A p \in Ops : p # o => target.applied[p] = 0 /\ ~target.pending[p]) =>
                        evidence = IF target.applied[o] = 0
                                   THEN IF contract.cautious /\ ~caller[c].ok THEN "UNKNOWN"
                                        ELSE "NOT_APPLIED"
                                   ELSE IF target.applied[o] = 1 \/ contract.scope = "all" THEN "APPLIED"
                                   ELSE "CONFLICTED"
                   /\ ~target.failRead /\ contract.scope = "all" /\ (\A p \in Ops : ~target.pending[p])
                        /\ (\E p \in Ops : target.applied[p] > 0) => evidence = "APPLIED"
<1>1. /\ o \in Ops /\ caller[c].ok \in BOOLEAN
  BY CallerFields
<1>2. PICK read : read = F!Observe(contract, target, o)
  OBVIOUS
<1>3. PICK evidence : evidence = F!Reconcile(contract, caller[c].ok, read.seen)
  OBVIOUS
<1>4. /\ At(c, "observe") /\ UNCHANGED <<Running, record, lock, crashOn, executes, last>>
      /\ target' = read.target
      /\ Become(c, [caller[c] EXCEPT !.pc = "save", !.evidence = evidence])
  BY <1>2, <1>3 DEF Observe
<1>5. PICK sent \in BOOLEAN : sent = caller[c].ok
  BY <1>1
<1>6. /\ read.target \in Target /\ ~read.target.failRead
      /\ read.target.applied = target.applied /\ read.target.pending = target.pending
      /\ read.target.mode = target.mode /\ read.target.held = target.held
      /\ evidence \in EvidenceStates
  BY <1>1, <1>2, <1>3, <1>5, ObserveFields
<1>7. contract.trusts = "transport" => evidence = IF sent THEN "APPLIED" ELSE "NOT_APPLIED"
  BY <1>1, <1>2, <1>3, <1>5, ObserveFields
<1>8. contract.trusts = "observation" =>
        /\ target.failRead => evidence = contract.onFailedRead
        /\ ~target.failRead /\ target.pending[o] => evidence = contract.onPending
        /\ evidence = "PENDING" =>
             \/ target.failRead /\ contract.onFailedRead = "PENDING"
             \/ contract.onPending = "PENDING"
        /\ ~target.failRead /\ ~target.pending[o]
             /\ (contract.scope = "own"
                 \/ \A p \in Ops : p # o => target.applied[p] = 0 /\ ~target.pending[p]) =>
             evidence = IF target.applied[o] = 0
                        THEN IF contract.cautious /\ ~sent THEN "UNKNOWN" ELSE "NOT_APPLIED"
                        ELSE IF target.applied[o] = 1 \/ contract.scope = "all" THEN "APPLIED"
                        ELSE "CONFLICTED"
        /\ ~target.failRead /\ contract.scope = "all" /\ (\A p \in Ops : ~target.pending[p])
             /\ (\E p \in Ops : target.applied[p] > 0) => evidence = "APPLIED"
  BY <1>1, <1>2, <1>3, <1>5, ObserveFields
<1>9. PICK q : q = [caller[c] EXCEPT !.pc = "save", !.evidence = evidence]
  OBVIOUS
<1>10. /\ q = [pc |-> "save", op |-> o, ok |-> caller[c].ok, evidence |-> evidence]
       /\ q \in CallerState
  BY <1>6, <1>9, CallerSees DEF Pcs
<1>11. Moves(c, q)
  BY <1>4, <1>9, <1>10, CallerMoves
<1> QED BY <1>4, <1>5, <1>6, <1>7, <1>8, <1>10, <1>11

\* resolveAttempt(), or the crash before it.
LEMMA SaveDoes ==
  ASSUME TypeOK, NEW c \in Callers, Save(c), NEW o, o = caller[c].op, record[o].attempts # << >>
  PROVE  /\ At(c, "save") /\ UNCHANGED <<Running, target, executes>>
         /\ \/ /\ crashOn = "onResolve" /\ crashOn' = "none" /\ Locks(o, "none") /\ Moves(c, Quiet)
               /\ record' = record /\ last' = last
            \/ /\ crashOn # "onResolve" /\ crashOn' = crashOn
               /\ \E r, s \in Record :
                    /\ r = record[o] /\ r.attempts # << >> /\ record' = [record EXCEPT ![o] = s]
                    /\ s = ResolvedRecord(r, caller[c].ok, caller[c].evidence, Policy,
                                          contract.window, clock)
                    /\ \/ /\ RetriesNow(r, s) /\ lock' = lock /\ last' = last
                          /\ Moves(c, [pc |-> "reserve", op |-> o, ok |-> caller[c].ok,
                                       evidence |-> caller[c].evidence])
                       \/ /\ ~RetriesNow(r, s) /\ Locks(o, "none") /\ Moves(c, Quiet)
                          /\ last' = IF o = "op" THEN Answer(s) ELSE last
<1>0. PICK r : r = record[o]
  OBVIOUS
<1>1. /\ o \in Ops /\ r \in Record /\ r.attempts # << >> /\ clock \in Nat /\ contract.window \in Times
      /\ caller[c].ok \in BOOLEAN /\ caller[c].evidence \in EvidenceStates
      /\ Policy.retryOnNotApplied \in BOOLEAN /\ Policy.maxAttempts \in Nat
  BY <1>0, CallerFields, ContractFields DEF TypeOK
<1>2. At(c, "save") /\ UNCHANGED <<Running, target, executes>>
  BY DEF Save
<1>3. CASE crashOn = "onResolve"
  <2>1. crashOn' = "none" /\ Locks(o, "none") /\ Become(c, Quiet) /\ record' = record /\ last' = last
    BY <1>3 DEF Save, Dies, Unlock, Locks
  <2> QED BY <1>2, <1>3, <2>1, CallerMoves, CallerFields
<1>4. CASE crashOn # "onResolve"
  <2>1. PICK s : s = ResolvedRecord(r, caller[c].ok, caller[c].evidence, Policy,
                                    contract.window, clock)
    OBVIOUS
  <2>2. s \in Record
    BY <1>1, <2>1, ResolvedRecordFields
  <2>3. /\ record' = [record EXCEPT ![o] = s] /\ crashOn' = crashOn
        /\ IF RetriesNow(r, s)
           THEN Goto(c, "reserve") /\ UNCHANGED <<lock, last>>
           ELSE Return(c, s) /\ Unlock(c)
    BY <1>0, <1>4, <2>1 DEF Save, Of
  <2>4. CASE RetriesNow(r, s)
    <3>1. PICK q : q = [caller[c] EXCEPT !.pc = "reserve"]
      OBVIOUS
    <3>2. /\ q = [pc |-> "reserve", op |-> o, ok |-> caller[c].ok, evidence |-> caller[c].evidence]
          /\ q \in CallerState
      BY <3>1, CallerGoes DEF Pcs
    <3>3. Moves(c, q)
      BY <2>3, <2>4, <3>1, <3>2, CallerMoves DEF Goto
    <3> QED BY <1>0, <1>1, <1>2, <1>4, <2>1, <2>2, <2>3, <2>4, <3>2, <3>3
  <2>5. CASE ~RetriesNow(r, s)
    <3>1. Moves(c, Quiet) /\ Locks(o, "none") /\ last' = IF o = "op" THEN Answer(s) ELSE last
      BY <2>3, <2>5, CallerMoves, CallerFields DEF Return, Unlock, Locks
    <3> QED BY <1>0, <1>1, <1>2, <1>4, <2>1, <2>2, <2>3, <2>5, <3>1
  <2> QED BY <2>4, <2>5
<1> QED BY <1>3, <1>4

-----------------------------------------------------------------------------
(* What holds in every scenario *)

Basics == TypeOK /\ ScriptFits /\ CallersFit /\ RecordsFit

\* Records stay sound when one is replaced by a sound one.
LEMMA RecordsStay ==
  ASSUME TypeOK, RecordsFit, NEW o \in Ops, NEW s \in Record, RecordFits(s),
         record' = [record EXCEPT ![o] = s]
  PROVE  /\ RecordsFit' /\ record' \in [Ops -> Record] /\ record'[o] = s
         /\ \A p \in Ops : p # o => record'[p] = record[p]
<1>1. /\ record' \in [Ops -> Record] /\ record'[o] = s
      /\ \A p \in Ops : p # o => record'[p] = record[p]
  BY DEF TypeOK
<1>2. \A p \in Ops : RecordFits(record'[p])
  BY <1>1 DEF RecordsFit
<1>3. RecordsFit'
  BY <1>2 DEF RecordsFit, RecordFits
<1> QED BY <1>1, <1>3

LEMMA NewFits ==
  /\ New \in Record /\ RecordFits(New) /\ New.status = "OPEN" /\ New.attempts = << >>
  /\ NoRecord \in Record /\ RecordFits(NoRecord) /\ NoRecord.status = "NONE"
  /\ NoRecord.attempts = << >>
<1>1. NoEpisode \in Episode
  BY DEF NoEpisode, Episode
<1>2. /\ New \in Record /\ New.status = "OPEN" /\ New.attempts = << >>
      /\ New.review = NoReview /\ New.blockedBy = NoBlock
  BY <1>1 DEF New, NewRecord, Record, NoReview, Review, NoBlock, Block, Outcomes, Times, NoTime,
              NoToken, Statuses
<1>3. /\ NoRecord \in Record /\ NoRecord.status = "NONE" /\ NoRecord.attempts = << >>
      /\ NoRecord.review = NoReview /\ NoRecord.blockedBy = NoBlock
  <2>1. PICK r : r = NewRecord("NONE", FALSE, NoEpisode)
    OBVIOUS
  <2>2. NoRecord = [r EXCEPT !.version = -1]
    BY <2>1 DEF NoRecord
  <2>3. NoRecord = [version |-> -1, status |-> "NONE", reviewReason |-> FALSE, attempts |-> << >>,
                    review |-> NoReview, episode |-> NoEpisode, blockedBy |-> NoBlock]
    BY <2>1, <2>2 DEF NewRecord
  <2> QED BY <1>1, <2>3 DEF Record, NoReview, Review, NoBlock, Block, Outcomes, Times, NoTime,
                            NoToken, Statuses
<1> QED BY <1>2, <1>3 DEF RecordFits

\* Locks and callers when one caller moves.
LEMMA LocksStay ==
  ASSUME TypeOK, CallersFit, NEW c \in Callers, NEW o, o = caller[c].op, NEW s, Moves(c, s),
         \/ /\ lock' = lock /\ s.op = o /\ s.pc \in Working /\ caller[c].pc \in Working
         \/ lock' = lock /\ s.pc \notin Working /\ caller[c].pc \notin Working
         \/ Locks(o, c) /\ lock[o] = "none" /\ s.op = o /\ s.pc \in Working
         \/ Locks(o, "none") /\ s.pc \notin Working /\ caller[c].pc \in Working
  PROVE  /\ lock' \in [Ops -> Callers \cup {"none"}]
         /\ \A d \in Callers, p \in Ops :
              lock'[p] = d <=> caller'[d].op = p /\ caller'[d].pc \in Working
         /\ \A d \in Callers : d # c /\ caller[d].pc \in Working => caller[d].op # o \/ caller[c].pc \notin Working
         /\ \A p \in Ops : p # o => lock'[p] = lock[p]
<1>1. /\ o \in Ops /\ lock \in [Ops -> Callers \cup {"none"}]
      /\ \A d \in Callers, p \in Ops : lock[p] = d <=> caller[d].op = p /\ caller[d].pc \in Working
      /\ "none" \notin Callers /\ c # "none"
  BY CallerFields DEF TypeOK, CallersFit, Callers
<1>2. caller'[c] = s /\ \A d \in Callers : d # c => caller'[d] = caller[d]
  BY DEF Moves
<1>3. CASE lock' = lock /\ s.op = o /\ s.pc \in Working /\ caller[c].pc \in Working
  BY <1>1, <1>2, <1>3
<1>6. CASE lock' = lock /\ s.pc \notin Working /\ caller[c].pc \notin Working
  BY <1>1, <1>2, <1>6
<1>4. CASE Locks(o, c) /\ lock[o] = "none" /\ s.op = o /\ s.pc \in Working
  BY <1>1, <1>2, <1>4 DEF Locks
<1>5. CASE Locks(o, "none") /\ s.pc \notin Working /\ caller[c].pc \in Working
  BY <1>1, <1>2, <1>5 DEF Locks
<1> QED BY <1>3, <1>4, <1>5, <1>6

\* The record of a call that saves is settled by what its evidence says.
LEMMA ResolvedFits ==
  ASSUME TypeOK, NEW r \in Record, RecordFits(r), r.attempts # << >>, NEW sent \in BOOLEAN,
         NEW evidence \in EvidenceStates, NEW s,
         s = ResolvedRecord(r, sent, evidence, Policy, contract.window, clock)
  PROVE  /\ s \in Record /\ RecordFits(s) /\ Resolved(s)
         /\ s.attempts # << >> /\ Len(s.attempts) = Len(r.attempts)
         /\ s.status = StatusAfter(evidence, Latest(s).disposition)
         /\ Latest(s).status = "RESOLVED" /\ Latest(s).ok = sent /\ Latest(s).evidence = evidence
         /\ Latest(s).startedAt = Latest(r).startedAt
         /\ evidence = "APPLIED" => Latest(s).disposition = "COMPLETE"
         /\ evidence = "CONFLICTED" => Latest(s).disposition = "REPLAN"
         /\ evidence = "PENDING" => Latest(s).disposition = "NULL"
         /\ evidence = "UNKNOWN" => Latest(s).disposition = "INVESTIGATE"
         /\ evidence = "NOT_APPLIED" =>
              LET retries == contract.retryOnNotApplied /\ Len(r.attempts) < contract.maxAttempts
              IN  /\ Latest(s).disposition =
                       IF retries /\ (sent \/ Declared) THEN "RETRY" ELSE "INVESTIGATE"
                  /\ Latest(s).retryNotBefore =
                       IF retries /\ ~sent /\ Declared
                          /\ clock < Latest(r).startedAt + contract.window
                       THEN Latest(r).startedAt + contract.window ELSE NoTime
<1>1. /\ contract.window \in Times /\ clock \in Nat
      /\ Policy.retryOnNotApplied \in BOOLEAN /\ Policy.maxAttempts \in Nat
      /\ Policy.retryOnNotApplied = contract.retryOnNotApplied
      /\ Policy.maxAttempts = contract.maxAttempts
  BY ContractFields DEF TypeOK
<1>2. PICK p, w, t : p = Policy /\ w = contract.window /\ t = clock
  OBVIOUS
<1>3. /\ s = ResolvedRecord(r, sent, evidence, p, w, t)
      /\ w \in Times /\ t \in Nat /\ p.retryOnNotApplied \in BOOLEAN /\ p.maxAttempts \in Nat
  BY <1>1, <1>2
<1>4. /\ s \in Record
      /\ s.status = StatusAfter(evidence, Latest(s).disposition)
      /\ s.review = r.review /\ s.blockedBy = r.blockedBy
      /\ s.attempts # << >> /\ Len(s.attempts) = Len(r.attempts)
      /\ Latest(s).status = "RESOLVED" /\ Latest(s).ok = sent /\ Latest(s).evidence = evidence
      /\ Latest(s).startedAt = Latest(r).startedAt
      /\ evidence = "APPLIED" => Latest(s).disposition = "COMPLETE"
      /\ evidence = "CONFLICTED" => Latest(s).disposition = "REPLAN"
      /\ evidence = "PENDING" => Latest(s).disposition = "NULL"
      /\ evidence = "UNKNOWN" => Latest(s).disposition = "INVESTIGATE"
      /\ evidence = "NOT_APPLIED" =>
           LET retries == p.retryOnNotApplied /\ Len(r.attempts) < p.maxAttempts
           IN  /\ Latest(s).disposition =
                    IF retries /\ (sent \/ w # NoWindow) THEN "RETRY" ELSE "INVESTIGATE"
               /\ Latest(s).retryNotBefore =
                    IF retries /\ ~sent /\ w # NoWindow /\ t < Latest(r).startedAt + w
                    THEN Latest(r).startedAt + w ELSE NoTime
  BY <1>3, ResolvedRecordFields
<1>5. RecordFits(s)
  <2>1. s.status \in {"OPEN", "CLOSED"}
    BY <1>4 DEF StatusAfter
  <2> QED BY <1>4, <2>1 DEF RecordFits
<1> QED BY <1>1, <1>2, <1>4, <1>5 DEF Resolved, Declared

-----------------------------------------------------------------------------
(* Each step keeps them *)

\* Types, script and records while one caller moves.
LEMMA CallStays ==
  ASSUME Basics, UNCHANGED Running
  PROVE  /\ ScriptFits' /\ Played' = Played /\ Now' = Now /\ (Driven' <=> Driven) /\ Plan' = Plan
         /\ Inputs' /\ clock' = clock /\ ok' = ok /\ results' = results /\ n' = n
         /\ script' = script /\ contract' = contract /\ options' = options
<1>1. ScriptFits /\ Inputs
  BY DEF Basics, TypeOK
<1> QED BY <1>1, Stays DEF Running, Inputs

\* A caller that is not idle.
LEMMA CallsFit ==
  ASSUME Basics, NEW c \in Callers, ~At(c, "idle")
  PROVE  /\ Played > 0 /\ Plan[Played].do = "run" /\ caller[c].op = Plan[Played].what
         /\ c = "a" \/ Plan[Played].by = 2
         /\ Played \in Nat /\ Played \in 1..Len(Plan)
         /\ Driven
<1>1. /\ Played > 0 /\ Plan[Played].do = "run" /\ caller[c].op = Plan[Played].what
      /\ c = "a" \/ Plan[Played].by = 2
  BY DEF Basics, CallersFit, At
<1>2. Played \in Nat /\ Played <= Len(Plan) /\ Len(Plan) \in Nat
  BY PlayedFits DEF Basics
<1>3. Driven
  <2>1. CASE ~Driven
    <3>1. Plan = << >>
      BY <2>1 DEF Plan
    <3> QED BY <1>1, <1>2, <3>1
  <2> QED BY <2>1
<1> QED BY <1>1, <1>2, <1>3

\* What is left to show of a caller's step.
LEMMA CallKeeps ==
  ASSUME Basics, UNCHANGED Running, NEW c \in Callers, NEW o, o = caller[c].op, NEW s,
         Moves(c, s), ~At(c, "idle"),
         target' \in Target, crashOn' \in {"none", "afterReserve", "onResolve"}, executes' \in Nat,
         last' \in Answers, record' \in [Ops -> Record], RecordsFit',
         \A p \in Ops : p # o => record'[p] = record[p],
         \/ /\ lock' = lock /\ s.op = o /\ s.pc \in Working /\ caller[c].pc \in Working
         \/ lock' = lock /\ s.pc \notin Working /\ caller[c].pc \notin Working /\ record' = record
         \/ Locks(o, c) /\ lock[o] = "none" /\ s.op = o /\ s.pc \in Working
         \/ Locks(o, "none") /\ s.pc \notin Working /\ caller[c].pc \in Working,
         s.pc # "idle" => s.op = o,
         s.pc \in Working => record'[o].status = "OPEN",
         s.pc \in {"execute", "observe", "save"} => record'[o].attempts # << >>
  PROVE  Basics'
<1>0. TypeOK /\ CallersFit
  BY DEF Basics
<1>1. /\ ScriptFits' /\ Played' = Played /\ Plan' = Plan /\ Inputs' /\ clock' = clock /\ ok' = ok
      /\ results' = results /\ n' = n /\ script' = script
  BY CallStays
<1>2. /\ lock' \in [Ops -> Callers \cup {"none"}]
      /\ \A d \in Callers, p \in Ops :
           lock'[p] = d <=> caller'[d].op = p /\ caller'[d].pc \in Working
  BY <1>0, LocksStay
<1>3. caller' \in [Callers -> CallerState] /\ caller'[c] = s /\ s \in CallerState
      /\ \A d \in Callers : d # c => caller'[d] = caller[d]
  BY DEF Moves
<1>4. TypeOK'
  BY <1>0, <1>1, <1>2, <1>3 DEF TypeOK, Answers
<1>5. /\ Played > 0 /\ Plan[Played].do = "run" /\ caller[c].op = Plan[Played].what
      /\ c = "a" \/ Plan[Played].by = 2
  BY CallsFit
<1>6. \A d \in Callers :
        caller'[d].pc # "idle" =>
          /\ Played' > 0 /\ Plan'[Played'].do = "run" /\ caller'[d].op = Plan'[Played'].what
          /\ d = "a" \/ Plan'[Played'].by = 2
  BY <1>0, <1>1, <1>3, <1>5 DEF CallersFit
<1>7. \A d \in Callers :
        /\ caller'[d].pc \in Working => record'[caller'[d].op].status = "OPEN"
        /\ caller'[d].pc \in {"execute", "observe", "save"} =>
             record'[caller'[d].op].attempts # << >>
  <2>1. SUFFICES ASSUME NEW d \in Callers, d # c, caller[d].pc \in Working
                 PROVE  /\ record'[caller[d].op].status = "OPEN"
                        /\ caller[d].pc \in {"execute", "observe", "save"} =>
                             record'[caller[d].op].attempts # << >>
    BY <1>3 DEF Working
  <2>2. /\ record[caller[d].op].status = "OPEN" /\ caller[d].op \in Ops
        /\ caller[d].pc \in {"execute", "observe", "save"} => record[caller[d].op].attempts # << >>
    BY <1>0, <2>1, CallerFields DEF CallersFit, Of
  <2>3. CASE caller[d].op # o
    BY <2>1, <2>2, <2>3
  <2>4. CASE caller[d].op = o
    <3>1. lock[o] = d /\ d # "none" /\ o \in Ops
      BY <1>0, <2>1, <2>2, <2>4 DEF CallersFit, Callers
    <3>2. caller[c].pc \notin Working
      BY <1>0, <2>1, <3>1 DEF CallersFit
    <3>3. record' = record
      BY <3>1, <3>2
    <3> QED BY <2>2, <3>3
  <2> QED BY <2>3, <2>4
<1>8. CallersFit'
  BY <1>2, <1>6, <1>7 DEF CallersFit, Of
<1> QED BY <1>1, <1>4, <1>8 DEF Basics

-----------------------------------------------------------------------------
(* What the harness' own steps do *)

LEMMA QuietFields == Quiet \in CallerState /\ Quiet.pc = "idle" /\ "idle" \notin Working
  BY DEF Quiet, CallerState, Ops, EvidenceStates, Working

\* The fresh store, target and counters of a scenario.
LEMMA FreshDoes ==
  ASSUME Basics, NextScenario
  PROVE  /\ target' = F!Reset /\ record' = [o \in Ops |-> NoRecord]
         /\ lock' = [o \in Ops |-> "none"] /\ caller' = [c \in Callers |-> Quiet]
         /\ \A o \in Ops : record'[o] = NoRecord /\ lock'[o] = "none"
         /\ \A c \in Callers : caller'[c] = Quiet /\ caller'[c].pc = "idle"
         /\ crashOn' = "none" /\ clock' = 0 /\ executes' = 0 /\ last' = NoAnswer /\ ok'
         /\ UNCHANGED <<contract, options>> /\ Inputs'
         /\ script' = Plan' /\ Played' = 0 /\ script' \in Seq(Commands)
         /\ n' = n + 1 /\ n + 1 \in 1..13 /\ Idle
<1>1. /\ target' = F!Reset /\ record' = [o \in Ops |-> NoRecord]
      /\ lock' = [o \in Ops |-> "none"] /\ caller' = [c \in Callers |-> Quiet]
      /\ crashOn' = "none" /\ clock' = 0 /\ executes' = 0 /\ last' = NoAnswer /\ ok' = TRUE
      /\ UNCHANGED <<contract, options>> /\ Idle
  BY DEF NextScenario, Fresh
<1>2. Inputs'
  BY <1>1 DEF Basics, TypeOK, Inputs
<1>3. /\ script' = Plan' /\ Played' = 0 /\ n' = n + 1 /\ n + 1 \in 1..13
  BY NextStarts DEF Basics
<1>4. Plan' \in Seq(Commands)
  <2>1. (Inputs => Plan \in Seq(Commands))'
    BY PlanFits, PTL
  <2> QED BY <1>2, <2>1
<1> QED BY <1>1, <1>2, <1>3, <1>4, QuietFields

LEMMA NextBasics ==
  ASSUME Basics, NextScenario
  PROVE  Basics'
<1>1. /\ F!Reset \in Target /\ NoRecord \in Record /\ RecordFits(NoRecord)
      /\ Quiet \in CallerState /\ Quiet.pc = "idle" /\ "idle" \notin Working
      /\ NoAnswer \in Answers
  BY ResetFields, NewFits, QuietFields DEF NoAnswer, Answers, Dispositions
<1>2. /\ target' = F!Reset /\ record' = [o \in Ops |-> NoRecord]
      /\ lock' = [o \in Ops |-> "none"] /\ caller' = [c \in Callers |-> Quiet]
      /\ \A o \in Ops : record'[o] = NoRecord /\ lock'[o] = "none"
      /\ \A c \in Callers : caller'[c] = Quiet /\ caller'[c].pc = "idle"
      /\ crashOn' = "none" /\ clock' = 0 /\ executes' = 0 /\ last' = NoAnswer /\ ok'
      /\ Inputs' /\ script' = Plan' /\ Played' = 0 /\ script' \in Seq(Commands)
      /\ n' = n + 1 /\ n + 1 \in 1..13
  BY FreshDoes
<1>3. results' \in [Names -> {"notAsked", "skipped", "pass", "fail"}]
  <2>1. results \in [Names -> {"notAsked", "skipped", "pass", "fail"}]
    BY DEF Basics, TypeOK
  <2>2. CASE results' = results
    BY <2>1, <2>2
  <2>3. CASE results' # results
    <3>1. PICK v : /\ results' = [results EXCEPT ![Scenarios[n]] = v]
                   /\ v = (CASE Skipped(Scenarios[n]) -> "skipped"
                             [] ~Skipped(Scenarios[n]) /\ ok /\ Universal -> "pass"
                             [] OTHER -> "fail")
      BY <2>3 DEF NextScenario
    <3>2. v \in {"skipped", "pass", "fail"}
      BY <3>1
    <3> QED BY <2>1, <3>1, <3>2
  <2> QED BY <2>2, <2>3
<1>4. TypeOK'
  <2>1. n' \in 0..Len(Scenarios) + 1
    BY <1>2, ScenarioNames
  <2> QED BY <1>1, <1>2, <1>3, <2>1 DEF TypeOK, Answers
<1>5. ScriptFits'
  <2>1. Len(script') \in Nat
    BY <1>2
  <2> QED BY <1>2, <2>1 DEF ScriptFits
<1>6. CallersFit'
  <2>1. \A c \in Callers : c # "none"
    BY DEF Callers
  <2> QED BY <1>1, <1>2, <2>1 DEF CallersFit, Working
<1>7. RecordsFit'
  <2>1. RecordFits(NoRecord)'
    BY <1>1 DEF RecordFits
  <2> QED BY <1>2, <2>1 DEF RecordsFit
<1> QED BY <1>4, <1>5, <1>6, <1>7 DEF Basics

\* The next command, x, when no call is under way.
LEMMA CommandDoes ==
  ASSUME Basics, NEW d, Command(d), UNCHANGED <<contract, options, n>>, NEW x, x = Plan[Played + 1]
  PROVE  /\ x \in Commands /\ x.do = d /\ x = Head(script)
         /\ Driven /\ Driven' /\ Now' = Now /\ Plan' = Plan
         /\ Played \in Nat /\ Played' = Played + 1 /\ Played + 1 \in 1..Len(Plan)
         /\ Len(Plan) \in Nat
         /\ script' \in Seq(Commands) /\ ScriptFits' /\ Inputs'
         /\ \A c \in Callers : caller[c].pc = "idle"
<1>1. /\ Head(script).do = d /\ script' = Tail(script) /\ script # << >> /\ Idle
      /\ TypeOK /\ ScriptFits
  BY DEF Command, Basics
<1> QED BY <1>1, Plays DEF Idle, TypeOK, Inputs

\* While no call is under way, none has a lock.
LEMMA IdleLocks ==
  ASSUME Basics, \A c \in Callers : caller[c].pc = "idle"
  PROVE  \A o \in Ops : lock[o] = "none"
  BY QuietFields DEF Basics, CallersFit, TypeOK

\* What each command of the scenario does, when it is its turn.
LEMMA DriveDoes ==
  ASSUME Basics, Drive, NEW x, x = Plan[Played + 1]
  PROVE  /\ Command(x.do)
         /\ UNCHANGED <<contract, options, n, record, lock, caller, crashOn, clock, executes, last,
                        ok, results>>
         /\ target' \in Target
         /\ \/ /\ x.do = "fault" /\ x.what \in F!Modes
               /\ target'.mode = x.what /\ target'.applied = target.applied
               /\ target'.pending = target.pending /\ target'.held = target.held
               /\ target'.failRead = target.failRead
            \/ /\ x.do = "failRead"
               /\ target'.mode = target.mode /\ target'.applied = target.applied
               /\ target'.pending = target.pending /\ target'.held = target.held
               /\ target'.failRead
            \/ /\ x.do = "land"
               /\ target'.mode = target.mode /\ target'.pending = target.pending
               /\ target'.held = target.held /\ target'.failRead = target.failRead
               /\ target.held = "none" => target'.applied = target.applied
               /\ target.held # "none" => target.held \in Ops /\ Adds(target, target', target.held, 1)
            \/ /\ x.do = "settle"
               /\ target'.mode = target.mode /\ target'.held = target.held
               /\ target'.failRead = target.failRead
               /\ \A o \in Ops :
                    /\ ~target'.pending[o]
                    /\ target'.applied[o] = target.applied[o] + (IF target.pending[o] THEN 1 ELSE 0)
            \/ /\ x.do = "reject"
               /\ target'.mode = target.mode /\ target'.held = target.held
               /\ target'.failRead = target.failRead /\ target'.applied = target.applied
               /\ \A o \in Ops : ~target'.pending[o]
<1>1. UNCHANGED <<contract, options, n, record, lock, caller, crashOn, clock, executes, last, ok,
                  results>>
  BY DEF Drive
<1>2. \E d \in {"fault", "failRead", "land", "settle", "reject"} : Command(d)
  BY DEF Drive
<1>3. x = Head(script) /\ Command(x.do) /\ x \in Commands
  BY <1>1, <1>2, CommandDoes
<1>4. target \in Target
  BY DEF Basics, TypeOK
<1>t. target = [applied |-> target.applied, pending |-> target.pending, mode |-> target.mode,
                held |-> target.held, failRead |-> target.failRead]
  BY <1>4 DEF Target
<1>k. x.do = "fault" => x.what \in F!Modes
  BY <1>3, CommandKinds
<1>5. CASE Command("fault") /\ target' = [target EXCEPT !.mode = Head(script).what]
  <2>1. x.do = "fault"
    BY <1>3, <1>5 DEF Command
  <2>2. target' = [applied |-> target.applied, pending |-> target.pending, mode |-> x.what,
                   held |-> target.held, failRead |-> target.failRead]
    BY <1>3, <1>5, <1>t
  <2>3. target' \in Target
    BY <1>4, <1>k, <2>1, <2>2 DEF Target
  <2> QED BY <1>1, <1>3, <1>k, <2>1, <2>2, <2>3
<1>6. CASE Command("failRead") /\ target' = [target EXCEPT !.failRead = TRUE]
  <2>1. x.do = "failRead"
    BY <1>3, <1>6 DEF Command
  <2>2. target' = [applied |-> target.applied, pending |-> target.pending, mode |-> target.mode,
                   held |-> target.held, failRead |-> TRUE]
    BY <1>6, <1>t
  <2>3. target' \in Target
    BY <1>4, <2>2 DEF Target
  <2> QED BY <1>1, <1>3, <2>1, <2>2, <2>3
<1>7. CASE Command("land") /\ target' = F!Land(target)
  <2>1. x.do = "land"
    BY <1>3, <1>7 DEF Command
  <2> QED BY <1>1, <1>3, <1>4, <1>7, <2>1, LandFields
<1>8. CASE Command("settle") /\ target' = F!Settle(target)
  <2>1. x.do = "settle"
    BY <1>3, <1>8 DEF Command
  <2> QED BY <1>1, <1>3, <1>4, <1>8, <2>1, SettleFields
<1>9. CASE Command("reject") /\ target' = F!Reject(target)
  <2>1. x.do = "reject"
    BY <1>3, <1>9 DEF Command
  <2> QED BY <1>1, <1>3, <1>4, <1>9, <2>1, RejectFields
<1> QED BY <1>5, <1>6, <1>7, <1>8, <1>9 DEF Drive

LEMMA PrepareDoes ==
  ASSUME Basics, Prepare, NEW x, x = Plan[Played + 1]
  PROVE  /\ Command(x.do)
         /\ UNCHANGED <<contract, options, n, target, record, lock, caller, executes, last, results>>
         /\ \/ /\ x.do = "crash" /\ x.what \in {"onResolve", "afterReserve"}
               /\ crashOn' = x.what /\ UNCHANGED <<clock, ok>>
            \/ x.do = "advance" /\ x.by \in Nat /\ clock' = clock + x.by /\ UNCHANGED <<crashOn, ok>>
            \/ x.do = "expect" /\ (ok' <=> ok /\ Holds(x.what)) /\ UNCHANGED <<crashOn, clock>>
         /\ clock' \in Nat /\ clock' >= clock /\ (ok' => ok) /\ ok' \in BOOLEAN
         /\ crashOn' \in {"none", "onResolve", "afterReserve"}
<1>1. UNCHANGED <<contract, options, n, target, record, lock, caller, executes, last, results>>
  BY DEF Prepare
<1>2. \E d \in {"crash", "advance", "expect"} : Command(d)
  BY DEF Prepare
<1>3. x = Head(script) /\ Command(x.do) /\ x \in Commands
  BY <1>1, <1>2, CommandDoes
<1>4. /\ x.do = "crash" => x.what \in {"onResolve", "afterReserve"}
      /\ x.do = "advance" => x.by \in Nat
  BY <1>3, CommandKinds
<1>5. clock \in Nat /\ crashOn \in {"none", "onResolve", "afterReserve"} /\ ok \in BOOLEAN
  BY DEF Basics, TypeOK
<1>6. CASE Command("crash") /\ crashOn' = Head(script).what /\ UNCHANGED <<clock, ok>>
  <2>1. x.do = "crash"
    BY <1>3, <1>6 DEF Command
  <2> QED BY <1>1, <1>3, <1>4, <1>5, <1>6, <2>1
<1>7. CASE Command("advance") /\ clock' = clock + Head(script).by /\ UNCHANGED <<crashOn, ok>>
  <2>1. x.do = "advance"
    BY <1>3, <1>7 DEF Command
  <2> QED BY <1>1, <1>3, <1>4, <1>5, <1>7, <2>1
<1>8. CASE Command("expect") /\ ok' = (ok /\ Holds(Head(script).what)) /\ UNCHANGED <<crashOn, clock>>
  <2>1. x.do = "expect"
    BY <1>3, <1>8 DEF Command
  <2>2. (ok' <=> ok /\ Holds(x.what)) /\ ok' \in BOOLEAN
    BY <1>3, <1>8
  <2> QED BY <1>1, <1>3, <1>5, <1>8, <2>1, <2>2
<1> QED BY <1>6, <1>7, <1>8 DEF Prepare

LEMMA StartDoes ==
  ASSUME Basics, StartRun, NEW x, x = Plan[Played + 1]
  PROVE  /\ Command(x.do) /\ x.do = "run" /\ x.what \in Ops /\ x.by \in {1, 2}
         /\ UNCHANGED <<contract, options, n, target, record, lock, crashOn, clock, executes, last,
                        ok, results>>
         /\ caller' \in [Callers -> CallerState]
         /\ \A c \in Callers :
              IF c = "a" \/ x.by = 2
              THEN caller'[c].pc = "begin" /\ caller'[c].op = x.what
              ELSE caller'[c].pc = "idle"
<1>1. /\ Command("run")
      /\ UNCHANGED <<contract, options, n, target, record, lock, crashOn, clock, executes, last, ok,
                     results>>
  BY DEF StartRun
<1>2. x = Head(script) /\ x.do = "run" /\ x \in Commands
  BY <1>1, CommandDoes
<1>3. x.what \in Ops /\ x.by \in {1, 2}
  BY <1>2, CommandKinds
<1>4. PICK q : q = [Quiet EXCEPT !.pc = "begin", !.op = x.what]
  OBVIOUS
<1>5. q = [pc |-> "begin", op |-> x.what, ok |-> FALSE, evidence |-> "UNKNOWN"]
  BY <1>4 DEF Quiet
<1>6. q \in CallerState
  BY <1>3, <1>5 DEF CallerState, EvidenceStates
<1>7. caller' = [c \in Callers |-> IF c = "a" \/ x.by = 2 THEN q ELSE Quiet]
  BY <1>2, <1>4 DEF StartRun
<1> QED BY <1>1, <1>2, <1>3, <1>5, <1>6, <1>7, QuietFields

-----------------------------------------------------------------------------
(* They keep what holds in every scenario *)

\* Each of them keeps what holds in every scenario.
LEMMA DriveBasics == ASSUME Basics, Drive PROVE Basics'
<1>1. PICK x : x = Plan[Played + 1]
  OBVIOUS
<1>2. /\ Command(x.do) /\ target' \in Target
      /\ UNCHANGED <<contract, options, n, record, lock, caller, crashOn, clock, executes, last, ok,
                     results>>
  BY <1>1, DriveDoes
<1>3. /\ script' \in Seq(Commands) /\ ScriptFits' /\ Inputs'
      /\ \A c \in Callers : caller[c].pc = "idle"
  BY <1>1, <1>2, CommandDoes
<1>4. TypeOK'
  BY <1>2, <1>3 DEF Basics, TypeOK
<1>5. CallersFit'
  BY <1>2, <1>3, QuietFields DEF Basics, CallersFit, Working
<1>6. RecordsFit'
  BY <1>2 DEF Basics, RecordsFit, RecordFits
<1> QED BY <1>3, <1>4, <1>5, <1>6 DEF Basics

LEMMA PrepareBasics == ASSUME Basics, Prepare PROVE Basics'
<1>1. PICK x : x = Plan[Played + 1]
  OBVIOUS
<1>2. /\ Command(x.do)
      /\ UNCHANGED <<contract, options, n, target, record, lock, caller, executes, last, results>>
      /\ clock' \in Nat /\ ok' \in BOOLEAN /\ crashOn' \in {"none", "onResolve", "afterReserve"}
  BY <1>1, PrepareDoes
<1>3. /\ script' \in Seq(Commands) /\ ScriptFits' /\ Inputs'
      /\ \A c \in Callers : caller[c].pc = "idle"
  BY <1>1, <1>2, CommandDoes
<1>4. TypeOK'
  BY <1>2, <1>3 DEF Basics, TypeOK
<1>5. CallersFit'
  BY <1>2, <1>3, QuietFields DEF Basics, CallersFit, Working
<1>6. RecordsFit'
  BY <1>2 DEF Basics, RecordsFit, RecordFits
<1> QED BY <1>3, <1>4, <1>5, <1>6 DEF Basics

LEMMA StartBasics == ASSUME Basics, StartRun PROVE Basics'
<1>1. PICK x : x = Plan[Played + 1]
  OBVIOUS
<1>2. /\ Command(x.do) /\ x.do = "run"
      /\ UNCHANGED <<contract, options, n, target, record, lock, crashOn, clock, executes, last, ok,
                     results>>
      /\ caller' \in [Callers -> CallerState]
      /\ \A c \in Callers :
           IF c = "a" \/ x.by = 2
           THEN caller'[c].pc = "begin" /\ caller'[c].op = x.what
           ELSE caller'[c].pc = "idle"
  BY <1>1, StartDoes
<1>3. /\ script' \in Seq(Commands) /\ ScriptFits' /\ Inputs' /\ Plan' = Plan
      /\ Played' = Played + 1 /\ Played \in Nat
      /\ \A c \in Callers : caller[c].pc = "idle"
  BY <1>1, <1>2, CommandDoes
<1>4. TypeOK'
  BY <1>2, <1>3 DEF Basics, TypeOK
<1>5. \A c \in Callers : caller'[c].pc \notin Working
  BY <1>2 DEF Working
<1>6. \A o \in Ops : lock'[o] = "none"
  BY <1>2, <1>3, IdleLocks
<1>7. CallersFit'
  <2>1. "none" \notin Callers /\ \A c \in Callers : caller'[c].pc \notin {"execute", "observe", "save"}
    BY <1>5 DEF Callers, Working
  <2>2. \A c \in Callers : caller'[c].pc # "idle" =>
          /\ Played' > 0 /\ Plan'[Played'].do = "run" /\ caller'[c].op = Plan'[Played'].what
          /\ c = "a" \/ Plan'[Played'].by = 2
    BY <1>1, <1>2, <1>3
  <2> QED BY <1>5, <1>6, <2>1, <2>2 DEF CallersFit
<1>8. RecordsFit'
  BY <1>2 DEF Basics, RecordsFit, RecordFits
<1> QED BY <1>3, <1>4, <1>7, <1>8 DEF Basics

\* A step of a call.
CallStep(c) == Busy(c) \/ Begin(c) \/ Reserve(c) \/ Execute(c) \/ Observe(c) \/ Save(c)

\* What the state is made of, from the view of one call.
LEMMA StateFields ==
  ASSUME Basics, NEW c \in Callers, NEW o, o = caller[c].op
  PROVE  /\ TypeOK /\ RecordsFit /\ o \in Ops /\ target \in Target /\ record \in [Ops -> Record]
         /\ record[o] \in Record /\ RecordFits(record[o]) /\ executes \in Nat /\ clock \in Nat
         /\ crashOn \in {"none", "afterReserve", "onResolve"} /\ last \in Answers
         /\ lock \in [Ops -> Callers \cup {"none"}]
         /\ caller[c].ok \in BOOLEAN /\ caller[c].evidence \in EvidenceStates
         /\ caller[c].pc \in Working => record[o].status = "OPEN"
         /\ caller[c].pc \in {"execute", "observe", "save"} => record[o].attempts # << >>
         /\ lock[o] = c <=> caller[c].pc \in Working
         /\ \A d \in Callers, p \in Ops : lock[p] = d <=> caller[d].op = p /\ caller[d].pc \in Working
  BY CallerFields DEF Basics, TypeOK, RecordsFit, CallersFit, Of, Answers

LEMMA EndsKeeps ==
  ASSUME Basics, NEW c \in Callers, UNCHANGED <<Running, target, lock, crashOn, executes>>,
         At(c, "begin"), Ends(c)
  PROVE  Basics'
<1>1. PICK o : o = caller[c].op
  OBVIOUS
<1>2. /\ o \in Ops /\ target \in Target /\ record \in [Ops -> Record] /\ record[o] \in Record
      /\ executes \in Nat /\ crashOn \in {"none", "afterReserve", "onResolve"} /\ last \in Answers
  BY <1>1, StateFields
<1>3. last' \in Answers
  BY <1>1, <1>2, AnswerFields DEF Ends
<1>4. RecordsFit'
  BY DEF Basics, RecordsFit, RecordFits, Ends
<1>5. Moves(c, Quiet) /\ record' = record
  BY DEF Ends
<1> QED BY <1>1, <1>2, <1>3, <1>4, <1>5, CallKeeps, QuietFields DEF At, Working

\* So does each step of a call.
LEMMA BusyBasics == ASSUME Basics, NEW c \in Callers, Busy(c) PROVE Basics'
<1>1. TypeOK
  BY DEF Basics
<1> QED BY <1>1, BusyDoes, EndsKeeps

LEMMA BeginBasics == ASSUME Basics, NEW c \in Callers, Begin(c) PROVE Basics'
<1>1. PICK o : o = caller[c].op
  OBVIOUS
<1>2. /\ o \in Ops /\ target \in Target /\ record \in [Ops -> Record] /\ record[o] \in Record
      /\ executes \in Nat /\ crashOn \in {"none", "afterReserve", "onResolve"} /\ last \in Answers
      /\ TypeOK /\ RecordsFit /\ clock \in Nat /\ RecordFits(record[o])
  BY <1>1, StateFields
<1>3. /\ At(c, "begin") /\ lock[o] = "none" /\ UNCHANGED <<Running, target, crashOn, executes>>
  BY <1>1, <1>2, BeginDoes
<1>4. CASE NextStep(record[o], clock) = "idle" /\ Ends(c) /\ lock' = lock
  BY <1>3, <1>4, EndsKeeps
<1>5. CASE /\ record' = [record EXCEPT ![o] = New]
           /\ Locks(o, c) /\ last' = last
           /\ Moves(c, [pc |-> "reserve", op |-> o, ok |-> FALSE, evidence |-> caller[c].evidence])
  <2>1. New \in Record /\ RecordFits(New) /\ New.status = "OPEN"
    BY NewFits
  <2>2. /\ RecordsFit' /\ record' \in [Ops -> Record] /\ record'[o] = New
        /\ \A p \in Ops : p # o => record'[p] = record[p]
    BY <1>2, <1>5, <2>1, RecordsStay
  <2>3. PICK s : s = [pc |-> "reserve", op |-> o, ok |-> FALSE, evidence |-> caller[c].evidence]
    OBVIOUS
  <2>4. Moves(c, s) /\ s.op = o /\ s.pc = "reserve"
    BY <1>5, <2>3
  <2>5. s.pc \in Working /\ s.pc \notin {"execute", "observe", "save"}
    BY <2>4 DEF Working
  <2> QED BY <1>1, <1>2, <1>3, <1>5, <2>1, <2>2, <2>4, <2>5, CallKeeps DEF At
<1>6. CASE /\ NextStep(record[o], clock) \in {"reserve", "observe"} /\ record[o].status = "OPEN"
           /\ record' = record /\ Locks(o, c) /\ last' = last
           /\ Moves(c, [pc |-> NextStep(record[o], clock), op |-> o,
                        ok |-> record[o].attempts # << >> /\ Latest(record[o]).ok,
                        evidence |-> caller[c].evidence])
  <2>1. PICK s : s = [pc |-> NextStep(record[o], clock), op |-> o,
                      ok |-> record[o].attempts # << >> /\ Latest(record[o]).ok,
                      evidence |-> caller[c].evidence]
    OBVIOUS
  <2>2. Moves(c, s)
    BY <1>6, <2>1
  <2>3. s.op = o /\ s.pc = NextStep(record[o], clock)
    BY <2>1
  <2>4. s.pc = "observe" => record[o].attempts # << >>
    BY <1>2, <1>6, <2>3, NextStepFields
  <2>5. s.pc \in Working /\ (s.pc \in {"execute", "observe", "save"} => s.pc = "observe")
    BY <1>6, <2>3 DEF Working
  <2>6. RecordsFit'
    BY <1>2, <1>6 DEF RecordsFit, RecordFits
  <2> QED BY <1>1, <1>2, <1>3, <1>6, <2>2, <2>3, <2>4, <2>5, <2>6, CallKeeps DEF At
<1> QED BY <1>1, <1>2, <1>4, <1>5, <1>6, BeginDoes

LEMMA ReserveBasics == ASSUME Basics, NEW c \in Callers, Reserve(c) PROVE Basics'
<1>1. PICK o : o = caller[c].op
  OBVIOUS
<1>2. /\ o \in Ops /\ target \in Target /\ record \in [Ops -> Record] /\ record[o] \in Record
      /\ executes \in Nat /\ crashOn \in {"none", "afterReserve", "onResolve"} /\ last \in Answers
      /\ TypeOK /\ RecordsFit /\ clock \in Nat /\ RecordFits(record[o])
      /\ caller[c].pc \in Working => record[o].status = "OPEN"
  BY <1>1, StateFields
<1>3. PICK r, s \in Record :
        /\ r = record[o] /\ s = record'[o]
        /\ s.status = r.status /\ s.review = r.review /\ s.blockedBy = r.blockedBy
        /\ s.attempts # << >> /\ Latest(s) = Reserved(clock, contract.window)
  BY <1>1, <1>2, ReserveDoes, ZenonT(60)
<1>4. /\ At(c, "reserve") /\ UNCHANGED <<Running, target, executes, last>>
      /\ record' \in [Ops -> Record] /\ \A p \in Ops : p # o => record'[p] = record[p]
      /\ \/ crashOn = "afterReserve" /\ crashOn' = "none" /\ Locks(o, "none") /\ Moves(c, Quiet)
         \/ /\ crashOn # "afterReserve" /\ crashOn' = crashOn /\ lock' = lock
            /\ Moves(c, [pc |-> "execute", op |-> o, ok |-> caller[c].ok,
                         evidence |-> caller[c].evidence])
  BY <1>1, <1>2, ReserveDoes, SMTT(30)
<1>5. caller[c].pc \in Working /\ r.status = "OPEN" /\ caller[c].pc = "reserve"
  BY <1>2, <1>3, <1>4 DEF At, Working
<1>6. Latest(s).status = "RESERVED"
  BY <1>3 DEF Reserved
<1>7. RecordFits(s)
  BY <1>2, <1>3, <1>4, <1>5, <1>6 DEF RecordFits
<1>8. RecordsFit'
  <2>1. \A p \in Ops : RecordFits(record'[p])
    BY <1>2, <1>3, <1>4, <1>7 DEF RecordsFit
  <2> QED BY <2>1 DEF RecordsFit, RecordFits
<1>9. CASE crashOn' = "none" /\ Locks(o, "none") /\ Moves(c, Quiet)
  <2>1. /\ Quiet.pc \notin Working /\ Quiet.pc = "idle" /\ caller[c].pc # "idle"
        /\ executes' \in Nat /\ last' \in Answers /\ target' \in Target
    BY <1>2, <1>4, <1>5, QuietFields
  <2> QED BY <1>1, <1>2, <1>4, <1>5, <1>8, <1>9, <2>1, CallKeeps DEF At
<1>10. CASE /\ crashOn' = crashOn /\ lock' = lock
            /\ Moves(c, [pc |-> "execute", op |-> o, ok |-> caller[c].ok,
                         evidence |-> caller[c].evidence])
  <2>1. PICK q : q = [pc |-> "execute", op |-> o, ok |-> caller[c].ok,
                      evidence |-> caller[c].evidence]
    OBVIOUS
  <2>2. Moves(c, q) /\ q.op = o /\ q.pc = "execute" /\ q.pc \in Working
    BY <1>10, <2>1 DEF Working
  <2>3. record'[o].status = "OPEN" /\ record'[o].attempts # << >>
    BY <1>3, <1>4, <1>5
  <2> QED BY <1>1, <1>2, <1>4, <1>5, <1>8, <1>10, <2>2, <2>3, CallKeeps DEF At
<1> QED BY <1>4, <1>9, <1>10

LEMMA ExecuteBasics == ASSUME Basics, NEW c \in Callers, Execute(c) PROVE Basics'
<1>1. PICK o : o = caller[c].op
  OBVIOUS
<1>2. /\ o \in Ops /\ record \in [Ops -> Record] /\ executes \in Nat
      /\ crashOn \in {"none", "afterReserve", "onResolve"} /\ last \in Answers
      /\ TypeOK /\ RecordsFit
      /\ caller[c].pc \in Working => record[o].status = "OPEN"
      /\ caller[c].pc \in {"execute", "observe", "save"} => record[o].attempts # << >>
  BY <1>1, StateFields
<1>3. /\ At(c, "execute") /\ executes' = executes + 1
      /\ UNCHANGED <<Running, record, lock, crashOn, last>>
      /\ target' \in Target
      /\ \E sent \in BOOLEAN :
           Moves(c, [pc |-> "observe", op |-> o, ok |-> sent, evidence |-> caller[c].evidence])
  BY <1>1, <1>2, ExecuteDoes, SMTT(30)
<1>4. PICK q : q.op = o /\ q.pc = "observe" /\ Moves(c, q)
  <2>1. PICK sent \in BOOLEAN :
          Moves(c, [pc |-> "observe", op |-> o, ok |-> sent, evidence |-> caller[c].evidence])
    BY <1>3
  <2>2. PICK q : q = [pc |-> "observe", op |-> o, ok |-> sent, evidence |-> caller[c].evidence]
    OBVIOUS
  <2> QED BY <2>1, <2>2
<1>5. RecordsFit'
  BY <1>2, <1>3 DEF RecordsFit, RecordFits
<1>6. q.pc \in Working /\ caller[c].pc = "execute" /\ caller[c].pc \in Working
  BY <1>3, <1>4 DEF At, Working
<1>7. record'[o].status = "OPEN" /\ record'[o].attempts # << >> /\ record' = record
      /\ record' \in [Ops -> Record] /\ executes' \in Nat
  BY <1>2, <1>3, <1>6
<1> QED BY <1>1, <1>2, <1>3, <1>4, <1>5, <1>6, <1>7, CallKeeps DEF At

LEMMA ObserveBasics == ASSUME Basics, NEW c \in Callers, Observe(c) PROVE Basics'
<1>1. PICK o : o = caller[c].op
  OBVIOUS
<1>2. /\ o \in Ops /\ record \in [Ops -> Record] /\ executes \in Nat
      /\ crashOn \in {"none", "afterReserve", "onResolve"} /\ last \in Answers
      /\ TypeOK /\ RecordsFit
      /\ caller[c].pc \in Working => record[o].status = "OPEN"
      /\ caller[c].pc \in {"execute", "observe", "save"} => record[o].attempts # << >>
  BY <1>1, StateFields
<1>3. /\ At(c, "observe") /\ UNCHANGED <<Running, record, lock, crashOn, executes, last>>
      /\ target' \in Target
      /\ \E evidence \in EvidenceStates :
           Moves(c, [pc |-> "save", op |-> o, ok |-> caller[c].ok, evidence |-> evidence])
  BY <1>1, <1>2, ObserveDoes
<1>4. PICK q : q.op = o /\ q.pc = "save" /\ Moves(c, q)
  <2>1. PICK evidence \in EvidenceStates :
          Moves(c, [pc |-> "save", op |-> o, ok |-> caller[c].ok, evidence |-> evidence])
    BY <1>3
  <2>2. PICK q : q = [pc |-> "save", op |-> o, ok |-> caller[c].ok, evidence |-> evidence]
    OBVIOUS
  <2> QED BY <2>1, <2>2
<1>5. RecordsFit'
  BY <1>2, <1>3 DEF RecordsFit, RecordFits
<1>6. q.pc \in Working /\ caller[c].pc = "observe" /\ caller[c].pc \in Working
  BY <1>3, <1>4 DEF At, Working
<1>7. record'[o].status = "OPEN" /\ record'[o].attempts # << >> /\ record' = record
      /\ record' \in [Ops -> Record]
  BY <1>2, <1>3, <1>6
<1> QED BY <1>1, <1>2, <1>3, <1>4, <1>5, <1>6, <1>7, CallKeeps DEF At

LEMMA SaveBasics == ASSUME Basics, NEW c \in Callers, Save(c) PROVE Basics'
<1>1. PICK o : o = caller[c].op
  OBVIOUS
<1>p. At(c, "save")
  BY DEF Save
<1>2. /\ o \in Ops /\ record \in [Ops -> Record] /\ record[o] \in Record /\ executes \in Nat
      /\ crashOn \in {"none", "afterReserve", "onResolve"} /\ last \in Answers
      /\ TypeOK /\ RecordsFit /\ RecordFits(record[o]) /\ target \in Target
      /\ caller[c].pc = "save" /\ caller[c].pc \in Working
      /\ record[o].status = "OPEN" /\ record[o].attempts # << >>
      /\ caller[c].ok \in BOOLEAN /\ caller[c].evidence \in EvidenceStates
  BY <1>1, <1>p, StateFields DEF At, Working
<1>5. /\ At(c, "save") /\ UNCHANGED <<Running, target, executes>>
      /\ \/ /\ crashOn = "onResolve" /\ crashOn' = "none" /\ Locks(o, "none") /\ Moves(c, Quiet)
            /\ record' = record /\ last' = last
         \/ /\ crashOn # "onResolve" /\ crashOn' = crashOn
            /\ \E r, s \in Record :
                 /\ r = record[o] /\ r.attempts # << >>
                 /\ record' = [record EXCEPT ![o] = s]
                 /\ s = ResolvedRecord(r, caller[c].ok, caller[c].evidence, Policy,
                                       contract.window, clock)
                 /\ \/ /\ RetriesNow(r, s) /\ lock' = lock /\ last' = last
                       /\ Moves(c, [pc |-> "reserve", op |-> o, ok |-> caller[c].ok,
                                    evidence |-> caller[c].evidence])
                    \/ /\ ~RetriesNow(r, s) /\ Locks(o, "none") /\ Moves(c, Quiet)
                       /\ last' = IF o = "op" THEN Answer(s) ELSE last
  BY <1>1, <1>2, SaveDoes
<1>6. CASE /\ crashOn' = "none" /\ Locks(o, "none") /\ Moves(c, Quiet)
           /\ record' = record /\ last' = last
  <2>1. RecordsFit'
    BY <1>2, <1>6 DEF RecordsFit, RecordFits
  <2> QED BY <1>1, <1>2, <1>5, <1>6, <2>1, CallKeeps, QuietFields DEF At
<1>7. CASE crashOn # "onResolve" /\ crashOn' = crashOn
  <2>1. PICK r, s \in Record :
          /\ r = record[o] /\ r.attempts # << >>
          /\ record' = [record EXCEPT ![o] = s]
          /\ s = ResolvedRecord(r, caller[c].ok, caller[c].evidence, Policy, contract.window, clock)
          /\ \/ /\ RetriesNow(r, s) /\ lock' = lock /\ last' = last
                /\ Moves(c, [pc |-> "reserve", op |-> o, ok |-> caller[c].ok,
                             evidence |-> caller[c].evidence])
             \/ /\ ~RetriesNow(r, s) /\ Locks(o, "none") /\ Moves(c, Quiet)
                /\ last' = IF o = "op" THEN Answer(s) ELSE last
    BY <1>5, <1>7
  <2>2. PICK sent \in BOOLEAN : sent = caller[c].ok
    BY <1>2
  <2>3. /\ RecordFits(s) /\ s.status = StatusAfter(caller[c].evidence, Latest(s).disposition)
    BY <1>2, <2>1, <2>2, ResolvedFits
  <2>4. /\ RecordsFit' /\ record' \in [Ops -> Record] /\ record'[o] = s
        /\ \A p \in Ops : p # o => record'[p] = record[p]
    BY <1>2, <2>1, <2>3, RecordsStay
  <2>5. CASE /\ RetriesNow(r, s) /\ lock' = lock /\ last' = last
             /\ Moves(c, [pc |-> "reserve", op |-> o, ok |-> caller[c].ok,
                          evidence |-> caller[c].evidence])
    <3>1. PICK q : q = [pc |-> "reserve", op |-> o, ok |-> caller[c].ok,
                        evidence |-> caller[c].evidence]
      OBVIOUS
    <3>2. Moves(c, q) /\ q.op = o /\ q.pc = "reserve" /\ q.pc \in Working
          /\ q.pc \notin {"execute", "observe", "save"}
      BY <2>5, <3>1 DEF Working
    <3>3. record'[o].status = "OPEN"
      BY <2>3, <2>4, <2>5 DEF RetriesNow, StatusAfter
    <3> QED BY <1>1, <1>2, <1>5, <1>7, <2>4, <2>5, <3>2, <3>3, CallKeeps DEF At
  <2>6. CASE /\ ~RetriesNow(r, s) /\ Locks(o, "none") /\ Moves(c, Quiet)
             /\ last' = IF o = "op" THEN Answer(s) ELSE last
    <3>1. last' \in Answers
      BY <1>2, <2>1, <2>6, AnswerFields
    <3> QED BY <1>1, <1>2, <1>5, <1>7, <2>4, <2>6, <3>1, CallKeeps, QuietFields DEF At
  <2> QED BY <2>1, <2>5, <2>6
<1> QED BY <1>5, <1>6, <1>7

\* A call keeps it, and belongs to the run that was played last.
LEMMA CallBasics ==
  ASSUME Basics, NEW c \in Callers, CallStep(c)
  PROVE  /\ Basics' /\ UNCHANGED Running /\ ~At(c, "idle")
         /\ Played > 0 /\ Plan[Played].do = "run" /\ caller[c].op = Plan[Played].what
         /\ c = "a" \/ Plan[Played].by = 2
         /\ Played \in Nat /\ Played \in 1..Len(Plan) /\ Len(Plan) \in Nat /\ Driven
         /\ Played' = Played /\ Now' = Now /\ (Driven' <=> Driven) /\ Plan' = Plan
<1>1. UNCHANGED Running /\ ~At(c, "idle")
  BY DEF CallStep, Busy, Begin, Reserve, Execute, Observe, Save, At
<1>2. Basics'
  BY BusyBasics, BeginBasics, ReserveBasics, ExecuteBasics, ObserveBasics, SaveBasics DEF CallStep
<1>3. Len(Plan) \in Nat
  BY PlayedFits DEF Basics
<1> QED BY <1>1, <1>2, <1>3, CallStays, CallsFit

LEMMA InitBasics == ASSUME Init PROVE Basics /\ Played = 0 /\ ~Driven
<1>1. n = 0 /\ script = << >> /\ contract \in Contracts /\ options \in Options
  BY DEF Init
<1>2. Now = "none" /\ ~Driven /\ Plan = << >> /\ Played = 0
  <2>1. Now = "none"
    BY <1>1, ScenarioNames DEF Now
  <2>2. ~Driven
    BY <2>1 DEF Driven
  <2>3. Plan = << >>
    BY <2>2 DEF Plan
  <2> QED BY <1>1, <2>1, <2>2, <2>3 DEF Played
<1>3. /\ F!Reset \in Target /\ NoRecord \in Record /\ RecordFits(NoRecord)
      /\ Quiet \in CallerState /\ Quiet.pc = "idle" /\ "idle" \notin Working
      /\ NoAnswer \in Answers
  BY ResetFields, NewFits, QuietFields DEF NoAnswer, Answers, Dispositions
<1>4. TypeOK
  <2>1. n \in 0..Len(Scenarios) + 1
    BY <1>1, ScenarioNames
  <2> QED BY <1>1, <1>3, <2>1 DEF TypeOK, Init, Inputs, Answers, Names
<1>5. ScriptFits /\ RecordsFit
  BY <1>1, <1>2, <1>3 DEF ScriptFits, RecordsFit, Init
<1>6. CallersFit
  <2>1. \A c \in Callers : c # "none" /\ caller[c] = Quiet
    BY DEF Callers, Init
  <2>2. \A o \in Ops : lock[o] = "none"
    BY DEF Init
  <2> QED BY <1>3, <2>1, <2>2 DEF CallersFit, Working
<1> QED BY <1>2, <1>4, <1>5, <1>6 DEF Basics

-----------------------------------------------------------------------------
(* Expectations *)

\* What has been expected since the last command still holds.
LEMMA NextMet == ASSUME Basics, NextScenario PROVE MetSoFar'
  BY FreshDoes DEF MetSoFar

LEMMA StaysMet ==
  ASSUME Basics, Played \in 1..Len(Plan), Plan[Played].do # "expect"
  PROVE  MetSoFar
<1>1. Played \in Nat
  BY PlayedFits DEF Basics
<1>2. \A j \in 1..Played : ~Trailing(j)
  BY <1>1 DEF Trailing
<1> QED BY <1>2 DEF MetSoFar

LEMMA ActsMet ==
  ASSUME Basics', Played' \in 1..Len(Plan'), Plan'[Played'].do # "expect"
  PROVE  MetSoFar'
<1>1. (Basics /\ Played \in 1..Len(Plan) /\ Plan[Played].do # "expect" => MetSoFar)'
  BY StaysMet, PTL
<1> QED BY <1>1

LEMMA PrepareMet ==
  ASSUME Basics, MetSoFar, Prepare
  PROVE  MetSoFar'
<1>1. PICK x : x = Plan[Played + 1]
  OBVIOUS
<1>2. /\ Command(x.do)
      /\ UNCHANGED <<contract, options, n, target, record, lock, caller, executes, last, results>>
      /\ x.do \in {"crash", "advance", "expect"}
      /\ x.do = "expect" => (ok' <=> ok /\ Holds(x.what))
      /\ ok' => ok
  BY <1>1, PrepareDoes
<1>3. /\ Plan' = Plan /\ Played' = Played + 1 /\ Played \in Nat /\ Played + 1 \in 1..Len(Plan)
  BY <1>1, <1>2, CommandDoes
<1>4. CASE x.do # "expect"
  BY <1>1, <1>3, <1>4, ActsMet, PrepareBasics
<1>5. CASE x.do = "expect"
  <2>1. \A what : Holds(what)' <=> Holds(what)
    BY <1>2, SamePlan DEF Holds, Effects, Recovered, RetryAllowed, Declared
  <2>2. SUFFICES ASSUME NEW j \in 1..Played', ok', Trailing(j)'
                 PROVE  Holds(Plan[j].what)
    BY <1>3, <2>1 DEF MetSoFar
  <2>3. CASE j = Played + 1
    BY <1>1, <1>2, <1>5, <2>2, <2>3
  <2>4. CASE j # Played + 1
    <3>1. j \in 1..Played /\ \A i \in j..Played + 1 : Plan[i].do = "expect"
      BY <1>3, <2>2, <2>4 DEF Trailing
    <3>2. Trailing(j)
      BY <1>3, <3>1 DEF Trailing
    <3> QED BY <1>2, <2>2, <3>1, <3>2 DEF MetSoFar
  <2> QED BY <2>3, <2>4
<1> QED BY <1>4, <1>5

LEMMA DriveMet == ASSUME Basics, Drive PROVE MetSoFar'
<1>1. PICK x : x = Plan[Played + 1]
  OBVIOUS
<1>2. /\ Command(x.do) /\ UNCHANGED <<contract, options, n>>
      /\ x.do \in {"fault", "failRead", "land", "settle", "reject"}
  BY <1>1, DriveDoes
<1>3. /\ Plan' = Plan /\ Played' = Played + 1 /\ Played \in Nat /\ Played + 1 \in 1..Len(Plan)
  BY <1>1, <1>2, CommandDoes
<1> QED BY <1>1, <1>2, <1>3, ActsMet, DriveBasics

LEMMA StartMet == ASSUME Basics, StartRun PROVE MetSoFar'
<1>1. PICK x : x = Plan[Played + 1]
  OBVIOUS
<1>2. Command(x.do) /\ UNCHANGED <<contract, options, n>> /\ x.do = "run"
  BY <1>1, StartDoes
<1>3. /\ Plan' = Plan /\ Played' = Played + 1 /\ Played \in Nat /\ Played + 1 \in 1..Len(Plan)
  BY <1>1, <1>2, CommandDoes
<1> QED BY <1>1, <1>2, <1>3, ActsMet, StartBasics

LEMMA CallMet == ASSUME Basics, NEW c \in Callers, CallStep(c) PROVE MetSoFar'
<1>1. /\ Basics' /\ Played \in 1..Len(Plan) /\ Plan[Played].do = "run"
      /\ Played' = Played /\ Plan' = Plan
  BY CallBasics
<1> QED BY <1>1, ActsMet

-----------------------------------------------------------------------------
(* Which command is where *)

LEMMA CommandShapes ==
  /\ Once.do = "run" /\ Once.what = "op" /\ Once.by = 1
  /\ \A m : Fault(m).do = "fault" /\ Fault(m).what = m
  /\ \A t : Advance(t).do = "advance" /\ Advance(t).by = t
  /\ \A e : Expect(e).do = "expect" /\ Expect(e).what = e
  /\ \A d, w, k : Cmd(d, w, k).do = d /\ Cmd(d, w, k).what = w /\ Cmd(d, w, k).by = k
  BY DEF Once, Fault, Advance, Expect, Cmd

\* What is at which place of each scenario.
LEMMA NormalKinds ==
  ASSUME Inputs, Driven, Now = "normal", NEW i \in 1..Len(Plan)
  PROVE  /\ Len(Plan) = 10 /\ i \in 1..10
         /\ Plan[i].do \in {"run", "expect", "advance"}
         /\ Plan[i].do = "run" <=> i \in {1, 3, 5, 7}
         /\ Plan[i].do = "expect" <=> i \in {8, 9, 10}
         /\ Plan[i].do = "advance" <=> i \in {2, 4, 6}
         /\ Plan[i].do = "run" => Plan[i].what = "op" /\ Plan[i].by = 1
         /\ Plan[i].do = "advance" => Plan[i].by = SettleStep
         /\ i = 8 => Plan[i].what = "one"
         /\ i = 9 => Plan[i].what = "executedOnce"
         /\ i = 10 => Plan[i].what = "APPLIED"
<1>1. Len(Plan) = 10
  BY NormalPlan
<1>3. i \in {1, 2, 3, 4, 5, 6, 7, 8, 9, 10}
  BY <1>1
<1>2. /\ Plan[1].do = "run" /\ Plan[1].what = "op" /\ Plan[1].by = 1
      /\ Plan[2].do = "advance" /\ Plan[2].by = SettleStep
      /\ Plan[3].do = "run" /\ Plan[3].what = "op" /\ Plan[3].by = 1
      /\ Plan[4].do = "advance" /\ Plan[4].by = SettleStep
      /\ Plan[5].do = "run" /\ Plan[5].what = "op" /\ Plan[5].by = 1
      /\ Plan[6].do = "advance" /\ Plan[6].by = SettleStep
      /\ Plan[7].do = "run" /\ Plan[7].what = "op" /\ Plan[7].by = 1
      /\ Plan[8].do = "expect" /\ Plan[8].what = "one"
      /\ Plan[9].do = "expect" /\ Plan[9].what = "executedOnce"
      /\ Plan[10].do = "expect" /\ Plan[10].what = "APPLIED"
  BY NormalPlan, CommandShapes DEF Follows
<1> QED BY <1>1, <1>2, <1>3

LEMMA ResponseLostKinds ==
  ASSUME Inputs, Driven, Now = "response-lost-after-commit", NEW i \in 1..Len(Plan)
  PROVE  /\ Len(Plan) = 11 /\ i \in 1..11
         /\ Plan[i].do \in {"run", "expect", "advance", "fault"}
         /\ Plan[i].do = "run" <=> i \in {2, 4, 6, 8}
         /\ Plan[i].do = "expect" <=> i \in {9, 10, 11}
         /\ Plan[i].do = "advance" <=> i \in {3, 5, 7}
         /\ Plan[i].do = "fault" <=> i \in {1}
         /\ Plan[i].do = "run" => Plan[i].what = "op" /\ Plan[i].by = 1
         /\ Plan[i].do = "advance" => Plan[i].by = SettleStep
         /\ Plan[i].do = "fault" => Plan[i].what = "loseResponse"
         /\ i = 9 => Plan[i].what = "one"
         /\ i = 10 => Plan[i].what = "executedOnce"
         /\ i = 11 => Plan[i].what = "APPLIED"
<1>1. Len(Plan) = 11
  BY ResponseLostPlan
<1>3. i \in {1, 2, 3, 4, 5, 6, 7, 8, 9, 10, 11}
  BY <1>1
<1>2. /\ Plan[1].do = "fault" /\ Plan[1].what = "loseResponse"
      /\ Plan[2].do = "run" /\ Plan[2].what = "op" /\ Plan[2].by = 1
      /\ Plan[3].do = "advance" /\ Plan[3].by = SettleStep
      /\ Plan[4].do = "run" /\ Plan[4].what = "op" /\ Plan[4].by = 1
      /\ Plan[5].do = "advance" /\ Plan[5].by = SettleStep
      /\ Plan[6].do = "run" /\ Plan[6].what = "op" /\ Plan[6].by = 1
      /\ Plan[7].do = "advance" /\ Plan[7].by = SettleStep
      /\ Plan[8].do = "run" /\ Plan[8].what = "op" /\ Plan[8].by = 1
      /\ Plan[9].do = "expect" /\ Plan[9].what = "one"
      /\ Plan[10].do = "expect" /\ Plan[10].what = "executedOnce"
      /\ Plan[11].do = "expect" /\ Plan[11].what = "APPLIED"
  BY ResponseLostPlan, CommandShapes DEF Follows
<1> QED BY <1>1, <1>2, <1>3

LEMMA RequestLostKinds ==
  ASSUME Inputs, Driven, Now = "request-lost-before-commit", NEW i \in 1..Len(Plan)
  PROVE  /\ Len(Plan) = 10 /\ i \in 1..10
         /\ Plan[i].do \in {"run", "expect", "advance", "fault"}
         /\ Plan[i].do = "run" <=> i \in {2, 4, 6, 8}
         /\ Plan[i].do = "expect" <=> i \in {9, 10}
         /\ Plan[i].do = "advance" <=> i \in {3, 5, 7}
         /\ Plan[i].do = "fault" <=> i \in {1}
         /\ Plan[i].do = "run" => Plan[i].what = "op" /\ Plan[i].by = 1
         /\ Plan[i].do = "advance" => Plan[i].by = SettleStep
         /\ Plan[i].do = "fault" => Plan[i].what = "loseRequest"
         /\ i = 9 => Plan[i].what = "atMostOne"
         /\ i = 10 => Plan[i].what = "recovered"
<1>1. Len(Plan) = 10
  BY RequestLostPlan
<1>3. i \in {1, 2, 3, 4, 5, 6, 7, 8, 9, 10}
  BY <1>1
<1>2. /\ Plan[1].do = "fault" /\ Plan[1].what = "loseRequest"
      /\ Plan[2].do = "run" /\ Plan[2].what = "op" /\ Plan[2].by = 1
      /\ Plan[3].do = "advance" /\ Plan[3].by = SettleStep
      /\ Plan[4].do = "run" /\ Plan[4].what = "op" /\ Plan[4].by = 1
      /\ Plan[5].do = "advance" /\ Plan[5].by = SettleStep
      /\ Plan[6].do = "run" /\ Plan[6].what = "op" /\ Plan[6].by = 1
      /\ Plan[7].do = "advance" /\ Plan[7].by = SettleStep
      /\ Plan[8].do = "run" /\ Plan[8].what = "op" /\ Plan[8].by = 1
      /\ Plan[9].do = "expect" /\ Plan[9].what = "atMostOne"
      /\ Plan[10].do = "expect" /\ Plan[10].what = "recovered"
  BY RequestLostPlan, CommandShapes DEF Follows
<1> QED BY <1>1, <1>2, <1>3

LEMMA ReadFailsKinds ==
  ASSUME Inputs, Driven, Now = "read-fails-after-lost-response", NEW i \in 1..Len(Plan)
  PROVE  /\ Len(Plan) = 11 /\ i \in 1..11
         /\ Plan[i].do \in {"run", "expect", "advance", "fault", "failRead"}
         /\ Plan[i].do = "run" <=> i \in {3, 6, 8, 10}
         /\ Plan[i].do = "expect" <=> i \in {4, 11}
         /\ Plan[i].do = "advance" <=> i \in {5, 7, 9}
         /\ Plan[i].do = "fault" <=> i \in {1}
         /\ Plan[i].do = "failRead" <=> i \in {2}
         /\ Plan[i].do = "run" => Plan[i].what = "op" /\ Plan[i].by = 1
         /\ Plan[i].do = "advance" => Plan[i].by = SettleStep
         /\ Plan[i].do = "fault" => Plan[i].what = "loseResponse"
         /\ i = 4 => Plan[i].what = "UNKNOWN"
         /\ i = 11 => Plan[i].what = "one"
<1>1. Len(Plan) = 11
  BY ReadFailsPlan
<1>3. i \in {1, 2, 3, 4, 5, 6, 7, 8, 9, 10, 11}
  BY <1>1
<1>2. /\ Plan[1].do = "fault" /\ Plan[1].what = "loseResponse"
      /\ Plan[2].do = "failRead"
      /\ Plan[3].do = "run" /\ Plan[3].what = "op" /\ Plan[3].by = 1
      /\ Plan[4].do = "expect" /\ Plan[4].what = "UNKNOWN"
      /\ Plan[5].do = "advance" /\ Plan[5].by = SettleStep
      /\ Plan[6].do = "run" /\ Plan[6].what = "op" /\ Plan[6].by = 1
      /\ Plan[7].do = "advance" /\ Plan[7].by = SettleStep
      /\ Plan[8].do = "run" /\ Plan[8].what = "op" /\ Plan[8].by = 1
      /\ Plan[9].do = "advance" /\ Plan[9].by = SettleStep
      /\ Plan[10].do = "run" /\ Plan[10].what = "op" /\ Plan[10].by = 1
      /\ Plan[11].do = "expect" /\ Plan[11].what = "one"
  BY ReadFailsPlan, CommandShapes DEF Follows
<1> QED BY <1>1, <1>2, <1>3

LEMMA CrashAfterKinds ==
  ASSUME Inputs, Driven, Now = "crash-after-effect-before-save", NEW i \in 1..Len(Plan)
  PROVE  /\ Len(Plan) = 11 /\ i \in 1..11
         /\ Plan[i].do \in {"run", "expect", "advance", "crash"}
         /\ Plan[i].do = "run" <=> i \in {2, 4, 6, 8}
         /\ Plan[i].do = "expect" <=> i \in {9, 10, 11}
         /\ Plan[i].do = "advance" <=> i \in {3, 5, 7}
         /\ Plan[i].do = "crash" <=> i \in {1}
         /\ Plan[i].do = "run" => Plan[i].what = "op" /\ Plan[i].by = 1
         /\ Plan[i].do = "advance" => Plan[i].by = SettleStep
         /\ Plan[i].do = "crash" => Plan[i].what = "onResolve"
         /\ i = 9 => Plan[i].what = "one"
         /\ i = 10 => Plan[i].what = "executedOnce"
         /\ i = 11 => Plan[i].what = "APPLIED"
<1>1. Len(Plan) = 11
  BY CrashAfterPlan
<1>3. i \in {1, 2, 3, 4, 5, 6, 7, 8, 9, 10, 11}
  BY <1>1
<1>2. /\ Plan[1].do = "crash" /\ Plan[1].what = "onResolve"
      /\ Plan[2].do = "run" /\ Plan[2].what = "op" /\ Plan[2].by = 1
      /\ Plan[3].do = "advance" /\ Plan[3].by = SettleStep
      /\ Plan[4].do = "run" /\ Plan[4].what = "op" /\ Plan[4].by = 1
      /\ Plan[5].do = "advance" /\ Plan[5].by = SettleStep
      /\ Plan[6].do = "run" /\ Plan[6].what = "op" /\ Plan[6].by = 1
      /\ Plan[7].do = "advance" /\ Plan[7].by = SettleStep
      /\ Plan[8].do = "run" /\ Plan[8].what = "op" /\ Plan[8].by = 1
      /\ Plan[9].do = "expect" /\ Plan[9].what = "one"
      /\ Plan[10].do = "expect" /\ Plan[10].what = "executedOnce"
      /\ Plan[11].do = "expect" /\ Plan[11].what = "APPLIED"
  BY CrashAfterPlan, CommandShapes DEF Follows
<1> QED BY <1>1, <1>2, <1>3

LEMMA CrashBeforeKinds ==
  ASSUME Inputs, Driven, Now = "crash-before-execute", NEW i \in 1..Len(Plan)
  PROVE  /\ Len(Plan) = 10 /\ i \in 1..10
         /\ Plan[i].do \in {"run", "expect", "advance", "crash"}
         /\ Plan[i].do = "run" <=> i \in {2, 4, 6, 8}
         /\ Plan[i].do = "expect" <=> i \in {9, 10}
         /\ Plan[i].do = "advance" <=> i \in {3, 5, 7}
         /\ Plan[i].do = "crash" <=> i \in {1}
         /\ Plan[i].do = "run" => Plan[i].what = "op" /\ Plan[i].by = 1
         /\ Plan[i].do = "advance" => Plan[i].by = SettleStep
         /\ Plan[i].do = "crash" => Plan[i].what = "afterReserve"
         /\ i = 9 => Plan[i].what = "atMostOne"
         /\ i = 10 => Plan[i].what = "recovered"
<1>1. Len(Plan) = 10
  BY CrashBeforePlan
<1>3. i \in {1, 2, 3, 4, 5, 6, 7, 8, 9, 10}
  BY <1>1
<1>2. /\ Plan[1].do = "crash" /\ Plan[1].what = "afterReserve"
      /\ Plan[2].do = "run" /\ Plan[2].what = "op" /\ Plan[2].by = 1
      /\ Plan[3].do = "advance" /\ Plan[3].by = SettleStep
      /\ Plan[4].do = "run" /\ Plan[4].what = "op" /\ Plan[4].by = 1
      /\ Plan[5].do = "advance" /\ Plan[5].by = SettleStep
      /\ Plan[6].do = "run" /\ Plan[6].what = "op" /\ Plan[6].by = 1
      /\ Plan[7].do = "advance" /\ Plan[7].by = SettleStep
      /\ Plan[8].do = "run" /\ Plan[8].what = "op" /\ Plan[8].by = 1
      /\ Plan[9].do = "expect" /\ Plan[9].what = "atMostOne"
      /\ Plan[10].do = "expect" /\ Plan[10].what = "recovered"
  BY CrashBeforePlan, CommandShapes DEF Follows
<1> QED BY <1>1, <1>2, <1>3

LEMMA ConcurrentKinds ==
  ASSUME Inputs, Driven, Now = "concurrent-same-identity", NEW i \in 1..Len(Plan)
  PROVE  /\ Len(Plan) = 9 /\ i \in 1..9
         /\ Plan[i].do \in {"run", "expect", "advance"}
         /\ Plan[i].do = "run" <=> i \in {1, 3, 5, 7}
         /\ Plan[i].do = "expect" <=> i \in {8, 9}
         /\ Plan[i].do = "advance" <=> i \in {2, 4, 6}
         /\ Plan[i].do = "run" => Plan[i].what = "op" /\ Plan[i].by = IF i = 1 THEN 2 ELSE 1
         /\ Plan[i].do = "advance" => Plan[i].by = SettleStep
         /\ i = 8 => Plan[i].what = "one"
         /\ i = 9 => Plan[i].what = "executedOnce"
<1>1. Len(Plan) = 9
  BY ConcurrentPlan
<1>3. i \in {1, 2, 3, 4, 5, 6, 7, 8, 9}
  BY <1>1
<1>2. /\ Plan[1].do = "run" /\ Plan[1].what = "op" /\ Plan[1].by = 2
      /\ Plan[2].do = "advance" /\ Plan[2].by = SettleStep
      /\ Plan[3].do = "run" /\ Plan[3].what = "op" /\ Plan[3].by = 1
      /\ Plan[4].do = "advance" /\ Plan[4].by = SettleStep
      /\ Plan[5].do = "run" /\ Plan[5].what = "op" /\ Plan[5].by = 1
      /\ Plan[6].do = "advance" /\ Plan[6].by = SettleStep
      /\ Plan[7].do = "run" /\ Plan[7].what = "op" /\ Plan[7].by = 1
      /\ Plan[8].do = "expect" /\ Plan[8].what = "one"
      /\ Plan[9].do = "expect" /\ Plan[9].what = "executedOnce"
  BY ConcurrentPlan, CommandShapes DEF Follows
<1> QED BY <1>1, <1>2, <1>3

LEMMA ReuseKinds ==
  ASSUME Inputs, Driven, Now = "identity-reuse-different-intent", NEW i \in 1..Len(Plan)
  PROVE  /\ Len(Plan) = 2 /\ i \in 1..2
         /\ Plan[i].do \in {"run", "expect"}
         /\ Plan[i].do = "run" <=> i \in {1}
         /\ Plan[i].do = "expect" <=> i \in {2}
         /\ Plan[i].do = "run" => Plan[i].what = "op" /\ Plan[i].by = 1
         /\ i = 2 => Plan[i].what = "rejectsReuse"
<1>1. Len(Plan) = 2
  BY ReusePlan
<1>3. i \in {1, 2}
  BY <1>1
<1>2. /\ Plan[1].do = "run" /\ Plan[1].what = "op" /\ Plan[1].by = 1
      /\ Plan[2].do = "expect" /\ Plan[2].what = "rejectsReuse"
  BY ReusePlan, CommandShapes
<1> QED BY <1>1, <1>2, <1>3

LEMMA SettledKinds ==
  ASSUME Inputs, Driven, Now = "pending-then-settled", NEW i \in 1..Len(Plan)
  PROVE  /\ Len(Plan) = 16 /\ i \in 1..16
         /\ Plan[i].do \in {"run", "expect", "advance", "fault", "settle"}
         /\ Plan[i].do = "run" <=> i \in {2, 4, 9, 11, 13}
         /\ Plan[i].do = "expect" <=> i \in {3, 5, 6, 14, 15, 16}
         /\ Plan[i].do = "advance" <=> i \in {8, 10, 12}
         /\ Plan[i].do = "fault" <=> i \in {1}
         /\ Plan[i].do = "settle" <=> i \in {7}
         /\ Plan[i].do = "run" => Plan[i].what = "op" /\ Plan[i].by = 1
         /\ Plan[i].do = "advance" => Plan[i].by = SettleStep
         /\ Plan[i].do = "fault" => Plan[i].what = "pending"
         /\ i = 3 => Plan[i].what = "PENDING"
         /\ i = 5 => Plan[i].what = "executedOnce"
         /\ i = 6 => Plan[i].what = "none"
         /\ i = 14 => Plan[i].what = "one"
         /\ i = 15 => Plan[i].what = "executedOnce"
         /\ i = 16 => Plan[i].what = "APPLIED"
<1>1. Len(Plan) = 16
  BY SettledPlan
<1>3. i \in {1, 2, 3, 4, 5, 6, 7, 8, 9, 10, 11, 12, 13, 14, 15, 16}
  BY <1>1
<1>2. /\ Plan[1].do = "fault" /\ Plan[1].what = "pending"
      /\ Plan[2].do = "run" /\ Plan[2].what = "op" /\ Plan[2].by = 1
      /\ Plan[3].do = "expect" /\ Plan[3].what = "PENDING"
      /\ Plan[4].do = "run" /\ Plan[4].what = "op" /\ Plan[4].by = 1
      /\ Plan[5].do = "expect" /\ Plan[5].what = "executedOnce"
      /\ Plan[6].do = "expect" /\ Plan[6].what = "none"
      /\ Plan[7].do = "settle"
      /\ Plan[8].do = "advance" /\ Plan[8].by = SettleStep
      /\ Plan[9].do = "run" /\ Plan[9].what = "op" /\ Plan[9].by = 1
      /\ Plan[10].do = "advance" /\ Plan[10].by = SettleStep
      /\ Plan[11].do = "run" /\ Plan[11].what = "op" /\ Plan[11].by = 1
      /\ Plan[12].do = "advance" /\ Plan[12].by = SettleStep
      /\ Plan[13].do = "run" /\ Plan[13].what = "op" /\ Plan[13].by = 1
      /\ Plan[14].do = "expect" /\ Plan[14].what = "one"
      /\ Plan[15].do = "expect" /\ Plan[15].what = "executedOnce"
      /\ Plan[16].do = "expect" /\ Plan[16].what = "APPLIED"
  BY SettledPlan, CommandShapes DEF Follows
<1> QED BY <1>1, <1>2, <1>3

LEMMA RejectedKinds ==
  ASSUME Inputs, Driven, Now = "pending-then-rejected", NEW i \in 1..Len(Plan)
  PROVE  /\ Len(Plan) = 15 /\ i \in 1..15
         /\ Plan[i].do \in {"run", "expect", "advance", "fault", "reject"}
         /\ Plan[i].do = "run" <=> i \in {2, 4, 9, 11, 13}
         /\ Plan[i].do = "expect" <=> i \in {3, 5, 6, 14, 15}
         /\ Plan[i].do = "advance" <=> i \in {8, 10, 12}
         /\ Plan[i].do = "fault" <=> i \in {1}
         /\ Plan[i].do = "reject" <=> i \in {7}
         /\ Plan[i].do = "run" => Plan[i].what = "op" /\ Plan[i].by = 1
         /\ Plan[i].do = "advance" => Plan[i].by = SettleStep
         /\ Plan[i].do = "fault" => Plan[i].what = "pending"
         /\ i = 3 => Plan[i].what = "PENDING"
         /\ i = 5 => Plan[i].what = "executedOnce"
         /\ i = 6 => Plan[i].what = "none"
         /\ i = 14 => Plan[i].what = "atMostOne"
         /\ i = 15 => Plan[i].what = "recoveredFromRejection"
<1>1. Len(Plan) = 15
  BY RejectedPlan
<1>3. i \in {1, 2, 3, 4, 5, 6, 7, 8, 9, 10, 11, 12, 13, 14, 15}
  BY <1>1
<1>2. /\ Plan[1].do = "fault" /\ Plan[1].what = "pending"
      /\ Plan[2].do = "run" /\ Plan[2].what = "op" /\ Plan[2].by = 1
      /\ Plan[3].do = "expect" /\ Plan[3].what = "PENDING"
      /\ Plan[4].do = "run" /\ Plan[4].what = "op" /\ Plan[4].by = 1
      /\ Plan[5].do = "expect" /\ Plan[5].what = "executedOnce"
      /\ Plan[6].do = "expect" /\ Plan[6].what = "none"
      /\ Plan[7].do = "reject"
      /\ Plan[8].do = "advance" /\ Plan[8].by = SettleStep
      /\ Plan[9].do = "run" /\ Plan[9].what = "op" /\ Plan[9].by = 1
      /\ Plan[10].do = "advance" /\ Plan[10].by = SettleStep
      /\ Plan[11].do = "run" /\ Plan[11].what = "op" /\ Plan[11].by = 1
      /\ Plan[12].do = "advance" /\ Plan[12].by = SettleStep
      /\ Plan[13].do = "run" /\ Plan[13].what = "op" /\ Plan[13].by = 1
      /\ Plan[14].do = "expect" /\ Plan[14].what = "atMostOne"
      /\ Plan[15].do = "expect" /\ Plan[15].what = "recoveredFromRejection"
  BY RejectedPlan, CommandShapes DEF Follows
<1> QED BY <1>1, <1>2, <1>3

LEMMA NeighborKinds ==
  ASSUME Inputs, Driven, Now = "neighbor-effect-isolation", NEW i \in 1..Len(Plan)
  PROVE  /\ Len(Plan) = 11 /\ i \in 1..11
         /\ Plan[i].do \in {"run", "expect", "advance", "fault"}
         /\ Plan[i].do = "run" <=> i \in {1, 4, 6, 8, 10}
         /\ Plan[i].do = "expect" <=> i \in {2, 11}
         /\ Plan[i].do = "advance" <=> i \in {5, 7, 9}
         /\ Plan[i].do = "fault" <=> i \in {3}
         /\ Plan[i].do = "run" => Plan[i].by = 1 /\ Plan[i].what = IF i = 1 THEN "neighbor" ELSE "op"
         /\ Plan[i].do = "advance" => Plan[i].by = SettleStep
         /\ Plan[i].do = "fault" => Plan[i].what = "loseRequest"
         /\ i = 2 => Plan[i].what = "neighbor"
         /\ i = 11 => Plan[i].what = "recovered"
<1>1. Len(Plan) = 11
  BY NeighborPlan
<1>3. i \in {1, 2, 3, 4, 5, 6, 7, 8, 9, 10, 11}
  BY <1>1
<1>2. /\ Plan[1].do = "run" /\ Plan[1].what = "neighbor" /\ Plan[1].by = 1
      /\ Plan[2].do = "expect" /\ Plan[2].what = "neighbor"
      /\ Plan[3].do = "fault" /\ Plan[3].what = "loseRequest"
      /\ Plan[4].do = "run" /\ Plan[4].what = "op" /\ Plan[4].by = 1
      /\ Plan[5].do = "advance" /\ Plan[5].by = SettleStep
      /\ Plan[6].do = "run" /\ Plan[6].what = "op" /\ Plan[6].by = 1
      /\ Plan[7].do = "advance" /\ Plan[7].by = SettleStep
      /\ Plan[8].do = "run" /\ Plan[8].what = "op" /\ Plan[8].by = 1
      /\ Plan[9].do = "advance" /\ Plan[9].by = SettleStep
      /\ Plan[10].do = "run" /\ Plan[10].what = "op" /\ Plan[10].by = 1
      /\ Plan[11].do = "expect" /\ Plan[11].what = "recovered"
  BY NeighborPlan, CommandShapes DEF Follows
<1> QED BY <1>1, <1>2, <1>3

LEMMA HastyKinds ==
  ASSUME Inputs, Driven, Now = "late-landing", RunAt < options.late, NEW i \in 1..Len(Plan)
  PROVE  /\ Len(Plan) = 13 /\ i \in 1..13
         /\ RunAt \in Nat /\ options.late \in Nat /\ Declared /\ RunAt = contract.window
         /\ Plan[i].do \in {"run", "expect", "advance", "fault", "land"}
         /\ Plan[i].do = "run" <=> i \in {2, 4, 8, 10, 12}
         /\ Plan[i].do = "expect" <=> i \in {13}
         /\ Plan[i].do = "advance" <=> i \in {3, 5, 7, 9, 11}
         /\ Plan[i].do = "fault" <=> i = 1
         /\ Plan[i].do = "land" <=> i = 6
         /\ Plan[i].do = "run" => Plan[i].what = "op" /\ Plan[i].by = 1
         /\ Plan[i].do = "fault" => Plan[i].what = "hold"
         /\ i = 3 => Plan[i].by = RunAt
         /\ i = 13 => Plan[i].what = "one"
<1>1. /\ Len(Plan) = 13 /\ RunAt \in Nat /\ options.late \in Nat
      /\ Declared /\ RunAt = contract.window
  BY HastyPlan
<1>3. i \in {1, 2, 3, 4, 5, 6, 7, 8, 9, 10, 11, 12, 13}
  BY <1>1
<1>2. /\ Plan[1].do = "fault" /\ Plan[1].what = "hold"
      /\ Plan[2].do = "run" /\ Plan[2].what = "op" /\ Plan[2].by = 1
      /\ Plan[3].do = "advance" /\ Plan[3].by = RunAt
      /\ Plan[4].do = "run" /\ Plan[4].what = "op" /\ Plan[4].by = 1
      /\ Plan[5].do = "advance"
      /\ Plan[6].do = "land"
      /\ Plan[7].do = "advance"
      /\ Plan[8].do = "run" /\ Plan[8].what = "op" /\ Plan[8].by = 1
      /\ Plan[9].do = "advance"
      /\ Plan[10].do = "run" /\ Plan[10].what = "op" /\ Plan[10].by = 1
      /\ Plan[11].do = "advance"
      /\ Plan[12].do = "run" /\ Plan[12].what = "op" /\ Plan[12].by = 1
      /\ Plan[13].do = "expect" /\ Plan[13].what = "one"
  <2>1. /\ Plan[1] = Fault("hold") /\ Plan[2] = Once /\ Plan[4] = Once /\ Plan[6] = Cmd("land", "op", 0)
        /\ Plan[3] = Advance(RunAt) /\ Plan[5] = Advance(options.late - RunAt) /\ Plan[13] = Expect("one")
        /\ Plan[7] = Advance(SettleStep) /\ Plan[8] = Once /\ Plan[9] = Advance(SettleStep)
        /\ Plan[10] = Once /\ Plan[11] = Advance(SettleStep) /\ Plan[12] = Once
    BY HastyPlan DEF Follows
  <2> QED BY <2>1, CommandShapes, SMTT(30)
<1> QED BY <1>1, <1>2, <1>3

LEMMA PatientKinds ==
  ASSUME Inputs, Driven, Now = "late-landing", ~(RunAt < options.late), NEW i \in 1..Len(Plan)
  PROVE  /\ Len(Plan) = (IF Declared THEN 15 ELSE 13) /\ i \in 1..15
         /\ RunAt \in Nat /\ options.late \in Nat /\ (i > 13 => Declared)
         /\ Plan[i].do \in {"run", "expect", "advance", "fault", "land"}
         /\ Plan[i].do = "run" <=> i \in {2, 6, 8, 10, 12}
         /\ Plan[i].do = "expect" <=> i \in {13, 14, 15}
         /\ Plan[i].do = "advance" <=> i \in {3, 5, 7, 9, 11}
         /\ Plan[i].do = "fault" <=> i = 1
         /\ Plan[i].do = "land" <=> i = 4
         /\ Plan[i].do = "run" => Plan[i].what = "op" /\ Plan[i].by = 1
         /\ Plan[i].do = "fault" => Plan[i].what = "hold"
         /\ i = 3 => Plan[i].by = options.late
         /\ i = 5 => Plan[i].by = RunAt - options.late
         /\ i = 13 => Plan[i].what = "one"
         /\ i = 14 => Plan[i].what = "executedOnce"
         /\ i = 15 => Plan[i].what = "APPLIED"
<1>1. /\ Len(Plan) = (IF Declared THEN 15 ELSE 13) /\ RunAt \in Nat /\ options.late \in Nat
  BY PatientPlan
<1>3. i \in {1, 2, 3, 4, 5, 6, 7, 8, 9, 10, 11, 12, 13, 14, 15} /\ (i > 13 => Declared)
  BY <1>1
<1>2. /\ Plan[1].do = "fault" /\ Plan[1].what = "hold"
      /\ Plan[2].do = "run" /\ Plan[2].what = "op" /\ Plan[2].by = 1
      /\ Plan[3].do = "advance" /\ Plan[3].by = options.late
      /\ Plan[4].do = "land"
      /\ Plan[5].do = "advance" /\ Plan[5].by = RunAt - options.late
      /\ Plan[6].do = "run" /\ Plan[6].what = "op" /\ Plan[6].by = 1
      /\ Plan[7].do = "advance"
      /\ Plan[8].do = "run" /\ Plan[8].what = "op" /\ Plan[8].by = 1
      /\ Plan[9].do = "advance"
      /\ Plan[10].do = "run" /\ Plan[10].what = "op" /\ Plan[10].by = 1
      /\ Plan[11].do = "advance"
      /\ Plan[12].do = "run" /\ Plan[12].what = "op" /\ Plan[12].by = 1
      /\ Plan[13].do = "expect" /\ Plan[13].what = "one"
      /\ Declared => /\ Plan[14].do = "expect" /\ Plan[14].what = "executedOnce"
                     /\ Plan[15].do = "expect" /\ Plan[15].what = "APPLIED"
  <2>1. /\ Plan[1] = Fault("hold") /\ Plan[2] = Once /\ Plan[6] = Once /\ Plan[4] = Cmd("land", "op", 0)
        /\ Plan[3] = Advance(options.late) /\ Plan[5] = Advance(RunAt - options.late) /\ Plan[13] = Expect("one")
        /\ Declared => Plan[14] = Expect("executedOnce") /\ Plan[15] = Expect("APPLIED")
        /\ Plan[7] = Advance(SettleStep) /\ Plan[8] = Once /\ Plan[9] = Advance(SettleStep)
        /\ Plan[10] = Once /\ Plan[11] = Advance(SettleStep) /\ Plan[12] = Once
    BY PatientPlan DEF Follows
  <2> QED BY <2>1, CommandShapes, SMTT(30)
<1> QED BY <1>1, <1>2, <1>3

-----------------------------------------------------------------------------
(* What broken contracts do: each part of the invariant, step by step *)

\* What happens within a scenario.
Step == Drive \/ Prepare \/ StartRun \/ \E c \in Callers : CallStep(c)

\* A step stays within its scenario and plays on in it.
LEMMA StepStays ==
  ASSUME Basics, Step
  PROVE  /\ Basics' /\ UNCHANGED <<contract, options, n, results>> /\ Now' = Now /\ Plan' = Plan
         /\ (Driven' <=> Driven) /\ Driven /\ Inputs /\ Played \in Nat /\ Len(Plan) \in Nat
         /\ Played' \in 1..Len(Plan) /\ Now \in Names
<1>1. /\ Inputs /\ Played \in Nat /\ Len(Plan) \in Nat /\ (Driven => Now \in Names)
  BY PlayedFits DEF Basics, TypeOK
<1>2. ASSUME Drive \/ Prepare \/ StartRun
      PROVE  /\ Basics' /\ UNCHANGED <<contract, options, n, results>>
             /\ \E d : Command(d)
  BY <1>2, DriveDoes, PrepareDoes, StartDoes, DriveBasics, PrepareBasics, StartBasics
<1>3. ASSUME NEW c \in Callers, CallStep(c)
      PROVE  /\ Basics' /\ UNCHANGED <<contract, options, n, results>> /\ Driven
             /\ Played' = Played /\ Played \in 1..Len(Plan)
  BY <1>3, CallBasics DEF Running
<1>4. CASE Drive \/ Prepare \/ StartRun
  BY <1>1, <1>2, <1>4, CommandDoes
<1>5. CASE \E c \in Callers : CallStep(c)
  BY <1>1, <1>3, <1>5, SamePlan
<1> QED BY <1>4, <1>5 DEF Step

\* Only in its own scenario is the neighbor run.
LEMMA RunsOfOp ==
  ASSUME Inputs, Driven, Now \in Names, Now # "neighbor-effect-isolation",
         NEW i \in 1..Len(Plan), Plan[i].do = "run"
  PROVE  Plan[i].what = "op"
<1>1. CASE Now = "late-landing"
  BY <1>1, HastyKinds, PatientKinds
<1>2. CASE Now \in {"normal", "response-lost-after-commit", "request-lost-before-commit",
                    "read-fails-after-lost-response"}
  BY <1>2, NormalKinds, ResponseLostKinds, RequestLostKinds, ReadFailsKinds
<1>3. CASE Now \in {"crash-after-effect-before-save", "crash-before-execute",
                    "concurrent-same-identity", "identity-reuse-different-intent"}
  BY <1>3, CrashAfterKinds, CrashBeforeKinds, ConcurrentKinds, ReuseKinds
<1>4. CASE Now \in {"pending-then-settled", "pending-then-rejected"}
  BY <1>4, SettledKinds, RejectedKinds
<1> QED BY <1>1, <1>2, <1>3, <1>4, ScenarioNames

\* Only in its own scenario does a call concern the neighbor.
LEMMA CallsOfOp ==
  ASSUME Basics, NEW c \in Callers, CallStep(c), Now # "neighbor-effect-isolation"
  PROVE  caller[c].op = "op"
<1>1. /\ Played \in 1..Len(Plan) /\ Plan[Played].do = "run" /\ caller[c].op = Plan[Played].what
      /\ Driven
  BY CallBasics
<1>2. Inputs /\ Now \in Names
  BY <1>1, PlayedFits DEF Basics, TypeOK
<1> QED BY <1>1, <1>2, RunsOfOp

\* Only execute() and observe() go to the target.
LEMMA TargetStays ==
  ASSUME Basics, NEW c \in Callers, CallStep(c), ~Execute(c), ~Observe(c)
  PROVE  target' = target /\ executes' = executes
<1>1. TypeOK
  BY DEF Basics
<1> QED BY DEF CallStep, Busy, Begin, Reserve, Save, Running

\* Nothing touches the neighbor elsewhere.
LEMMA NeighborUntouchedStep ==
  ASSUME Basics, Step, Now # "neighbor-effect-isolation", NeighborUntouched
  PROVE  NeighborUntouched'
<1>1. /\ TypeOK /\ target \in Target /\ target.held \in {"none", "op"} /\ "neighbor" \in Ops
      /\ target.applied["neighbor"] = 0 /\ ~target.pending["neighbor"]
  BY DEF Basics, TypeOK, Target, Ops, NeighborUntouched
<1>2. CASE Drive
  <2>1. PICK x : x = Plan[Played + 1]
    OBVIOUS
  <2> QED BY <1>1, <1>2, <2>1, DriveDoes DEF NeighborUntouched, Adds
<1>3. CASE Prepare \/ StartRun
  <2>1. target' = target
    BY <1>3, PrepareDoes, StartDoes
  <2> QED BY <2>1 DEF NeighborUntouched
<1>4. ASSUME NEW c \in Callers, CallStep(c) PROVE NeighborUntouched'
  <2>1. caller[c].op = "op"
    BY <1>4, CallsOfOp
  <2>2. CASE Execute(c)
    BY <1>1, <2>1, <2>2, ExecuteDoes DEF NeighborUntouched
  <2>3. CASE Observe(c)
    BY <1>1, <2>1, <2>3, ObserveDoes DEF NeighborUntouched
  <2>4. CASE ~Execute(c) /\ ~Observe(c)
    BY <1>4, <2>4, TargetStays DEF NeighborUntouched
  <2> QED BY <2>2, <2>3, <2>4
<1> QED BY <1>2, <1>3, <1>4 DEF Step

\* Who writes twice has no single effect, however its calls go.
LEMMA TwiceStep ==
  ASSUME Basics, Step, TwiceFits
  PROVE  TwiceFits'
<1>1. /\ TypeOK /\ target \in Target /\ target.applied \in [Ops -> Nat] /\ "op" \in Ops
      /\ Effects \in Nat
  BY DEF Basics, TypeOK, Target, Ops, Effects
<1>2. /\ UNCHANGED contract /\ Now' = Now /\ Driven /\ Inputs /\ Played \in Nat
  BY StepStays
<1>3. CASE Drive \/ Prepare \/ StartRun
  <2>1. PICK x : x = Plan[Played + 1]
    OBVIOUS
  <2>2. /\ Command(x.do) /\ UNCHANGED <<contract, options, n>>
        /\ x.do # "fault" => target'.mode = target.mode
        /\ x.do = "fault" => target'.mode = x.what
        /\ x.do \in {"run", "fault", "advance", "expect"} => target'.applied = target.applied
    BY <1>3, <2>1, DriveDoes, PrepareDoes, StartDoes
  <2>3. Played' = Played + 1 /\ Played + 1 \in 1..Len(Plan)
    BY <2>1, <2>2, CommandDoes
  <2>4. Now = "normal" => x.do \in {"run", "advance", "expect"}
    BY <1>2, <2>1, <2>3, NormalKinds
  <2>5. Now = "response-lost-after-commit" =>
          /\ x.do \in {"run", "fault", "advance", "expect"}
          /\ x.do = "fault" <=> Played = 0
          /\ x.do = "fault" => x.what = "loseResponse"
    BY <1>2, <2>1, <2>3, ResponseLostKinds
  <2> QED BY <1>1, <1>2, <2>2, <2>3, <2>4, <2>5 DEF TwiceFits, Effects
<1>4. ASSUME NEW c \in Callers, CallStep(c), Now \in {"normal", "response-lost-after-commit"}
      PROVE  TwiceFits'
  <2>1. /\ caller[c].op = "op" /\ Played' = Played /\ Played > 0
    BY <1>4, CallsOfOp, CallBasics
  <2>2. CASE Execute(c)
    <3>1. /\ target'.mode = "normal"
          /\ contract.writes = "twice" /\ target.mode = "normal" => Effects' = Effects + 2
          /\ contract.writes = "untilAnswered" =>
               Effects' = Effects + (IF target.mode = "loseResponse" THEN 2
                                     ELSE IF target.mode = "pending" THEN 0 ELSE 1)
      BY <1>1, <2>1, <2>2, ExecuteDoes DEF Effects
    <3> QED BY <1>1, <1>2, <2>1, <3>1 DEF TwiceFits
  <2>3. CASE Observe(c)
    <3>1. target'.mode = target.mode /\ Effects' = Effects
      BY <1>1, <2>1, <2>3, ObserveDoes DEF Effects
    <3> QED BY <1>2, <2>1, <3>1 DEF TwiceFits
  <2>4. CASE ~Execute(c) /\ ~Observe(c)
    BY <1>2, <1>4, <2>1, <2>4, TargetStays DEF TwiceFits, Effects
  <2> QED BY <2>2, <2>3, <2>4
<1>5. CASE Now \notin {"normal", "response-lost-after-commit"}
  BY <1>2, <1>5 DEF TwiceFits
<1> QED BY <1>3, <1>4, <1>5 DEF Step

\* What a caller's step does to the records: nothing, or it creates, extends or resolves one.
LEMMA CallRecords ==
  ASSUME Basics, NEW c \in Callers, CallStep(c), NEW o, o = caller[c].op
  PROVE  /\ o \in Ops /\ record[o] \in Record /\ \A p \in Ops : p # o => record'[p] = record[p]
         /\ \/ record'[o] = record[o]
            \/ Begin(c) /\ record[o] = NoRecord /\ record'[o] = New
            \/ /\ Reserve(c) /\ record'[o].attempts # << >>
               /\ Latest(record'[o]) = Reserved(clock, contract.window)
            \/ /\ Save(c) /\ record'[o].attempts # << >>
               /\ Latest(record'[o]).status = "RESOLVED"
               /\ Latest(record'[o]).ok = caller[c].ok
               /\ Latest(record'[o]).evidence = caller[c].evidence
         /\ (~Begin(c) /\ ~Reserve(c) /\ ~Save(c)) => record' = record
<1>0. /\ TypeOK /\ RecordsFit /\ o \in Ops /\ record \in [Ops -> Record] /\ record[o] \in Record
      /\ RecordFits(record[o]) /\ caller[c].ok \in BOOLEAN /\ caller[c].evidence \in EvidenceStates
      /\ caller[c].pc \in {"execute", "observe", "save"} => record[o].attempts # << >>
  BY StateFields
<1>1. CASE Begin(c)
  <2>1. record' = record \/ (record[o] = NoRecord /\ record' = [record EXCEPT ![o] = New])
    BY <1>0, <1>1, BeginDoes DEF Ends
  <2> QED BY <1>0, <1>1, <2>1
<1>2. CASE Reserve(c)
  <2>1. PICK r, s \in Record :
          /\ r = record[o] /\ s = record'[o]
          /\ s.attempts # << >> /\ Latest(s) = Reserved(clock, contract.window)
    BY <1>0, <1>2, ReserveDoes, ZenonT(60)
  <2>2. \A p \in Ops : p # o => record'[p] = record[p]
    BY <1>0, <1>2, ReserveDoes, ZenonT(60)
  <2> QED BY <1>0, <1>2, <2>1, <2>2
<1>3. CASE Save(c)
  <2>1. At(c, "save")
    BY <1>3 DEF Save
  <2>2. record[o].attempts # << >>
    BY <1>0, <2>1 DEF At
  <2>4. \/ record' = record
        \/ \E r, s \in Record :
             /\ r = record[o] /\ r.attempts # << >>
             /\ record' = [record EXCEPT ![o] = s]
             /\ s = ResolvedRecord(r, caller[c].ok, caller[c].evidence, Policy, contract.window, clock)
    <3>1. \/ record' = record /\ last' = last
          \/ \E r, s \in Record :
               /\ r = record[o] /\ r.attempts # << >>
               /\ record' = [record EXCEPT ![o] = s]
               /\ s = ResolvedRecord(r, caller[c].ok, caller[c].evidence, Policy, contract.window,
                                     clock)
               /\ \/ /\ RetriesNow(r, s) /\ lock' = lock /\ last' = last
                     /\ Moves(c, [pc |-> "reserve", op |-> o, ok |-> caller[c].ok,
                                  evidence |-> caller[c].evidence])
                  \/ /\ ~RetriesNow(r, s) /\ Locks(o, "none") /\ Moves(c, Quiet)
                     /\ last' = IF o = "op" THEN Answer(s) ELSE last
      BY <1>0, <1>3, <2>2, SaveDoes
    <3> QED BY <3>1
  <2>5. CASE record' = record
    BY <1>0, <2>5
  <2>6. CASE record' # record
    <3>1. PICK r, s \in Record :
            /\ r = record[o] /\ r.attempts # << >>
            /\ record' = [record EXCEPT ![o] = s]
            /\ s = ResolvedRecord(r, caller[c].ok, caller[c].evidence, Policy, contract.window, clock)
      BY <2>4, <2>6
    <3>2. PICK sent \in BOOLEAN : sent = caller[c].ok
      BY <1>0
    <3>3. /\ s.attempts # << >> /\ Latest(s).status = "RESOLVED" /\ Latest(s).ok = sent
          /\ Latest(s).evidence = caller[c].evidence
      BY <1>0, <3>1, <3>2, ResolvedFits
    <3>4. record'[o] = s /\ \A p \in Ops : p # o => record'[p] = record[p]
      BY <1>0, <3>1
    <3> QED BY <1>0, <1>3, <3>2, <3>3, <3>4
  <2> QED BY <2>5, <2>6
<1>4. CASE ~Begin(c) /\ ~Reserve(c) /\ ~Save(c)
  BY <1>0, <1>4 DEF CallStep, Busy, Execute, Observe
<1> QED BY <1>0, <1>1, <1>2, <1>3, <1>4

\* And to the callers and the latest answer.
LEMMA CallAnswers ==
  ASSUME Basics, NEW c \in Callers, CallStep(c), NEW o, o = caller[c].op
  PROVE  /\ \A d \in Callers : d # c => caller'[d] = caller[d]
         /\ \/ caller'[c].pc = "idle"
            \/ /\ At(c, "begin") /\ Begin(c) /\ caller'[c].pc \in {"reserve", "observe"}
               /\ caller'[c].op = o
               /\ caller'[c].pc = "observe" =>
                    /\ record[o].attempts # << >> /\ (caller'[c].ok <=> Latest(record[o]).ok)
            \/ At(c, "reserve") /\ Reserve(c) /\ caller'[c].pc = "execute" /\ caller'[c].op = o
            \/ At(c, "execute") /\ Execute(c) /\ caller'[c].pc = "observe" /\ caller'[c].op = o
            \/ /\ At(c, "observe") /\ Observe(c) /\ caller'[c].pc = "save" /\ caller'[c].op = o
               /\ (caller'[c].ok <=> caller[c].ok)
            \/ /\ At(c, "save") /\ Save(c) /\ caller'[c].pc = "reserve" /\ caller'[c].op = o
               /\ Resolved(record[o]) /\ Latest(record[o]).disposition = "RETRY"
         /\ last' = last \/ (o = "op" /\ caller'[c].pc = "idle" /\ last' = Answer(record'[o]))
<1>0. /\ TypeOK /\ RecordsFit /\ o \in Ops /\ record \in [Ops -> Record] /\ record[o] \in Record
      /\ RecordFits(record[o]) /\ clock \in Nat
      /\ caller[c].ok \in BOOLEAN /\ caller[c].evidence \in EvidenceStates
      /\ caller[c].pc \in {"execute", "observe", "save"} => record[o].attempts # << >>
      /\ Quiet.pc = "idle"
  BY StateFields, QuietFields
<1>1. CASE Begin(c)
  <2>1. /\ At(c, "begin")
        /\ \/ Ends(c)
           \/ /\ record[o] = NoRecord /\ last' = last
              /\ Moves(c, [pc |-> "reserve", op |-> o, ok |-> FALSE, evidence |-> caller[c].evidence])
           \/ /\ NextStep(record[o], clock) \in {"reserve", "observe"} /\ record[o].status = "OPEN"
              /\ last' = last
              /\ Moves(c, [pc |-> NextStep(record[o], clock), op |-> o,
                            ok |-> record[o].attempts # << >> /\ Latest(record[o]).ok,
                            evidence |-> caller[c].evidence])
    BY <1>0, <1>1, BeginDoes
  <2>2. CASE Ends(c)
    BY <1>0, <2>2 DEF Ends, Moves
  <2>3. CASE /\ record[o] = NoRecord /\ last' = last
             /\ Moves(c, [pc |-> "reserve", op |-> o, ok |-> FALSE, evidence |-> caller[c].evidence])
    BY <1>1, <2>1, <2>3 DEF Moves
  <2>4. CASE /\ NextStep(record[o], clock) \in {"reserve", "observe"} /\ record[o].status = "OPEN"
             /\ last' = last
             /\ Moves(c, [pc |-> NextStep(record[o], clock), op |-> o,
                            ok |-> record[o].attempts # << >> /\ Latest(record[o]).ok,
                            evidence |-> caller[c].evidence])
    <3>1. NextStep(record[o], clock) = "observe" => record[o].attempts # << >>
      BY <1>0, <2>4, NextStepFields
    <3>2. PICK s : s = [pc |-> NextStep(record[o], clock), op |-> o,
                        ok |-> record[o].attempts # << >> /\ Latest(record[o]).ok,
                        evidence |-> caller[c].evidence]
      OBVIOUS
    <3>3. /\ s.pc = NextStep(record[o], clock) /\ s.op = o
          /\ s.ok <=> record[o].attempts # << >> /\ Latest(record[o]).ok
          /\ Moves(c, s)
      BY <2>4, <3>2
    <3> QED BY <1>1, <2>1, <2>4, <3>1, <3>3 DEF Moves
  <2> QED BY <2>1, <2>2, <2>3, <2>4
<1>2. CASE Reserve(c)
  <2>2. /\ At(c, "reserve") /\ last' = last
        /\ \/ Moves(c, Quiet)
           \/ Moves(c, [pc |-> "execute", op |-> o, ok |-> caller[c].ok,
                        evidence |-> caller[c].evidence])
    BY <1>0, <1>2, ReserveDoes, SMTT(30)
  <2> QED BY <1>0, <1>2, <2>2 DEF Moves
<1>3. CASE Save(c)
  <2>1. At(c, "save")
    BY <1>3 DEF Save
  <2>2. record[o].attempts # << >>
    BY <1>0, <2>1 DEF At
  <2>4. \/ Moves(c, Quiet) /\ last' = last
        \/ \E r, s \in Record :
             /\ r = record[o] /\ r.attempts # << >>
             /\ record' = [record EXCEPT ![o] = s]
             /\ \/ /\ RetriesNow(r, s) /\ last' = last
                   /\ Moves(c, [pc |-> "reserve", op |-> o, ok |-> caller[c].ok,
                                evidence |-> caller[c].evidence])
                \/ Moves(c, Quiet) /\ last' = IF o = "op" THEN Answer(s) ELSE last
    BY <1>0, <1>3, <2>2, SaveDoes
  <2>5. CASE Moves(c, Quiet) /\ last' = last
    BY <1>0, <2>5 DEF Moves
  <2>6. ASSUME NEW s \in Record, record' = [record EXCEPT ![o] = s], Moves(c, Quiet),
               last' = IF o = "op" THEN Answer(s) ELSE last
        PROVE  /\ \A d \in Callers : d # c => caller'[d] = caller[d]
               /\ caller'[c].pc = "idle"
               /\ last' = last \/ (o = "op" /\ caller'[c].pc = "idle" /\ last' = Answer(record'[o]))
    BY <1>0, <2>6 DEF Moves
  <2>7. ASSUME NEW r \in Record, r = record[o], NEW s \in Record, RetriesNow(r, s), last' = last,
               Moves(c, [pc |-> "reserve", op |-> o, ok |-> caller[c].ok,
                         evidence |-> caller[c].evidence])
        PROVE  /\ \A d \in Callers : d # c => caller'[d] = caller[d]
               /\ caller'[c].pc = "reserve" /\ caller'[c].op = o
               /\ Resolved(record[o]) /\ Latest(record[o]).disposition = "RETRY"
    BY <2>2, <2>7 DEF Moves, RetriesNow, Resolved
  <2> QED BY <1>3, <2>1, <2>4, <2>5, <2>6, <2>7
<1>4. CASE Execute(c)
  <2>1. /\ At(c, "execute") /\ last' = last
        /\ \E sent \in BOOLEAN :
             Moves(c, [pc |-> "observe", op |-> o, ok |-> sent, evidence |-> caller[c].evidence])
    BY <1>0, <1>4, ExecuteDoes
  <2> QED BY <1>4, <2>1 DEF Moves
<1>5. CASE Observe(c)
  <2>1. /\ At(c, "observe") /\ last' = last
        /\ \E evidence \in EvidenceStates :
             Moves(c, [pc |-> "save", op |-> o, ok |-> caller[c].ok, evidence |-> evidence])
    BY <1>0, <1>5, ObserveDoes
  <2> QED BY <1>5, <2>1 DEF Moves
<1>6. CASE Busy(c)
  <2>1. Ends(c)
    BY <1>0, <1>6, BusyDoes
  <2> QED BY <1>0, <2>1 DEF Ends, Moves
<1> QED BY <1>1, <1>2, <1>3, <1>4, <1>5, <1>6 DEF CallStep

\* What the harness' own step does, by the command it plays.
LEMMA HarnessDoes ==
  ASSUME Basics, Drive \/ Prepare \/ StartRun, NEW x, x = Plan[Played + 1]
  PROVE  /\ UNCHANGED <<contract, options, n, record, lock, executes, last, results>>
         /\ Played \in Nat /\ Played' = Played + 1 /\ Played + 1 \in 1..Len(Plan) /\ Len(Plan) \in Nat
         /\ Now' = Now /\ Driven /\ (Driven' <=> Driven) /\ Plan' = Plan /\ Inputs
         /\ target \in Target /\ target' \in Target
         /\ \A c \in Callers : caller[c].pc = "idle"
         /\ \A o \in Ops : lock[o] = "none"
         /\ x.do # "run" => caller' = caller
         /\ x.do = "run" => \A c \in Callers :
                              IF c = "a" \/ x.by = 2
                              THEN caller'[c].pc = "begin" /\ caller'[c].op = x.what
                              ELSE caller'[c].pc = "idle"
         /\ x.do \in {"run", "advance", "expect", "crash"} => target' = target
         /\ x.do = "fault" =>
              /\ target'.mode = x.what /\ target'.applied = target.applied
              /\ target'.pending = target.pending /\ target'.held = target.held
              /\ target'.failRead = target.failRead
         /\ x.do = "failRead" =>
              /\ target'.mode = target.mode /\ target'.applied = target.applied
              /\ target'.pending = target.pending /\ target'.held = target.held
              /\ target'.failRead
         /\ x.do = "land" =>
              /\ target'.mode = target.mode /\ target'.pending = target.pending
              /\ target'.held = target.held /\ target'.failRead = target.failRead
              /\ target.held = "none" => target'.applied = target.applied
              /\ target.held # "none" => target.held \in Ops /\ Adds(target, target', target.held, 1)
         /\ x.do = "settle" =>
              /\ target'.mode = target.mode /\ target'.held = target.held
              /\ target'.failRead = target.failRead
              /\ \A o \in Ops :
                   /\ ~target'.pending[o]
                   /\ target'.applied[o] = target.applied[o] + (IF target.pending[o] THEN 1 ELSE 0)
         /\ x.do = "reject" =>
              /\ target'.mode = target.mode /\ target'.held = target.held
              /\ target'.failRead = target.failRead /\ target'.applied = target.applied
              /\ \A o \in Ops : ~target'.pending[o]
         /\ crashOn' = IF x.do = "crash" THEN x.what ELSE crashOn
         /\ clock' = clock + (IF x.do = "advance" THEN x.by ELSE 0)
         /\ clock' \in Nat /\ clock' >= clock /\ clock \in Nat
         /\ ok' <=> ok /\ (x.do = "expect" => Holds(x.what))
<1>0. Inputs /\ target \in Target /\ clock \in Nat /\ ok \in BOOLEAN
  BY DEF Basics, TypeOK
<1>1. CASE Drive
  <2>1. /\ Command(x.do) /\ target' \in Target
        /\ UNCHANGED <<contract, options, n, record, lock, caller, crashOn, clock, executes, last,
                       ok, results>>
        /\ x.do \in {"fault", "failRead", "land", "settle", "reject"}
    BY <1>1, DriveDoes
  <2>2. /\ Played \in Nat /\ Played' = Played + 1 /\ Played + 1 \in 1..Len(Plan) /\ Len(Plan) \in Nat
        /\ Now' = Now /\ Driven /\ Driven' /\ Plan' = Plan
        /\ \A c \in Callers : caller[c].pc = "idle"
    BY <2>1, CommandDoes
  <2>3. \A o \in Ops : lock[o] = "none"
    BY <2>2, IdleLocks
  <2>4. /\ x.do = "fault" =>
              /\ target'.mode = x.what /\ target'.applied = target.applied
              /\ target'.pending = target.pending /\ target'.held = target.held
              /\ target'.failRead = target.failRead
        /\ x.do = "failRead" =>
              /\ target'.mode = target.mode /\ target'.applied = target.applied
              /\ target'.pending = target.pending /\ target'.held = target.held
              /\ target'.failRead
        /\ x.do = "land" =>
              /\ target'.mode = target.mode /\ target'.pending = target.pending
              /\ target'.held = target.held /\ target'.failRead = target.failRead
              /\ target.held = "none" => target'.applied = target.applied
              /\ target.held # "none" => target.held \in Ops /\ Adds(target, target', target.held, 1)
        /\ x.do = "settle" =>
              /\ target'.mode = target.mode /\ target'.held = target.held
              /\ target'.failRead = target.failRead
              /\ \A o \in Ops :
                   /\ ~target'.pending[o]
                   /\ target'.applied[o] = target.applied[o] + (IF target.pending[o] THEN 1 ELSE 0)
        /\ x.do = "reject" =>
              /\ target'.mode = target.mode /\ target'.held = target.held
              /\ target'.failRead = target.failRead /\ target'.applied = target.applied
              /\ \A o \in Ops : ~target'.pending[o]
    BY <1>1, DriveDoes
  <2> QED BY <1>0, <2>1, <2>2, <2>3, <2>4
<1>2. CASE Prepare
  <2>1. /\ Command(x.do)
        /\ UNCHANGED <<contract, options, n, target, record, lock, caller, executes, last, results>>
        /\ \/ x.do = "crash" /\ crashOn' = x.what /\ UNCHANGED <<clock, ok>>
           \/ x.do = "advance" /\ x.by \in Nat /\ clock' = clock + x.by /\ UNCHANGED <<crashOn, ok>>
           \/ x.do = "expect" /\ (ok' <=> ok /\ Holds(x.what)) /\ UNCHANGED <<crashOn, clock>>
        /\ clock' \in Nat /\ clock' >= clock
    BY <1>2, PrepareDoes
  <2>2. /\ Played \in Nat /\ Played' = Played + 1 /\ Played + 1 \in 1..Len(Plan) /\ Len(Plan) \in Nat
        /\ Now' = Now /\ Driven /\ Driven' /\ Plan' = Plan
        /\ \A c \in Callers : caller[c].pc = "idle"
    BY <2>1, CommandDoes
  <2>3. \A o \in Ops : lock[o] = "none"
    BY <2>2, IdleLocks
  <2> QED BY <1>0, <2>1, <2>2, <2>3
<1>3. CASE StartRun
  <2>1. /\ Command(x.do) /\ x.do = "run"
        /\ UNCHANGED <<contract, options, n, target, record, lock, crashOn, clock, executes, last,
                       ok, results>>
        /\ \A c \in Callers :
              IF c = "a" \/ x.by = 2
              THEN caller'[c].pc = "begin" /\ caller'[c].op = x.what
              ELSE caller'[c].pc = "idle"
    BY <1>3, StartDoes
  <2>2. /\ Played \in Nat /\ Played' = Played + 1 /\ Played + 1 \in 1..Len(Plan) /\ Len(Plan) \in Nat
        /\ Now' = Now /\ Driven /\ Driven' /\ Plan' = Plan
        /\ \A c \in Callers : caller[c].pc = "idle"
    BY <2>1, CommandDoes
  <2>3. \A o \in Ops : lock[o] = "none"
    BY <2>2, IdleLocks
  <2> QED BY <1>0, <2>1, <2>2, <2>3
<1> QED BY <1>1, <1>2, <1>3

\* Who trusts the transport reports no effect whose answer was lost.
LEMMA TransportStep ==
  ASSUME Basics, Step, TransportFits
  PROVE  TransportFits'
<1>1. /\ UNCHANGED contract /\ Now' = Now /\ Driven /\ Inputs /\ Played \in Nat /\ TypeOK'
      /\ Basics'
  BY StepStays DEF Basics
<1>2. SUFFICES ASSUME Now = "response-lost-after-commit", contract.writes = "once",
                      contract.trusts = "transport", executes' <= 1
               PROVE  /\ executes' = 0 /\ Played' > 0 => target'.mode = "loseResponse"
                      /\ last'.evidence # "APPLIED"
                      /\ \A o \in Ops : record'[o].attempts # << >> =>
                           ~Latest(record'[o]).ok /\ Latest(record'[o]).evidence # "APPLIED"
                      /\ \A c \in Callers :
                           /\ caller'[c].pc \in {"observe", "save"} => ~caller'[c].ok
                           /\ caller'[c].pc = "save" => caller'[c].evidence # "APPLIED"
  BY <1>1 DEF TransportFits, At
<1>3. executes \in Nat /\ executes' \in Nat /\ contract.window \in Times /\ clock \in Nat
  BY <1>1, ContractFields DEF Basics, TypeOK
<1>f. executes <= 1 =>
        /\ executes = 0 /\ Played > 0 => target.mode = "loseResponse"
        /\ last.evidence # "APPLIED"
        /\ \A o \in Ops : record[o].attempts # << >> =>
             ~Latest(record[o]).ok /\ Latest(record[o]).evidence # "APPLIED"
        /\ \A c \in Callers :
             /\ caller[c].pc \in {"observe", "save"} => ~caller[c].ok
             /\ caller[c].pc = "save" => caller[c].evidence # "APPLIED"
  BY <1>2 DEF TransportFits, At
<1>4. CASE Drive \/ Prepare \/ StartRun
  <2>1. PICK x : x = Plan[Played + 1]
    OBVIOUS
  <2>2. /\ Played' = Played + 1 /\ Played + 1 \in 1..Len(Plan)
        /\ executes' = executes /\ record' = record /\ last' = last
        /\ x.do # "run" => caller' = caller
        /\ x.do = "run" => \A c \in Callers : caller'[c].pc \in {"begin", "idle"}
        /\ x.do \in {"run", "advance", "expect", "crash"} => target' = target
        /\ x.do = "fault" => target'.mode = x.what
    BY <1>4, <2>1, HarnessDoes
  <2>3. /\ x.do \in {"run", "fault", "advance", "expect"} /\ (x.do = "fault" <=> Played = 0)
        /\ x.do = "fault" => x.what = "loseResponse"
    BY <1>1, <1>2, <2>1, <2>2, ResponseLostKinds
  <2>4. executes' = 0 /\ Played' > 0 => target'.mode = "loseResponse"
    BY <1>1, <1>3, <1>f, <2>2, <2>3
  <2> QED BY <1>2, <1>3, <1>f, <2>2, <2>3, <2>4
<1>5. ASSUME NEW c \in Callers, CallStep(c)
      PROVE  /\ executes' = 0 /\ Played' > 0 => target'.mode = "loseResponse"
             /\ last'.evidence # "APPLIED"
             /\ \A o \in Ops : record'[o].attempts # << >> =>
                  ~Latest(record'[o]).ok /\ Latest(record'[o]).evidence # "APPLIED"
             /\ \A d \in Callers :
                  /\ caller'[d].pc \in {"observe", "save"} => ~caller'[d].ok
                  /\ caller'[d].pc = "save" => caller'[d].evidence # "APPLIED"
  <2>0. PICK o : o = caller[c].op
    OBVIOUS
  <2>1. /\ o = "op" /\ o \in Ops /\ Played' = Played /\ Played > 0 /\ TypeOK /\ target \in Target
        /\ record' \in [Ops -> Record]
    BY <1>1, <1>2, <1>5, <2>0, CallsOfOp, CallBasics DEF Ops, Basics, TypeOK
  <2>2. executes' = executes \/ (Execute(c) /\ executes' = executes + 1)
    BY <1>5, <2>0, <2>1, TargetStays, ExecuteDoes, ObserveDoes
  <2>3. executes <= 1
    BY <1>2, <1>3, <2>2
  <2>4. executes' = 0 /\ Played' > 0 => target'.mode = "loseResponse"
    <3>1. CASE Execute(c)
      BY <1>3, <2>0, <2>1, <3>1, ExecuteDoes
    <3>2. CASE Observe(c)
      BY <1>f, <2>0, <2>1, <2>3, <3>2, ObserveDoes
    <3>3. CASE ~Execute(c) /\ ~Observe(c)
      BY <1>5, <1>f, <2>1, <2>3, <3>3, TargetStays
    <3> QED BY <3>1, <3>2, <3>3
  <2>5. record'[o].attempts # << >> =>
           ~Latest(record'[o]).ok /\ Latest(record'[o]).evidence # "APPLIED"
    <3>1. PICK a : a = Reserved(clock, contract.window)
      OBVIOUS
    <3>2. ~a.ok /\ a.evidence = "UNKNOWN"
      BY <1>3, <3>1, ReservedFields
    <3>3. Save(c) => caller[c].pc = "save"
      BY DEF Save, At
    <3>4. New.attempts = << >>
      BY NewFits
    <3>5. \/ record'[o] = record[o]
          \/ record'[o] = New
          \/ Latest(record'[o]) = Reserved(clock, contract.window)
          \/ /\ Save(c) /\ Latest(record'[o]).ok = caller[c].ok
             /\ Latest(record'[o]).evidence = caller[c].evidence
      BY <1>5, <2>0, CallRecords
    <3> QED BY <1>f, <2>1, <2>3, <3>1, <3>2, <3>3, <3>4, <3>5
  <2>6. \A p \in Ops : p # o => record'[p] = record[p]
    BY <1>5, <2>0, CallRecords
  <2>7. last'.evidence # "APPLIED"
    <3>1. last' = last \/ last' = Answer(record'[o])
      BY <1>5, <2>0, CallAnswers
    <3>2. record'[o] \in Record
      BY <2>1
    <3>3. Answer(record'[o]).evidence # "APPLIED"
      BY <2>5, <3>2, AnswerFields
    <3> QED BY <1>f, <2>3, <3>1, <3>3
  <2>8. /\ caller'[c].pc \in {"observe", "save"} => ~caller'[c].ok
        /\ caller'[c].pc = "save" => caller'[c].evidence # "APPLIED"
    <3>1. CASE Execute(c)
      <4>1. executes = 0 /\ target.mode = "loseResponse"
        BY <1>2, <1>3, <1>f, <2>1, <2>2, <2>3, <3>1, ExecuteDoes
      <4>2. PICK sent \in BOOLEAN :
              /\ Moves(c, [pc |-> "observe", op |-> o, ok |-> sent, evidence |-> caller[c].evidence])
              /\ contract.writes = "once" => (sent <=> target.mode \in {"normal", "pending"})
        BY <2>0, <2>1, <3>1, ExecuteDoes
      <4> QED BY <1>2, <4>1, <4>2 DEF Moves
    <3>2. CASE Observe(c)
      <4>1. PICK evidence \in EvidenceStates :
              /\ Moves(c, [pc |-> "save", op |-> o, ok |-> caller[c].ok, evidence |-> evidence])
              /\ contract.trusts = "transport" =>
                   evidence = IF caller[c].ok THEN "APPLIED" ELSE "NOT_APPLIED"
        BY <2>0, <2>1, <3>2, ObserveDoes
      <4>2. caller[c].pc = "observe"
        BY <3>2 DEF Observe, At
      <4> QED BY <1>2, <1>f, <2>3, <4>1, <4>2 DEF Moves
    <3>3. CASE ~Execute(c) /\ ~Observe(c)
      <4>1. \/ caller'[c].pc \in {"idle", "reserve", "execute"}
            \/ /\ caller'[c].pc = "observe" /\ record[o].attempts # << >>
               /\ (caller'[c].ok <=> Latest(record[o]).ok)
        BY <1>5, <2>0, <3>3, CallAnswers
      <4> QED BY <1>f, <2>1, <2>3, <4>1
    <3> QED BY <3>1, <3>2, <3>3
  <2>9. \A d \in Callers : d # c => caller'[d] = caller[d]
    BY <1>5, <2>0, CallAnswers
  <2> QED BY <1>f, <2>1, <2>3, <2>4, <2>5, <2>6, <2>7, <2>8, <2>9
<1> QED BY <1>4, <1>5 DEF Step

\* What is read of a record and of an answer.
LEMMA RecordReads ==
  /\ \A r \in Record : Answer(r).evidence # "none" =>
       Resolved(r) /\ Answer(r).evidence = Latest(r).evidence
  /\ ~Resolved(New) /\ ~Resolved(NoRecord) /\ New.attempts = << >> /\ NoRecord.attempts = << >>
  /\ \A t, w : Reserved(t, w).status = "RESERVED" /\ ~Reserved(t, w).ok
               /\ Reserved(t, w).evidence = "UNKNOWN"
<1>1. \A r \in Record : r.attempts # << >> => Latest(r).status \in {"RESERVED", "RESOLVED"}
  BY LatestFields
<1>2. \A r \in Record : Answer(r).evidence # "none" =>
        Resolved(r) /\ Answer(r).evidence = Latest(r).evidence
  BY <1>1, AnswerFields DEF Resolved
<1>3. \A t, w : Reserved(t, w).status = "RESERVED" /\ ~Reserved(t, w).ok
               /\ Reserved(t, w).evidence = "UNKNOWN"
  BY DEF Reserved
<1> QED BY <1>2, <1>3, NewFits DEF Resolved

\* What a step of the only caller there is does to the operation's record and the caller.
LEMMA OpStep ==
  ASSUME Basics, NEW c \in Callers, CallStep(c), NEW o, o = caller[c].op
  PROVE  /\ Basics' /\ o \in Ops /\ Played' = Played /\ Played \in 1..Len(Plan) /\ Played > 0
         /\ Played \in Nat
         /\ Plan[Played].do = "run" /\ o = Plan[Played].what /\ (c = "a" \/ Plan[Played].by = 2)
         /\ UNCHANGED <<contract, options, n, ok, clock>>
         /\ record[o] \in Record /\ record'[o] \in Record /\ RecordFits(record[o])
         /\ \A p \in Ops : p # o => record'[p] = record[p]
         /\ \A d \in Callers : d # c => caller'[d] = caller[d]
         /\ \/ /\ At(c, "begin") /\ caller'[c].pc \in {"idle", "reserve", "observe"}
               /\ record'[o] = record[o] \/ (record[o] = NoRecord /\ record'[o] = New)
               /\ caller'[c].pc = "reserve" => record'[o] = New \/ record'[o] = record[o]
               /\ caller'[c].pc = "observe" =>
                    /\ record'[o] = record[o] /\ record[o].attempts # << >>
                    /\ (caller'[c].ok <=> Latest(record[o]).ok)
               /\ ~Execute(c) /\ ~Observe(c)
            \/ /\ At(c, "reserve") /\ caller'[c].pc \in {"idle", "execute"}
               /\ record'[o].attempts # << >>
               /\ Latest(record'[o]) = Reserved(clock, contract.window) /\ ~Resolved(record'[o])
               /\ ~Execute(c) /\ ~Observe(c)
            \/ /\ At(c, "execute") /\ Execute(c) /\ caller'[c].pc = "observe" /\ record' = record
               /\ last' = last
            \/ /\ At(c, "observe") /\ Observe(c) /\ caller'[c].pc = "save" /\ record' = record
               /\ last' = last
            \/ /\ At(c, "save") /\ caller'[c].pc \in {"idle", "reserve"}
               /\ caller'[c].pc = "reserve" => Resolved(record[o])
               /\ \/ record'[o] = record[o]
                  \/ /\ Resolved(record'[o]) /\ (Latest(record'[o]).ok <=> caller[c].ok)
                     /\ Latest(record'[o]).evidence = caller[c].evidence
               /\ ~Execute(c) /\ ~Observe(c)
         /\ caller'[c].pc # "idle" => caller'[c].op = o
         /\ last' = last \/ (o = "op" /\ caller'[c].pc = "idle" /\ last' = Answer(record'[o]))
<1>1. /\ Basics' /\ Played' = Played /\ Played \in 1..Len(Plan) /\ Played > 0 /\ Played \in Nat
      /\ Plan[Played].do = "run" /\ o = Plan[Played].what /\ (c = "a" \/ Plan[Played].by = 2)
      /\ UNCHANGED <<contract, options, n, ok, clock>>
  BY CallBasics DEF Running
<1>2. /\ o \in Ops /\ record[o] \in Record /\ record'[o] \in Record /\ RecordFits(record[o])
      /\ Execute(c) => record' = record /\ last' = last /\ At(c, "execute")
      /\ Observe(c) => record' = record /\ last' = last /\ At(c, "observe")
  BY <1>1, CallerFields DEF Basics, TypeOK, Ops, RecordsFit, Execute, Observe
<1>3. /\ \A p \in Ops : p # o => record'[p] = record[p]
      /\ \A d \in Callers : d # c => caller'[d] = caller[d]
      /\ last' = last \/ (o = "op" /\ caller'[c].pc = "idle" /\ last' = Answer(record'[o]))
  BY CallRecords, CallAnswers
<1>4. /\ Busy(c) \/ Begin(c) => At(c, "begin")
      /\ Reserve(c) => At(c, "reserve")
      /\ Execute(c) => At(c, "execute")
      /\ Observe(c) => At(c, "observe")
      /\ Save(c) => At(c, "save")
  BY DEF Busy, Begin, Reserve, Execute, Observe, Save
<1>5. /\ \/ record'[o] = record[o]
         \/ Begin(c) /\ record[o] = NoRecord /\ record'[o] = New
         \/ /\ Reserve(c) /\ record'[o].attempts # << >>
            /\ Latest(record'[o]) = Reserved(clock, contract.window)
         \/ /\ Save(c) /\ record'[o].attempts # << >>
            /\ Latest(record'[o]).status = "RESOLVED"
            /\ Latest(record'[o]).ok = caller[c].ok
            /\ Latest(record'[o]).evidence = caller[c].evidence
  BY CallRecords
<1>6. \/ caller'[c].pc = "idle"
      \/ /\ At(c, "begin") /\ Begin(c) /\ caller'[c].pc \in {"reserve", "observe"}
         /\ caller'[c].op = o
         /\ caller'[c].pc = "observe" =>
              /\ record[o].attempts # << >> /\ (caller'[c].ok <=> Latest(record[o]).ok)
      \/ At(c, "reserve") /\ Reserve(c) /\ caller'[c].pc = "execute" /\ caller'[c].op = o
      \/ At(c, "execute") /\ Execute(c) /\ caller'[c].pc = "observe" /\ caller'[c].op = o
      \/ /\ At(c, "observe") /\ Observe(c) /\ caller'[c].pc = "save" /\ caller'[c].op = o
         /\ (caller'[c].ok <=> caller[c].ok)
      \/ /\ At(c, "save") /\ Save(c) /\ caller'[c].pc = "reserve" /\ caller'[c].op = o
         /\ Resolved(record[o]) /\ Latest(record[o]).disposition = "RETRY"
  BY CallAnswers
<1>7. Reserve(c) => /\ record'[o].attempts # << >>
                    /\ Latest(record'[o]) = Reserved(clock, contract.window)
  <2>1. SUFFICES ASSUME Reserve(c)
                 PROVE  /\ record'[o].attempts # << >>
                        /\ Latest(record'[o]) = Reserved(clock, contract.window)
    OBVIOUS
  <2>2. TypeOK
    BY DEF Basics
  <2>3. PICK r, s \in Record :
          /\ r = record[o] /\ s = record'[o]
          /\ s.attempts # << >> /\ Latest(s) = Reserved(clock, contract.window)
    BY <2>1, <2>2, ReserveDoes, ZenonT(60)
  <2> QED BY <2>3
<1>8. record[o] = NoRecord => record[o].attempts = << >>
  BY NewFits
<1>9. /\ Execute(c) => caller'[c].pc = "observe"
      /\ Observe(c) => caller'[c].pc = "save"
  <2>1. TypeOK
    BY DEF Basics
  <2>2. ASSUME Execute(c) PROVE caller'[c].pc = "observe"
    <3>1. PICK sent \in BOOLEAN :
            Moves(c, [pc |-> "observe", op |-> o, ok |-> sent, evidence |-> caller[c].evidence])
      BY <2>1, <2>2, ExecuteDoes
    <3> QED BY <3>1 DEF Moves
  <2>3. ASSUME Observe(c) PROVE caller'[c].pc = "save"
    <3>1. PICK evidence \in EvidenceStates :
            Moves(c, [pc |-> "save", op |-> o, ok |-> caller[c].ok, evidence |-> evidence])
      BY <2>1, <2>3, ObserveDoes
    <3> QED BY <3>1 DEF Moves
  <2> QED BY <2>2, <2>3
<1>c. /\ At(c, "begin") => caller[c].pc = "begin"
      /\ At(c, "reserve") => caller[c].pc = "reserve"
      /\ At(c, "execute") => caller[c].pc = "execute"
      /\ At(c, "observe") => caller[c].pc = "observe"
      /\ At(c, "save") => caller[c].pc = "save"
  BY DEF At
<1>r. Latest(record'[o]) = Reserved(clock, contract.window) => ~Resolved(record'[o])
  BY RecordReads DEF Resolved
<1>s. record'[o].attempts # << >> /\ Latest(record'[o]).status = "RESOLVED" => Resolved(record'[o])
  BY DEF Resolved
<1>10. CASE Busy(c) \/ Begin(c)
  <2>1. ~Reserve(c) /\ ~Execute(c) /\ ~Observe(c) /\ ~Save(c) /\ At(c, "begin")
    BY <1>4, <1>10, <1>c
  <2> QED BY <1>1, <1>2, <1>3, <1>5, <1>6, <1>8, <1>c, <2>1
<1>11. CASE Reserve(c)
  <2>1. ~Begin(c) /\ ~Busy(c) /\ ~Execute(c) /\ ~Observe(c) /\ ~Save(c) /\ At(c, "reserve")
    BY <1>4, <1>11, <1>c
  <2> QED BY <1>1, <1>2, <1>3, <1>6, <1>7, <1>11, <1>c, <1>r, <2>1
<1>12. CASE Execute(c)
  BY <1>1, <1>2, <1>3, <1>4, <1>6, <1>9, <1>12, <1>c
<1>13. CASE Observe(c)
  BY <1>1, <1>2, <1>3, <1>4, <1>6, <1>9, <1>13, <1>c
<1>14. CASE Save(c)
  <2>1. ~Begin(c) /\ ~Reserve(c) /\ ~Execute(c) /\ ~Observe(c) /\ At(c, "save")
    BY <1>4, <1>14, <1>c
  <2> QED BY <1>1, <1>2, <1>3, <1>5, <1>6, <1>c, <1>s, <2>1
<1> QED BY <1>10, <1>11, <1>12, <1>13, <1>14 DEF CallStep

\* Who answers a failed read with anything but UNKNOWN has failed its scenario.
LEMMA FailedReadStep ==
  ASSUME Basics, Step, FailedReadFits
  PROVE  FailedReadFits'
<1>1. /\ UNCHANGED contract /\ Now' = Now /\ Driven /\ Inputs /\ Played \in Nat
      /\ Plain' = Plain /\ Basics'
  BY StepStays, SamePlan
<1>2. SUFFICES ASSUME Now = "read-fails-after-lost-response", Plain, contract.onFailedRead # "UNKNOWN"
               PROVE  /\ Played' > 3 => ~ok'
                      /\ Played' < 3 => record'["op"] = NoRecord
                      /\ Played' <= 3 =>
                         /\ last'.evidence # "UNKNOWN"
                         /\ Resolved(record'["op"]) => Latest(record'["op"]).evidence # "UNKNOWN"
                         /\ Played' = 2 \/ caller'["a"].pc \in {"begin", "reserve", "execute", "observe"}
                              => target'.failRead
                         /\ caller'["a"].pc = "begin" => record'["op"] = NoRecord
                         /\ caller'["a"].pc \in Working => ~Resolved(record'["op"])
                         /\ caller'["a"].pc = "save" => caller'["a"].evidence # "UNKNOWN"
  BY <1>1 DEF FailedReadFits, At, Resolved
<1>3. /\ Played > 3 => ~ok
      /\ Played < 3 => record["op"] = NoRecord
      /\ Played <= 3 =>
         /\ last.evidence # "UNKNOWN"
         /\ Resolved(record["op"]) => Latest(record["op"]).evidence # "UNKNOWN"
         /\ Played = 2 \/ caller["a"].pc \in {"begin", "reserve", "execute", "observe"}
              => target.failRead
         /\ caller["a"].pc = "begin" => record["op"] = NoRecord
         /\ caller["a"].pc \in Working => ~Resolved(record["op"])
         /\ caller["a"].pc = "save" => caller["a"].evidence # "UNKNOWN"
  BY <1>2 DEF FailedReadFits, At
<1>w. "begin" \notin Working /\ "idle" \notin Working /\ "a" \in Callers /\ "op" \in Ops
  BY DEF Working, Callers, Ops
<1>4. CASE Drive \/ Prepare \/ StartRun
  <2>1. PICK x : x = Plan[Played + 1]
    OBVIOUS
  <2>2. /\ Played' = Played + 1 /\ Played + 1 \in 1..Len(Plan)
        /\ record' = record /\ last' = last /\ caller["a"].pc = "idle"
        /\ x.do # "run" => caller' = caller
        /\ x.do = "run" => caller'["a"].pc \in {"begin", "idle"}
        /\ x.do \in {"run", "advance", "expect", "crash"} => target' = target
        /\ x.do = "fault" => target'.failRead = target.failRead
        /\ x.do = "failRead" => target'.failRead
        /\ ok' <=> ok /\ (x.do = "expect" => Holds(x.what))
    BY <1>4, <1>w, <2>1, HarnessDoes
  <2>3. /\ x.do = "run" <=> Played + 1 \in {3, 6, 8, 10}
        /\ x.do = "failRead" <=> Played + 1 = 2
        /\ x.do = "fault" <=> Played + 1 = 1
        /\ x.do \in {"run", "expect", "advance", "fault", "failRead"}
        /\ Played + 1 = 4 => x.do = "expect" /\ x.what = "UNKNOWN"
    BY <1>1, <1>2, <2>1, <2>2, ReadFailsKinds
  <2>4. Holds("UNKNOWN") => last.evidence = "UNKNOWN"
    BY DEF Holds, EvidenceStates
  <2> QED BY <1>1, <1>3, <1>w, <2>2, <2>3, <2>4
<1>5. ASSUME NEW c \in Callers, CallStep(c)
      PROVE  /\ Played' > 3 => ~ok'
             /\ Played' < 3 => record'["op"] = NoRecord
             /\ Played' <= 3 =>
                /\ last'.evidence # "UNKNOWN"
                /\ Resolved(record'["op"]) => Latest(record'["op"]).evidence # "UNKNOWN"
                /\ Played' = 2 \/ caller'["a"].pc \in {"begin", "reserve", "execute", "observe"}
                     => target'.failRead
                /\ caller'["a"].pc = "begin" => record'["op"] = NoRecord
                /\ caller'["a"].pc \in Working => ~Resolved(record'["op"])
                /\ caller'["a"].pc = "save" => caller'["a"].evidence # "UNKNOWN"
  <2>0. PICK o : o = caller[c].op
    OBVIOUS
  <2>1. /\ Played' = Played /\ Played \in 1..Len(Plan) /\ Plan[Played].do = "run" /\ ok' = ok
        /\ c = "a" \/ Plan[Played].by = 2
    BY <1>5, <2>0, OpStep
  <2>2. c = "a" /\ Played \in {3, 6, 8, 10} /\ o = "op"
    BY <1>1, <1>2, <1>5, <2>0, <2>1, ReadFailsKinds, CallsOfOp
  <2>3. CASE Played > 3
    BY <1>1, <1>3, <2>1, <2>3
  <2>4. CASE Played = 3
    <3>s. /\ record[o] \in Record /\ record'[o] \in Record
          /\ \/ /\ At(c, "begin") /\ caller'[c].pc \in {"idle", "reserve", "observe"}
                /\ record'[o] = record[o] \/ (record[o] = NoRecord /\ record'[o] = New)
                /\ caller'[c].pc = "reserve" => record'[o] = New \/ record'[o] = record[o]
                /\ caller'[c].pc = "observe" => record'[o] = record[o] /\ record[o].attempts # << >>
                /\ ~Execute(c) /\ ~Observe(c)
             \/ /\ At(c, "reserve") /\ caller'[c].pc \in {"idle", "execute"}
                /\ ~Resolved(record'[o])
                /\ ~Execute(c) /\ ~Observe(c)
             \/ /\ At(c, "execute") /\ Execute(c) /\ caller'[c].pc = "observe" /\ record' = record
                /\ last' = last
             \/ /\ At(c, "observe") /\ Observe(c) /\ caller'[c].pc = "save" /\ record' = record
                /\ last' = last
             \/ /\ At(c, "save") /\ caller'[c].pc \in {"idle", "reserve"}
                /\ caller'[c].pc = "reserve" => Resolved(record[o])
                /\ \/ record'[o] = record[o]
                   \/ /\ Resolved(record'[o]) 
                      /\ Latest(record'[o]).evidence = caller[c].evidence
                /\ ~Execute(c) /\ ~Observe(c)
          /\ last' = last \/ (o = "op" /\ caller'[c].pc = "idle" /\ last' = Answer(record'[o]))
      BY <1>5, <2>0, OpStep
    <3>t. TypeOK /\ (~Execute(c) /\ ~Observe(c) => target' = target)
      BY <1>5, TargetStays DEF Basics
    <3>w. \A pc : pc \in Working <=> pc \in {"reserve", "execute", "observe", "save"}
      BY DEF Working
    <3>1. Resolved(record'["op"]) => Latest(record'["op"]).evidence # "UNKNOWN"
      BY <1>3, <2>2, <2>4, <3>s, RecordReads DEF At
    <3>2. last'.evidence # "UNKNOWN"
      BY <1>3, <2>2, <2>4, <3>s, <3>1, RecordReads
    <3>3. caller'["a"].pc # "idle" => caller'["a"].pc \in Working /\ caller'["a"].pc # "begin"
      BY <2>2, <3>s, <3>w
    <3>4. caller'["a"].pc \in Working => ~Resolved(record'["op"])
      BY <1>3, <2>2, <2>4, <3>s, <3>w, RecordReads DEF At
    <3>5. caller'["a"].pc = "save" => caller'["a"].evidence # "UNKNOWN"
      <4>1. SUFFICES ASSUME caller'["a"].pc = "save" PROVE caller'["a"].evidence # "UNKNOWN"
        OBVIOUS
      <4>2. Observe(c) /\ caller[c].pc = "observe"
        BY <2>2, <3>s, <4>1 DEF At
      <4>3. PICK evidence \in EvidenceStates :
              /\ Moves(c, [pc |-> "save", op |-> o, ok |-> caller[c].ok, evidence |-> evidence])
              /\ contract.trusts = "observation" =>
                   (target.failRead => evidence = contract.onFailedRead)
        BY <2>0, <3>t, <4>2, ObserveDoes
      <4> QED BY <1>2, <1>3, <2>2, <2>4, <4>2, <4>3 DEF Moves, Plain
    <3>6. caller'["a"].pc \in {"reserve", "execute", "observe"} => target'.failRead
      <4>1. CASE Execute(c)
        BY <1>3, <2>0, <2>2, <2>4, <3>t, <4>1, ExecuteDoes DEF At
      <4>2. CASE ~Execute(c) /\ ~Observe(c)
        <5>1. caller'["a"].pc = "reserve" => caller[c].pc = "begin" \/ Resolved(record[o])
          BY <2>2, <3>s, <4>2 DEF At
        <5>2. caller'["a"].pc = "execute" => caller[c].pc = "reserve"
          BY <2>2, <3>s, <4>2 DEF At
        <5>3. caller'["a"].pc = "observe" => caller[c].pc = "begin"
          BY <2>2, <3>s, <4>2 DEF At
        <5>4. caller'["a"].pc = "reserve" => caller[c].pc \in {"begin", "save"}
          BY <2>2, <3>s, <4>2 DEF At
        <5> QED BY <1>3, <2>2, <2>4, <3>t, <3>w, <4>2, <5>1, <5>2, <5>3, <5>4
      <4>3. CASE Observe(c)
        BY <2>2, <3>s, <4>3 DEF At, Observe
      <4> QED BY <4>1, <4>2, <4>3
    <3> QED BY <2>1, <2>4, <3>1, <3>2, <3>3, <3>4, <3>5, <3>6
  <2> QED BY <2>1, <2>2, <2>3, <2>4
<1> QED BY <1>4, <1>5 DEF Step

-----------------------------------------------------------------------------
(* A call, stage by stage *)

\* What every stage leaves alone.
LEMMA StageFrame ==
  ASSUME Basics, NEW c \in Callers, CallStep(c), NEW o, o = caller[c].op
  PROVE  /\ o \in Ops /\ target \in Target /\ target' \in Target
         /\ record[o] \in Record /\ record'[o] \in Record /\ RecordFits(record[o])
         /\ RecordFits(record'[o])
         /\ lock \in [Ops -> Callers \cup {"none"}] /\ lock' \in [Ops -> Callers \cup {"none"}]
         /\ clock \in Nat /\ executes \in Nat /\ contract.window \in Times
         /\ caller[c].pc \in Working => record[o].status = "OPEN" /\ lock[o] = c
         /\ caller[c].pc \in {"execute", "observe", "save"} => record[o].attempts # << >>
         /\ \A d \in Callers : d # c => caller'[d] = caller[d]
         /\ \A p \in Ops : p # o => record'[p] = record[p] /\ lock'[p] = lock[p]
         /\ UNCHANGED Running
         /\ \A d \in Callers : lock'[o] = d <=> caller'[d].op = o /\ caller'[d].pc \in Working
         /\ \A d \in Callers : lock[o] = d <=> caller[d].op = o /\ caller[d].pc \in Working
<1>1. UNCHANGED Running /\ Basics'
  BY CallBasics
<1>2. /\ TypeOK /\ RecordsFit /\ CallersFit /\ TypeOK' /\ RecordsFit' /\ CallersFit'
  BY <1>1 DEF Basics
<1>3. /\ o \in Ops /\ target \in Target /\ target' \in Target
      /\ record[o] \in Record /\ record'[o] \in Record /\ RecordFits(record[o])
      /\ lock \in [Ops -> Callers \cup {"none"}] /\ lock' \in [Ops -> Callers \cup {"none"}]
      /\ clock \in Nat /\ executes \in Nat /\ contract.window \in Times
      /\ caller[c].pc \in Working => record[o].status = "OPEN"
      /\ caller[c].pc \in {"execute", "observe", "save"} => record[o].attempts # << >>
  BY <1>2, CallerFields, ContractFields DEF TypeOK, RecordsFit, CallersFit, Of
<1>4. RecordFits(record'[o])
  <2>1. (RecordsFit => \A p \in Ops : RecordFits(record[p]))'
    BY DEF RecordsFit, RecordFits
  <2> QED BY <1>2, <1>3, <2>1 DEF RecordFits
<1>5. /\ \A d \in Callers : lock'[o] = d <=> caller'[d].op = o /\ caller'[d].pc \in Working
      /\ \A d \in Callers : lock[o] = d <=> caller[d].op = o /\ caller[d].pc \in Working
  BY <1>2, <1>3 DEF CallersFit, Working
<1>6. \A p \in Ops : p # o => lock'[p] = lock[p]
  BY <1>3 DEF CallStep, Busy, Begin, Reserve, Execute, Observe, Save, Dies, Unlock
<1>7. /\ \A d \in Callers : d # c => caller'[d] = caller[d]
      /\ \A p \in Ops : p # o => record'[p] = record[p]
  BY CallAnswers, CallRecords
<1> QED BY <1>1, <1>3, <1>4, <1>5, <1>6, <1>7

\* A call is at one stage.
LEMMA StageOf ==
  ASSUME Basics, NEW c \in Callers, CallStep(c)
  PROVE  /\ caller[c].pc \in {"begin", "reserve", "execute", "observe", "save"}
         /\ caller[c].pc = "begin" <=> Busy(c) \/ Begin(c)
         /\ caller[c].pc = "reserve" <=> Reserve(c)
         /\ caller[c].pc = "execute" <=> Execute(c)
         /\ caller[c].pc = "observe" <=> Observe(c)
         /\ caller[c].pc = "save" <=> Save(c)
<1>1. /\ Busy(c) \/ Begin(c) => caller[c].pc = "begin"
      /\ Reserve(c) => caller[c].pc = "reserve"
      /\ Execute(c) => caller[c].pc = "execute"
      /\ Observe(c) => caller[c].pc = "observe"
      /\ Save(c) => caller[c].pc = "save"
  BY DEF Busy, Begin, Reserve, Execute, Observe, Save, At
<1> QED BY <1>1 DEF CallStep

\* A call that begins: it ends at once, creates the record or takes up one that is there.
BeginOutcome(c, o) ==
  /\ UNCHANGED <<target, crashOn, executes>>
  /\ \/ /\ lock[o] # "none" \/ NextStep(record[o], clock) = "idle"
        /\ caller'[c].pc = "idle" /\ record' = record /\ lock' = lock
        /\ last' = IF o = "op" THEN Answer(record[o]) ELSE last
     \/ /\ lock[o] = "none" /\ record[o] = NoRecord /\ record'[o] = New
        /\ lock'[o] = c /\ last' = last
        /\ caller'[c].pc = "reserve" /\ caller'[c].op = o
     \/ /\ lock[o] = "none" /\ record[o].status = "OPEN" /\ record' = record
        /\ NextStep(record[o], clock) \in {"reserve", "observe"}
        /\ lock'[o] = c /\ last' = last
        /\ caller'[c].pc = NextStep(record[o], clock) /\ caller'[c].op = o
        /\ caller'[c].ok <=> record[o].attempts # << >> /\ Latest(record[o]).ok

LEMMA BeginStage ==
  ASSUME Basics, NEW c \in Callers, CallStep(c), caller[c].pc = "begin", NEW o, o = caller[c].op
  PROVE  BeginOutcome(c, o)
<1> USE DEF BeginOutcome
<1>1. TypeOK /\ RecordsFit /\ o \in Ops /\ record \in [Ops -> Record] /\ Quiet.pc = "idle"
      /\ lock \in [Ops -> Callers \cup {"none"}]
  BY StageFrame, QuietFields DEF Basics, TypeOK
<1>2. CASE Busy(c)
  BY <1>1, <1>2, BusyDoes DEF Ends, Moves
<1>3. CASE Begin(c)
  <2>1. /\ lock[o] = "none" /\ UNCHANGED <<Running, target, crashOn, executes>>
        /\ \/ NextStep(record[o], clock) = "idle" /\ Ends(c) /\ lock' = lock
           \/ /\ record[o] = NoRecord
              /\ record' = [record EXCEPT ![o] = New]
              /\ Locks(o, c) /\ last' = last
              /\ Moves(c, [pc |-> "reserve", op |-> o, ok |-> FALSE, evidence |-> caller[c].evidence])
           \/ /\ NextStep(record[o], clock) \in {"reserve", "observe"} /\ record[o].status = "OPEN"
              /\ record' = record /\ Locks(o, c) /\ last' = last
              /\ Moves(c, [pc |-> NextStep(record[o], clock), op |-> o,
                            ok |-> record[o].attempts # << >> /\ Latest(record[o]).ok,
                            evidence |-> caller[c].evidence])
    BY <1>1, <1>3, BeginDoes
  <2>2. CASE NextStep(record[o], clock) = "idle" /\ Ends(c) /\ lock' = lock
    BY <1>1, <2>1, <2>2 DEF Ends, Moves
  <2>3. CASE /\ record[o] = NoRecord
             /\ record' = [record EXCEPT ![o] = New]
             /\ Locks(o, c) /\ last' = last
             /\ Moves(c, [pc |-> "reserve", op |-> o, ok |-> FALSE, evidence |-> caller[c].evidence])
    BY <1>1, <2>1, <2>3 DEF Moves, Locks
  <2>4. CASE /\ NextStep(record[o], clock) \in {"reserve", "observe"} /\ record[o].status = "OPEN"
             /\ record' = record /\ Locks(o, c) /\ last' = last
             /\ Moves(c, [pc |-> NextStep(record[o], clock), op |-> o,
                            ok |-> record[o].attempts # << >> /\ Latest(record[o]).ok,
                            evidence |-> caller[c].evidence])
    <3>1. PICK s : s = [pc |-> NextStep(record[o], clock), op |-> o,
                        ok |-> record[o].attempts # << >> /\ Latest(record[o]).ok,
                        evidence |-> caller[c].evidence]
      OBVIOUS
    <3>2. /\ s.pc = NextStep(record[o], clock) /\ s.op = o
          /\ s.ok <=> record[o].attempts # << >> /\ Latest(record[o]).ok
          /\ Moves(c, s)
      BY <2>4, <3>1
    <3>3. caller'[c] = s /\ lock'[o] = c
      BY <1>1, <2>4, <3>2 DEF Moves, Locks
    <3> QED BY <2>1, <2>4, <3>2, <3>3
  <2> QED BY <2>1, <2>2, <2>3, <2>4
<1> QED BY <1>2, <1>3, StageOf

\* The reservation of an attempt, and a crash after it, by what they leave.
ReserveOutcome(c, o) ==
  /\ UNCHANGED <<target, executes, last>>
  /\ record'[o] =
       [version |-> record[o].version + 1, status |-> record[o].status,
        reviewReason |-> record[o].reviewReason,
        attempts |-> Append(record[o].attempts, Reserved(clock, contract.window)),
        review |-> record[o].review, episode |-> record[o].episode,
        blockedBy |-> record[o].blockedBy]
  /\ record'[o].status = "OPEN" /\ record'[o].attempts # << >>
  /\ Latest(record'[o]) = Reserved(clock, contract.window)
  /\ Len(record'[o].attempts) = Len(record[o].attempts) + 1 /\ Len(record[o].attempts) \in Nat
  /\ \/ crashOn = "afterReserve" /\ crashOn' = "none" /\ lock'[o] = "none" /\ caller'[c].pc = "idle"
     \/ /\ crashOn # "afterReserve" /\ crashOn' = crashOn /\ lock' = lock /\ lock[o] = c
        /\ caller'[c].pc = "execute" /\ caller'[c].op = o

LEMMA ReserveStage ==
  ASSUME Basics, NEW c \in Callers, CallStep(c), caller[c].pc = "reserve", NEW o, o = caller[c].op
  PROVE  ReserveOutcome(c, o)
<1> USE DEF ReserveOutcome
<1>1. /\ TypeOK /\ o \in Ops /\ record[o] \in Record /\ record[o].status = "OPEN" /\ Quiet.pc = "idle"
      /\ lock[o] = c /\ lock \in [Ops -> Callers \cup {"none"}] /\ Reserve(c)
  <2>1. caller[c].pc \in Working
    BY DEF Working
  <2> QED BY <2>1, StageFrame, StageOf, QuietFields DEF Basics
<1>3. /\ UNCHANGED <<Running, target, executes, last>>
      /\ \/ /\ crashOn = "afterReserve" /\ crashOn' = "none" /\ Locks(o, "none") /\ Moves(c, Quiet)
         \/ /\ crashOn # "afterReserve" /\ crashOn' = crashOn /\ lock' = lock
            /\ Moves(c, [pc |-> "execute", op |-> o, ok |-> caller[c].ok,
                         evidence |-> caller[c].evidence])
  BY <1>1, ReserveDoes
<1>4. \/ crashOn = "afterReserve" /\ crashOn' = "none" /\ lock'[o] = "none" /\ caller'[c].pc = "idle"
      \/ /\ crashOn # "afterReserve" /\ crashOn' = crashOn /\ lock' = lock /\ lock[o] = c
         /\ caller'[c].pc = "execute" /\ caller'[c].op = o
  BY <1>1, <1>3 DEF Moves, Locks
<1>6. /\ record'[o].status = "OPEN" /\ record'[o].attempts # << >>
      /\ Latest(record'[o]) = Reserved(clock, contract.window)
      /\ Len(record'[o].attempts) = Len(record[o].attempts) + 1 /\ Len(record[o].attempts) \in Nat
      /\ record'[o] =
           [version |-> record[o].version + 1, status |-> record[o].status,
            reviewReason |-> record[o].reviewReason,
            attempts |-> Append(record[o].attempts, Reserved(clock, contract.window)),
            review |-> record[o].review, episode |-> record[o].episode,
            blockedBy |-> record[o].blockedBy]
  BY <1>1, ReserveRecord
<1>8. UNCHANGED <<target, executes, last>>
  BY <1>3
<1> QED BY <1>4, <1>6, <1>8

\* execute(), by what it leaves.
ExecuteOutcome(c, o) ==
  /\ executes' = executes + 1 /\ UNCHANGED <<record, lock, crashOn, last>> /\ lock[o] = c
  /\ caller'[c].pc = "observe" /\ caller'[c].op = o
  /\ target'.mode = "normal" /\ target'.failRead = target.failRead
  /\ contract.writes = "once" =>
       /\ caller'[c].ok <=> target.mode \in {"normal", "pending"}
       /\ target'.applied[o] =
            target.applied[o] + IF target.mode \in {"normal", "loseResponse"} THEN 1 ELSE 0
       /\ target'.held = IF target.mode = "hold" THEN o ELSE target.held
       /\ target'.pending[o] <=> (target.pending[o] \/ target.mode = "pending")
  /\ \A p \in Ops : p # o =>
       target'.applied[p] = target.applied[p] /\ (target'.pending[p] <=> target.pending[p])

LEMMA ExecuteStage ==
  ASSUME Basics, NEW c \in Callers, CallStep(c), caller[c].pc = "execute", NEW o, o = caller[c].op
  PROVE  ExecuteOutcome(c, o)
<1> USE DEF ExecuteOutcome
<1>1. TypeOK /\ o \in Ops /\ lock[o] = c /\ Execute(c)
  <2>1. caller[c].pc \in Working
    BY DEF Working
  <2> QED BY <2>1, StageFrame, StageOf, SMTT(30) DEF Basics
<1>2. PICK sent \in BOOLEAN :
        /\ Moves(c, [pc |-> "observe", op |-> o, ok |-> sent, evidence |-> caller[c].evidence])
        /\ contract.writes = "once" => (sent <=> target.mode \in {"normal", "pending"})
  BY <1>1, ExecuteDoes, SMTT(30)
<1>3. caller'[c].pc = "observe" /\ caller'[c].op = o /\ (caller'[c].ok <=> sent)
  BY <1>2 DEF Moves
<1>4. /\ executes' = executes + 1 /\ UNCHANGED <<record, lock, crashOn, last>>
      /\ target'.mode = "normal" /\ target'.failRead = target.failRead
      /\ contract.writes = "once" =>
           /\ target'.applied[o] =
                target.applied[o] + IF target.mode \in {"normal", "loseResponse"} THEN 1 ELSE 0
           /\ target'.held = IF target.mode = "hold" THEN o ELSE target.held
           /\ target'.pending[o] <=> (target.pending[o] \/ target.mode = "pending")
      /\ \A p \in Ops : p # o =>
           target'.applied[p] = target.applied[p] /\ (target'.pending[p] <=> target.pending[p])
  BY <1>1, ExecuteDoes, SMTT(30)
<1> QED BY <1>1, <1>2, <1>3, <1>4

\* observe() and reconcile(), by what they leave.
ObserveOutcome(c, o) ==
  /\ UNCHANGED <<record, lock, crashOn, executes, last>> /\ lock[o] = c
  /\ caller'[c].pc = "save" /\ caller'[c].op = o /\ (caller'[c].ok <=> caller[c].ok)
  /\ target'.applied = target.applied /\ target'.pending = target.pending
  /\ target'.mode = target.mode /\ target'.held = target.held /\ ~target'.failRead
  /\ caller'[c].evidence \in EvidenceStates
  /\ contract.trusts = "observation" =>
       /\ target.failRead => caller'[c].evidence = contract.onFailedRead
       /\ ~target.failRead /\ target.pending[o] => caller'[c].evidence = contract.onPending
       /\ caller'[c].evidence = "PENDING" =>
            \/ target.failRead /\ contract.onFailedRead = "PENDING"
            \/ contract.onPending = "PENDING"
       /\ ~target.failRead /\ ~target.pending[o]
            /\ (contract.scope = "own"
                \/ \A p \in Ops : p # o => target.applied[p] = 0 /\ ~target.pending[p]) =>
            caller'[c].evidence =
              IF target.applied[o] = 0
              THEN IF contract.cautious /\ ~caller[c].ok THEN "UNKNOWN" ELSE "NOT_APPLIED"
              ELSE IF target.applied[o] = 1 \/ contract.scope = "all" THEN "APPLIED"
              ELSE "CONFLICTED"
       /\ ~target.failRead /\ contract.scope = "all" /\ (\A p \in Ops : ~target.pending[p])
            /\ (\E p \in Ops : target.applied[p] > 0) => caller'[c].evidence = "APPLIED"

LEMMA ObserveStage ==
  ASSUME Basics, NEW c \in Callers, CallStep(c), caller[c].pc = "observe", NEW o, o = caller[c].op
  PROVE  ObserveOutcome(c, o)
<1> USE DEF ObserveOutcome
<1>1. TypeOK /\ o \in Ops /\ lock[o] = c /\ Observe(c)
  <2>1. caller[c].pc \in Working
    BY DEF Working
  <2> QED BY <2>1, StageFrame, StageOf, SMTT(30) DEF Basics
<1>2. /\ caller'[c].pc = "save" /\ caller'[c].op = o /\ (caller'[c].ok <=> caller[c].ok)
      /\ caller'[c].evidence \in EvidenceStates
  <2>1. PICK evidence \in EvidenceStates :
          Moves(c, [pc |-> "save", op |-> o, ok |-> caller[c].ok, evidence |-> evidence])
    BY <1>1, ObserveDoes, SMTT(30)
  <2> QED BY <2>1 DEF Moves
<1>5. contract.trusts = "observation" =>
             (target.failRead => caller'[c].evidence = contract.onFailedRead)
  <2>1. PICK evidence \in EvidenceStates :
          /\ Moves(c, [pc |-> "save", op |-> o, ok |-> caller[c].ok, evidence |-> evidence])
          /\ contract.trusts = "observation" =>
               (target.failRead => evidence = contract.onFailedRead)
    BY <1>1, ObserveDoes, SMTT(30)
  <2>2. caller'[c].evidence = evidence
    BY <2>1 DEF Moves
  <2> QED BY <2>1, <2>2
<1>6. contract.trusts = "observation" =>
             (~target.failRead /\ target.pending[o] => caller'[c].evidence = contract.onPending)
  <2>1. PICK evidence \in EvidenceStates :
          /\ Moves(c, [pc |-> "save", op |-> o, ok |-> caller[c].ok, evidence |-> evidence])
          /\ contract.trusts = "observation" =>
               (~target.failRead /\ target.pending[o] => evidence = contract.onPending)
    BY <1>1, ObserveDoes, SMTT(30)
  <2>2. caller'[c].evidence = evidence
    BY <2>1 DEF Moves
  <2> QED BY <2>1, <2>2
<1>7. contract.trusts = "observation" =>
             (caller'[c].evidence = "PENDING" =>
                  \/ target.failRead /\ contract.onFailedRead = "PENDING"
                  \/ contract.onPending = "PENDING")
  <2>1. PICK evidence \in EvidenceStates :
          /\ Moves(c, [pc |-> "save", op |-> o, ok |-> caller[c].ok, evidence |-> evidence])
          /\ contract.trusts = "observation" =>
               (evidence = "PENDING" =>
                  \/ target.failRead /\ contract.onFailedRead = "PENDING"
                  \/ contract.onPending = "PENDING")
    BY <1>1, ObserveDoes, ZenonT(60)
  <2>2. caller'[c].evidence = evidence
    BY <2>1 DEF Moves
  <2> QED BY <2>1, <2>2
<1>8. contract.trusts = "observation" =>
             (~target.failRead /\ ~target.pending[o]
                  /\ (contract.scope = "own"
                      \/ \A p \in Ops : p # o => target.applied[p] = 0 /\ ~target.pending[p]) =>
                  caller'[c].evidence = IF target.applied[o] = 0
                             THEN IF contract.cautious /\ ~caller[c].ok THEN "UNKNOWN"
                                  ELSE "NOT_APPLIED"
                             ELSE IF target.applied[o] = 1 \/ contract.scope = "all" THEN "APPLIED"
                             ELSE "CONFLICTED")
  <2>1. PICK evidence \in EvidenceStates :
          /\ Moves(c, [pc |-> "save", op |-> o, ok |-> caller[c].ok, evidence |-> evidence])
          /\ contract.trusts = "observation" =>
               (~target.failRead /\ ~target.pending[o]
                  /\ (contract.scope = "own"
                      \/ \A p \in Ops : p # o => target.applied[p] = 0 /\ ~target.pending[p]) =>
                  evidence = IF target.applied[o] = 0
                             THEN IF contract.cautious /\ ~caller[c].ok THEN "UNKNOWN"
                                  ELSE "NOT_APPLIED"
                             ELSE IF target.applied[o] = 1 \/ contract.scope = "all" THEN "APPLIED"
                             ELSE "CONFLICTED")
    BY <1>1, ObserveDoes, ZenonT(60)
  <2>2. caller'[c].evidence = evidence
    BY <2>1 DEF Moves
  <2> QED BY <2>1, <2>2
<1>9. contract.trusts = "observation" =>
             (~target.failRead /\ contract.scope = "all" /\ (\A p \in Ops : ~target.pending[p])
                  /\ (\E p \in Ops : target.applied[p] > 0) => caller'[c].evidence = "APPLIED")
  <2>1. PICK evidence \in EvidenceStates :
          /\ Moves(c, [pc |-> "save", op |-> o, ok |-> caller[c].ok, evidence |-> evidence])
          /\ contract.trusts = "observation" =>
               (~target.failRead /\ contract.scope = "all" /\ (\A p \in Ops : ~target.pending[p])
                  /\ (\E p \in Ops : target.applied[p] > 0) => evidence = "APPLIED")
    BY <1>1, ObserveDoes, SMTT(30)
  <2>2. caller'[c].evidence = evidence
    BY <2>1 DEF Moves
  <2> QED BY <2>1, <2>2
<1>4. /\ UNCHANGED <<Running, record, lock, crashOn, executes, last>>
      /\ ~target'.failRead /\ target'.applied = target.applied /\ target'.pending = target.pending
      /\ target'.mode = target.mode /\ target'.held = target.held
  BY <1>1, ObserveDoes, SMTT(30)
<1> QED BY <1>1, <1>2, <1>4, <1>5, <1>6, <1>7, <1>8, <1>9

\* The resolution of the attempt, or the crash before it, by what it leaves.
SaveOutcome(c, o) ==
  /\ UNCHANGED <<target, executes>> /\ lock[o] = c
  /\ record[o].attempts # << >> /\ record[o].status = "OPEN"
  /\ \/ /\ crashOn = "onResolve" /\ crashOn' = "none" /\ lock'[o] = "none"
        /\ caller'[c].pc = "idle" /\ record' = record /\ last' = last
     \/ /\ crashOn # "onResolve" /\ crashOn' = crashOn
        /\ Resolved(record'[o]) /\ Len(record'[o].attempts) = Len(record[o].attempts)
        /\ record'[o].status = StatusAfter(caller[c].evidence, Latest(record'[o]).disposition)
        /\ Latest(record'[o]).ok <=> caller[c].ok
        /\ Latest(record'[o]).evidence = caller[c].evidence
        /\ Latest(record'[o]).startedAt = Latest(record[o]).startedAt
        /\ caller[c].evidence = "APPLIED" => Latest(record'[o]).disposition = "COMPLETE"
        /\ caller[c].evidence = "CONFLICTED" => Latest(record'[o]).disposition = "REPLAN"
        /\ caller[c].evidence = "PENDING" => Latest(record'[o]).disposition = "NULL"
        /\ caller[c].evidence = "UNKNOWN" => Latest(record'[o]).disposition = "INVESTIGATE"
        /\ caller[c].evidence = "NOT_APPLIED" =>
             LET retries == contract.retryOnNotApplied
                              /\ Len(record[o].attempts) < contract.maxAttempts
             IN  /\ Latest(record'[o]).disposition =
                      IF retries /\ (caller[c].ok \/ Declared) THEN "RETRY" ELSE "INVESTIGATE"
                 /\ Latest(record'[o]).retryNotBefore =
                      IF retries /\ ~caller[c].ok /\ Declared
                         /\ clock < Latest(record[o]).startedAt + contract.window
                      THEN Latest(record[o]).startedAt + contract.window ELSE NoTime
        /\ \/ /\ RetriesNow(record[o], record'[o]) /\ lock' = lock /\ last' = last
              /\ caller'[c].pc = "reserve" /\ caller'[c].op = o
           \/ /\ ~RetriesNow(record[o], record'[o]) /\ lock'[o] = "none"
              /\ caller'[c].pc = "idle"
              /\ last' = IF o = "op" THEN Answer(record'[o]) ELSE last

LEMMA SaveStage ==
  ASSUME Basics, NEW c \in Callers, CallStep(c), caller[c].pc = "save", NEW o, o = caller[c].op
  PROVE  SaveOutcome(c, o)
<1> USE DEF SaveOutcome
<1>1. /\ TypeOK /\ o \in Ops /\ lock[o] = c /\ Save(c) /\ record[o].attempts # << >>
      /\ record[o].status = "OPEN" /\ record[o] \in Record /\ RecordFits(record[o])
      /\ record \in [Ops -> Record] /\ caller[c].ok \in BOOLEAN
      /\ caller[c].evidence \in EvidenceStates
      /\ lock \in [Ops -> Callers \cup {"none"}] /\ Quiet.pc = "idle"
  <2>1. caller[c].pc \in Working
    BY DEF Working
  <2> QED BY <2>1, StageFrame, StageOf, CallerFields, QuietFields DEF Basics, TypeOK
<1>2. /\ At(c, "save") /\ UNCHANGED <<Running, target, executes>>
      /\ \/ /\ crashOn = "onResolve" /\ crashOn' = "none" /\ Locks(o, "none") /\ Moves(c, Quiet)
            /\ record' = record /\ last' = last
         \/ /\ crashOn # "onResolve" /\ crashOn' = crashOn
            /\ \E r, s \in Record :
                 /\ r = record[o] /\ r.attempts # << >> /\ record' = [record EXCEPT ![o] = s]
                 /\ s = ResolvedRecord(r, caller[c].ok, caller[c].evidence, Policy,
                                       contract.window, clock)
                 /\ \/ /\ RetriesNow(r, s) /\ lock' = lock /\ last' = last
                       /\ Moves(c, [pc |-> "reserve", op |-> o, ok |-> caller[c].ok,
                                    evidence |-> caller[c].evidence])
                    \/ /\ ~RetriesNow(r, s) /\ Locks(o, "none") /\ Moves(c, Quiet)
                       /\ last' = IF o = "op" THEN Answer(s) ELSE last
  BY <1>1, SaveDoes
<1>3. CASE /\ crashOn = "onResolve" /\ crashOn' = "none" /\ Locks(o, "none") /\ Moves(c, Quiet)
           /\ record' = record /\ last' = last
  BY <1>1, <1>2, <1>3 DEF Moves, Locks
<1>4. CASE crashOn # "onResolve" /\ crashOn' = crashOn
  <2>1. PICK r, s \in Record :
          /\ r = record[o] /\ r.attempts # << >> /\ record' = [record EXCEPT ![o] = s]
          /\ s = ResolvedRecord(r, caller[c].ok, caller[c].evidence, Policy, contract.window, clock)
          /\ \/ /\ RetriesNow(r, s) /\ lock' = lock /\ last' = last
                /\ Moves(c, [pc |-> "reserve", op |-> o, ok |-> caller[c].ok,
                             evidence |-> caller[c].evidence])
             \/ /\ ~RetriesNow(r, s) /\ Locks(o, "none") /\ Moves(c, Quiet)
                /\ last' = IF o = "op" THEN Answer(s) ELSE last
    BY <1>2, <1>4
  <2>2. PICK sent \in BOOLEAN : sent = caller[c].ok
    BY <1>1
  <2>3. PICK evidence \in EvidenceStates : evidence = caller[c].evidence
    BY <1>1
  <2>4. /\ Resolved(s) /\ Len(s.attempts) = Len(r.attempts)
        /\ s.status = StatusAfter(evidence, Latest(s).disposition)
        /\ Latest(s).ok = sent /\ Latest(s).evidence = evidence
        /\ Latest(s).startedAt = Latest(r).startedAt
        /\ evidence = "APPLIED" => Latest(s).disposition = "COMPLETE"
        /\ evidence = "CONFLICTED" => Latest(s).disposition = "REPLAN"
        /\ evidence = "PENDING" => Latest(s).disposition = "NULL"
        /\ evidence = "UNKNOWN" => Latest(s).disposition = "INVESTIGATE"
        /\ evidence = "NOT_APPLIED" =>
              LET retries == contract.retryOnNotApplied /\ Len(r.attempts) < contract.maxAttempts
              IN  /\ Latest(s).disposition =
                       IF retries /\ (sent \/ Declared) THEN "RETRY" ELSE "INVESTIGATE"
                  /\ Latest(s).retryNotBefore =
                       IF retries /\ ~sent /\ Declared
                          /\ clock < Latest(r).startedAt + contract.window
                       THEN Latest(r).startedAt + contract.window ELSE NoTime
    BY <1>1, <2>1, <2>2, <2>3, ResolvedFits
  <2>5. record'[o] = s
    BY <1>1, <2>1
  <2>6. \/ /\ RetriesNow(r, s) /\ lock' = lock /\ last' = last
           /\ caller'[c].pc = "reserve" /\ caller'[c].op = o
        \/ /\ ~RetriesNow(r, s) /\ lock'[o] = "none" /\ caller'[c].pc = "idle"
           /\ last' = IF o = "op" THEN Answer(s) ELSE last
    BY <1>1, <2>1 DEF Moves, Locks
  <2>7. record[o] = r
    BY <2>1
  <2>8. UNCHANGED <<target, executes>>
    BY <1>2
  <2>9. /\ Resolved(record'[o]) /\ Len(record'[o].attempts) = Len(record[o].attempts)
        /\ record'[o].status = StatusAfter(caller[c].evidence, Latest(record'[o]).disposition)
        /\ Latest(record'[o]).ok <=> caller[c].ok
        /\ Latest(record'[o]).evidence = caller[c].evidence
        /\ Latest(record'[o]).startedAt = Latest(record[o]).startedAt
    BY <2>2, <2>3, <2>4, <2>5, <2>7
  <2>10. /\ caller[c].evidence = "APPLIED" => Latest(record'[o]).disposition = "COMPLETE"
         /\ caller[c].evidence = "CONFLICTED" => Latest(record'[o]).disposition = "REPLAN"
         /\ caller[c].evidence = "PENDING" => Latest(record'[o]).disposition = "NULL"
         /\ caller[c].evidence = "UNKNOWN" => Latest(record'[o]).disposition = "INVESTIGATE"
    BY <2>3, <2>4, <2>5
  <2>11. caller[c].evidence = "NOT_APPLIED" =>
           LET retries == contract.retryOnNotApplied
                            /\ Len(record[o].attempts) < contract.maxAttempts
           IN  /\ Latest(record'[o]).disposition =
                    IF retries /\ (caller[c].ok \/ Declared) THEN "RETRY" ELSE "INVESTIGATE"
               /\ Latest(record'[o]).retryNotBefore =
                    IF retries /\ ~caller[c].ok /\ Declared
                       /\ clock < Latest(record[o]).startedAt + contract.window
                    THEN Latest(record[o]).startedAt + contract.window ELSE NoTime
    BY <2>2, <2>3, <2>4, <2>5, <2>7
  <2>12. \/ /\ RetriesNow(record[o], record'[o]) /\ lock' = lock /\ last' = last
            /\ caller'[c].pc = "reserve" /\ caller'[c].op = o
         \/ /\ ~RetriesNow(record[o], record'[o]) /\ lock'[o] = "none" /\ caller'[c].pc = "idle"
            /\ last' = IF o = "op" THEN Answer(record'[o]) ELSE last
    BY <2>5, <2>6, <2>7
  <2> QED BY <1>1, <1>4, <2>8, <2>9, <2>10, <2>11, <2>12
<1> QED BY <1>2, <1>3, <1>4
LEMMA CallOutcome ==
  ASSUME Basics, NEW c \in Callers, CallStep(c), NEW o, o = caller[c].op
  PROVE  /\ caller[c].pc \in {"begin", "reserve", "execute", "observe", "save"}
         /\ caller[c].pc = "begin" => BeginOutcome(c, o)
         /\ caller[c].pc = "reserve" => ReserveOutcome(c, o)
         /\ caller[c].pc = "execute" => ExecuteOutcome(c, o)
         /\ caller[c].pc = "observe" => ObserveOutcome(c, o)
         /\ caller[c].pc = "save" => SaveOutcome(c, o)
  BY StageOf, BeginStage, ReserveStage, ExecuteStage, ObserveStage, SaveStage

\* Who answers a pending effect with anything but PENDING has failed its scenario.
LEMMA PendingStep ==
  ASSUME Basics, Step, PendingFits
  PROVE  PendingFits'
<1>1. /\ UNCHANGED contract /\ Now' = Now /\ Driven /\ Inputs /\ Played \in Nat
      /\ Plain' = Plain /\ Basics'
  BY StepStays, SamePlan
<1>2. SUFFICES ASSUME Now = "pending-then-settled", Plain, contract.onPending # "PENDING"
               PROVE  /\ ~target'.failRead
                      /\ last'.evidence # "PENDING"
                      /\ \A o \in Ops : record'[o].attempts # << >> => Latest(record'[o]).evidence # "PENDING"
                      /\ \A c \in Callers : caller'[c].pc = "save" => caller'[c].evidence # "PENDING"
                      /\ Played' >= 3 => ~ok'
  BY <1>1 DEF PendingFits, At
<1>3. /\ ~target.failRead
      /\ last.evidence # "PENDING"
      /\ \A o \in Ops : record[o].attempts # << >> => Latest(record[o]).evidence # "PENDING"
      /\ \A c \in Callers : caller[c].pc = "save" => caller[c].evidence # "PENDING"
      /\ Played >= 3 => ~ok
  BY <1>2 DEF PendingFits, At
<1>4. CASE Drive \/ Prepare \/ StartRun
  <2>1. PICK x : x = Plan[Played + 1]
    OBVIOUS
  <2>2. /\ Played' = Played + 1 /\ Played + 1 \in 1..Len(Plan)
        /\ record' = record /\ last' = last
        /\ x.do # "run" => caller' = caller
        /\ x.do = "run" => \A c \in Callers : caller'[c].pc \in {"begin", "idle"}
        /\ x.do \in {"run", "advance", "expect", "crash"} => target' = target
        /\ x.do \in {"fault", "settle"} => target'.failRead = target.failRead
        /\ ok' <=> ok /\ (x.do = "expect" => Holds(x.what))
    BY <1>4, <2>1, HarnessDoes
  <2>3. /\ x.do \in {"run", "expect", "advance", "fault", "settle"}
        /\ Played + 1 = 3 => x.do = "expect" /\ x.what = "PENDING"
    BY <1>1, <1>2, <2>1, <2>2, SettledKinds
  <2>4. Holds("PENDING") => last.evidence = "PENDING"
    BY DEF Holds, EvidenceStates
  <2>5. Played' >= 3 => ~ok'
    BY <1>1, <1>3, <2>2, <2>3, <2>4
  <2> QED BY <1>3, <2>2, <2>3, <2>5
<1>5. ASSUME NEW c \in Callers, CallStep(c)
      PROVE  /\ ~target'.failRead
             /\ last'.evidence # "PENDING"
             /\ \A o \in Ops : record'[o].attempts # << >> => Latest(record'[o]).evidence # "PENDING"
             /\ \A d \in Callers : caller'[d].pc = "save" => caller'[d].evidence # "PENDING"
             /\ Played' >= 3 => ~ok'
  <2>0. PICK o : o = caller[c].op
    OBVIOUS
  <2>1. /\ Played' = Played /\ ok' = ok /\ o \in Ops /\ record'[o] \in Record
        /\ \A p \in Ops : p # o => record'[p] = record[p]
        /\ \A d \in Callers : d # c => caller'[d] = caller[d]
        /\ last' = last \/ last' = Answer(record'[o])
    BY <1>5, <2>0, OpStep
  <2>2. /\ caller[c].pc \in {"begin", "reserve", "execute", "observe", "save"}
        /\ caller[c].pc = "execute" <=> Execute(c)
        /\ caller[c].pc = "observe" <=> Observe(c)
    BY <1>5, StageOf
  <2>o. /\ caller[c].pc = "begin" => BeginOutcome(c, o)
        /\ caller[c].pc = "reserve" => ReserveOutcome(c, o)
        /\ caller[c].pc = "execute" => ExecuteOutcome(c, o)
        /\ caller[c].pc = "observe" => ObserveOutcome(c, o)
        /\ caller[c].pc = "save" => SaveOutcome(c, o)
    BY <1>5, <2>0, CallOutcome
  <2>3. ~target'.failRead
    <3>1. CASE caller[c].pc = "execute"
      BY <1>3, <2>o, <3>1 DEF ExecuteOutcome
    <3>2. CASE caller[c].pc = "observe"
      BY <1>3, <2>o, <3>2 DEF ObserveOutcome
    <3>3. CASE caller[c].pc \notin {"execute", "observe"}
      BY <1>3, <1>5, <2>2, <3>3, TargetStays
    <3> QED BY <3>1, <3>2, <3>3
  <2>4. caller'[c].pc = "save" => caller'[c].evidence # "PENDING"
    <3>1. caller'[c].pc = "save" => caller[c].pc = "observe"
      BY <1>5, <2>0, OpStep DEF At
    <3>2. caller[c].pc = "observe" => caller'[c].evidence # "PENDING"
      BY <1>2, <1>3, <2>o DEF ObserveOutcome, Plain
    <3> QED BY <3>1, <3>2
  <2>5. record'[o].attempts # << >> => Latest(record'[o]).evidence # "PENDING"
    <3>1. \/ record'[o] = record[o] \/ record'[o] = New
          \/ Latest(record'[o]) = Reserved(clock, contract.window)
          \/ caller[c].pc = "save" /\ Latest(record'[o]).evidence = caller[c].evidence
      BY <1>5, <2>0, OpStep DEF At
    <3> QED BY <1>3, <2>1, <3>1, RecordReads
  <2>6. last'.evidence # "PENDING"
    BY <1>3, <2>1, <2>5, RecordReads DEF Resolved
  <2> QED BY <1>1, <1>3, <2>1, <2>3, <2>4, <2>5, <2>6
<1> QED BY <1>4, <1>5 DEF Step

\* A record of an effect that is complete is closed.
LEMMA CompleteIsClosed ==
  ASSUME NEW r \in Record, RecordFits(r), NEW now \in Nat
  PROVE  /\ Resolved(r) /\ Latest(r).evidence # "PENDING" /\ Latest(r).disposition # "RETRY" =>
              r.status = "CLOSED" /\ NextStep(r, now) = "idle"
         /\ Resolved(r) => Answer(r).evidence = Latest(r).evidence
                           /\ Answer(r).disposition = Latest(r).disposition
         /\ ~Resolved(r) => Answer(r).evidence = "none" /\ Answer(r).disposition = "NULL"
<1>1. r.attempts # << >> => Latest(r).status \in {"RESERVED", "RESOLVED"}
  BY LatestFields
<1> QED BY <1>1, NextStepFields, AnswerFields DEF RecordFits, Resolved, StatusAfter

\* Who reads all effects stops at the neighbor's.
LEMMA NeighborStep ==
  ASSUME Basics, Step, NeighborFits
  PROVE  NeighborFits'
<1>1. /\ UNCHANGED contract /\ Now' = Now /\ Driven /\ Inputs /\ Played \in Nat
      /\ Plain' = Plain /\ Basics'
  BY StepStays, SamePlan
<1>2. SUFFICES ASSUME Now = "neighbor-effect-isolation", Plain, contract.scope = "all"
               PROVE  NeighborFits'
  BY <1>1 DEF NeighborFits
<1>3. /\ ~target.failRead /\ crashOn = "none" /\ \A o \in Ops : ~target.pending[o]
      /\ target.mode = "normal" \/ (target.mode = "loseRequest" /\ Played >= 3)
      /\ Played <= 3 => record["op"] = NoRecord /\ Effects = 0 /\ last = NoAnswer
      /\ Played = 3 => target.mode = "loseRequest"
      /\ Played >= 2 /\ ok =>
           /\ target.applied["neighbor"] > 0 /\ Effects = 0
           /\ last.disposition # "INVESTIGATE"
           /\ Resolved(record["op"]) =>
                Latest(record["op"]).evidence = "APPLIED" /\ Latest(record["op"]).disposition = "COMPLETE"
           /\ caller["a"].pc \in {"idle", "begin"} => Resolved(record["op"]) \/ record["op"] = NoRecord
           /\ ~Resolved(record["op"]) /\ Played >= 3 =>
                target.mode = "loseRequest" \/ caller["a"].pc \in {"observe", "save"}
           /\ caller["a"].pc = "save" => caller["a"].evidence = "APPLIED"
           /\ caller["a"].pc \in Working => ~Resolved(record["op"])
  BY <1>2 DEF NeighborFits, At
<1>w. /\ "begin" \notin Working /\ "idle" \notin Working /\ "a" \in Callers /\ "op" \in Ops
      /\ "neighbor" \in Ops
      /\ \A pc : pc \in Working <=> pc \in {"reserve", "execute", "observe", "save"}
  BY DEF Working, Callers, Ops
<1>n. NoAnswer.disposition = "NULL" /\ ~Resolved(NoRecord) /\ ~Resolved(New)
  BY RecordReads DEF NoAnswer
<1>g. SUFFICES
        /\ ~target'.failRead /\ crashOn' = "none" /\ \A o \in Ops : ~target'.pending[o]
        /\ target'.mode = "normal" \/ (target'.mode = "loseRequest" /\ Played' >= 3)
        /\ Played' <= 3 => record'["op"] = NoRecord /\ target'.applied["op"] = 0 /\ last' = NoAnswer
        /\ Played' = 3 => target'.mode = "loseRequest"
        /\ Played' >= 2 /\ ok' =>
           /\ target'.applied["neighbor"] > 0 /\ target'.applied["op"] = 0
           /\ last'.disposition # "INVESTIGATE"
           /\ Resolved(record'["op"]) =>
                Latest(record'["op"]).evidence = "APPLIED" /\ Latest(record'["op"]).disposition = "COMPLETE"
           /\ caller'["a"].pc \in {"idle", "begin"} => Resolved(record'["op"]) \/ record'["op"] = NoRecord
           /\ ~Resolved(record'["op"]) /\ Played' >= 3 =>
                target'.mode = "loseRequest" \/ caller'["a"].pc \in {"observe", "save"}
           /\ caller'["a"].pc = "save" => caller'["a"].evidence = "APPLIED"
           /\ caller'["a"].pc \in Working => ~Resolved(record'["op"])
  BY DEF NeighborFits, At, Effects, Resolved
<1>4. CASE Drive \/ Prepare \/ StartRun
  <2>1. PICK x : x = Plan[Played + 1]
    OBVIOUS
  <2>2. /\ Played' = Played + 1 /\ Played + 1 \in 1..Len(Plan)
        /\ record' = record /\ last' = last /\ caller["a"].pc = "idle"
        /\ x.do # "run" => caller' = caller
        /\ x.do = "run" => caller'["a"].pc \in {"begin", "idle"}
        /\ x.do \in {"run", "advance", "expect", "crash"} => target' = target
        /\ x.do = "fault" =>
              /\ target'.mode = x.what /\ target'.applied = target.applied
              /\ target'.pending = target.pending /\ target'.failRead = target.failRead
        /\ crashOn' = IF x.do = "crash" THEN x.what ELSE crashOn
        /\ ok' <=> ok /\ (x.do = "expect" => Holds(x.what))
    BY <1>4, <1>w, <2>1, HarnessDoes
  <2>3. /\ x.do \in {"run", "expect", "advance", "fault"}
        /\ x.do = "fault" <=> Played + 1 = 3
        /\ x.do = "fault" => x.what = "loseRequest"
        /\ x.do = "run" <=> Played + 1 \in {1, 4, 6, 8, 10}
        /\ Played + 1 = 2 => x.do = "expect" /\ x.what = "neighbor"
    BY <1>1, <1>2, <2>1, <2>2, NeighborKinds
  <2>4. Holds("neighbor") => target.applied["neighbor"] = 1
    BY DEF Holds, EvidenceStates
  <2>5. /\ ~target'.failRead /\ crashOn' = "none" /\ \A o \in Ops : ~target'.pending[o]
        /\ target'.mode = "normal" \/ (target'.mode = "loseRequest" /\ Played' >= 3)
        /\ Played' <= 3 => record'["op"] = NoRecord /\ target'.applied["op"] = 0 /\ last' = NoAnswer
        /\ Played' = 3 => target'.mode = "loseRequest"
    BY <1>1, <1>3, <2>2, <2>3 DEF Effects
  <2>6. Played' >= 2 /\ ok' =>
           /\ target'.applied["neighbor"] > 0 /\ target'.applied["op"] = 0
           /\ last'.disposition # "INVESTIGATE"
    BY <1>1, <1>3, <1>n, <2>2, <2>3, <2>4 DEF Effects
  <2>7. ASSUME Played' >= 2, ok'
        PROVE  /\ Resolved(record'["op"]) =>
                    Latest(record'["op"]).evidence = "APPLIED"
                    /\ Latest(record'["op"]).disposition = "COMPLETE"
               /\ caller'["a"].pc \in {"idle", "begin"} => Resolved(record'["op"]) \/ record'["op"] = NoRecord
               /\ ~Resolved(record'["op"]) /\ Played' >= 3 =>
                    target'.mode = "loseRequest" \/ caller'["a"].pc \in {"observe", "save"}
               /\ caller'["a"].pc = "save" => caller'["a"].evidence = "APPLIED"
               /\ caller'["a"].pc \in Working => ~Resolved(record'["op"])
    <3>1. caller'["a"].pc \in {"begin", "idle"}
      BY <2>2
    <3>2. CASE Played = 1
      BY <1>1, <1>3, <1>w, <1>n, <2>2, <2>3, <2>7, <3>1, <3>2
    <3>3. CASE Played = 2
      <4>1. Played' = 3
        BY <2>2, <3>3
      <4>2. record'["op"] = NoRecord /\ target'.mode = "loseRequest"
        BY <2>5, <4>1
      <4>3. ~Resolved(record'["op"])
        BY <1>n, <4>2
      <4>4. caller'["a"].pc \notin Working /\ caller'["a"].pc # "save"
        BY <1>w, <3>1
      <4> QED BY <4>2, <4>3, <4>4
    <3>4. CASE Played >= 3
      <4>1. Resolved(record["op"]) \/ target.mode = "loseRequest"
        <5>1. Played >= 2 /\ Played >= 3 /\ ok
          BY <1>1, <2>2, <2>7, <3>4
        <5> QED BY <1>3, <2>2, <5>1
      <4> QED BY <1>1, <1>3, <1>w, <1>n, <2>2, <2>3, <2>5, <2>7, <3>1, <3>4, <4>1
    <3> QED BY <1>1, <2>2, <2>7, <3>2, <3>3, <3>4
  <2> QED BY <2>5, <2>6, <2>7
<1>5. ASSUME NEW c \in Callers, CallStep(c)
      PROVE
        /\ ~target'.failRead /\ crashOn' = "none" /\ \A o \in Ops : ~target'.pending[o]
        /\ target'.mode = "normal" \/ (target'.mode = "loseRequest" /\ Played' >= 3)
        /\ Played' <= 3 => record'["op"] = NoRecord /\ target'.applied["op"] = 0 /\ last' = NoAnswer
        /\ Played' = 3 => target'.mode = "loseRequest"
        /\ Played' >= 2 /\ ok' =>
           /\ target'.applied["neighbor"] > 0 /\ target'.applied["op"] = 0
           /\ last'.disposition # "INVESTIGATE"
           /\ Resolved(record'["op"]) =>
                Latest(record'["op"]).evidence = "APPLIED" /\ Latest(record'["op"]).disposition = "COMPLETE"
           /\ caller'["a"].pc \in {"idle", "begin"} => Resolved(record'["op"]) \/ record'["op"] = NoRecord
           /\ ~Resolved(record'["op"]) /\ Played' >= 3 =>
                target'.mode = "loseRequest" \/ caller'["a"].pc \in {"observe", "save"}
           /\ caller'["a"].pc = "save" => caller'["a"].evidence = "APPLIED"
           /\ caller'["a"].pc \in Working => ~Resolved(record'["op"])
  <2>0. PICK o : o = caller[c].op
    OBVIOUS
  <2>1. /\ Played' = Played /\ Played \in 1..Len(Plan) /\ Plan[Played].do = "run"
        /\ o = Plan[Played].what /\ (c = "a" \/ Plan[Played].by = 2) /\ ok' = ok
    BY <1>5, <2>0, OpStep
  <2>2. /\ c = "a" /\ Played \in {1, 4, 6, 8, 10}
        /\ o = IF Played = 1 THEN "neighbor" ELSE "op"
    BY <1>1, <1>2, <2>1, NeighborKinds
  <2>3. /\ caller[c].pc \in {"begin", "reserve", "execute", "observe", "save"}
        /\ caller[c].pc = "execute" <=> Execute(c)
        /\ caller[c].pc = "observe" <=> Observe(c)
    BY <1>5, StageOf
  <2>o. /\ caller[c].pc = "begin" => BeginOutcome(c, o)
        /\ caller[c].pc = "reserve" => ReserveOutcome(c, o)
        /\ caller[c].pc = "execute" => ExecuteOutcome(c, o)
        /\ caller[c].pc = "observe" => ObserveOutcome(c, o)
        /\ caller[c].pc = "save" => SaveOutcome(c, o)
    BY <1>5, <2>0, CallOutcome
  <2>4. /\ o \in Ops /\ record[o] \in Record /\ record'[o] \in Record
        /\ RecordFits(record[o]) /\ RecordFits(record'[o]) /\ clock \in Nat
        /\ target.applied \in [Ops -> Nat]
        /\ caller[c].pc \in {"execute", "observe", "save"} => record[o].attempts # << >>
        /\ \A p \in Ops : p # o => record'[p] = record[p]
    BY <1>5, <2>0, StageFrame DEF Target
  <2>5. contract.writes = "once" /\ contract.trusts = "observation"
    BY <1>2 DEF Plain
  <2>6. CASE Played = 1
    <3>1. o = "neighbor" /\ o # "op" /\ record'["op"] = record["op"]
      BY <1>w, <2>2, <2>4, <2>6
    <3>2. last' = last
      BY <1>5, <2>0, <3>1, OpStep
    <3>3. /\ ~target'.failRead /\ target'.mode = "normal" /\ target'.applied["op"] = 0
          /\ \A p \in Ops : ~target'.pending[p]
      <4>1. CASE caller[c].pc = "execute"
        <5>1. target.mode = "normal" /\ ~target.pending[o] /\ target.applied["op"] = 0
          BY <1>3, <2>4, <2>6 DEF Effects
        <5> QED BY <1>3, <1>w, <2>o, <2>5, <3>1, <4>1, <5>1 DEF ExecuteOutcome
      <4>2. CASE caller[c].pc = "observe"
        BY <1>3, <1>w, <2>o, <2>6, <4>2 DEF ObserveOutcome, Effects
      <4>3. CASE caller[c].pc \notin {"execute", "observe"}
        BY <1>3, <1>5, <2>3, <2>6, <4>3, TargetStays DEF Effects
      <4> QED BY <4>1, <4>2, <4>3
    <3>4. crashOn' = "none"
      <4>1. CASE caller[c].pc = "begin"
        BY <1>3, <2>o, <4>1 DEF BeginOutcome
      <4>2. CASE caller[c].pc = "reserve"
        BY <1>3, <2>o, <4>2 DEF ReserveOutcome
      <4>3. CASE caller[c].pc = "execute"
        BY <1>3, <2>o, <4>3 DEF ExecuteOutcome
      <4>4. CASE caller[c].pc = "observe"
        BY <1>3, <2>o, <4>4 DEF ObserveOutcome
      <4>5. CASE caller[c].pc = "save"
        BY <1>3, <2>o, <4>5 DEF SaveOutcome
      <4> QED BY <2>3, <4>1, <4>2, <4>3, <4>4, <4>5
    <3> QED BY <1>3, <2>1, <2>6, <3>1, <3>2, <3>3, <3>4
  <2>7. CASE Played >= 4
    <3>1. o = "op"
      BY <2>2, <2>7
    <3>2. ASSUME ok
          PROVE  /\ target.applied["neighbor"] > 0 /\ target.applied["op"] = 0
                 /\ last.disposition # "INVESTIGATE"
                 /\ Resolved(record[o]) =>
                       Latest(record[o]).evidence = "APPLIED" /\ Latest(record[o]).disposition = "COMPLETE"
                 /\ caller[c].pc = "begin" => Resolved(record[o]) \/ record[o] = NoRecord
                 /\ ~Resolved(record[o]) => target.mode = "loseRequest" \/ caller[c].pc \in {"observe", "save"}
                 /\ caller[c].pc = "save" => caller[c].evidence = "APPLIED"
                 /\ caller[c].pc \in Working => ~Resolved(record[o])
      BY <1>3, <2>1, <2>2, <2>7, <3>1, <3>2 DEF Effects
    <3> SUFFICES
          /\ ~target'.failRead /\ crashOn' = "none" /\ \A p \in Ops : ~target'.pending[p]
          /\ target'.mode = "normal" \/ target'.mode = "loseRequest"
          /\ ok =>
             /\ target'.applied["neighbor"] > 0 /\ target'.applied["op"] = 0
             /\ last'.disposition # "INVESTIGATE"
             /\ Resolved(record'[o]) =>
                  Latest(record'[o]).evidence = "APPLIED" /\ Latest(record'[o]).disposition = "COMPLETE"
             /\ caller'[c].pc \in {"idle", "begin"} => Resolved(record'[o]) \/ record'[o] = NoRecord
             /\ ~Resolved(record'[o]) =>
                  target'.mode = "loseRequest" \/ caller'[c].pc \in {"observe", "save"}
             /\ caller'[c].pc = "save" => caller'[c].evidence = "APPLIED"
             /\ caller'[c].pc \in Working => ~Resolved(record'[o])
      BY <2>1, <2>2, <2>7, <3>1
    <3>3. CASE caller[c].pc = "begin"
      <4>1. /\ UNCHANGED <<target, crashOn>>
            /\ \/ /\ caller'[c].pc = "idle" /\ record' = record /\ last' = Answer(record[o])
               \/ /\ record'[o] = New /\ last' = last /\ caller'[c].pc = "reserve"
                  /\ record[o] = NoRecord
               \/ /\ record[o].status = "OPEN" /\ record' = record /\ last' = last
                  /\ NextStep(record[o], clock) \in {"reserve", "observe"}
        BY <2>o, <3>1, <3>3 DEF BeginOutcome
      <4>2. /\ Resolved(record[o]) /\ Latest(record[o]).evidence # "PENDING"
                 /\ Latest(record[o]).disposition # "RETRY" =>
                  NextStep(record[o], clock) = "idle"
            /\ Resolved(record[o]) => Answer(record[o]).disposition = Latest(record[o]).disposition
            /\ ~Resolved(record[o]) => Answer(record[o]).disposition = "NULL"
        BY <2>4, CompleteIsClosed
      <4>3. record[o].status = "OPEN" => record[o] # NoRecord
        BY NewFits
      <4> QED BY <1>3, <1>n, <1>w, <3>2, <3>3, <4>1, <4>2, <4>3
    <3>4. CASE caller[c].pc = "reserve"
      <4>1. /\ UNCHANGED <<target, last>> /\ crashOn' = crashOn /\ caller'[c].pc = "execute"
            /\ Latest(record'[o]) = Reserved(clock, contract.window)
        BY <1>3, <2>o, <3>4 DEF ReserveOutcome
      <4>2. ~Resolved(record'[o])
        BY <4>1, RecordReads DEF Resolved
      <4> QED BY <1>3, <1>w, <3>2, <3>4, <4>1, <4>2
    <3>5. CASE caller[c].pc = "execute"
      <4>1. /\ UNCHANGED <<record, crashOn, last>>
            /\ caller'[c].pc = "observe"
            /\ target'.mode = "normal" /\ target'.failRead = target.failRead
            /\ target'.applied[o] =
                  target.applied[o] + IF target.mode \in {"normal", "loseResponse"} THEN 1 ELSE 0
            /\ target'.pending[o] <=> (target.pending[o] \/ target.mode = "pending")
            /\ \A p \in Ops : p # o =>
                 target'.applied[p] = target.applied[p] /\ (target'.pending[p] <=> target.pending[p])
        BY <2>o, <2>5, <3>5 DEF ExecuteOutcome
      <4>2. target.mode \in {"normal", "loseRequest"} /\ (ok => target.mode = "loseRequest")
        BY <1>3, <1>w, <3>2, <3>5
      <4> QED BY <1>3, <1>w, <3>1, <3>2, <3>5, <4>1, <4>2
    <3>6. CASE caller[c].pc = "observe"
      <4>1. /\ UNCHANGED <<record, crashOn, last>>
            /\ caller'[c].pc = "save"
            /\ target'.applied = target.applied /\ target'.pending = target.pending
            /\ target'.mode = target.mode /\ ~target'.failRead
            /\ ~target.failRead /\ contract.scope = "all" /\ (\A p \in Ops : ~target.pending[p])
                 /\ (\E p \in Ops : target.applied[p] > 0) => caller'[c].evidence = "APPLIED"
        BY <2>o, <2>5, <3>6 DEF ObserveOutcome
      <4>2. ok => caller'[c].evidence = "APPLIED"
        BY <1>2, <1>3, <1>w, <3>2, <4>1
      <4> QED BY <1>3, <1>w, <3>2, <3>6, <4>1, <4>2
    <3>7. CASE caller[c].pc = "save"
      <4>1. /\ target' = target /\ crashOn' = crashOn
            /\ Resolved(record'[o])
            /\ Latest(record'[o]).evidence = caller[c].evidence
            /\ caller[c].evidence = "APPLIED" => Latest(record'[o]).disposition = "COMPLETE"
            /\ \/ RetriesNow(record[o], record'[o])
               \/ caller'[c].pc = "idle" /\ last' = Answer(record'[o])
        BY <1>3, <2>o, <3>1, <3>7 DEF SaveOutcome
      <4>2. ok => ~RetriesNow(record[o], record'[o])
        BY <1>w, <2>4, <3>2, <3>7 DEF RetriesNow, Resolved
      <4>3. Answer(record'[o]).disposition = Latest(record'[o]).disposition
        BY <2>4, <4>1, CompleteIsClosed
      <4> QED BY <1>3, <1>w, <3>2, <3>7, <4>1, <4>2, <4>3
    <3> QED BY <2>3, <3>3, <3>4, <3>5, <3>6, <3>7
  <2> QED BY <2>2, <2>6, <2>7
<1> QED BY <1>4, <1>5 DEF Step

\* A right contract gives the neighbor its one effect.
LEMMA NeighborRunsStep ==
  ASSUME Basics, Step, NeighborRuns
  PROVE  NeighborRuns'
<1>1. /\ UNCHANGED contract /\ Now' = Now /\ Driven /\ Inputs /\ Played \in Nat /\ Basics'
  BY StepStays
<1>w. /\ "begin" \notin Working /\ "idle" \notin Working /\ "a" \in Callers /\ "op" \in Ops
      /\ "neighbor" \in Ops /\ Callers = {"a", "b"} /\ "none" \notin Callers
      /\ \A pc : pc \in Working <=> pc \in {"reserve", "execute", "observe", "save"}
  BY DEF Working, Callers, Ops
<1>2. SUFFICES ASSUME Now = "neighbor-effect-isolation", contract.writes = "once", Played' <= 1
               PROVE  /\ target'.mode = "normal" /\ crashOn' = "none"
                      /\ target'.applied["neighbor"] =
                           IF Played' = 0 \/ caller'["a"].pc \in {"begin", "reserve", "execute"} THEN 0 ELSE 1
                      /\ Played' = 0 \/ caller'["a"].pc = "begin" => record'["neighbor"] = NoRecord
                      /\ caller'["a"].pc \in Working => ~Resolved(record'["neighbor"])
  BY <1>1 DEF NeighborRuns, At, Resolved
<1>3. Played <= 1 =>
        /\ target.mode = "normal" /\ crashOn = "none"
        /\ target.applied["neighbor"] =
             IF Played = 0 \/ caller["a"].pc \in {"begin", "reserve", "execute"} THEN 0 ELSE 1
        /\ Played = 0 \/ caller["a"].pc = "begin" => record["neighbor"] = NoRecord
        /\ caller["a"].pc \in Working => ~Resolved(record["neighbor"])
  BY <1>2 DEF NeighborRuns, At
<1>4. CASE Drive \/ Prepare \/ StartRun
  <2>1. PICK x : x = Plan[Played + 1]
    OBVIOUS
  <2>2. /\ Played' = Played + 1 /\ Played + 1 \in 1..Len(Plan)
        /\ record' = record
        /\ x.do = "run" => IF "a" = "a" \/ x.by = 2
                           THEN caller'["a"].pc = "begin" /\ caller'["a"].op = x.what
                           ELSE caller'["a"].pc = "idle"
        /\ x.do \in {"run", "advance", "expect", "crash"} => target' = target
        /\ crashOn' = IF x.do = "crash" THEN x.what ELSE crashOn
    BY <1>4, <1>w, <2>1, HarnessDoes
  <2>3. Played = 0 /\ Played' = 1
    BY <1>1, <1>2, <2>2
  <2>4. x.do = "run"
    BY <1>1, <1>2, <2>1, <2>2, <2>3, NeighborKinds
  <2>5. caller'["a"].pc = "begin" /\ target' = target /\ crashOn' = crashOn
    BY <2>2, <2>4
  <2> QED BY <1>3, <1>w, <2>2, <2>3, <2>5
<1>5. ASSUME NEW c \in Callers, CallStep(c)
      PROVE  /\ target'.mode = "normal" /\ crashOn' = "none"
             /\ target'.applied["neighbor"] =
                  IF Played' = 0 \/ caller'["a"].pc \in {"begin", "reserve", "execute"} THEN 0 ELSE 1
             /\ Played' = 0 \/ caller'["a"].pc = "begin" => record'["neighbor"] = NoRecord
             /\ caller'["a"].pc \in Working => ~Resolved(record'["neighbor"])
  <2>0. PICK o : o = caller[c].op
    OBVIOUS
  <2>1. /\ Played' = Played /\ Played \in 1..Len(Plan) /\ Plan[Played].do = "run"
        /\ o = Plan[Played].what /\ (c = "a" \/ Plan[Played].by = 2)
    BY <1>5, <2>0, OpStep
  <2>2. c = "a" /\ Played = 1 /\ o = "neighbor" /\ Played' = 1
    BY <1>1, <1>2, <2>1, NeighborKinds
  <2>o. /\ caller[c].pc \in {"begin", "reserve", "execute", "observe", "save"}
        /\ caller[c].pc = "begin" => BeginOutcome(c, o)
        /\ caller[c].pc = "reserve" => ReserveOutcome(c, o)
        /\ caller[c].pc = "execute" => ExecuteOutcome(c, o)
        /\ caller[c].pc = "observe" => ObserveOutcome(c, o)
        /\ caller[c].pc = "save" => SaveOutcome(c, o)
    BY <1>5, <2>0, CallOutcome
  <2>3. /\ o \in Ops /\ record[o] \in Record /\ RecordFits(record[o]) /\ clock \in Nat
        /\ \A d \in Callers : lock[o] = d <=> caller[d].op = o /\ caller[d].pc \in Working
        /\ lock[o] \in Callers \cup {"none"}
        /\ caller[c].pc \in {"execute", "observe", "save"} => record[o].attempts # << >>
    BY <1>5, <2>0, StageFrame
  <2>4. /\ target.mode = "normal" /\ crashOn = "none"
        /\ target.applied[o] = IF caller[c].pc \in {"begin", "reserve", "execute"} THEN 0 ELSE 1
        /\ caller[c].pc = "begin" => record[o] = NoRecord
        /\ caller[c].pc \in Working => ~Resolved(record[o])
    BY <1>3, <2>2
  <2> SUFFICES
         /\ target'.mode = "normal" /\ crashOn' = "none"
         /\ target'.applied[o] = IF caller'[c].pc \in {"begin", "reserve", "execute"} THEN 0 ELSE 1
         /\ caller'[c].pc # "begin"
         /\ caller'[c].pc \in Working => ~Resolved(record'[o])
    BY <2>2
  <2>5. CASE caller[c].pc = "begin"
    <3>1. caller["b"].pc \notin Working
      <4>1. Plan[Played].by = 1 /\ "b" \in Callers /\ "b" # "a" /\ 1 # 2
        BY <1>1, <1>2, <1>w, <2>1, <2>2, NeighborKinds
      <4>2. caller["b"].pc # "idle" => Plan[Played].by = 2
        BY <4>1, CallsFit DEF At
      <4> QED BY <1>w, <4>1, <4>2
    <3>2. lock[o] = "none"
      BY <1>w, <2>2, <2>3, <2>5, <3>1
    <3>3. NextStep(record[o], clock) = "create"
      BY <2>3, <2>4, <2>5, NextStepFields, NewFits
    <3>4. target' = target /\ crashOn' = crashOn /\ record'[o] = New /\ caller'[c].pc = "reserve"
      BY <2>o, <2>5, <3>2, <3>3 DEF BeginOutcome
    <3> QED BY <2>4, <2>5, <3>4, RecordReads
  <2>6. CASE caller[c].pc = "reserve"
    <3>1. /\ target' = target /\ crashOn' = crashOn /\ caller'[c].pc = "execute"
          /\ Latest(record'[o]) = Reserved(clock, contract.window)
      BY <2>o, <2>4, <2>6 DEF ReserveOutcome
    <3>2. ~Resolved(record'[o])
      BY <3>1, RecordReads DEF Resolved
    <3> QED BY <2>4, <2>6, <3>1, <3>2
  <2>7. CASE caller[c].pc = "execute"
    <3>1. /\ target'.mode = "normal" /\ crashOn' = crashOn /\ record' = record
          /\ target'.applied[o] = target.applied[o] + 1 /\ caller'[c].pc = "observe"
      BY <1>2, <2>o, <2>4, <2>7 DEF ExecuteOutcome
    <3> QED BY <1>w, <2>4, <2>7, <3>1
  <2>8. CASE caller[c].pc = "observe"
    <3>1. /\ target'.mode = target.mode /\ crashOn' = crashOn /\ record' = record
          /\ target'.applied = target.applied /\ caller'[c].pc = "save"
      BY <2>o, <2>8 DEF ObserveOutcome
    <3> QED BY <1>w, <2>4, <2>8, <3>1
  <2>9. CASE caller[c].pc = "save"
    <3>1. /\ target' = target /\ crashOn' = crashOn
          /\ RetriesNow(record[o], record'[o]) \/ caller'[c].pc = "idle"
      BY <2>o, <2>4, <2>9 DEF SaveOutcome
    <3>2. ~RetriesNow(record[o], record'[o])
      BY <1>w, <2>3, <2>4, <2>9 DEF RetriesNow, Resolved
    <3> QED BY <1>w, <2>4, <2>9, <3>1, <3>2
  <2> QED BY <2>o, <2>5, <2>6, <2>7, <2>8, <2>9
<1> QED BY <1>4, <1>5 DEF Step

\* What a scenario starts with.
LEMMA StartsWith ==
  ASSUME Basics, NextScenario
  PROVE  /\ target'.mode = "normal" /\ target'.held = "none" /\ ~target'.failRead
         /\ \A o \in Ops : /\ target'.applied[o] = 0 /\ ~target'.pending[o]
                           /\ record'[o] = NoRecord /\ lock'[o] = "none"
         /\ \A c \in Callers : caller'[c].pc = "idle"
         /\ crashOn' = "none" /\ clock' = 0 /\ executes' = 0 /\ last' = NoAnswer /\ ok'
         /\ UNCHANGED <<contract, options>> /\ Inputs' /\ Played' = 0
         /\ Effects' = 0 /\ last'.evidence = "none" /\ last'.disposition = "NULL"
         /\ ~Resolved(NoRecord) /\ NoRecord.attempts = << >>
<1>1. NoAnswer.evidence = "none" /\ NoAnswer.disposition = "NULL" /\ "op" \in Ops
  BY DEF NoAnswer, Ops
<1>2. /\ target' = F!Reset
      /\ \A o \in Ops : record'[o] = NoRecord /\ lock'[o] = "none"
      /\ \A c \in Callers : caller'[c].pc = "idle"
      /\ crashOn' = "none" /\ clock' = 0 /\ executes' = 0 /\ last' = NoAnswer /\ ok'
      /\ UNCHANGED <<contract, options>> /\ Inputs' /\ Played' = 0
  BY FreshDoes
<1> QED BY <1>1, <1>2, ResetFields, RecordReads DEF Effects

\* Each scenario starts as its part of the invariant says.
LEMMA StartScenarios ==
  ASSUME Basics, NextScenario
  PROVE  /\ NeighborUntouched' /\ TwiceFits' /\ TransportFits' /\ FailedReadFits' /\ PendingFits'
         /\ NeighborFits' /\ NeighborRuns' /\ RightFits'
<1>1. NeighborUntouched'
  BY StartsWith DEF NeighborUntouched, Ops
<1>2. TwiceFits'
  BY StartsWith DEF TwiceFits
<1>w. "a" \in Callers /\ "op" \in Ops /\ "neighbor" \in Ops /\ "idle" \notin Working
  BY DEF Callers, Ops, Working
<1>3. TransportFits'
  BY StartsWith DEF TransportFits, At
<1>4. FailedReadFits'
  <2>1. /\ Played' = 0 /\ record'["op"] = NoRecord /\ last'.evidence # "UNKNOWN"
        /\ ~Resolved(NoRecord) /\ caller'["a"].pc = "idle"
    BY <1>w, StartsWith
  <2> QED BY <1>w, <2>1 DEF FailedReadFits, At, Resolved
<1>5. PendingFits'
  BY StartsWith DEF PendingFits, At
<1>6. NeighborFits'
  <2>1. /\ Played' = 0 /\ record'["op"] = NoRecord /\ last' = NoAnswer /\ Effects' = 0
        /\ target'.mode = "normal" /\ ~target'.failRead /\ crashOn' = "none"
        /\ \A o \in Ops : ~target'.pending[o]
    BY <1>w, StartsWith
  <2> QED BY <2>1 DEF NeighborFits
<1>7. NeighborRuns'
  <2>1. /\ Played' = 0 /\ record'["neighbor"] = NoRecord
        /\ target'.mode = "normal" /\ crashOn' = "none" /\ target'.applied["neighbor"] = 0
        /\ caller'["a"].pc = "idle"
    BY <1>w, StartsWith
  <2> QED BY <1>w, <2>1 DEF NeighborRuns, At
<1>8. RightFits'
  BY StartsWith DEF RightFits
<1> QED BY <1>1, <1>2, <1>3, <1>4, <1>5, <1>6, <1>7, <1>8

=============================================================================
