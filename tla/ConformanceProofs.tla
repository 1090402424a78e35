-------------------------- MODULE ConformanceProofs --------------------------
(***************************************************************************)
(* The harness catches every broken contract and passes every right one:   *)
(* the proof that ConformanceInvariant is an invariant of Conformance, and *)
(* what follows from it.  What is left after ConformanceBaseProofs is to   *)
(* follow a contract that writes once and observes through each scenario.  *)
(***************************************************************************)
EXTENDS ConformanceBaseProofs

-----------------------------------------------------------------------------
(* Where each scenario runs the operation first, and what it does then *)

\* The table of scenarios.
LEMMA ScenarioTable ==
  /\ Now = "normal" =>
       /\ First = 1 /\ Mode = "normal" /\ CrashAt = "none" /\ ~ReadFails
       /\ InFlightUntil = 0 /\ WaitsUntil = 0
  /\ Now = "response-lost-after-commit" =>
       /\ First = 2 /\ Mode = "loseResponse" /\ CrashAt = "none" /\ ~ReadFails
       /\ InFlightUntil = 0 /\ WaitsUntil = 0
  /\ Now = "request-lost-before-commit" =>
       /\ First = 2 /\ Mode = "loseRequest" /\ CrashAt = "none" /\ ~ReadFails
       /\ InFlightUntil = 0 /\ WaitsUntil = 4
  /\ Now = "late-landing" =>
       /\ First = 2 /\ Mode = "hold" /\ CrashAt = "none" /\ ~ReadFails
       /\ InFlightUntil = 0 /\ WaitsUntil = 0
  /\ Now = "read-fails-after-lost-response" =>
       /\ First = 3 /\ Mode = "loseResponse" /\ CrashAt = "none" /\ ReadFails
       /\ InFlightUntil = 0 /\ WaitsUntil = 0
  /\ Now = "crash-after-effect-before-save" =>
       /\ First = 2 /\ Mode = "normal" /\ CrashAt = "onResolve" /\ ~ReadFails
       /\ InFlightUntil = 4 /\ WaitsUntil = 0
  /\ Now = "crash-before-execute" =>
       /\ First = 2 /\ Mode = "normal" /\ CrashAt = "afterReserve" /\ ~ReadFails
       /\ InFlightUntil = 4 /\ WaitsUntil = 6
  /\ Now = "concurrent-same-identity" =>
       /\ First = 1 /\ Mode = "normal" /\ CrashAt = "none" /\ ~ReadFails
       /\ InFlightUntil = 0 /\ WaitsUntil = 0
  /\ Now = "identity-reuse-different-intent" =>
       /\ First = 1 /\ Mode = "normal" /\ CrashAt = "none" /\ ~ReadFails
       /\ InFlightUntil = 0 /\ WaitsUntil = 0
  /\ Now = "pending-then-settled" =>
       /\ First = 2 /\ Mode = "pending" /\ CrashAt = "none" /\ ~ReadFails
       /\ InFlightUntil = 9 /\ WaitsUntil = 0
  /\ Now = "pending-then-rejected" =>
       /\ First = 2 /\ Mode = "pending" /\ CrashAt = "none" /\ ~ReadFails
       /\ InFlightUntil = 9 /\ WaitsUntil = 11
  /\ Now = "neighbor-effect-isolation" =>
       /\ First = 4 /\ Mode = "loseRequest" /\ CrashAt = "none" /\ ~ReadFails
       /\ InFlightUntil = 0 /\ WaitsUntil = 6
<1>1. Now = "normal" =>
        /\ First = 1 /\ Mode = "normal" /\ CrashAt = "none" /\ ~ReadFails
        /\ InFlightUntil = 0 /\ WaitsUntil = 0
  BY DEF First, Mode, CrashAt, ReadFails, InFlightUntil, WaitsUntil
<1>2. Now = "response-lost-after-commit" =>
        /\ First = 2 /\ Mode = "loseResponse" /\ CrashAt = "none" /\ ~ReadFails
        /\ InFlightUntil = 0 /\ WaitsUntil = 0
  BY DEF First, Mode, CrashAt, ReadFails, InFlightUntil, WaitsUntil
<1>3. Now = "request-lost-before-commit" =>
        /\ First = 2 /\ Mode = "loseRequest" /\ CrashAt = "none" /\ ~ReadFails
        /\ InFlightUntil = 0 /\ WaitsUntil = 4
  BY DEF First, Mode, CrashAt, ReadFails, InFlightUntil, WaitsUntil
<1>4. Now = "late-landing" =>
        /\ First = 2 /\ Mode = "hold" /\ CrashAt = "none" /\ ~ReadFails
        /\ InFlightUntil = 0 /\ WaitsUntil = 0
  BY DEF First, Mode, CrashAt, ReadFails, InFlightUntil, WaitsUntil
<1>5. Now = "read-fails-after-lost-response" =>
        /\ First = 3 /\ Mode = "loseResponse" /\ CrashAt = "none" /\ ReadFails
        /\ InFlightUntil = 0 /\ WaitsUntil = 0
  BY DEF First, Mode, CrashAt, ReadFails, InFlightUntil, WaitsUntil
<1>6. Now = "crash-after-effect-before-save" =>
        /\ First = 2 /\ Mode = "normal" /\ CrashAt = "onResolve" /\ ~ReadFails
        /\ InFlightUntil = 4 /\ WaitsUntil = 0
  BY DEF First, Mode, CrashAt, ReadFails, InFlightUntil, WaitsUntil
<1>7. Now = "crash-before-execute" =>
        /\ First = 2 /\ Mode = "normal" /\ CrashAt = "afterReserve" /\ ~ReadFails
        /\ InFlightUntil = 4 /\ WaitsUntil = 6
  BY DEF First, Mode, CrashAt, ReadFails, InFlightUntil, WaitsUntil
<1>8. Now = "concurrent-same-identity" =>
        /\ First = 1 /\ Mode = "normal" /\ CrashAt = "none" /\ ~ReadFails
        /\ InFlightUntil = 0 /\ WaitsUntil = 0
  BY DEF First, Mode, CrashAt, ReadFails, InFlightUntil, WaitsUntil
<1>9. Now = "identity-reuse-different-intent" =>
        /\ First = 1 /\ Mode = "normal" /\ CrashAt = "none" /\ ~ReadFails
        /\ InFlightUntil = 0 /\ WaitsUntil = 0
  BY DEF First, Mode, CrashAt, ReadFails, InFlightUntil, WaitsUntil
<1>10. Now = "pending-then-settled" =>
        /\ First = 2 /\ Mode = "pending" /\ CrashAt = "none" /\ ~ReadFails
        /\ InFlightUntil = 9 /\ WaitsUntil = 0
  BY DEF First, Mode, CrashAt, ReadFails, InFlightUntil, WaitsUntil
<1>11. Now = "pending-then-rejected" =>
        /\ First = 2 /\ Mode = "pending" /\ CrashAt = "none" /\ ~ReadFails
        /\ InFlightUntil = 9 /\ WaitsUntil = 11
  BY DEF First, Mode, CrashAt, ReadFails, InFlightUntil, WaitsUntil
<1>12. Now = "neighbor-effect-isolation" =>
        /\ First = 4 /\ Mode = "loseRequest" /\ CrashAt = "none" /\ ~ReadFails
        /\ InFlightUntil = 0 /\ WaitsUntil = 6
  BY DEF First, Mode, CrashAt, ReadFails, InFlightUntil, WaitsUntil
<1> QED BY <1>1, <1>2, <1>3, <1>4, <1>5, <1>6, <1>7, <1>8, <1>9, <1>10, <1>11, <1>12

\* It depends on contract, options and scenario only.
LEMMA SameTable ==
  ASSUME UNCHANGED <<contract, options, n>>
  PROVE  /\ First' = First /\ Mode' = Mode /\ CrashAt' = CrashAt /\ (ReadFails' <=> ReadFails)
         /\ InFlightUntil' = InFlightUntil /\ WaitsUntil' = WaitsUntil /\ LandsAt' = LandsAt
         /\ RunAt' = RunAt /\ SettleStep' = SettleStep /\ Now' = Now /\ Plan' = Plan
         /\ (Followed' <=> Followed) /\ (MayGiveUp' <=> MayGiveUp) /\ Sent' = Sent
         /\ (Answered' <=> Answered) /\ (RetryAllowed' <=> RetryAllowed)
         /\ (Declared' <=> Declared) /\ (Right' <=> Right) /\ (Plain' <=> Plain)
<1>1. /\ RunAt' = RunAt /\ SettleStep' = SettleStep /\ Now' = Now /\ Plan' = Plan
      /\ RetryAllowed' = RetryAllowed /\ Declared' = Declared /\ Plain' = Plain /\ Honest' = Honest
      /\ WaitsLongEnough' = WaitsLongEnough /\ Recovers' = Recovers /\ Conservative' = Conservative
  BY SamePlan
<1>2. First' = First /\ Mode' = Mode /\ CrashAt' = CrashAt /\ (ReadFails' <=> ReadFails)
  BY <1>1 DEF First, Mode, CrashAt, ReadFails
<1>3. InFlightUntil' = InFlightUntil /\ WaitsUntil' = WaitsUntil
  BY <1>1, <1>2 DEF InFlightUntil, WaitsUntil
<1>4. /\ LandsAt' = LandsAt /\ (MayGiveUp' <=> MayGiveUp) /\ Sent' = Sent /\ (Answered' <=> Answered)
      /\ (Followed' <=> Followed) /\ (Right' <=> Right)
  BY <1>1, <1>2 DEF LandsAt, MayGiveUp, Sent, Answered, Followed, Right
<1> QED BY <1>1, <1>2, <1>3, <1>4

\* The mode and the crash that are set after j commands.
ModeAt(j) == IF j + 1 >= First \/ (ReadFails /\ j > 0) THEN Mode ELSE "normal"
CrashFrom(j) == IF j + 1 >= First THEN CrashAt ELSE "none"

\* The commands up to the first run of the operation.
LEMMA Preparation ==
  ASSUME Inputs, Driven, Now \in Names, NEW i \in 1..Len(Plan), i <= First
  PROVE  /\ Plan[i].do \in {"run", "fault", "failRead", "crash", "expect"}
         /\ IF Plan[i].do = "fault" THEN Plan[i].what = ModeAt(i) ELSE ModeAt(i) = ModeAt(i - 1)
         /\ IF Plan[i].do = "crash" THEN Plan[i].what = CrashFrom(i)
            ELSE CrashFrom(i) = CrashFrom(i - 1)
         /\ Plan[i].do = "failRead" <=> ReadFails /\ i + 1 = First
         /\ Plan[i].do = "run" /\ Plan[i].what = "op" <=> i = First
         /\ Plan[i].do = "run" /\ Plan[i].what = "neighbor" => Now = "neighbor-effect-isolation" /\ i = 1
         /\ Plan[i].do = "run" /\ Plan[i].by = 2 => Now = "concurrent-same-identity" /\ i = 1
         /\ Plan[i].do = "expect" => Now = "neighbor-effect-isolation" /\ i = 2 /\ Plan[i].what = "neighbor"
<1> USE DEF ModeAt, CrashFrom
<1>1. CASE Now = "normal"
  BY <1>1, ScenarioTable, NormalKinds
<1>2. CASE Now = "response-lost-after-commit"
  BY <1>2, ScenarioTable, ResponseLostKinds
<1>3. CASE Now = "request-lost-before-commit"
  BY <1>3, ScenarioTable, RequestLostKinds
<1>4. CASE Now = "late-landing" /\ RunAt < options.late
  BY <1>4, ScenarioTable, HastyKinds
<1>13. CASE Now = "late-landing" /\ ~(RunAt < options.late)
  BY <1>13, ScenarioTable, PatientKinds
<1>5. CASE Now = "read-fails-after-lost-response"
  BY <1>5, ScenarioTable, ReadFailsKinds
<1>6. CASE Now = "crash-after-effect-before-save"
  BY <1>6, ScenarioTable, CrashAfterKinds
<1>7. CASE Now = "crash-before-execute"
  BY <1>7, ScenarioTable, CrashBeforeKinds
<1>8. CASE Now = "concurrent-same-identity"
  BY <1>8, ScenarioTable, ConcurrentKinds
<1>9. CASE Now = "identity-reuse-different-intent"
  BY <1>9, ScenarioTable, ReuseKinds
<1>10. CASE Now = "pending-then-settled"
  BY <1>10, ScenarioTable, SettledKinds
<1>11. CASE Now = "pending-then-rejected"
  BY <1>11, ScenarioTable, RejectedKinds
<1>12. CASE Now = "neighbor-effect-isolation"
  BY <1>12, ScenarioTable, NeighborKinds
<1> QED BY <1>1, <1>2, <1>3, <1>4, <1>5, <1>6, <1>7, <1>8, <1>9, <1>10, <1>11, <1>12, <1>13, ScenarioNames

\* The commands after it.
LEMMA Afterwards ==
  ASSUME Inputs, Driven, Now \in Names, NEW i \in 1..Len(Plan), i > First
  PROVE  /\ Plan[i].do \in {"run", "advance", "expect", "land", "settle", "reject"}
         /\ Plan[i].do = "run" => Plan[i].what = "op" /\ Plan[i].by = 1
         /\ Plan[i].do = "settle" <=> Now = "pending-then-settled" /\ i = 7
         /\ Plan[i].do = "reject" <=> Now = "pending-then-rejected" /\ i = 7
         /\ Plan[i].do = "land" <=> Now = "late-landing" /\ i = LandsAt
         /\ i = InFlightUntil \/ i = WaitsUntil => Plan[i].do = "run"
         /\ Plan[i].do = "run" /\ i <= InFlightUntil /\ (CrashAt # "none" \/ i > 7) => i = InFlightUntil
         /\ Plan[i].do = "run" /\ i > InFlightUntil /\ i <= WaitsUntil => i = WaitsUntil
         /\ CrashAt # "none" \/ Now \in {"request-lost-before-commit", "neighbor-effect-isolation"} =>
              (i = First + 1 => Plan[i].do = "advance" /\ Plan[i].by = SettleStep)
<1> USE DEF LandsAt
<1>1. CASE Now = "normal"
  BY <1>1, ScenarioTable, NormalKinds
<1>2. CASE Now = "response-lost-after-commit"
  BY <1>2, ScenarioTable, ResponseLostKinds
<1>3. CASE Now = "request-lost-before-commit"
  BY <1>3, ScenarioTable, RequestLostKinds
<1>4. CASE Now = "late-landing" /\ RunAt < options.late
  BY <1>4, ScenarioTable, HastyKinds
<1>13. CASE Now = "late-landing" /\ ~(RunAt < options.late)
  BY <1>13, ScenarioTable, PatientKinds
<1>5. CASE Now = "read-fails-after-lost-response"
  BY <1>5, ScenarioTable, ReadFailsKinds
<1>6. CASE Now = "crash-after-effect-before-save"
  BY <1>6, ScenarioTable, CrashAfterKinds
<1>7. CASE Now = "crash-before-execute"
  BY <1>7, ScenarioTable, CrashBeforeKinds
<1>8. CASE Now = "concurrent-same-identity"
  BY <1>8, ScenarioTable, ConcurrentKinds
<1>9. CASE Now = "identity-reuse-different-intent"
  BY <1>9, ScenarioTable, ReuseKinds
<1>10. CASE Now = "pending-then-settled"
  BY <1>10, ScenarioTable, SettledKinds
<1>11. CASE Now = "pending-then-rejected"
  BY <1>11, ScenarioTable, RejectedKinds
<1>12. CASE Now = "neighbor-effect-isolation"
  BY <1>12, ScenarioTable, NeighborKinds
<1> QED BY <1>1, <1>2, <1>3, <1>4, <1>5, <1>6, <1>7, <1>8, <1>9, <1>10, <1>11, <1>12, <1>13, ScenarioNames

\* The commands of late-landing after its first run.
LEMMA LateAfterwards ==
  ASSUME Inputs, Driven, Now = "late-landing", NEW i \in 1..Len(Plan), i > First
  PROVE  /\ RunAt \in Nat /\ options.late \in Nat /\ First = 2
         /\ LandsAt = IF RunAt < options.late THEN 6 ELSE 4
         /\ RunAt < options.late => Declared /\ RunAt = contract.window
         /\ i = (IF LandsAt = 6 THEN 4 ELSE 6) => Plan[i].do = "run"
         /\ Plan[i].do = "run" => i = 4 \/ i = 6 \/ i >= 8
         /\ Plan[i].do = "run" /\ i = 4 => LandsAt = 6
         /\ Plan[i].do = "run" /\ i = 6 => LandsAt = 4
         /\ i = 3 => Plan[i].do = "advance"
                     /\ Plan[i].by = (IF RunAt < options.late THEN RunAt ELSE options.late)
         /\ i = 5 /\ ~(RunAt < options.late) =>
              Plan[i].do = "advance" /\ Plan[i].by = RunAt - options.late
<1>1. First = 2 /\ LandsAt = (IF RunAt < options.late THEN 6 ELSE 4)
  BY ScenarioTable DEF LandsAt
<1>2. CASE RunAt < options.late
  BY <1>1, <1>2, HastyKinds
<1>3. CASE ~(RunAt < options.late)
  BY <1>1, <1>3, PatientKinds
<1> QED BY <1>2, <1>3

\* Time passes between the runs as the scenario says.
LEMMA ClockStep ==
  ASSUME Basics, Step, Played >= First, ClockFits
  PROVE  ClockFits' /\ Played' >= First'
<1>1. /\ UNCHANGED <<contract, options, n>> /\ Now' = Now /\ Driven /\ Inputs /\ Played \in Nat
      /\ Now \in Names /\ Played' \in 1..Len(Plan) /\ Len(Plan) \in Nat
  BY StepStays
<1>2. /\ First' = First /\ CrashAt' = CrashAt /\ SettleStep' = SettleStep /\ RunAt' = RunAt
      /\ options'.late = options.late
  BY <1>1, SameTable
<1>3. First \in Nat /\ SettleStep \in Nat
  BY <1>1, ScenarioTable, ScenarioNames, Steps
<1>4. CASE \E c \in Callers : CallStep(c)
  <2>1. Played' = Played /\ clock' = clock
    BY <1>4, OpStep
  <2> QED BY <1>1, <1>2, <2>1 DEF ClockFits
<1>5. CASE Drive \/ Prepare \/ StartRun
  <2>1. PICK x : x = Plan[Played + 1]
    OBVIOUS
  <2>2. /\ Played' = Played + 1 /\ Played + 1 \in 1..Len(Plan)
        /\ clock' = clock + (IF x.do = "advance" THEN x.by ELSE 0)
        /\ clock' \in Nat /\ clock' >= clock /\ clock \in Nat
    BY <1>5, <2>1, HarnessDoes
  <2>3. PICK i \in 1..Len(Plan) : i = Played + 1
    BY <2>2
  <2>4. i > First
    BY <1>1, <1>3, <2>3
  <2>5. Played' > First /\ (CrashAt # "none" \/ Now \in {"request-lost-before-commit", "neighbor-effect-isolation"})
          => clock' >= SettleStep
    <3>1. ASSUME CrashAt # "none" \/ Now \in {"request-lost-before-commit", "neighbor-effect-isolation"}
          PROVE  clock' >= SettleStep
      <4>1. CASE Played = First
        <5>1. x.do = "advance" /\ x.by = SettleStep
          BY <1>1, <2>1, <2>3, <2>4, <3>1, <4>1, Afterwards
        <5> QED BY <1>3, <2>2, <5>1
      <4>2. CASE Played > First
        <5>1. clock >= SettleStep
          BY <3>1, <4>2 DEF ClockFits
        <5> QED BY <1>3, <2>2, <5>1
      <4> QED BY <1>1, <1>3, <4>1, <4>2
    <3> QED BY <3>1
  <2>6. ASSUME Now = "late-landing"
        PROVE  /\ Played' >= 3 => clock' >= IF RunAt < options.late THEN RunAt ELSE options.late
               /\ Played' >= 5 => clock' >= RunAt
    <3>1. /\ RunAt \in Nat /\ options.late \in Nat /\ First = 2
          /\ i = 3 => x.do = "advance" /\ x.by = (IF RunAt < options.late THEN RunAt ELSE options.late)
          /\ i = 5 /\ ~(RunAt < options.late) => x.do = "advance" /\ x.by = RunAt - options.late
      BY <1>1, <2>1, <2>3, <2>4, <2>6, LateAfterwards
    <3>2. /\ Played >= 3 => clock >= IF RunAt < options.late THEN RunAt ELSE options.late
          /\ Played >= 5 => clock >= RunAt
      BY <2>6 DEF ClockFits
    <3>3. Played' >= 3 => clock' >= IF RunAt < options.late THEN RunAt ELSE options.late
      BY <1>1, <2>2, <2>3, <3>1, <3>2
    <3>4. CASE RunAt < options.late
      BY <1>1, <2>2, <2>3, <3>1, <3>3, <3>4
    <3>5. CASE ~(RunAt < options.late)
      BY <1>1, <2>2, <2>3, <3>1, <3>2, <3>5
    <3> QED BY <3>3, <3>4, <3>5
  <2>7. Played' >= First
    BY <1>1, <1>3, <2>2
  <2> QED BY <1>1, <1>2, <2>5, <2>6, <2>7 DEF ClockFits
<1> QED BY <1>4, <1>5 DEF Step

-----------------------------------------------------------------------------
(* Up to the first run *)

LEMMA EarlyFirst ==
  /\ First \in {1, 2, 3, 4}
  /\ First = 1 => Mode = "normal" /\ CrashAt = "none" /\ ~ReadFails
  BY DEF First, Mode, CrashAt, ReadFails

\* Before the first run: it is prepared, step by step.
LEMMA StartFollowed ==
  ASSUME Basics, NextScenario
  PROVE  AtFirst'
<1>1. /\ First' \in {1, 2, 3, 4}
      /\ First' = 1 => Mode' = "normal" /\ CrashAt' = "none" /\ ~ReadFails'
  <2>1. (/\ First \in {1, 2, 3, 4}
         /\ First = 1 => Mode = "normal" /\ CrashAt = "none" /\ ~ReadFails)'
    BY EarlyFirst, PTL
  <2> QED BY <2>1
<1>2. /\ target'.mode = "normal" /\ target'.held = "none" /\ ~target'.failRead
      /\ ~target'.pending["op"] /\ record'["op"] = NoRecord /\ lock'["op"] = "none"
      /\ crashOn' = "none" /\ clock' = 0 /\ executes' = 0
      /\ Played' = 0 /\ Effects' = 0 /\ last'.evidence = "none" /\ last'.disposition = "NULL"
  BY StartsWith DEF Ops
<1>3. ReadFails' => First' = 3
  <2>1. (ReadFails => First = 3)'
    BY ScenarioTable, PTL DEF ReadFails
  <2> QED BY <2>1
<1>4. Prepared'
  BY <1>1, <1>2, <1>3 DEF Prepared
<1>5. Executed(0)'
  BY <1>2 DEF Executed
<1> QED BY <1>1, <1>2, <1>4, <1>5 DEF AtFirst

\* Nobody has begun the operation while all are idle.
LEMMA IdleAtFirst ==
  ASSUME Basics, AtFirst, \A c \in Callers : caller[c].pc = "idle", Played \in Nat
  PROVE  /\ clock = 0 /\ last.evidence = "none" /\ last.disposition = "NULL"
         /\ record["op"] = NoRecord /\ lock["op"] = "none" /\ Prepared /\ Executed(0)
         /\ Played < First
<1>1. ~\E c \in Callers : FirstRun(c)
  BY DEF FirstRun, At
<1>2. "a" \in Callers
  BY DEF Callers
<1> QED BY <1>1, <1>2, EarlyFirst DEF AtFirst, At

LEMMA PrepareFollowed ==
  ASSUME Basics, Drive \/ Prepare \/ StartRun, AtFirst
  PROVE  AtFirst'
<1>1. PICK x : x = Plan[Played + 1]
  OBVIOUS
<1>2. /\ UNCHANGED <<contract, options, n, record, lock, executes, last>>
      /\ Played \in Nat /\ Played' = Played + 1 /\ Played + 1 \in 1..Len(Plan) /\ Len(Plan) \in Nat
      /\ Now' = Now /\ Driven /\ Plan' = Plan /\ Inputs
      /\ \A c \in Callers : caller[c].pc = "idle"
      /\ x.do = "run" => \A c \in Callers :
                           IF c = "a" \/ x.by = 2
                           THEN caller'[c].pc = "begin" /\ caller'[c].op = x.what
                           ELSE caller'[c].pc = "idle"
      /\ crashOn' = IF x.do = "crash" THEN x.what ELSE crashOn
      /\ clock' = clock + (IF x.do = "advance" THEN x.by ELSE 0)
  BY <1>1, HarnessDoes
<1>3. /\ x.do \in {"run", "advance", "expect", "crash"} => target' = target
      /\ x.do = "fault" =>
           /\ target'.mode = x.what /\ target'.applied = target.applied
           /\ target'.pending = target.pending /\ target'.held = target.held
           /\ target'.failRead = target.failRead
      /\ x.do = "failRead" =>
           /\ target'.mode = target.mode /\ target'.applied = target.applied
           /\ target'.pending = target.pending /\ target'.held = target.held
           /\ target'.failRead
  BY <1>1, HarnessDoes
<1>4. /\ clock = 0 /\ last.evidence = "none" /\ last.disposition = "NULL"
      /\ record["op"] = NoRecord /\ lock["op"] = "none" /\ Prepared /\ Executed(0) /\ Played < First
  BY <1>2, IdleAtFirst
<1>5. PICK i \in 1..Len(Plan) : i = Played + 1
  BY <1>2
<1>6. i <= First /\ Now \in Names /\ First \in {1, 2, 3, 4}
  BY <1>2, <1>4, <1>5, EarlyFirst, PlayedFits DEF Basics
<1>7. /\ x.do \in {"run", "fault", "failRead", "crash", "expect"}
      /\ IF x.do = "fault" THEN x.what = ModeAt(i) ELSE ModeAt(i) = ModeAt(i - 1)
      /\ IF x.do = "crash" THEN x.what = CrashFrom(i) ELSE CrashFrom(i) = CrashFrom(i - 1)
      /\ x.do = "failRead" <=> ReadFails /\ i + 1 = First
      /\ x.do = "run" /\ x.what = "op" <=> i = First
  BY <1>1, <1>2, <1>5, <1>6, Preparation
<1>8. /\ First' = First /\ Mode' = Mode /\ CrashAt' = CrashAt /\ (ReadFails' <=> ReadFails)
  BY <1>2, SameTable
<1>9. Prepared'
  <2>1. target.mode = ModeAt(i - 1) /\ crashOn = CrashFrom(i - 1)
        /\ (target.failRead <=> ReadFails /\ i >= First) /\ target.held = "none"
        /\ target.applied["op"] = 0 /\ ~target.pending["op"]
    BY <1>2, <1>4, <1>5 DEF Prepared, ModeAt, CrashFrom, Effects
  <2>2. target'.mode = ModeAt(i) /\ crashOn' = CrashFrom(i)
    BY <1>2, <1>3, <1>7, <2>1
  <2>3. /\ target'.held = "none" /\ target'.applied["op"] = 0 /\ ~target'.pending["op"]
        /\ target'.failRead <=> target.failRead \/ x.do = "failRead"
    BY <1>3, <1>7, <2>1
  <2>4. target'.failRead <=> ReadFails /\ i + 1 >= First
    BY <1>5, <1>6, <1>7, <2>1, <2>3
  <2> QED BY <1>2, <1>5, <1>8, <2>2, <2>3, <2>4 DEF Prepared, ModeAt, CrashFrom, Effects
<1>10. Executed(0)'
  BY <1>2, <1>4 DEF Executed
<1>11. Played' <= First' /\ (Played' = First' => \A c \in Callers : c = "a" \/ Plan'[Played'].by = 2 => caller'[c].pc = "begin")
  <2>1. Played' = i /\ i <= First /\ Plan'[Played'] = x
    BY <1>1, <1>2, <1>5, <1>6
  <2>2. i = First => x.do = "run"
    BY <1>7
  <2> QED BY <1>2, <1>8, <2>1, <2>2
<1>12. clock' = 0
  BY <1>2, <1>4, <1>7
<1> QED BY <1>2, <1>4, <1>9, <1>10, <1>11, <1>12 DEF AtFirst, At

\* Whose calls there are.
LEMMA CallPlaces ==
  ASSUME Basics, NEW c \in Callers, CallStep(c), NEW o, o = caller[c].op
  PROVE  /\ Driven /\ Inputs /\ Now \in Names /\ Played \in 1..Len(Plan) /\ Played \in Nat
         /\ First \in {1, 2, 3, 4} /\ o \in Ops
         /\ o = "op" => Played >= First
         /\ o # "op" => o = "neighbor" /\ Now = "neighbor-effect-isolation" /\ Played < First
         /\ Plan[Played].by = 2 => Now = "concurrent-same-identity" /\ Played = First
         /\ (\A d \in Callers : d # c => caller[d].pc = "idle") \/ Plan[Played].by = 2
         /\ UNCHANGED Running /\ UNCHANGED <<contract, options, n>> /\ Played' = Played
<1>1. /\ Played \in 1..Len(Plan) /\ Plan[Played].do = "run" /\ o = Plan[Played].what /\ Driven
      /\ c = "a" \/ Plan[Played].by = 2
      /\ Played \in Nat /\ UNCHANGED Running /\ Played' = Played
  BY CallBasics
<1>2. Inputs /\ Now \in Names /\ First \in {1, 2, 3, 4} /\ o \in Ops /\ Len(Plan) \in Nat
  BY <1>1, PlayedFits, EarlyFirst, CallerFields DEF Basics, TypeOK
<1>3. PICK i \in 1..Len(Plan) : i = Played
  BY <1>1
<1>4. Plan[i].do = "run" /\ Plan[i].what = o
  BY <1>1, <1>3
<1>5. i <= First =>
        /\ o = "op" => Played >= First
        /\ o # "op" => o = "neighbor" /\ Now = "neighbor-effect-isolation" /\ Played < First
        /\ Plan[Played].by = 2 => Now = "concurrent-same-identity" /\ Played = First
  <2>0. SUFFICES ASSUME i <= First
                 PROVE  /\ o = "op" => Played >= First
                        /\ o # "op" => o = "neighbor" /\ Now = "neighbor-effect-isolation" /\ Played < First
                        /\ Plan[Played].by = 2 => Now = "concurrent-same-identity" /\ Played = First
    OBVIOUS
  <2>1. /\ o = "op" <=> i = First
        /\ o = "neighbor" => Now = "neighbor-effect-isolation" /\ i = 1
        /\ Plan[i].by = 2 => Now = "concurrent-same-identity" /\ i = 1
    BY <1>1, <1>2, <1>4, <2>0, Preparation
  <2>2. /\ Now = "concurrent-same-identity" => First = 1
        /\ Now = "neighbor-effect-isolation" => First = 4
    BY ScenarioTable
  <2>3. o = "op" \/ o = "neighbor"
    BY <1>2 DEF Ops
  <2> QED BY <1>1, <1>2, <1>3, <2>0, <2>1, <2>2, <2>3
<1>6. i > First => o = "op" /\ Played >= First /\ Plan[Played].by # 2
  <2>1. i > First => o = "op" /\ Plan[i].by = 1
    BY <1>1, <1>2, <1>4, Afterwards
  <2> QED BY <1>1, <1>2, <1>3, <2>1
<1>7. (\A d \in Callers : d # c => caller[d].pc = "idle") \/ Plan[Played].by = 2
  <2>1. SUFFICES ASSUME Plan[Played].by # 2, NEW d \in Callers, d # c PROVE caller[d].pc = "idle"
    OBVIOUS
  <2>2. c = "a" /\ d # "a"
    BY <1>1, <2>1
  <2>3. caller[d].pc # "idle" => d = "a" \/ Plan[Played].by = 2
    BY CallsFit DEF At
  <2> QED BY <2>1, <2>2, <2>3
<1>8. UNCHANGED <<contract, options, n>>
  BY <1>1 DEF Running
<1>9. i <= First \/ i > First
  BY <1>2, <1>3
<1> QED BY <1>1, <1>2, <1>5, <1>6, <1>7, <1>8, <1>9

\* The run of the neighbor.
LEMMA NeighborCall ==
  ASSUME Basics, NEW c \in Callers, CallStep(c), caller[c].op = "neighbor", AtFirst, Plain
  PROVE  AtFirst'
<1>1. PICK o : o = caller[c].op
  OBVIOUS
<1>2. /\ Driven /\ Inputs /\ Played \in Nat /\ First \in {1, 2, 3, 4} /\ o = "neighbor"
      /\ Now = "neighbor-effect-isolation" /\ Played < First /\ Played' = Played
      /\ UNCHANGED Running /\ UNCHANGED <<contract, options, n>> /\ "op" # "neighbor" /\ "op" \in Ops
  BY <1>1, CallPlaces DEF Ops
<1>3. /\ clock = 0 /\ last.evidence = "none" /\ last.disposition = "NULL"
      /\ record["op"] = NoRecord /\ lock["op"] = "none" /\ Prepared /\ Executed(0)
  BY <1>2 DEF AtFirst, FirstRun
<1>4. First = 4 /\ Mode = "loseRequest" /\ CrashAt = "none" /\ ~ReadFails
  BY <1>2, ScenarioTable
<1>5. /\ First' = First /\ Mode' = Mode /\ CrashAt' = CrashAt /\ (ReadFails' <=> ReadFails) /\ Now' = Now
  BY <1>2, SameTable
<1>6. record'["op"] = record["op"] /\ lock'["op"] = lock["op"]
  BY <1>1, <1>2, StageFrame
<1>o. /\ caller[c].pc \in {"begin", "reserve", "execute", "observe", "save"}
      /\ caller[c].pc = "begin" => BeginOutcome(c, o)
      /\ caller[c].pc = "reserve" => ReserveOutcome(c, o)
      /\ caller[c].pc = "execute" => ExecuteOutcome(c, o)
      /\ caller[c].pc = "observe" => ObserveOutcome(c, o)
      /\ caller[c].pc = "save" => SaveOutcome(c, o)
  BY <1>1, CallOutcome
<1>7. last' = last
  <2>1. /\ caller[c].pc = "begin" => last' = last
        /\ caller[c].pc = "save" => last' = last
    BY <1>2, <1>o DEF BeginOutcome, SaveOutcome
  <2> QED BY <1>o, <2>1 DEF ReserveOutcome, ExecuteOutcome, ObserveOutcome
<1>8. /\ target'.applied["op"] = target.applied["op"] /\ (target'.pending["op"] <=> target.pending["op"])
      /\ target.mode = "normal" => target'.held = target.held /\ target'.mode = "normal"
      /\ ~target.failRead => ~target'.failRead
  <2>1. CASE caller[c].pc = "execute"
    <3>1. ExecuteOutcome(c, o) /\ contract.writes = "once"
      BY <1>o, <2>1 DEF Plain
    <3> QED BY <1>2, <3>1 DEF ExecuteOutcome
  <2>2. CASE caller[c].pc # "execute"
    <3>1. /\ caller[c].pc = "begin" => target' = target
          /\ caller[c].pc = "reserve" => target' = target
          /\ caller[c].pc = "save" => target' = target
          /\ caller[c].pc = "observe" =>
               /\ target'.applied = target.applied /\ target'.pending = target.pending
               /\ target'.mode = target.mode /\ target'.held = target.held /\ ~target'.failRead
      BY <1>o DEF BeginOutcome, ReserveOutcome, ObserveOutcome, SaveOutcome
    <3> QED BY <1>o, <2>2, <3>1
  <2> QED BY <2>1, <2>2
<1>9. crashOn = "none" => crashOn' = "none"
  <2>1. /\ caller[c].pc = "begin" => crashOn' = crashOn
        /\ caller[c].pc = "reserve" /\ crashOn = "none" => crashOn' = crashOn
        /\ caller[c].pc = "execute" => crashOn' = crashOn
        /\ caller[c].pc = "observe" => crashOn' = crashOn
        /\ caller[c].pc = "save" /\ crashOn = "none" => crashOn' = crashOn
    BY <1>o DEF BeginOutcome, ReserveOutcome, ExecuteOutcome, ObserveOutcome, SaveOutcome
  <2> QED BY <1>o, <2>1
<1>10. /\ target.mode = IF Played = 3 THEN "loseRequest" ELSE "normal"
       /\ ~target.failRead /\ crashOn = "none" /\ target.held = "none"
       /\ target.applied["op"] = 0 /\ ~target.pending["op"]
  BY <1>2, <1>3, <1>4 DEF Prepared, Effects
<1>11. Played # 3
  <2>1. PICK i \in 1..Len(Plan) : i = Played
    BY <1>1, CallPlaces
  <2>2. Plan[i].do = "run"
    BY <2>1, CallBasics
  <2> QED BY <1>2, <2>1, <2>2, NeighborKinds
<1>12. Prepared'
  BY <1>2, <1>4, <1>5, <1>8, <1>9, <1>10, <1>11 DEF Prepared, Effects
<1>13. Executed(0)'
  BY <1>2, <1>5 DEF Executed
<1>14. clock' = 0
  BY <1>2, <1>3 DEF Running
<1> QED BY <1>2, <1>3, <1>5, <1>6, <1>7, <1>12, <1>13, <1>14 DEF AtFirst

\* The record of the first attempt while it is under way.
LEMMA SentFields ==
  /\ Sent.attempts # << >> /\ Len(Sent.attempts) = 1 /\ Sent.status = "OPEN"
  /\ Latest(Sent) = Reserved(0, contract.window)
  /\ Latest(Sent).status = "RESERVED" /\ ~Latest(Sent).ok /\ Latest(Sent).startedAt = 0
  /\ Sent = [version |-> New.version + 1, status |-> New.status, reviewReason |-> New.reviewReason,
             attempts |-> Append(New.attempts, Reserved(0, contract.window)),
             review |-> New.review, episode |-> New.episode, blockedBy |-> New.blockedBy]
<1>1. /\ New.version = 0 /\ New.status = "OPEN" /\ New.attempts = << >>
      /\ New = [version |-> 0, status |-> "OPEN", reviewReason |-> FALSE, attempts |-> << >>,
                review |-> NoReview, episode |-> NoEpisode, blockedBy |-> NoBlock]
  BY DEF New, NewRecord
<1>2. PICK a : a = Reserved(0, contract.window)
  OBVIOUS
<1>3. a.status = "RESERVED" /\ ~a.ok /\ a.startedAt = 0
  BY <1>2 DEF Reserved
<1>4. Sent = [version |-> 1, status |-> "OPEN", reviewReason |-> FALSE, attempts |-> <<a>>,
              review |-> NoReview, episode |-> NoEpisode, blockedBy |-> NoBlock]
  <2>1. PICK q : q = New
    OBVIOUS
  <2>2. Sent = [q EXCEPT !.version = 1, !.attempts = <<a>>]
    BY <1>2, <2>1 DEF Sent
  <2>3. q = [version |-> 0, status |-> "OPEN", reviewReason |-> FALSE, attempts |-> << >>,
             review |-> NoReview, episode |-> NoEpisode, blockedBy |-> NoBlock]
    BY <1>1, <2>1
  <2> QED BY <2>2, <2>3
<1>5. Append(<< >>, a) = <<a>> /\ Len(<<a>>) = 1 /\ <<a>>[1] = a /\ <<a>> # << >>
  OBVIOUS
<1>6. Sent.attempts = <<a>> /\ Sent.status = "OPEN"
  BY <1>4
<1>7. Latest(Sent) = a
  <2>1. PICK l : l = Sent.attempts
    OBVIOUS
  <2>2. Latest(Sent) = l[Len(l)]
    BY <2>1 DEF Latest
  <2>3. l = <<a>>
    BY <1>6, <2>1
  <2> QED BY <1>5, <2>2, <2>3
<1> QED BY <1>1, <1>2, <1>3, <1>4, <1>5, <1>6, <1>7

\* The first run begins, reserves, executes, observes and saves.
LEMMA FirstBegins ==
  ASSUME Basics, NEW c \in Callers, CallStep(c), caller[c].op = "op", AtFirst,
         ~\E d \in Callers : FirstRun(d)
  PROVE  AtFirst'
<1>1. PICK o : o = caller[c].op
  OBVIOUS
<1>2. /\ Inputs /\ Played \in Nat /\ First \in {1, 2, 3, 4} /\ o = "op"
      /\ Played >= First /\ Played' = Played /\ Now \in Names
      /\ UNCHANGED Running /\ UNCHANGED <<contract, options, n>> /\ "op" \in Ops
  BY <1>1, CallPlaces
<1>3. /\ clock = 0 /\ last.evidence = "none" /\ last.disposition = "NULL"
      /\ record["op"] = NoRecord /\ lock["op"] = "none" /\ Prepared /\ Executed(0) /\ Played = First
  BY <1>2 DEF AtFirst
<1>4. caller[c].pc = "begin"
  <2>1. caller[c].pc \in Working => lock["op"] = c
    BY <1>1, <1>2, StageFrame
  <2>2. caller[c].pc \in {"begin", "reserve", "execute", "observe", "save"} /\ c # "none"
    BY <1>1, CallOutcome DEF Callers
  <2> QED BY <1>3, <2>1, <2>2 DEF Working
<1>5. BeginOutcome(c, o) /\ record[o] \in Record /\ RecordFits(record[o]) /\ clock \in Nat
  BY <1>1, <1>4, CallOutcome, StageFrame
<1>6. NextStep(record[o], clock) = "create" /\ NoRecord.status = "NONE"
  BY <1>2, <1>3, <1>5, NextStepFields, NewFits
<1>7. /\ UNCHANGED <<target, crashOn, executes>> /\ record'["op"] = New /\ lock'["op"] = c
      /\ last' = last /\ caller'[c].pc = "reserve"
  <2>1. NoRecord.status # "OPEN"
    BY <1>6
  <2> QED BY <1>2, <1>3, <1>5, <1>6, <2>1 DEF BeginOutcome
<1>8. /\ First' = First /\ Mode' = Mode /\ CrashAt' = CrashAt /\ (ReadFails' <=> ReadFails) /\ Now' = Now
  BY <1>2, SameTable
<1>9. Prepared' /\ Executed(0)' /\ clock' = 0
  BY <1>2, <1>3, <1>7, <1>8 DEF Prepared, Executed, Effects, Running
<1>10. FirstRun(c)'
  BY <1>2, <1>3, <1>7, <1>8, <1>9 DEF FirstRun, At, New
<1> QED BY <1>3, <1>7, <1>9, <1>10 DEF AtFirst

\* What the first run leaves for others to read.
LEMMA FirstAnswers ==
  ASSUME Basics, NEW d \in Callers, FirstRun(d)
  PROVE  /\ record["op"] \in {New, Sent}
         /\ Answer(record["op"]).evidence = "none" /\ Answer(record["op"]).disposition = "NULL"
         /\ lock["op"] = d /\ Played = First
<1>1. record["op"] \in {New, Sent} /\ lock["op"] = d /\ Played = First
  BY DEF FirstRun
<1>2. record["op"] \in Record /\ RecordFits(record["op"])
  BY DEF Basics, TypeOK, RecordsFit, Ops
<1>3. New.attempts = << >> /\ Latest(Sent).status = "RESERVED"
  BY SentFields, NewFits
<1> QED BY <1>1, <1>2, <1>3, AnswerFields

LEMMA FirstOther ==
  ASSUME Basics, NEW c \in Callers, CallStep(c), caller[c].op = "op", AtFirst,
         NEW d \in Callers, d # c, FirstRun(d)
  PROVE  AtFirst'
<1>1. PICK o : o = caller[c].op
  OBVIOUS
<1>2. /\ Inputs /\ Played \in Nat /\ o = "op" /\ Played' = Played
      /\ UNCHANGED Running /\ UNCHANGED <<contract, options, n>> /\ "op" \in Ops
  BY <1>1, CallPlaces
<1>3. clock = 0 /\ last.evidence = "none" /\ last.disposition = "NULL"
  BY DEF AtFirst
<1>4. caller[c].pc = "begin" /\ lock[o] # "none"
  <2>1. caller[c].pc \in Working => lock["op"] = c
    BY <1>1, <1>2, StageFrame
  <2>2. caller[c].pc \in {"begin", "reserve", "execute", "observe", "save"} /\ d # "none"
    BY <1>1, CallOutcome DEF Callers
  <2>3. lock["op"] = d
    BY FirstAnswers
  <2> QED BY <1>2, <2>1, <2>2, <2>3 DEF Working
<1>5. BeginOutcome(c, o)
  BY <1>1, <1>4, CallOutcome
<1>6. /\ UNCHANGED <<target, crashOn, executes>> /\ record' = record /\ lock' = lock
      /\ last' = Answer(record["op"])
  BY <1>2, <1>4, <1>5 DEF BeginOutcome
<1>7. caller'[d] = caller[d]
  BY <1>1, StageFrame
<1>8. last'.evidence = "none" /\ last'.disposition = "NULL"
  BY <1>6, FirstAnswers
<1>9. /\ First' = First /\ Mode' = Mode /\ CrashAt' = CrashAt /\ (ReadFails' <=> ReadFails) /\ Now' = Now
      /\ Sent' = Sent /\ (Answered' <=> Answered) /\ clock' = 0
  BY <1>2, <1>3, SameTable DEF Running
<1>10. /\ (Prepared' <=> Prepared) /\ (Written' <=> Written)
       /\ (Executed(0)' <=> Executed(0)) /\ (Executed(1)' <=> Executed(1))
       /\ Evidence(Answered, ReadFails)' = Evidence(Answered, ReadFails)
  BY <1>2, <1>6, <1>9 DEF Prepared, Written, Executed, Evidence, Effects
<1>11. FirstRun(d)'
  BY <1>2, <1>6, <1>7, <1>9, <1>10 DEF FirstRun, At
<1> QED BY <1>8, <1>9, <1>11 DEF AtFirst

\* The end of the first run.
LEMMA FirstEnds ==
  ASSUME Basics, NEW c \in Callers, CallStep(c), caller[c].op = "op", Played = First,
         caller'[c].pc = "idle", lock'["op"] = "none", last' = Answer(record'["op"]),
         After(Played)'
  PROVE  AfterFirst'
<1>1. PICK o : o = caller[c].op
  OBVIOUS
<1>2. /\ Inputs /\ Played \in Nat /\ o = "op" /\ Played' = Played /\ Now \in Names
      /\ (\A d \in Callers : d # c => caller[d].pc = "idle") \/ Plan[Played].by = 2
      /\ UNCHANGED Running /\ UNCHANGED <<contract, options, n>>
  BY <1>1, CallPlaces
<1>3. /\ First' = First /\ Now' = Now /\ Plan' = Plan
  BY <1>2, SameTable
<1>4. ClockFits'
  <2>1. Now = "late-landing" => First = 2
    BY ScenarioTable
  <2>2. ~(Played' > First') /\ (Now' = "late-landing" => Played' = 2)
    BY <1>2, <1>3, <2>1, EarlyFirst
  <2> QED BY <2>2 DEF ClockFits
<1>5. Idle' \/ Plan'[Played'].by = 2
  <2>1. \A d \in Callers : d # c => caller'[d] = caller[d]
    BY <1>1, StageFrame
  <2> QED BY <1>2, <1>3, <2>1 DEF Idle
<1>6. Played' >= First' /\ After(IF Idle \/ Played = First THEN Played ELSE Played - 1)'
  <2>1. Played' = First' /\ Played' \in Nat
    BY <1>2, <1>3
  <2> QED BY <2>1
<1> QED BY <1>4, <1>5, <1>6 DEF AfterFirst, Op

\* The answer before any.
LEMMA AnswerOfSent ==
  ASSUME TypeOK, RecordsFit, last.evidence = "none", last.disposition = "NULL", record["op"] = Sent
  PROVE  last = Answer(record["op"])
<1>1. record["op"] \in Record /\ RecordFits(record["op"])
  BY DEF TypeOK, RecordsFit, Ops
<1>2. Answer(record["op"]).evidence = "none" /\ Answer(record["op"]).disposition = "NULL"
  BY <1>1, SentFields, AnswerFields
<1>3. last = [evidence |-> last.evidence, disposition |-> last.disposition]
  BY DEF TypeOK
<1>4. Answer(record["op"]) = [evidence |-> Answer(record["op"]).evidence,
                              disposition |-> Answer(record["op"]).disposition]
  BY DEF Answer
<1> QED BY <1>2, <1>3, <1>4

LEMMA FirstReserve ==
  ASSUME Basics, NEW c \in Callers, CallStep(c), caller[c].op = "op", AtFirst, Plain,
         caller[c].pc = "reserve", record["op"] = New, Prepared, Executed(0), Played = First
  PROVE  AtFirst' \/ AfterFirst'
<1>1. PICK o : o = caller[c].op
  OBVIOUS
<1>2. /\ Inputs /\ Played \in Nat /\ o = "op" /\ Played' = Played /\ Now \in Names
      /\ UNCHANGED Running /\ UNCHANGED <<contract, options, n>> /\ "op" \in Ops
  BY <1>1, CallPlaces
<1>3. clock = 0 /\ last.evidence = "none" /\ last.disposition = "NULL" /\ clock' = 0
  BY <1>2 DEF AtFirst, Running
<1>4. ReserveOutcome(c, o)
  BY <1>1, CallOutcome
<1>5. /\ UNCHANGED <<target, executes, last>> /\ record'[o] = Sent
      /\ \/ crashOn = "afterReserve" /\ crashOn' = "none" /\ lock'[o] = "none" /\ caller'[c].pc = "idle"
         \/ /\ crashOn # "afterReserve" /\ crashOn' = crashOn /\ lock'[o] = c
            /\ caller'[c].pc = "execute"
  BY <1>2, <1>3, <1>4, SentFields DEF ReserveOutcome
<1>6. /\ First' = First /\ Mode' = Mode /\ CrashAt' = CrashAt /\ (ReadFails' <=> ReadFails) /\ Now' = Now
      /\ Sent' = Sent /\ InFlightUntil' = InFlightUntil
  BY <1>2, SameTable
<1>7. crashOn = CrashAt /\ target.mode = Mode /\ (target.failRead <=> ReadFails)
      /\ target.held = "none" /\ Effects = 0 /\ ~target.pending["op"]
  BY <1>2, EarlyFirst DEF Prepared
<1>8. CASE crashOn = "afterReserve"
  <2>1. /\ Now = "crash-before-execute" /\ First = 2 /\ Mode = "normal" /\ InFlightUntil = 4
        /\ ~ReadFails
    BY <1>2, <1>7, <1>8, ScenarioTable, ScenarioNames
  <2>2. TypeOK' /\ RecordsFit'
    BY CallBasics DEF Basics
  <2>3. last' = Answer(record'["op"])
    <3>1. (TypeOK /\ RecordsFit /\ last.evidence = "none" /\ last.disposition = "NULL" /\ record["op"] = Sent
             => last = Answer(record["op"]))'
      BY AnswerOfSent, PTL
    <3> QED BY <1>2, <1>3, <1>5, <1>6, <2>2, <3>1
  <2>4. TargetFits(Played)'
    BY <1>2, <1>5, <1>6, <1>7, <1>8, <2>1 DEF TargetFits, Calm
  <2>5. InFlight'
    BY <1>2, <1>5, <1>6, <1>7, <1>8, SentFields DEF InFlight, Op
  <2>6. Settled(Played)'
    BY <1>2, <1>5, <1>6, <1>7, <2>1, <2>4, <2>5 DEF Settled, Executed, Effects
  <2>7. After(Played)'
    BY <1>6, <2>1, <2>6 DEF After
  <2> QED BY <1>2, <1>5, <1>8, <2>3, <2>7, FirstEnds
<1>9. CASE crashOn # "afterReserve"
  <2>1. Prepared' /\ Executed(0)'
    BY <1>2, <1>5, <1>6, <1>9 DEF Prepared, Executed, Effects
  <2>2. CrashAt' # "afterReserve" /\ record'["op"] = Sent' /\ lock'["op"] = c /\ caller'[c].pc = "execute"
        /\ Played' = First'
    BY <1>2, <1>5, <1>6, <1>7, <1>9
  <2>3. FirstRun(c)'
    BY <2>1, <2>2 DEF FirstRun, At
  <2> QED BY <1>3, <1>5, <2>3 DEF AtFirst
<1> QED BY <1>8, <1>9

LEMMA FirstExecute ==
  ASSUME Basics, NEW c \in Callers, CallStep(c), caller[c].op = "op", AtFirst, Plain,
         caller[c].pc = "execute", record["op"] = Sent, Prepared, Executed(0), Played = First,
         CrashAt # "afterReserve"
  PROVE  AtFirst'
<1>1. PICK o : o = caller[c].op
  OBVIOUS
<1>2. /\ Inputs /\ Played \in Nat /\ o = "op" /\ Played' = Played /\ Now \in Names
      /\ UNCHANGED Running /\ UNCHANGED <<contract, options, n>> /\ "op" \in Ops
  BY <1>1, CallPlaces
<1>3. clock = 0 /\ last.evidence = "none" /\ last.disposition = "NULL" /\ clock' = 0
      /\ contract.writes = "once"
  BY <1>2 DEF AtFirst, Running, Plain
<1>4. ExecuteOutcome(c, o)
  BY <1>1, CallOutcome
<1>5. /\ executes' = executes + 1 /\ UNCHANGED <<record, lock, crashOn, last>> /\ lock["op"] = c
      /\ caller'[c].pc = "observe"
      /\ target'.mode = "normal" /\ target'.failRead = target.failRead
      /\ caller'[c].ok <=> target.mode \in {"normal", "pending"}
      /\ target'.applied["op"] =
           target.applied["op"] + IF target.mode \in {"normal", "loseResponse"} THEN 1 ELSE 0
      /\ target'.held = IF target.mode = "hold" THEN "op" ELSE target.held
      /\ target'.pending["op"] <=> (target.pending["op"] \/ target.mode = "pending")
  BY <1>2, <1>3, <1>4 DEF ExecuteOutcome
<1>6. /\ First' = First /\ Mode' = Mode /\ CrashAt' = CrashAt /\ (ReadFails' <=> ReadFails) /\ Now' = Now
      /\ Sent' = Sent /\ (Answered' <=> Answered)
  BY <1>2, SameTable
<1>7. crashOn = CrashAt /\ target.mode = Mode /\ (target.failRead <=> ReadFails)
      /\ target.held = "none" /\ target.applied["op"] = 0 /\ ~target.pending["op"]
  BY <1>2, EarlyFirst DEF Prepared, Effects
<1>8. Written'
  BY <1>5, <1>6, <1>7 DEF Written, Effects
<1>9. Executed(1)'
  BY <1>5, <1>6 DEF Executed
<1>10. FirstRun(c)'
  <2>1. /\ lock'["op"] = c /\ Played' = First' /\ caller'[c].pc = "observe" /\ record'["op"] = Sent'
        /\ (caller'[c].ok <=> Answered') /\ (target'.failRead <=> ReadFails') /\ crashOn' = CrashAt'
        /\ CrashAt' # "afterReserve"
    BY <1>2, <1>5, <1>6, <1>7 DEF Answered
  <2> QED BY <1>8, <1>9, <2>1 DEF FirstRun, At
<1> QED BY <1>3, <1>5, <1>10 DEF AtFirst

\* What an observation of the operation shows while the neighbor's effect is not seen.
LEMMA Observed ==
  ASSUME Basics, NEW c \in Callers, CallStep(c), caller[c].op = "op", caller[c].pc = "observe",
         Followed, Now # "neighbor-effect-isolation" => NeighborUntouched,
         target.failRead \/ Effects \in {0, 1}
  PROVE  /\ caller'[c].evidence = Evidence(caller[c].ok, target.failRead)
         /\ UNCHANGED <<record, lock, crashOn, executes, last>> /\ lock["op"] = c
         /\ caller'[c].pc = "save" /\ (caller'[c].ok <=> caller[c].ok)
         /\ target'.applied = target.applied /\ target'.pending = target.pending
         /\ target'.mode = target.mode /\ target'.held = target.held /\ ~target'.failRead
<1>1. PICK o : o = caller[c].op
  OBVIOUS
<1>2. ObserveOutcome(c, o) /\ o = "op"
  BY <1>1, CallOutcome
<1>3. /\ UNCHANGED <<record, lock, crashOn, executes, last>> /\ lock["op"] = c
      /\ caller'[c].pc = "save" /\ (caller'[c].ok <=> caller[c].ok)
      /\ target'.applied = target.applied /\ target'.pending = target.pending
      /\ target'.mode = target.mode /\ target'.held = target.held /\ ~target'.failRead
  BY <1>2 DEF ObserveOutcome
<1>4. contract.trusts = "observation"
      /\ (contract.scope = "own"
          \/ \A p \in Ops : p # "op" => target.applied[p] = 0 /\ ~target.pending[p])
  <2>1. Honest \/ Now # "neighbor-effect-isolation"
    BY DEF Followed
  <2>2. Now # "neighbor-effect-isolation" =>
          \A p \in Ops : p # "op" => target.applied[p] = 0 /\ ~target.pending[p]
    BY DEF NeighborUntouched, Ops
  <2> QED BY <2>1, <2>2 DEF Honest, Followed, Plain
<1>5. /\ target.failRead => caller'[c].evidence = contract.onFailedRead
      /\ ~target.failRead /\ target.pending["op"] => caller'[c].evidence = contract.onPending
      /\ ~target.failRead /\ ~target.pending["op"] =>
            caller'[c].evidence =
              IF target.applied["op"] = 0
              THEN IF contract.cautious /\ ~caller[c].ok THEN "UNKNOWN" ELSE "NOT_APPLIED"
              ELSE IF target.applied["op"] = 1 \/ contract.scope = "all" THEN "APPLIED"
              ELSE "CONFLICTED"
  BY <1>2, <1>4 DEF ObserveOutcome
<1>6. caller'[c].evidence = Evidence(caller[c].ok, target.failRead)
  <2>1. target.failRead \in BOOLEAN /\ target.pending["op"] \in BOOLEAN
    BY DEF Basics, TypeOK, Target, Ops
  <2> QED BY <1>5, <2>1 DEF Evidence, Effects
<1> QED BY <1>3, <1>6

LEMMA FirstObserve ==
  ASSUME Basics, NEW c \in Callers, CallStep(c), caller[c].op = "op", AtFirst, Followed,
         Now # "neighbor-effect-isolation" => NeighborUntouched,
         caller[c].pc = "observe", record["op"] = Sent, Written, Executed(1), Played = First,
         caller[c].ok <=> Answered, target.failRead <=> ReadFails, crashOn = CrashAt, CrashAt # "afterReserve"
  PROVE  AtFirst'
<1>1. PICK o : o = caller[c].op
  OBVIOUS
<1>2. /\ Inputs /\ Played \in Nat /\ o = "op" /\ Played' = Played /\ Now \in Names
      /\ UNCHANGED Running /\ UNCHANGED <<contract, options, n>> /\ "op" \in Ops
  BY <1>1, CallPlaces
<1>3. clock = 0 /\ last.evidence = "none" /\ last.disposition = "NULL" /\ clock' = 0
  BY <1>2 DEF AtFirst, Running
<1>4. Effects \in {0, 1}
  BY DEF Written
<1>5. /\ caller'[c].evidence = Evidence(caller[c].ok, target.failRead)
      /\ UNCHANGED <<record, lock, crashOn, executes, last>> /\ lock["op"] = c
      /\ caller'[c].pc = "save" /\ (caller'[c].ok <=> caller[c].ok)
      /\ target'.applied = target.applied /\ target'.pending = target.pending
      /\ target'.mode = target.mode /\ target'.held = target.held /\ ~target'.failRead
  BY <1>4, Observed
<1>6. /\ First' = First /\ Mode' = Mode /\ CrashAt' = CrashAt /\ (ReadFails' <=> ReadFails) /\ Now' = Now
      /\ Sent' = Sent /\ (Answered' <=> Answered)
  BY <1>2, SameTable
<1>7. Written' /\ Executed(1)'
  BY <1>2, <1>5, <1>6 DEF Written, Executed, Effects
<1>8. Evidence(Answered, ReadFails)' = Evidence(caller[c].ok, target.failRead)
  <2>1. contract' = contract
    BY <1>2
  <2> QED BY <1>5, <1>6, <2>1 DEF Evidence, Effects
<1>9. FirstRun(c)'
  <2>1. /\ lock'["op"] = c /\ Played' = First' /\ caller'[c].pc = "save" /\ record'["op"] = Sent'
        /\ (caller'[c].ok <=> Answered') /\ ~target'.failRead /\ crashOn' = CrashAt'
        /\ CrashAt' # "afterReserve" /\ caller'[c].evidence = Evidence(Answered, ReadFails)'
    BY <1>2, <1>5, <1>6, <1>8
  <2> QED BY <1>7, <2>1 DEF FirstRun, At
<1> QED BY <1>3, <1>5, <1>9 DEF AtFirst

\* What the resolution of an attempt of the operation leaves.
LEMMA SaveOp ==
  ASSUME Basics, NEW c \in Callers, CallStep(c), caller[c].op = "op", caller[c].pc = "save",
         crashOn # "onResolve"
  PROVE  /\ UNCHANGED <<target, executes>> /\ crashOn' = crashOn /\ lock["op"] = c
         /\ record["op"].status = "OPEN" /\ Resolved(record'["op"])
         /\ Len(record'["op"].attempts) = Len(record["op"].attempts)
         /\ Latest(record'["op"]).ok <=> caller[c].ok
         /\ Latest(record'["op"]).startedAt = Latest(record["op"]).startedAt
         /\ caller[c].evidence = "APPLIED" => Is(record'["op"], "CLOSED", "APPLIED", "COMPLETE")
         /\ caller[c].evidence = "PENDING" => Is(record'["op"], "OPEN", "PENDING", "NULL")
         /\ caller[c].evidence = "UNKNOWN" => Is(record'["op"], "CLOSED", "UNKNOWN", "INVESTIGATE")
         /\ caller[c].evidence = "NOT_APPLIED" =>
              IF contract.retryOnNotApplied /\ Len(record["op"].attempts) < contract.maxAttempts
                 /\ (caller[c].ok \/ Declared)
              THEN /\ Is(record'["op"], "OPEN", "NOT_APPLIED", "RETRY")
                   /\ Latest(record'["op"]).retryNotBefore =
                        IF ~caller[c].ok /\ Declared
                           /\ clock < Latest(record["op"]).startedAt + contract.window
                        THEN Latest(record["op"]).startedAt + contract.window ELSE NoTime
              ELSE Is(record'["op"], "CLOSED", "NOT_APPLIED", "INVESTIGATE")
         /\ \/ /\ RetriesNow(record["op"], record'["op"]) /\ lock' = lock /\ last' = last
               /\ caller'[c].pc = "reserve"
            \/ /\ ~RetriesNow(record["op"], record'["op"]) /\ lock'["op"] = "none"
               /\ caller'[c].pc = "idle" /\ last' = Answer(record'["op"])
<1>1. PICK o : o = caller[c].op
  OBVIOUS
<1>2. SaveOutcome(c, o) /\ o = "op"
  BY <1>1, CallOutcome
<1>3. /\ UNCHANGED <<target, executes>> /\ lock[o] = c
      /\ record[o].attempts # << >> /\ record[o].status = "OPEN" /\ crashOn' = crashOn
      /\ Resolved(record'[o]) /\ Len(record'[o].attempts) = Len(record[o].attempts)
      /\ record'[o].status = StatusAfter(caller[c].evidence, Latest(record'[o]).disposition)
      /\ Latest(record'[o]).ok <=> caller[c].ok
      /\ Latest(record'[o]).evidence = caller[c].evidence
      /\ Latest(record'[o]).startedAt = Latest(record[o]).startedAt
      /\ caller[c].evidence = "APPLIED" => Latest(record'[o]).disposition = "COMPLETE"
      /\ caller[c].evidence = "PENDING" => Latest(record'[o]).disposition = "NULL"
      /\ caller[c].evidence = "UNKNOWN" => Latest(record'[o]).disposition = "INVESTIGATE"
  BY <1>2 DEF SaveOutcome
<1>4. caller[c].evidence = "NOT_APPLIED" =>
             LET retries == contract.retryOnNotApplied
                              /\ Len(record[o].attempts) < contract.maxAttempts
             IN  /\ Latest(record'[o]).disposition =
                      IF retries /\ (caller[c].ok \/ Declared) THEN "RETRY" ELSE "INVESTIGATE"
                 /\ Latest(record'[o]).retryNotBefore =
                      IF retries /\ ~caller[c].ok /\ Declared
                         /\ clock < Latest(record[o]).startedAt + contract.window
                      THEN Latest(record[o]).startedAt + contract.window ELSE NoTime
  BY <1>2 DEF SaveOutcome
<1>5. \/ /\ RetriesNow(record[o], record'[o]) /\ lock' = lock /\ last' = last
         /\ caller'[c].pc = "reserve"
      \/ /\ ~RetriesNow(record[o], record'[o]) /\ lock'[o] = "none"
         /\ caller'[c].pc = "idle" /\ last' = Answer(record'[o])
  BY <1>2 DEF SaveOutcome
<1>6. /\ caller[c].evidence = "APPLIED" => Is(record'[o], "CLOSED", "APPLIED", "COMPLETE")
      /\ caller[c].evidence = "PENDING" => Is(record'[o], "OPEN", "PENDING", "NULL")
      /\ caller[c].evidence = "UNKNOWN" => Is(record'[o], "CLOSED", "UNKNOWN", "INVESTIGATE")
  BY <1>3 DEF Is, StatusAfter
<1>7. caller[c].evidence = "NOT_APPLIED" =>
              IF contract.retryOnNotApplied /\ Len(record[o].attempts) < contract.maxAttempts
                 /\ (caller[c].ok \/ Declared)
              THEN /\ Is(record'[o], "OPEN", "NOT_APPLIED", "RETRY")
                   /\ Latest(record'[o]).retryNotBefore =
                        IF ~caller[c].ok /\ Declared
                           /\ clock < Latest(record[o]).startedAt + contract.window
                        THEN Latest(record[o]).startedAt + contract.window ELSE NoTime
              ELSE Is(record'[o], "CLOSED", "NOT_APPLIED", "INVESTIGATE")
  <2>1. SUFFICES ASSUME caller[c].evidence = "NOT_APPLIED"
                 PROVE  IF contract.retryOnNotApplied /\ Len(record[o].attempts) < contract.maxAttempts
                           /\ (caller[c].ok \/ Declared)
                        THEN /\ Is(record'[o], "OPEN", "NOT_APPLIED", "RETRY")
                             /\ Latest(record'[o]).retryNotBefore =
                                  IF ~caller[c].ok /\ Declared
                                     /\ clock < Latest(record[o]).startedAt + contract.window
                                  THEN Latest(record[o]).startedAt + contract.window ELSE NoTime
                        ELSE Is(record'[o], "CLOSED", "NOT_APPLIED", "INVESTIGATE")
    OBVIOUS
  <2>2. Latest(record'[o]).disposition =
          IF contract.retryOnNotApplied /\ Len(record[o].attempts) < contract.maxAttempts
             /\ (caller[c].ok \/ Declared) THEN "RETRY" ELSE "INVESTIGATE"
    BY <1>4, <2>1
  <2>3. contract.retryOnNotApplied /\ Len(record[o].attempts) < contract.maxAttempts =>
          Latest(record'[o]).retryNotBefore =
            IF ~caller[c].ok /\ Declared
               /\ clock < Latest(record[o]).startedAt + contract.window
            THEN Latest(record[o]).startedAt + contract.window ELSE NoTime
    BY <1>4, <2>1
  <2> QED BY <1>3, <2>1, <2>2, <2>3 DEF Is, StatusAfter
<1>8. /\ record["op"].status = "OPEN" /\ Resolved(record'["op"])
      /\ Len(record'["op"].attempts) = Len(record["op"].attempts)
      /\ Latest(record'["op"]).ok <=> caller[c].ok
      /\ Latest(record'["op"]).startedAt = Latest(record["op"]).startedAt
  BY <1>2, <1>3
<1> QED BY <1>2, <1>3, <1>5, <1>6, <1>7, <1>8

\* Where the operation is after its first run, if that resolved it.
LEMMA FirstResolved ==
  ASSUME Basics, Followed, NEW c \in Callers, CallStep(c), caller[c].op = "op",
         caller[c].pc = "save", crashOn = "none", CrashAt = "none", record["op"] = Sent, Written,
         caller[c].ok <=> Answered, caller[c].evidence = Evidence(Answered, ReadFails),
         ~target.failRead, Executed(1), Played = First, clock = 0, Now \in Names
  PROVE  After(Played)'
<1>1. /\ UNCHANGED <<target, executes>> /\ crashOn' = crashOn
      /\ Len(record'["op"].attempts) = 1 /\ Resolved(record'["op"])
      /\ Latest(record'["op"]).ok <=> caller[c].ok
      /\ Latest(record'["op"]).startedAt = 0
      /\ caller[c].evidence = "APPLIED" => Is(record'["op"], "CLOSED", "APPLIED", "COMPLETE")
      /\ caller[c].evidence = "PENDING" => Is(record'["op"], "OPEN", "PENDING", "NULL")
      /\ caller[c].evidence = "UNKNOWN" => Is(record'["op"], "CLOSED", "UNKNOWN", "INVESTIGATE")
      /\ caller[c].evidence = "NOT_APPLIED" =>
              IF contract.retryOnNotApplied /\ 1 < contract.maxAttempts
                 /\ (caller[c].ok \/ Declared)
              THEN /\ Is(record'["op"], "OPEN", "NOT_APPLIED", "RETRY")
                   /\ Latest(record'["op"]).retryNotBefore =
                        IF ~caller[c].ok /\ Declared /\ clock < 0 + contract.window
                        THEN 0 + contract.window ELSE NoTime
              ELSE Is(record'["op"], "CLOSED", "NOT_APPLIED", "INVESTIGATE")
  <2>1. Len(Sent.attempts) = 1 /\ Latest(Sent).startedAt = 0
    BY SentFields
  <2> QED BY <2>1, SaveOp
<1>2. /\ UNCHANGED <<contract, options, n>> /\ Played' = Played /\ Played \in Nat /\ Inputs
  BY CallPlaces
<1>3. /\ First' = First /\ Mode' = Mode /\ CrashAt' = CrashAt /\ (ReadFails' <=> ReadFails)
      /\ Now' = Now /\ InFlightUntil' = InFlightUntil /\ WaitsUntil' = WaitsUntil /\ LandsAt' = LandsAt
      /\ (MayGiveUp' <=> MayGiveUp) /\ (RetryAllowed' <=> RetryAllowed) /\ (Declared' <=> Declared)
  BY <1>2, SameTable
<1>4. /\ contract.maxAttempts \in Nat /\ contract.window \in Times /\ NoTime = -1 /\ NoWindow = -1
      /\ contract.retryOnNotApplied \in BOOLEAN /\ contract.cautious \in BOOLEAN
  BY <1>2, ContractFields
<1>w. RetryAllowed <=> contract.retryOnNotApplied /\ 1 < contract.maxAttempts
  BY <1>4 DEF RetryAllowed
<1>5. Executed(1)'
  BY <1>1, <1>3 DEF Executed
<1>6. CASE Now \in {"normal", "concurrent-same-identity", "identity-reuse-different-intent",
                    "response-lost-after-commit"}
  <2>1. /\ Mode \in {"normal", "loseResponse"} /\ ~ReadFails /\ InFlightUntil = 0 /\ WaitsUntil = 0
    BY <1>6, ScenarioTable
  <2>2. Effects = 1 /\ target.mode = "normal" /\ ~target.pending["op"] /\ target.held = "none"
    BY <2>1 DEF Written
  <2>3. caller[c].evidence = "APPLIED"
    BY <2>1, <2>2 DEF Evidence
  <2>4. Done'
    BY <1>1, <2>3 DEF Done, Op
  <2>5. TargetFits(Played)'
    BY <1>1, <1>3, <1>6, <2>2 DEF TargetFits, Calm
  <2>6. Settled(Played)'
    BY <1>1, <1>2, <1>3, <1>5, <1>6, <2>1, <2>2, <2>4, <2>5 DEF Settled, Effects
  <2> QED BY <1>3, <1>6, <2>6 DEF After
<1>7. CASE Now = "read-fails-after-lost-response"
  <2>1. /\ Mode = "loseResponse" /\ ReadFails /\ InFlightUntil = 0 /\ WaitsUntil = 0
    BY <1>7, ScenarioTable
  <2>2. Effects = 1 /\ target.mode = "normal" /\ ~target.pending["op"] /\ target.held = "none"
    BY <2>1 DEF Written
  <2>3. caller[c].evidence = "UNKNOWN"
    BY <1>7, <2>1 DEF Evidence, Followed, Honest
  <2>4. Is(Op, "CLOSED", "UNKNOWN", "INVESTIGATE")'
    BY <1>1, <2>3 DEF Op
  <2>5. TargetFits(Played)'
    BY <1>1, <1>3, <1>7, <2>2 DEF TargetFits, Calm
  <2>6. Settled(Played)'
    BY <1>1, <1>2, <1>3, <1>5, <1>7, <2>1, <2>2, <2>4, <2>5 DEF Settled, Effects
  <2> QED BY <1>3, <1>7, <2>6 DEF After
<1>8. CASE Now \in {"request-lost-before-commit", "neighbor-effect-isolation", "late-landing"}
  <2>1. /\ Mode \in {"loseRequest", "hold"} /\ ~ReadFails /\ InFlightUntil = 0
        /\ Now # "late-landing" => WaitsUntil > First /\ WaitsUntil \in Nat /\ Mode = "loseRequest"
        /\ Now = "late-landing" => First = 2 /\ Mode = "hold"
    BY <1>8, ScenarioTable
  <2>2. Effects = 0 /\ target.mode = "normal" /\ ~target.pending["op"] /\ ~Answered /\ ~caller[c].ok
        /\ target.held = IF Now = "late-landing" THEN "op" ELSE "none"
    BY <2>1 DEF Written, Answered
  <2>3. caller[c].evidence = IF contract.cautious THEN "UNKNOWN" ELSE "NOT_APPLIED"
    BY <2>1, <2>2 DEF Evidence
  <2>4. Waits' \/ (GaveUp' /\ MayGiveUp')
    <3>1. CASE contract.cautious
      <4>1. Is(record'["op"], "CLOSED", "UNKNOWN", "INVESTIGATE")
        BY <1>1, <2>3, <3>1
      <4> QED BY <1>3, <1>8, <3>1, <4>1 DEF GaveUp, MayGiveUp, Op
    <3>2. CASE ~contract.cautious /\ RetryAllowed /\ Declared
      <4>1. /\ Is(record'["op"], "OPEN", "NOT_APPLIED", "RETRY")
            /\ Latest(record'["op"]).retryNotBefore \in {NoTime, contract.window}
        BY <1>1, <1>4, <1>w, <2>2, <2>3, <3>2 DEF Times
      <4> QED BY <1>1, <1>2, <1>3, <1>8, <2>2, <3>2, <4>1 DEF Waits, Op
    <3>3. CASE ~contract.cautious /\ ~(RetryAllowed /\ Declared)
      <4>1. Is(record'["op"], "CLOSED", "NOT_APPLIED", "INVESTIGATE")
        BY <1>1, <1>w, <2>2, <2>3, <3>3
      <4>2. MayGiveUp
        BY <1>8, <3>3 DEF MayGiveUp
      <4> QED BY <1>3, <4>1, <4>2 DEF GaveUp, Op
    <3> QED BY <3>1, <3>2, <3>3
  <2>5. CASE Now = "late-landing"
    <3>1. LandsAt \in {4, 6}
      BY DEF LandsAt
    <3>2. Held(Played)'
      BY <1>1, <1>2, <1>3, <1>5, <2>1, <2>2, <2>4, <2>5, <3>1 DEF Held, Effects
    <3> QED BY <1>3, <2>5, <3>2 DEF After
  <2>6. CASE Now # "late-landing"
    <3>1. TargetFits(Played)'
      BY <1>1, <1>3, <1>8, <2>2, <2>6 DEF TargetFits, Calm
    <3>2. Settled(Played)'
      BY <1>1, <1>2, <1>3, <1>5, <2>1, <2>2, <2>4, <2>6, <3>1 DEF Settled, Effects
    <3> QED BY <1>3, <2>6, <3>2 DEF After
  <2> QED BY <2>5, <2>6
<1>9. CASE Now \in {"pending-then-settled", "pending-then-rejected"}
  <2>1. Mode = "pending" /\ ~ReadFails /\ InFlightUntil = 9 /\ First = 2
    BY <1>9, ScenarioTable
  <2>2. /\ Effects = 0 /\ target.mode = "normal" /\ target.pending["op"] /\ Answered /\ caller[c].ok
        /\ target.held = "none"
    BY <2>1 DEF Written, Answered
  <2>3. caller[c].evidence = "PENDING"
    BY <1>9, <2>1, <2>2 DEF Evidence, Followed, Honest
  <2>4. InFlight'
    <3>1. Is(record'["op"], "OPEN", "PENDING", "NULL")
      BY <1>1, <2>3
    <3> QED BY <1>1, <1>3, <2>2, <3>1 DEF InFlight, Is, Op
  <2>5. TargetFits(Played)'
    BY <1>1, <1>2, <1>3, <1>9, <2>1, <2>2 DEF TargetFits, Calm
  <2>6. Settled(Played)'
    BY <1>1, <1>2, <1>3, <1>5, <1>9, <2>1, <2>2, <2>4, <2>5 DEF Settled, Effects
  <2> QED BY <1>3, <1>9, <2>6 DEF After
<1>10. Now \notin {"crash-after-effect-before-save", "crash-before-execute"}
  BY ScenarioTable
<1> QED BY <1>6, <1>7, <1>8, <1>9, <1>10, ScenarioNames

LEMMA FirstSave ==
  ASSUME Basics, Followed, NEW c \in Callers, CallStep(c), caller[c].op = "op", AtFirst,
         caller[c].pc = "save", record["op"] = Sent, Written, Executed(1), Played = First,
         caller[c].ok <=> Answered, caller[c].evidence = Evidence(Answered, ReadFails),
         ~target.failRead, crashOn = CrashAt, CrashAt # "afterReserve"
  PROVE  AfterFirst'
<1>1. PICK o : o = caller[c].op
  OBVIOUS
<1>2. /\ Inputs /\ Played \in Nat /\ o = "op" /\ Played' = Played /\ Now \in Names
      /\ UNCHANGED Running /\ UNCHANGED <<contract, options, n>> /\ "op" \in Ops
  BY <1>1, CallPlaces
<1>3. clock = 0 /\ last.evidence = "none" /\ last.disposition = "NULL"
  BY DEF AtFirst
<1>4. CASE crashOn = "onResolve"
  <2>1. /\ Now = "crash-after-effect-before-save" /\ First = 2 /\ Mode = "normal" /\ InFlightUntil = 4
        /\ ~ReadFails
    BY <1>2, <1>4, ScenarioTable, ScenarioNames
  <2>2. SaveOutcome(c, o)
    BY <1>1, CallOutcome
  <2>3. /\ UNCHANGED <<target, executes, record, last>> /\ crashOn' = "none" /\ lock'["op"] = "none"
        /\ caller'[c].pc = "idle"
    BY <1>2, <1>4, <2>2 DEF SaveOutcome
  <2>4. last' = Answer(record'["op"])
    <3>1. last = Answer(record["op"])
      BY <1>3, AnswerOfSent DEF Basics
    <3> QED BY <2>3, <3>1 DEF Answer, Reported, CurrentBlock
  <2>5. /\ First' = First /\ CrashAt' = CrashAt /\ (ReadFails' <=> ReadFails)
        /\ Now' = Now /\ InFlightUntil' = InFlightUntil /\ Sent' = Sent
    BY <1>2, SameTable
  <2>6. /\ Effects = 1 /\ target.mode = "normal" /\ ~target.pending["op"] /\ target.held = "none"
    BY <2>1 DEF Written
  <2>7. TargetFits(Played)'
    BY <2>1, <2>3, <2>5, <2>6 DEF TargetFits, Calm
  <2>8. InFlight'
    BY <1>4, <2>3, <2>5, SentFields DEF InFlight, Op
  <2>9. Settled(Played)'
    BY <1>2, <2>1, <2>3, <2>5, <2>6, <2>7, <2>8 DEF Settled, Executed, Effects
  <2>10. After(Played)'
    BY <2>1, <2>5, <2>9 DEF After
  <2> QED BY <2>3, <2>4, <2>10, FirstEnds
<1>5. CASE crashOn # "onResolve"
  <2>1. crashOn = "none" /\ CrashAt = "none"
    BY <1>5 DEF CrashAt
  <2>2. After(Played)'
    BY <1>2, <1>3, <2>1, FirstResolved
  <2>3. \/ RetriesNow(record["op"], record'["op"])
        \/ lock'["op"] = "none" /\ caller'[c].pc = "idle" /\ last' = Answer(record'["op"])
    BY <2>1, SaveOp
  <2>4. ~RetriesNow(record["op"], record'["op"])
    BY SentFields DEF RetriesNow
  <2> QED BY <2>2, <2>3, <2>4, FirstEnds
<1> QED BY <1>4, <1>5

\* A call at the first run stays in it or ends it.
LEMMA AtFirstStep ==
  ASSUME Basics, Step, Followed, AtFirst, Now # "neighbor-effect-isolation" => NeighborUntouched
  PROVE  AtFirst' \/ AfterFirst'
<1>1. CASE Drive \/ Prepare \/ StartRun
  BY <1>1, PrepareFollowed
<1>2. ASSUME NEW c \in Callers, CallStep(c)
      PROVE  AtFirst' \/ AfterFirst'
  <2>0. Plain /\ caller[c].op \in {"op", "neighbor"}
    BY <1>2, CallPlaces DEF Followed, Ops
  <2>1. CASE caller[c].op = "neighbor"
    BY <1>2, <2>0, <2>1, NeighborCall
  <2>2. CASE caller[c].op = "op" /\ ~\E d \in Callers : FirstRun(d)
    BY <1>2, <2>2, FirstBegins
  <2>3. CASE caller[c].op = "op" /\ \E d \in Callers : d # c /\ FirstRun(d)
    BY <1>2, <2>3, FirstOther
  <2>4. CASE caller[c].op = "op" /\ FirstRun(c)
    <3>1. /\ lock["op"] = c /\ Played = First /\ (caller[c].pc = "reserve" \/ CrashAt # "afterReserve")
          /\ \/ caller[c].pc = "reserve" /\ record["op"] = New /\ Prepared /\ Executed(0)
             \/ caller[c].pc = "execute" /\ record["op"] = Sent /\ Prepared /\ Executed(0)
             \/ /\ caller[c].pc = "observe" /\ record["op"] = Sent /\ Written /\ Executed(1)
                /\ (caller[c].ok <=> Answered) /\ (target.failRead <=> ReadFails) /\ crashOn = CrashAt
             \/ /\ caller[c].pc = "save" /\ record["op"] = Sent /\ Written /\ Executed(1)
                /\ (caller[c].ok <=> Answered) /\ ~target.failRead /\ crashOn = CrashAt
                /\ caller[c].evidence = Evidence(Answered, ReadFails)
      BY <2>4 DEF FirstRun, At
    <3>2. CASE caller[c].pc = "reserve" /\ record["op"] = New /\ Prepared /\ Executed(0)
      BY <1>2, <2>0, <2>4, <3>1, <3>2, FirstReserve
    <3>3. CASE caller[c].pc = "execute" /\ record["op"] = Sent /\ Prepared /\ Executed(0)
      BY <1>2, <2>0, <2>4, <3>1, <3>3, FirstExecute
    <3>4. CASE caller[c].pc = "observe" /\ record["op"] = Sent /\ Written /\ Executed(1)
                /\ (caller[c].ok <=> Answered) /\ (target.failRead <=> ReadFails) /\ crashOn = CrashAt
      BY <1>2, <2>0, <2>4, <3>1, <3>4, FirstObserve
    <3>5. CASE caller[c].pc = "save" /\ record["op"] = Sent /\ Written /\ Executed(1)
                /\ (caller[c].ok <=> Answered) /\ ~target.failRead /\ crashOn = CrashAt
                /\ caller[c].evidence = Evidence(Answered, ReadFails)
      BY <1>2, <2>0, <2>4, <3>1, <3>5, FirstSave
    <3> QED BY <3>1, <3>2, <3>3, <3>4, <3>5
  <2> QED BY <2>0, <2>1, <2>2, <2>3, <2>4
<1> QED BY <1>1, <1>2 DEF Step

-----------------------------------------------------------------------------
(* After the first run *)

\* What is said of the operation depends on its record only.
LEMMA SameOp ==
  ASSUME UNCHANGED <<contract, options, n>>, record'["op"] = record["op"]
  PROVE  /\ (Done' <=> Done) /\ (GaveUp' <=> GaveUp) /\ (Waits' <=> Waits) /\ (InFlight' <=> InFlight)
         /\ Op' = Op
         /\ Is(Op, "CLOSED", "UNKNOWN", "INVESTIGATE")' <=> Is(Op, "CLOSED", "UNKNOWN", "INVESTIGATE")
<1>1. /\ (RetryAllowed' <=> RetryAllowed) /\ (Declared' <=> Declared) /\ Now' = Now /\ CrashAt' = CrashAt
      /\ Sent' = Sent
  BY SameTable
<1>2. Op' = Op
  BY DEF Op
<1>3. /\ (Done' <=> Done) /\ (GaveUp' <=> GaveUp)
      /\ Is(Op, "CLOSED", "UNKNOWN", "INVESTIGATE")' <=> Is(Op, "CLOSED", "UNKNOWN", "INVESTIGATE")
  BY <1>2 DEF Done, GaveUp, Is, Resolved, Latest
<1>4. Waits' <=> Waits
  BY <1>1, <1>2 DEF Waits, Is, Resolved, Latest
<1>5. InFlight' <=> InFlight
  BY <1>1, <1>2 DEF InFlight, Is, Resolved, Latest
<1> QED BY <1>2, <1>3, <1>4, <1>5

\* What the harness plays after the first run leaves the operation where it should be.
LEMMA AfterPlays ==
  ASSUME Basics, Drive \/ Prepare \/ StartRun, After(Played), Played >= First, NEW x, x = Plan[Played + 1]
  PROVE  After(IF x.do = "run" THEN Played - 1 ELSE Played)'
<1>1. /\ UNCHANGED <<contract, options, n, record, lock, executes, last>>
      /\ Played \in Nat /\ Played' = Played + 1 /\ Played + 1 \in 1..Len(Plan) /\ Len(Plan) \in Nat
      /\ Driven /\ Inputs
      /\ crashOn' = IF x.do = "crash" THEN x.what ELSE crashOn
      /\ x.do \in {"run", "advance", "expect", "crash"} => target' = target
  BY HarnessDoes
<1>2. /\ x.do = "land" =>
           /\ target'.mode = target.mode /\ target'.pending = target.pending
           /\ target'.held = target.held /\ target'.failRead = target.failRead
           /\ target.held # "none" => target.held \in Ops /\ Adds(target, target', target.held, 1)
      /\ x.do = "settle" =>
           /\ target'.mode = target.mode /\ target'.held = target.held
           /\ target'.failRead = target.failRead
           /\ \A o \in Ops :
                /\ ~target'.pending[o]
                /\ target'.applied[o] = target.applied[o] + (IF target.pending[o] THEN 1 ELSE 0)
      /\ x.do = "reject" =>
           /\ target'.mode = target.mode /\ target'.held = target.held
           /\ target'.failRead = target.failRead /\ target'.applied = target.applied
           /\ \A o \in Ops : ~target'.pending[o]
  BY HarnessDoes
<1>3. PICK i \in 1..Len(Plan) : i = Played + 1
  BY <1>1
<1>4. i > First /\ Now \in Names /\ First \in {1, 2, 3, 4}
  BY <1>1, <1>3, PlayedFits, EarlyFirst DEF Basics
<1>5. /\ x.do \in {"run", "advance", "expect", "land", "settle", "reject"}
      /\ x.do = "settle" <=> Now = "pending-then-settled" /\ i = 7
      /\ x.do = "reject" <=> Now = "pending-then-rejected" /\ i = 7
      /\ x.do = "land" <=> Now = "late-landing" /\ i = LandsAt
      /\ i = InFlightUntil \/ i = WaitsUntil => x.do = "run"
  BY <1>1, <1>3, <1>4, Afterwards
<1>6. /\ First' = First /\ Mode' = Mode /\ CrashAt' = CrashAt /\ (ReadFails' <=> ReadFails)
      /\ Now' = Now /\ InFlightUntil' = InFlightUntil /\ WaitsUntil' = WaitsUntil /\ LandsAt' = LandsAt
      /\ (MayGiveUp' <=> MayGiveUp) /\ (RetryAllowed' <=> RetryAllowed)
  BY <1>1, SameTable
<1>7. /\ (Done' <=> Done) /\ (GaveUp' <=> GaveUp) /\ (Waits' <=> Waits) /\ (InFlight' <=> InFlight)
      /\ Is(Op, "CLOSED", "UNKNOWN", "INVESTIGATE")' <=> Is(Op, "CLOSED", "UNKNOWN", "INVESTIGATE")
  BY <1>1, SameOp
<1>8. /\ crashOn' = crashOn /\ (Executed(1)' <=> Executed(1)) /\ "op" \in Ops
  BY <1>1, <1>5, <1>6 DEF Executed, Ops
<1>9. CASE x.do = "run"
  <2>1. target' = target /\ (Played - 1)' = Played
    BY <1>1, <1>9
  <2>2. Effects' = Effects /\ (Calm' <=> Calm)
    BY <1>8, <2>1 DEF Effects, Calm
  <2>3. CASE Now = "late-landing"
    <3>1. Held(Played)
      BY <2>3 DEF After
    <3>2. Held(Played - 1)'
      <4>1. /\ target'.mode = "normal" /\ ~target'.failRead /\ crashOn' = "none" /\ ~target'.pending["op"]
            /\ target'.held = "op"
        BY <1>8, <2>1, <3>1 DEF Held
      <4>2. \/ /\ Executed(1) /\ Effects = IF Played < LandsAt THEN 0 ELSE 1
               /\ (GaveUp /\ MayGiveUp) \/ (Waits /\ Played < (IF LandsAt = 6 THEN 4 ELSE 6))
            \/ Executed(1) /\ LandsAt = 4 /\ Played >= 6 /\ Effects = 1 /\ Done /\ RetryAllowed
            \/ LandsAt = 6 /\ Played >= 4 /\ Effects = (IF Played < 6 THEN 1 ELSE 2) /\ Done /\ RetryAllowed
        BY <3>1 DEF Held
      <4>3. \/ /\ Executed(1)' /\ Effects' = IF Played < LandsAt' THEN 0 ELSE 1
               /\ (GaveUp' /\ MayGiveUp') \/ (Waits' /\ Played < (IF LandsAt' = 6 THEN 4 ELSE 6))
            \/ Executed(1)' /\ LandsAt' = 4 /\ Played >= 6 /\ Effects' = 1 /\ Done' /\ RetryAllowed'
            \/ LandsAt' = 6 /\ Played >= 4 /\ Effects' = (IF Played < 6 THEN 1 ELSE 2) /\ Done' /\ RetryAllowed'
        BY <1>6, <1>7, <1>8, <2>2, <4>2
      <4>4. Played' - 1 = Played
        BY <1>1
      <4> QED BY <4>1, <4>3, <4>4 DEF Held
    <3> QED BY <1>6, <1>9, <2>3, <3>2 DEF After
  <2>4. CASE Now # "late-landing"
    <3>1. Settled(Played)
      BY <2>4 DEF After
    <3>2. Settled(Played - 1)'
      <4>1. target'.held = target.held /\ target'.pending = target.pending /\ Played' - 1 = Played
        BY <1>1, <2>1
      <4>2. TargetFits(Played - 1)'
        BY <1>6, <2>2, <3>1, <4>1 DEF Settled, TargetFits
      <4>3. /\ \/ /\ Played < InFlightUntil /\ InFlight
                  /\ Effects = IF Now = "crash-after-effect-before-save" \/ (Now = "pending-then-settled" /\ Played >= 7)
                               THEN 1 ELSE 0
               \/ Played >= InFlightUntil /\ Played < WaitsUntil /\ Effects = 0 /\ (Waits \/ (GaveUp /\ MayGiveUp))
               \/ /\ Played >= InFlightUntil /\ Played >= WaitsUntil /\ Effects = 1
                  /\ IF ReadFails THEN Is(Op, "CLOSED", "UNKNOWN", "INVESTIGATE") ELSE Done
                  /\ Now = "request-lost-before-commit" => ~contract.cautious
               \/ /\ Played >= InFlightUntil /\ Played >= WaitsUntil /\ WaitsUntil > 0 /\ Effects = 0
                  /\ GaveUp /\ MayGiveUp
            /\ Executed(1) \/ (WaitsUntil > 0 /\ Played >= WaitsUntil)
        BY <3>1 DEF Settled
      <4>4. /\ \/ /\ Played < InFlightUntil' /\ InFlight'
                  /\ Effects' = IF Now' = "crash-after-effect-before-save" \/ (Now' = "pending-then-settled" /\ Played >= 7)
                                THEN 1 ELSE 0
               \/ /\ Played >= InFlightUntil' /\ Played < WaitsUntil' /\ Effects' = 0
                  /\ (Waits' \/ (GaveUp' /\ MayGiveUp'))
               \/ /\ Played >= InFlightUntil' /\ Played >= WaitsUntil' /\ Effects' = 1
                  /\ IF ReadFails' THEN Is(Op, "CLOSED", "UNKNOWN", "INVESTIGATE")' ELSE Done'
                  /\ Now' = "request-lost-before-commit" => ~contract'.cautious
               \/ /\ Played >= InFlightUntil' /\ Played >= WaitsUntil' /\ WaitsUntil' > 0 /\ Effects' = 0
                  /\ GaveUp' /\ MayGiveUp'
            /\ Executed(1)' \/ (WaitsUntil' > 0 /\ Played >= WaitsUntil')
        BY <1>1, <1>6, <1>7, <1>8, <2>2, <4>3
      <4> QED BY <4>1, <4>2, <4>4 DEF Settled
    <3> QED BY <1>6, <1>9, <2>4, <3>2 DEF After
  <2> QED BY <2>3, <2>4
<1>10. CASE x.do # "run" /\ Now = "late-landing"
  <2>1. Held(Played) /\ LandsAt \in {4, 6}
    BY <1>10 DEF After, LandsAt
  <2>2. /\ target'.mode = "normal" /\ ~target'.failRead /\ crashOn' = "none" /\ ~target'.pending["op"]
        /\ target'.held = "op"
        /\ target'.applied["op"] = target.applied["op"] + IF i = LandsAt THEN 1 ELSE 0
    <3>1. /\ target.mode = "normal" /\ ~target.failRead /\ crashOn = "none" /\ ~target.pending["op"]
          /\ target.held = "op" /\ target.applied["op"] \in Nat
      BY <2>1 DEF Held, Basics, TypeOK, Target, Ops
    <3>2. CASE x.do = "land"
      BY <1>2, <1>5, <1>8, <3>1, <3>2 DEF Adds
    <3>3. CASE x.do \in {"advance", "expect"}
      BY <1>1, <1>5, <1>8, <1>10, <3>1, <3>3
    <3> QED BY <1>5, <1>10, <3>2, <3>3
  <2>3. i # IF LandsAt = 6 THEN 4 ELSE 6
    BY <1>1, <1>3, <1>4, <1>10, LateAfterwards
  <2>4. Played' = i /\ Played = i - 1 /\ i \in Nat
    BY <1>1, <1>3
  <2>5. Held(Played)'
    <3>1. CASE Executed(1) /\ LandsAt = 4 /\ Played >= 6 /\ Effects = 1 /\ Done /\ RetryAllowed
      BY <1>6, <1>7, <1>8, <2>2, <2>4, <3>1 DEF Held, Effects
    <3>2. CASE LandsAt = 6 /\ Played >= 4 /\ Effects = (IF Played < 6 THEN 1 ELSE 2) /\ Done /\ RetryAllowed
      <4>1. Effects' = IF i < 6 THEN 1 ELSE 2
        BY <2>2, <2>4, <3>2 DEF Effects
      <4> QED BY <1>6, <1>7, <2>2, <2>4, <3>2, <4>1 DEF Held
    <3>3. CASE /\ Executed(1) /\ Effects = IF Played < LandsAt THEN 0 ELSE 1
               /\ (GaveUp /\ MayGiveUp) \/ (Waits /\ Played < (IF LandsAt = 6 THEN 4 ELSE 6))
      <4>1. Effects' = IF i < LandsAt THEN 0 ELSE 1
        BY <2>1, <2>2, <2>4, <3>3 DEF Effects
      <4>2. (GaveUp' /\ MayGiveUp') \/ (Waits' /\ i < (IF LandsAt = 6 THEN 4 ELSE 6))
        BY <1>6, <1>7, <2>1, <2>3, <2>4, <3>3
      <4> QED BY <1>6, <1>7, <1>8, <2>2, <2>4, <3>3, <4>1, <4>2 DEF Held
    <3> QED BY <2>1, <3>1, <3>2, <3>3 DEF Held
  <2> QED BY <1>6, <1>10, <2>5 DEF After
<1>11. CASE x.do # "run" /\ Now # "late-landing"
  <2>1. Settled(Played) /\ TargetFits(Played)
    BY <1>11 DEF After, Settled
  <2>2. Played' = i /\ Played = i - 1 /\ i \in Nat /\ i # InFlightUntil /\ i # WaitsUntil
    BY <1>1, <1>3, <1>5, <1>11
  <2>3. InFlightUntil \in Nat /\ WaitsUntil \in Nat
    BY <1>4, ScenarioTable, ScenarioNames
  <2>4. /\ (i < InFlightUntil <=> Played < InFlightUntil)
        /\ (i < WaitsUntil <=> Played < WaitsUntil)
        /\ (i >= InFlightUntil <=> Played >= InFlightUntil)
        /\ (i >= WaitsUntil <=> Played >= WaitsUntil)
    BY <2>2, <2>3
  <2>5. /\ target.mode = "normal" /\ ~target.failRead /\ crashOn = "none" /\ target.held = "none"
        /\ target.pending["op"] <=> Now \in {"pending-then-settled", "pending-then-rejected"} /\ Played < 7
    BY <2>1 DEF TargetFits, Calm
  <2>6. /\ target'.mode = "normal" /\ ~target'.failRead /\ crashOn' = "none" /\ target'.held = "none"
        /\ target'.pending["op"] <=> Now \in {"pending-then-settled", "pending-then-rejected"} /\ i < 7
        /\ target'.applied["op"] = target.applied["op"]
              + IF Now = "pending-then-settled" /\ i = 7 THEN 1 ELSE 0
    <3>1. target.applied["op"] \in Nat
      BY DEF Basics, TypeOK, Target, Ops
    <3>2. CASE x.do = "settle"
      BY <1>2, <1>5, <1>8, <2>2, <2>5, <3>1, <3>2
    <3>3. CASE x.do = "reject"
      BY <1>2, <1>5, <1>8, <2>2, <2>5, <3>1, <3>3
    <3>4. CASE x.do \in {"advance", "expect"}
      <4>1. target' = target /\ ~(Now \in {"pending-then-settled", "pending-then-rejected"} /\ i = 7)
        BY <1>1, <1>5, <3>4
      <4> QED BY <1>8, <2>2, <2>5, <3>1, <4>1
    <3> QED BY <1>5, <1>11, <3>2, <3>3, <3>4
  <2>7. TargetFits(Played)'
    BY <1>6, <2>2, <2>6 DEF TargetFits, Calm
  <2>8. Settled(Played)'
    <3>1. CASE /\ Played < InFlightUntil /\ InFlight
               /\ Effects = IF Now = "crash-after-effect-before-save" \/ (Now = "pending-then-settled" /\ Played >= 7)
                            THEN 1 ELSE 0
      <4>1. Effects' = IF Now = "crash-after-effect-before-save" \/ (Now = "pending-then-settled" /\ i >= 7)
                       THEN 1 ELSE 0
        BY <2>2, <2>6, <3>1 DEF Effects
      <4>2. Executed(1) \/ (WaitsUntil > 0 /\ Played >= WaitsUntil)
        BY <2>1 DEF Settled
      <4> QED BY <1>6, <1>7, <1>8, <2>2, <2>4, <2>7, <3>1, <4>1, <4>2 DEF Settled
    <3>2. CASE ~(Played < InFlightUntil)
      <4>1. Effects' = Effects
        <5>1. Now = "pending-then-settled" => InFlightUntil = 9
          BY ScenarioTable
        <5>2. target.applied["op"] \in Nat
          BY DEF Basics, TypeOK, Target, Ops
        <5> QED BY <2>2, <2>6, <3>2, <5>1, <5>2 DEF Effects
      <4>2. \/ Played >= InFlightUntil /\ Played < WaitsUntil /\ Effects = 0 /\ (Waits \/ (GaveUp /\ MayGiveUp))
            \/ /\ Played >= InFlightUntil /\ Played >= WaitsUntil /\ Effects = 1
               /\ IF ReadFails THEN Is(Op, "CLOSED", "UNKNOWN", "INVESTIGATE") ELSE Done
               /\ Now = "request-lost-before-commit" => ~contract.cautious
            \/ /\ Played >= InFlightUntil /\ Played >= WaitsUntil /\ WaitsUntil > 0 /\ Effects = 0
               /\ GaveUp /\ MayGiveUp
        BY <2>1, <3>2 DEF Settled
      <4>3. Executed(1) \/ (WaitsUntil > 0 /\ Played >= WaitsUntil)
        BY <2>1 DEF Settled
      <4>4. \/ i >= InFlightUntil' /\ i < WaitsUntil' /\ Effects' = 0 /\ (Waits' \/ (GaveUp' /\ MayGiveUp'))
            \/ /\ i >= InFlightUntil' /\ i >= WaitsUntil' /\ Effects' = 1
               /\ IF ReadFails' THEN Is(Op, "CLOSED", "UNKNOWN", "INVESTIGATE")' ELSE Done'
               /\ Now' = "request-lost-before-commit" => ~contract'.cautious
            \/ /\ i >= InFlightUntil' /\ i >= WaitsUntil' /\ WaitsUntil' > 0 /\ Effects' = 0
               /\ GaveUp' /\ MayGiveUp'
        BY <1>1, <1>6, <1>7, <2>4, <4>1, <4>2
      <4>5. Executed(1)' \/ (WaitsUntil' > 0 /\ i >= WaitsUntil')
        BY <1>6, <1>8, <2>4, <4>3
      <4> QED BY <2>2, <2>7, <4>4, <4>5 DEF Settled
    <3> QED BY <2>1, <2>2, <2>3, <3>1, <3>2 DEF Settled
  <2> QED BY <1>6, <1>11, <2>8 DEF After
<1> QED BY <1>9, <1>10, <1>11

LEMMA IdleAfterFirst ==
  ASSUME Basics, AfterFirst, \A c \in Callers : caller[c].pc = "idle", lock["op"] = "none"
  PROVE  Played >= First /\ ClockFits /\ last = Answer(Op) /\ After(Played)
<1>1. Idle
  BY DEF Idle
<1>2. ~\E c \in Callers : Reruns(c)
  BY DEF Reruns, Callers
<1> QED BY <1>1, <1>2 DEF AfterFirst

LEMMA PlayedAfterFirst ==
  ASSUME Basics, Drive \/ Prepare \/ StartRun, AfterFirst
  PROVE  AfterFirst'
<1>1. PICK x : x = Plan[Played + 1]
  OBVIOUS
<1>2. /\ UNCHANGED <<contract, options, n, record, lock, executes, last>>
      /\ Played \in Nat /\ Played' = Played + 1 /\ Played + 1 \in 1..Len(Plan) /\ Len(Plan) \in Nat
      /\ Driven /\ Inputs
      /\ \A c \in Callers : caller[c].pc = "idle"
      /\ \A o \in Ops : lock[o] = "none"
      /\ x.do # "run" => caller' = caller
      /\ x.do = "run" => \A c \in Callers :
                           IF c = "a" \/ x.by = 2
                           THEN caller'[c].pc = "begin" /\ caller'[c].op = x.what
                           ELSE caller'[c].pc = "idle"
  BY <1>1, HarnessDoes
<1>3. "op" \in Ops /\ "a" \in Callers
  BY DEF Ops, Callers
<1>4. Played >= First /\ ClockFits /\ last = Answer(Op) /\ After(Played)
  BY <1>2, <1>3, IdleAfterFirst
<1>5. After(IF x.do = "run" THEN Played - 1 ELSE Played)'
  BY <1>1, <1>4, AfterPlays
<1>6. ClockFits' /\ Played' >= First'
  BY <1>4, ClockStep DEF Step
<1>7. Now \in Names /\ First \in {1, 2, 3, 4} /\ First' = First
  BY <1>2, PlayedFits, EarlyFirst, SameTable DEF Basics
<1>8. Played' > First'
  BY <1>2, <1>4, <1>7
<1>9. (last = Answer(Op))' /\ lock'["op"] = "none"
  BY <1>2, <1>3, <1>4 DEF Op
<1>10. After(IF Idle \/ Played = First THEN Played ELSE Played - 1)'
  <2>1. CASE x.do = "run"
    <3>1. ~Idle' /\ Played' # First'
      BY <1>2, <1>3, <1>7, <1>8, <2>1 DEF Idle
    <3> QED BY <1>5, <2>1, <3>1
  <2>2. CASE x.do # "run"
    <3>1. Idle'
      BY <1>2, <2>2 DEF Idle
    <3> QED BY <1>5, <2>2, <3>1
  <2> QED BY <2>1, <2>2
<1>11. Played' # First'
  BY <1>7, <1>8, <1>2
<1> QED BY <1>6, <1>9, <1>10, <1>11 DEF AfterFirst

\* What is after a run stays while neither the record nor the target changes.
LEMMA AfterStays ==
  ASSUME UNCHANGED <<contract, options, n, executes, crashOn>>, record'["op"] = record["op"],
         target'.applied["op"] = target.applied["op"],
         target'.pending["op"] <=> target.pending["op"], target'.mode = target.mode,
         target'.held = target.held, target'.failRead <=> target.failRead,
         NEW p, After(p)
  PROVE  After(p)'
<1>1. /\ First' = First /\ Mode' = Mode /\ CrashAt' = CrashAt /\ (ReadFails' <=> ReadFails)
      /\ Now' = Now /\ InFlightUntil' = InFlightUntil /\ WaitsUntil' = WaitsUntil /\ LandsAt' = LandsAt
      /\ (MayGiveUp' <=> MayGiveUp) /\ (RetryAllowed' <=> RetryAllowed)
  BY SameTable
<1>2. /\ (Done' <=> Done) /\ (GaveUp' <=> GaveUp) /\ (Waits' <=> Waits) /\ (InFlight' <=> InFlight)
      /\ Is(Op, "CLOSED", "UNKNOWN", "INVESTIGATE")' <=> Is(Op, "CLOSED", "UNKNOWN", "INVESTIGATE")
  BY SameOp
<1>3. (Executed(1)' <=> Executed(1)) /\ Effects' = Effects
  BY <1>1 DEF Executed, Effects
<1>4. CASE Now = "late-landing"
  <2>1. Held(p)
    BY <1>4 DEF After
  <2>2. /\ target'.mode = "normal" /\ ~target'.failRead /\ crashOn' = "none" /\ ~target'.pending["op"]
        /\ target'.held = "op"
    BY <2>1 DEF Held
  <2>3. Held(p)'
    BY <1>1, <1>2, <1>3, <2>1, <2>2 DEF Held
  <2> QED BY <1>1, <1>4, <2>3 DEF After
<1>5. CASE Now # "late-landing"
  <2>1. Settled(p)
    BY <1>5 DEF After
  <2>2. TargetFits(p)'
    BY <1>1, <2>1 DEF Settled, TargetFits, Calm
  <2>3. Settled(p)'
    BY <1>1, <1>2, <1>3, <2>1, <2>2 DEF Settled
  <2> QED BY <1>1, <1>5, <2>3 DEF After
<1> QED BY <1>4, <1>5

\* The windows have passed when an operation that waits is run.
LEMMA WindowPassed ==
  ASSUME Basics, Driven, ClockFits, Played > First, Plan[Played].do = "run", Played \in 1..Len(Plan),
         After(Played - 1), Waits, ~Latest(Op).ok
  PROVE  clock >= contract.window /\ contract.window \in Nat /\ clock \in Nat
<1>1. Inputs /\ Now \in Names /\ Played \in Nat /\ clock \in Nat /\ First \in {1, 2, 3, 4}
  BY PlayedFits, EarlyFirst DEF Basics, TypeOK
<1>2. Declared /\ Now # "pending-then-rejected"
  BY DEF Waits
<1>3. contract.window \in Nat /\ SettleStep \in Nat /\ SettleStep > contract.window
  BY <1>1, <1>2, ContractFields, Steps DEF Declared, OrZero, Times
<1>4. PICK i \in 1..Len(Plan) : i = Played
  OBVIOUS
<1>5. CASE Now = "late-landing"
  <2>1. Held(Played - 1)
    BY <1>5 DEF After
  <2>2. Played - 1 < IF LandsAt = 6 THEN 4 ELSE 6
    BY <2>1 DEF Held, Waits, GaveUp, Done, Is
  <2>3. /\ RunAt \in Nat /\ LandsAt = (IF RunAt < options.late THEN 6 ELSE 4)
        /\ i = 4 \/ i = 6 \/ i >= 8
        /\ i = 4 => LandsAt = 6
        /\ i = 6 => LandsAt = 4
        /\ RunAt < options.late => RunAt = contract.window
    BY <1>1, <1>4, <1>5, LateAfterwards
  <2>4. RunAt = contract.window
    BY <1>2 DEF RunAt
  <2>5. CASE LandsAt = 6
    <3>1. Played = 4 /\ RunAt < options.late
      BY <1>1, <1>4, <2>2, <2>3, <2>5
    <3> QED BY <1>1, <1>3, <1>5, <2>4, <3>1 DEF ClockFits
  <2>6. CASE LandsAt = 4
    <3>1. Played = 6
      BY <1>1, <1>4, <2>2, <2>3, <2>6
    <3> QED BY <1>1, <1>3, <1>5, <2>4, <3>1 DEF ClockFits
  <2> QED BY <2>3, <2>5, <2>6
<1>6. CASE Now # "late-landing"
  <2>1. Settled(Played - 1)
    BY <1>6 DEF After
  <2>2. ~InFlight \/ CrashAt # "none"
    BY DEF InFlight, Waits, Is
  <2>3. WaitsUntil > 0 \/ CrashAt # "none"
    <3>1. WaitsUntil \in Nat /\ Played - 1 \in Int
      BY <1>1, ScenarioTable, ScenarioNames
    <3> QED BY <2>1, <2>2, <3>1 DEF Settled, Waits, GaveUp, Done, Is
  <2>4. CrashAt # "none" \/ Now \in {"request-lost-before-commit", "neighbor-effect-isolation"}
    BY <1>1, <1>2, <2>3, ScenarioTable, ScenarioNames
  <2>5. clock >= SettleStep
    BY <2>4 DEF ClockFits
  <2> QED BY <1>1, <1>3, <2>5
<1> QED BY <1>5, <1>6

\* A run takes an open operation up.
LEMMA OpenRuns ==
  ASSUME Basics, Driven, ClockFits, Played > First, Plan[Played].do = "run", Played \in 1..Len(Plan),
         After(Played - 1), Op.status = "OPEN"
  PROVE  /\ NextStep(Op, clock) \in {"observe", "reserve"} /\ Op.attempts # << >>
         /\ NextStep(Op, clock) = "reserve" => Waits /\ Effects = 0
<1>1. Op \in Record /\ RecordFits(Op) /\ clock \in Nat /\ "op" \in Ops
  BY DEF Op, Ops, Basics, TypeOK, RecordsFit
<1>2. /\ Op.attempts # << >> =>
          NextStep(Op, clock) =
            IF Latest(Op).status = "RESERVED" \/ Latest(Op).evidence = "PENDING" THEN "observe"
            ELSE IF Latest(Op).ok THEN "reserve"
            ELSE IF Latest(Op).retryNotBefore # NoTime /\ clock < Latest(Op).retryNotBefore
            THEN "idle" ELSE "observe"
  BY <1>1, NextStepFields
<1>3. \/ InFlight
      \/ Waits /\ (Latest(Op).ok => Effects = 0)
  <2>1. CASE Now = "late-landing"
    BY <2>1 DEF After, Held, Waits, GaveUp, Done, Is
  <2>2. CASE Now # "late-landing"
    BY <2>2 DEF After, Settled, Waits, GaveUp, Done, Is
  <2> QED BY <2>1, <2>2
<1>4. CASE InFlight
  <2>1. Op.attempts # << >> /\ (Latest(Op).status = "RESERVED" \/ Latest(Op).evidence = "PENDING")
    BY <1>4, SentFields DEF InFlight, Is, Resolved
  <2> QED BY <1>2, <2>1
<1>5. CASE Waits /\ (Latest(Op).ok => Effects = 0)
  <2>1. /\ Op.attempts # << >> /\ Latest(Op).status = "RESOLVED" /\ Latest(Op).evidence = "NOT_APPLIED"
        /\ ~Latest(Op).ok => Latest(Op).retryNotBefore \in {NoTime, contract.window}
    BY <1>5 DEF Waits, Is, Resolved
  <2>2. CASE Latest(Op).ok
    BY <1>2, <1>5, <2>1, <2>2
  <2>3. CASE ~Latest(Op).ok
    <3>1. clock >= contract.window /\ contract.window \in Nat /\ clock \in Nat
      BY <1>5, <2>3, WindowPassed
    <3> QED BY <1>2, <2>1, <2>3, <3>1
  <2> QED BY <2>2, <2>3
<1> QED BY <1>3, <1>4, <1>5

-----------------------------------------------------------------------------
LEMMA LaterEnds ==
  ASSUME Basics, NEW c \in Callers, CallStep(c), Played > First, ClockFits,
         lock'["op"] = "none", last' = Answer(record'["op"]),
         caller'[c].pc = "idle", After(Played)'
  PROVE  AfterFirst'
<1>1. /\ Played \in Nat /\ Played' = Played /\ First \in {1, 2, 3, 4} /\ First' = First
      /\ (\A d \in Callers : d # c => caller[d].pc = "idle")
  BY CallPlaces, SameTable
<1>2. \A d \in Callers : d # c => caller'[d] = caller[d]
  BY StageFrame
<1>3. Idle' /\ Played' >= First' /\ Played' # First'
  BY <1>1, <1>2 DEF Idle
<1>4. ClockFits'
  BY <1>1, ClockStep DEF Step
<1> QED BY <1>3, <1>4 DEF AfterFirst, Op

LEMMA LaterGoes ==
  ASSUME Basics, NEW c \in Callers, CallStep(c), Played > First, ClockFits,
         caller'[c].pc # "idle", Reruns(c)'
  PROVE  AfterFirst'
<1>1. /\ Played \in Nat /\ Played' = Played /\ First \in {1, 2, 3, 4} /\ First' = First
  BY CallPlaces, SameTable
<1>2. ~Idle' /\ Played' >= First' /\ Played' # First'
  BY <1>1 DEF Idle
<1>3. ClockFits'
  BY <1>1, ClockStep DEF Step
<1> QED BY <1>2, <1>3 DEF AfterFirst

\* A closed operation is as after the run before, whatever run it is.
LEMMA ClosedStays ==
  ASSUME Inputs, Driven, Now \in Names, Played > First, Played \in 1..Len(Plan), Played \in Nat,
         Plan[Played].do = "run", After(Played - 1), Op.status = "CLOSED"
  PROVE  After(Played)
<1>1. PICK i \in 1..Len(Plan) : i = Played
  OBVIOUS
<1>2. InFlightUntil \in Nat /\ WaitsUntil \in Nat /\ First \in Nat
  BY ScenarioTable, ScenarioNames
<1>3. CASE Now = "late-landing"
  <2>1. /\ LandsAt \in {4, 6} /\ i # LandsAt
        /\ Plan[i].do = "land" <=> Now = "late-landing" /\ i = LandsAt
    BY <1>1, <1>3, Afterwards DEF LandsAt
  <2>2. Held(Played - 1)
    BY <1>3 DEF After
  <2>3. \/ /\ Executed(1) /\ Effects = IF Played - 1 < LandsAt THEN 0 ELSE 1
           /\ GaveUp /\ MayGiveUp
        \/ Executed(1) /\ LandsAt = 4 /\ Played - 1 >= 6 /\ Effects = 1 /\ Done /\ RetryAllowed
        \/ LandsAt = 6 /\ Played - 1 >= 4 /\ Effects = (IF Played - 1 < 6 THEN 1 ELSE 2) /\ Done /\ RetryAllowed
    BY <2>2 DEF Held, Waits, Is
  <2>4. \/ /\ Executed(1) /\ Effects = IF Played < LandsAt THEN 0 ELSE 1
           /\ GaveUp /\ MayGiveUp
        \/ Executed(1) /\ LandsAt = 4 /\ Played >= 6 /\ Effects = 1 /\ Done /\ RetryAllowed
        \/ LandsAt = 6 /\ Played >= 4 /\ Effects = (IF Played < 6 THEN 1 ELSE 2) /\ Done /\ RetryAllowed
    BY <1>1, <2>1, <2>3
  <2>5. Held(Played)
    BY <2>2, <2>4 DEF Held
  <2> QED BY <1>3, <2>5 DEF After
<1>4. CASE Now # "late-landing"
  <2>1. Settled(Played - 1)
    BY <1>4 DEF After
  <2>2. i # 7 \/ Now \notin {"pending-then-settled", "pending-then-rejected"}
    BY <1>1, Afterwards
  <2>3. TargetFits(Played)
    BY <1>1, <2>1, <2>2 DEF Settled, TargetFits
  <2>4. \/ /\ Played - 1 >= InFlightUntil /\ Played - 1 < WaitsUntil /\ Effects = 0 /\ GaveUp /\ MayGiveUp
        \/ /\ Played - 1 >= InFlightUntil /\ Played - 1 >= WaitsUntil /\ Effects = 1
           /\ IF ReadFails THEN Is(Op, "CLOSED", "UNKNOWN", "INVESTIGATE") ELSE Done
           /\ Now = "request-lost-before-commit" => ~contract.cautious
        \/ /\ Played - 1 >= InFlightUntil /\ Played - 1 >= WaitsUntil /\ WaitsUntil > 0 /\ Effects = 0
           /\ GaveUp /\ MayGiveUp
    BY <2>1 DEF Settled, InFlight, Waits, Is
  <2>5. Executed(1) \/ (WaitsUntil > 0 /\ Played - 1 >= WaitsUntil)
    BY <2>1 DEF Settled
  <2>6. \/ /\ Played >= InFlightUntil /\ Played < WaitsUntil /\ Effects = 0 /\ GaveUp /\ MayGiveUp
        \/ /\ Played >= InFlightUntil /\ Played >= WaitsUntil /\ Effects = 1
           /\ IF ReadFails THEN Is(Op, "CLOSED", "UNKNOWN", "INVESTIGATE") ELSE Done
           /\ Now = "request-lost-before-commit" => ~contract.cautious
        \/ /\ Played >= InFlightUntil /\ Played >= WaitsUntil /\ WaitsUntil > 0 /\ Effects = 0
           /\ GaveUp /\ MayGiveUp
    BY <1>2, <2>4
  <2>7. Executed(1) \/ (WaitsUntil > 0 /\ Played >= WaitsUntil)
    BY <1>2, <2>5
  <2>8. Settled(Played)
    BY <2>3, <2>6, <2>7 DEF Settled
  <2> QED BY <1>4, <2>8 DEF After
<1> QED BY <1>3, <1>4

LEMMA LaterBegins ==
  ASSUME Basics, NEW c \in Callers, CallStep(c), caller[c].op = "op", caller[c].pc = "begin",
         Played > First, ClockFits, lock["op"] = "none", After(Played - 1)
  PROVE  AfterFirst'
<1>1. PICK o : o = caller[c].op
  OBVIOUS
<1>2. /\ Inputs /\ Played \in Nat /\ o = "op" /\ Played' = Played /\ Now \in Names /\ Driven
      /\ Played \in 1..Len(Plan) /\ First \in {1, 2, 3, 4}
      /\ UNCHANGED Running /\ UNCHANGED <<contract, options, n>> /\ "op" \in Ops
  BY <1>1, CallPlaces
<1>3. Plan[Played].do = "run"
  BY CallBasics
<1>4. BeginOutcome(c, o) /\ Op = record[o]
  BY <1>1, <1>2, CallOutcome DEF Op
<1>5. UNCHANGED <<target, crashOn, executes>>
  BY <1>4 DEF BeginOutcome
<1>6. Op \in Record /\ RecordFits(Op) /\ Op.status \in {"OPEN", "CLOSED"}
  <2>1. Op \in Record /\ RecordFits(Op)
    BY <1>1, <1>4, StageFrame
  <2>2. CASE Now = "late-landing"
    BY <2>1, <2>2 DEF After, Held, Waits, GaveUp, Done, Is
  <2>3. CASE Now # "late-landing"
    BY <2>1, <2>3 DEF After, Settled, Waits, GaveUp, Done, InFlight, Is
  <2> QED BY <2>1, <2>2, <2>3
<1>7. PICK p : p = Played - 1
  OBVIOUS
<1>8. CASE Op.status = "CLOSED"
  <2>1. NextStep(record[o], clock) = "idle" /\ record[o] # NoRecord
    BY <1>2, <1>4, <1>6, <1>8, NextStepFields, NewFits DEF Basics, TypeOK
  <2>2. /\ caller'[c].pc = "idle" /\ record' = record /\ lock' = lock
        /\ last' = Answer(record[o])
    BY <1>2, <1>4, <1>8, <2>1 DEF BeginOutcome
  <2>3. PICK q : q = Played
    OBVIOUS
  <2>4. After(q)
    BY <1>2, <1>3, <1>8, <2>3, ClosedStays
  <2>5. After(q)'
    BY <1>2, <1>5, <2>2, <2>4, AfterStays
  <2>6. After(Played)'
    BY <1>2, <2>3, <2>5
  <2> QED BY <1>2, <2>2, <2>6, LaterEnds
<1>9. CASE Op.status = "OPEN"
  <2>1. /\ NextStep(record[o], clock) \in {"observe", "reserve"} /\ record[o].attempts # << >>
        /\ NextStep(record[o], clock) = "reserve" => Waits /\ Effects = 0
    BY <1>2, <1>3, <1>4, <1>9, OpenRuns
  <2>2. record[o] # NoRecord
    BY <1>4, <1>9, NewFits
  <2>3. /\ record' = record /\ lock'["op"] = c
        /\ caller'[c].pc = NextStep(record[o], clock)
        /\ caller'[c].ok <=> Latest(record[o]).ok
    BY <1>2, <1>4, <2>1, <2>2 DEF BeginOutcome
  <2>4. After(p)
    BY <1>7
  <2>5. After(p)'
    BY <1>2, <1>5, <2>3, <2>4, AfterStays
  <2>6. After(Played - 1)' /\ Played' > First'
    <3>1. First' = First
      BY <1>2, SameTable
    <3> QED BY <1>2, <1>7, <2>5, <3>1
  <2>7. Op' = Op /\ (Waits' <=> Waits) /\ Effects' = Effects
    BY <1>2, <1>5, <2>3, SameOp DEF Effects
  <2>8. CASE NextStep(record[o], clock) = "observe"
    <3>1. Op'.status = "OPEN" /\ (caller'[c].ok <=> Latest(Op').ok)
      BY <1>4, <1>9, <2>3, <2>7
    <3>2. Reruns(c)'
      BY <2>3, <2>6, <2>8, <3>1 DEF Reruns, At
    <3> QED BY <2>3, <2>8, <3>2, LaterGoes
  <2>9. CASE NextStep(record[o], clock) = "reserve"
    <3>1. Waits' /\ Effects' = 0
      BY <2>1, <2>7, <2>9
    <3>2. Reruns(c)'
      BY <2>3, <2>6, <2>9, <3>1 DEF Reruns, At
    <3> QED BY <2>3, <2>9, <3>2, LaterGoes
  <2> QED BY <2>1, <2>8, <2>9
<1> QED BY <1>6, <1>8, <1>9

\* After the first run no fault is left.
LEMMA CalmAfter ==
  ASSUME NEW p, After(p)
  PROVE  /\ Calm
         /\ target.held = IF Now = "late-landing" THEN "op" ELSE "none"
         /\ Op.status = "OPEN" => Effects \in {0, 1}
         /\ Now = "late-landing" => ~target.pending["op"]
<1>1. CASE Now = "late-landing"
  <2>1. Held(p)
    BY <1>1 DEF After
  <2>2. Op.status = "OPEN" => Effects \in {0, 1}
    BY <2>1 DEF Held, Done, GaveUp, Is
  <2> QED BY <1>1, <2>1, <2>2 DEF Held, Calm
<1>2. CASE Now # "late-landing"
  <2>1. Settled(p)
    BY <1>2 DEF After
  <2> QED BY <1>2, <2>1 DEF Settled, TargetFits
<1> QED BY <1>1, <1>2

\* A call that is not at its begin is alone at work.
LEMMA LaterWorks ==
  ASSUME Basics, NEW c \in Callers, CallStep(c), caller[c].op = "op", AfterFirst, Played > First,
         caller[c].pc # "begin"
  PROVE  Reruns(c)
<1>1. PICK o : o = caller[c].op
  OBVIOUS
<1>2. caller[c].pc \in Working
  <2>1. caller[c].pc \in {"begin", "reserve", "execute", "observe", "save"}
    BY <1>1, CallOutcome
  <2> QED BY <2>1 DEF Working
<1>3. lock["op"] = c /\ c # "none"
  BY <1>1, <1>2, StageFrame DEF Callers
<1>4. PICK d \in Callers : Reruns(d)
  BY <1>3 DEF AfterFirst
<1>5. lock["op"] = d
  BY <1>4 DEF Reruns
<1> QED BY <1>3, <1>4, <1>5

LEMMA LaterObserves ==
  ASSUME Basics, NEW c \in Callers, CallStep(c), caller[c].op = "op", caller[c].pc = "observe",
         Followed, Now # "neighbor-effect-isolation" => NeighborUntouched,
         Played > First, ClockFits, Reruns(c)
  PROVE  AfterFirst'
<1>1. PICK o : o = caller[c].op
  OBVIOUS
<1>2. /\ Inputs /\ Played \in Nat /\ o = "op" /\ Played' = Played /\ Now \in Names /\ Driven
      /\ UNCHANGED Running /\ UNCHANGED <<contract, options, n>> /\ "op" \in Ops
  BY <1>1, CallPlaces
<1>3. /\ First' = First /\ WaitsUntil' = WaitsUntil /\ LandsAt' = LandsAt /\ Now' = Now
      /\ (RetryAllowed' <=> RetryAllowed)
  BY <1>2, SameTable
<1>4. \/ Op.status = "OPEN" /\ After(Played - 1) /\ (caller[c].ok <=> Latest(Op).ok)
      \/ /\ Op.status = "OPEN" /\ Len(Op.attempts) = 2 /\ Latest(Op).status = "RESERVED"
         /\ Calm /\ ~target.pending["op"]
         /\ target.held = IF Now = "late-landing" THEN "op" ELSE "none"
         /\ Played = IF Now = "late-landing" THEN 4 ELSE WaitsUntil
         /\ Now = "late-landing" => LandsAt = 6
         /\ RetryAllowed /\ (Now = "request-lost-before-commit" => ~contract.cautious)
         /\ Effects = 1 /\ caller[c].ok
  BY DEF Reruns, At
<1>5. Calm /\ Effects \in {0, 1}
  <2>1. PICK p : p = Played - 1
    OBVIOUS
  <2>2. After(Played - 1) => After(p)
    BY <2>1
  <2> QED BY <1>4, <2>2, CalmAfter
<1>6. /\ caller'[c].evidence = Evidence(caller[c].ok, target.failRead)
      /\ UNCHANGED <<record, lock, crashOn, executes, last>> /\ lock["op"] = c
      /\ caller'[c].pc = "save" /\ (caller'[c].ok <=> caller[c].ok)
      /\ target'.applied = target.applied /\ target'.pending = target.pending
      /\ target'.mode = target.mode /\ target'.held = target.held /\ ~target'.failRead
  BY <1>5, Observed
<1>7. Op' = Op /\ Effects' = Effects /\ ~target.failRead /\ (Calm' <=> Calm)
  BY <1>5, <1>6 DEF Op, Effects, Calm
<1>8. CASE Op.status = "OPEN" /\ After(Played - 1) /\ (caller[c].ok <=> Latest(Op).ok)
  <2>1. PICK p : p = Played - 1
    OBVIOUS
  <2>2. After(p)
    BY <1>8, <2>1
  <2>3. After(p)'
    BY <1>2, <1>6, <1>7, <2>2, AfterStays
  <2>4. After(Played - 1)' /\ Played' > First'
    BY <1>2, <1>3, <2>1, <2>3
  <2>5. Op'.status = "OPEN" /\ (caller'[c].ok <=> Latest(Op').ok)
    BY <1>6, <1>7, <1>8
  <2>6. caller'[c].evidence = Evidence(Latest(Op).ok, FALSE)'
    <3>1. caller'[c].evidence = Evidence(Latest(Op).ok, FALSE)
      BY <1>6, <1>7, <1>8 DEF Evidence
    <3> QED BY <1>2, <1>6, <1>7, <3>1 DEF Evidence
  <2>7. Reruns(c)'
    BY <1>6, <2>4, <2>5, <2>6 DEF Reruns, At
  <2> QED BY <1>6, <2>7, LaterGoes
<1>9. CASE /\ Op.status = "OPEN" /\ Len(Op.attempts) = 2 /\ Latest(Op).status = "RESERVED"
           /\ Calm /\ ~target.pending["op"]
           /\ target.held = IF Now = "late-landing" THEN "op" ELSE "none"
           /\ Played = IF Now = "late-landing" THEN 4 ELSE WaitsUntil
           /\ Now = "late-landing" => LandsAt = 6
           /\ RetryAllowed /\ (Now = "request-lost-before-commit" => ~contract.cautious)
           /\ Effects = 1 /\ caller[c].ok
  <2>1. caller'[c].evidence = "APPLIED"
    BY <1>6, <1>7, <1>9 DEF Evidence
  <2>2. /\ Op'.status = "OPEN" /\ Len(Op'.attempts) = 2 /\ Latest(Op').status = "RESERVED"
        /\ Calm' /\ ~target'.pending["op"]
        /\ target'.held = IF Now' = "late-landing" THEN "op" ELSE "none"
        /\ Played' = IF Now' = "late-landing" THEN 4 ELSE WaitsUntil'
        /\ Now' = "late-landing" => LandsAt' = 6
        /\ RetryAllowed' /\ (Now' = "request-lost-before-commit" => ~contract'.cautious)
        /\ Effects' = 1 /\ caller'[c].ok
    BY <1>2, <1>3, <1>6, <1>7, <1>9
  <2>3. Reruns(c)'
    BY <1>2, <1>3, <1>6, <2>1, <2>2 DEF Reruns, At
  <2> QED BY <1>6, <2>3, LaterGoes
<1> QED BY <1>4, <1>8, <1>9

LEMMA LaterReserves ==
  ASSUME Basics, NEW c \in Callers, CallStep(c), caller[c].op = "op", caller[c].pc = "reserve",
         Played > First, ClockFits, Reruns(c)
  PROVE  AfterFirst'
<1>1. PICK o : o = caller[c].op
  OBVIOUS
<1>2. /\ Inputs /\ Played \in Nat /\ o = "op" /\ Played' = Played /\ Now \in Names /\ Driven
      /\ Played \in 1..Len(Plan) /\ First \in {1, 2, 3, 4}
      /\ UNCHANGED Running /\ UNCHANGED <<contract, options, n>> /\ "op" \in Ops
  BY <1>1, CallPlaces
<1>3. /\ First' = First /\ WaitsUntil' = WaitsUntil /\ LandsAt' = LandsAt /\ Now' = Now
      /\ (RetryAllowed' <=> RetryAllowed)
  BY <1>2, SameTable
<1>4. After(Played - 1) /\ Waits /\ Effects = 0
  BY DEF Reruns, At
<1>5. PICK p : p = Played - 1
  OBVIOUS
<1>6. Calm /\ target.held = IF Now = "late-landing" THEN "op" ELSE "none"
  BY <1>4, <1>5, CalmAfter
<1>7. ReserveOutcome(c, o) /\ Plan[Played].do = "run"
  BY <1>1, CallOutcome, CallBasics
<1>8. /\ UNCHANGED <<target, executes, last>> /\ crashOn' = crashOn /\ lock'["op"] = c
      /\ caller'[c].pc = "execute" /\ Op'.status = "OPEN" /\ Len(Op'.attempts) = 2
      /\ Latest(Op').status = "RESERVED"
  <2>1. crashOn # "afterReserve" /\ Len(record[o].attempts) = 1
    BY <1>2, <1>4, <1>6 DEF Calm, Waits, Op
  <2> QED BY <1>2, <1>7, <2>1 DEF ReserveOutcome, Op, Reserved
<1>9. RetryAllowed /\ (Now = "request-lost-before-commit" => ~contract.cautious)
  BY <1>4 DEF Waits
<1>10. ~InFlight
  BY <1>4, SentFields DEF Waits, InFlight, Is, Resolved
<1>11. /\ ~target.pending["op"]
       /\ Played = IF Now = "late-landing" THEN 4 ELSE WaitsUntil
       /\ Now = "late-landing" => LandsAt = 6
  <2>1. PICK i \in 1..Len(Plan) : i = Played
    BY <1>2
  <2>2. CASE Now = "late-landing"
    <3>1. Held(Played - 1) /\ LandsAt \in {4, 6}
      BY <1>4, <2>2 DEF After, LandsAt
    <3>2. ~target.pending["op"] /\ Played - 1 < LandsAt
      BY <1>4, <3>1 DEF Held, Waits, GaveUp, Done, Is
    <3>3. /\ i = 4 \/ i = 6 \/ i >= 8
          /\ i = 4 => LandsAt = 6
          /\ i = 6 => LandsAt = 4
          /\ Plan[i].do = "land" <=> Now = "late-landing" /\ i = LandsAt
      BY <1>2, <1>7, <2>1, <2>2, LateAfterwards, Afterwards
    <3> QED BY <1>2, <1>7, <2>1, <2>2, <3>1, <3>2, <3>3
  <2>3. CASE Now # "late-landing"
    <3>1. Settled(Played - 1) /\ InFlightUntil \in Nat /\ WaitsUntil \in Nat
      BY <1>2, <1>4, <2>3, ScenarioTable, ScenarioNames DEF After
    <3>2. Played - 1 >= InFlightUntil /\ Played - 1 < WaitsUntil /\ TargetFits(Played - 1)
      BY <1>4, <1>10, <3>1 DEF Settled, Waits, GaveUp, Done, Is
    <3>3. i = WaitsUntil
      BY <1>2, <1>7, <2>1, <3>1, <3>2, Afterwards
    <3>4. Now = "pending-then-rejected" => InFlightUntil = 9
      BY ScenarioTable
    <3>5. Now # "pending-then-settled"
      BY <3>1, <3>2, <1>2, ScenarioTable
    <3>6. ~target.pending["op"]
      BY <1>2, <3>2, <3>4, <3>5 DEF TargetFits
    <3> QED BY <2>1, <2>3, <3>3, <3>6
  <2> QED BY <2>2, <2>3
<1>12. Effects' = 0 /\ Calm'
  BY <1>4, <1>6, <1>8 DEF Effects, Calm
<1>13. Reruns(c)'
  <2>1. lock'["op"] = c /\ Played' > First' /\ caller'[c].pc \in {"execute", "observe", "save"}
        /\ target'.held = (IF Now' = "late-landing" THEN "op" ELSE "none") /\ ~target'.pending["op"]
    BY <1>2, <1>3, <1>6, <1>8, <1>11
  <2>2. /\ Played' = IF Now' = "late-landing" THEN 4 ELSE WaitsUntil'
        /\ Now' = "late-landing" => LandsAt' = 6
        /\ RetryAllowed' /\ (Now' = "request-lost-before-commit" => ~contract'.cautious)
    BY <1>2, <1>3, <1>9, <1>11
  <2> QED BY <1>8, <1>12, <2>1, <2>2 DEF Reruns, At
<1> QED BY <1>8, <1>13, LaterGoes

LEMMA LaterExecutes ==
  ASSUME Basics, NEW c \in Callers, CallStep(c), caller[c].op = "op", caller[c].pc = "execute",
         Plain, Played > First, ClockFits, Reruns(c)
  PROVE  AfterFirst'
<1>1. PICK o : o = caller[c].op
  OBVIOUS
<1>2. /\ Inputs /\ Played \in Nat /\ o = "op" /\ Played' = Played
      /\ UNCHANGED Running /\ UNCHANGED <<contract, options, n>>
  BY <1>1, CallPlaces
<1>3. /\ First' = First /\ WaitsUntil' = WaitsUntil /\ LandsAt' = LandsAt /\ Now' = Now
      /\ (RetryAllowed' <=> RetryAllowed)
  BY <1>2, SameTable
<1>4. /\ Op.status = "OPEN" /\ Len(Op.attempts) = 2 /\ Latest(Op).status = "RESERVED"
      /\ Calm /\ ~target.pending["op"]
      /\ target.held = IF Now = "late-landing" THEN "op" ELSE "none"
      /\ Played = IF Now = "late-landing" THEN 4 ELSE WaitsUntil
      /\ Now = "late-landing" => LandsAt = 6
      /\ RetryAllowed /\ (Now = "request-lost-before-commit" => ~contract.cautious)
      /\ Effects = 0
  BY DEF Reruns, At
<1>5. /\ UNCHANGED <<record, lock, crashOn, last>> /\ lock["op"] = c /\ caller'[c].pc = "observe"
      /\ caller'[c].ok /\ target'.mode = "normal" /\ target'.failRead = target.failRead
      /\ target'.applied["op"] = 1 /\ target'.held = target.held /\ ~target'.pending["op"]
  <2>1. ExecuteOutcome(c, o)
    BY <1>1, CallOutcome
  <2>2. target.mode = "normal" /\ target.applied["op"] = 0 /\ contract.writes = "once"
    BY <1>4 DEF Calm, Effects, Plain
  <2> QED BY <1>2, <1>4, <2>1, <2>2 DEF ExecuteOutcome
<1>6. Op' = Op /\ Effects' = 1 /\ Calm'
  BY <1>4, <1>5 DEF Op, Effects, Calm
<1>7. Reruns(c)'
  <2>1. lock'["op"] = c /\ Played' > First' /\ caller'[c].pc = "observe"
        /\ target'.held = (IF Now' = "late-landing" THEN "op" ELSE "none") /\ ~target'.pending["op"]
    BY <1>2, <1>3, <1>4, <1>5
  <2>2. /\ Played' = IF Now' = "late-landing" THEN 4 ELSE WaitsUntil'
        /\ Now' = "late-landing" => LandsAt' = 6
        /\ RetryAllowed' /\ (Now' = "request-lost-before-commit" => ~contract'.cautious)
    BY <1>2, <1>3, <1>4
  <2>3. Op'.status = "OPEN" /\ Len(Op'.attempts) = 2 /\ Latest(Op').status = "RESERVED"
    BY <1>4, <1>6
  <2> QED BY <1>5, <1>6, <2>1, <2>2, <2>3 DEF Reruns, At
<1> QED BY <1>5, <1>7, LaterGoes

\* What a run saves of its second attempt.
LEMMA RetrySaves ==
  ASSUME Basics, NEW c \in Callers, CallStep(c), caller[c].op = "op", caller[c].pc = "save",
         Played > First, ClockFits, caller[c].evidence = "APPLIED",
         Latest(Op).status = "RESERVED", Calm, ~target.pending["op"],
         target.held = IF Now = "late-landing" THEN "op" ELSE "none",
         Played = IF Now = "late-landing" THEN 4 ELSE WaitsUntil,
         Now = "late-landing" => LandsAt = 6,
         RetryAllowed, Now = "request-lost-before-commit" => ~contract.cautious,
         Effects = 1
  PROVE  AfterFirst'
<1>1. PICK o : o = caller[c].op
  OBVIOUS
<1>2. /\ Inputs /\ Played \in Nat /\ o = "op" /\ Played' = Played /\ Now \in Names
      /\ UNCHANGED Running /\ UNCHANGED <<contract, options, n>> /\ First \in {1, 2, 3, 4}
  BY <1>1, CallPlaces
<1>3. /\ First' = First /\ WaitsUntil' = WaitsUntil /\ LandsAt' = LandsAt /\ Now' = Now
      /\ (RetryAllowed' <=> RetryAllowed) /\ InFlightUntil' = InFlightUntil /\ (ReadFails' <=> ReadFails)
  BY <1>2, SameTable
<1>4. /\ UNCHANGED <<target, executes>> /\ crashOn' = crashOn
      /\ Is(record'["op"], "CLOSED", "APPLIED", "COMPLETE")
      /\ \/ RetriesNow(record["op"], record'["op"])
         \/ /\ lock'["op"] = "none" /\ caller'[c].pc = "idle" /\ last' = Answer(record'["op"])
  <2>1. crashOn # "onResolve"
    BY DEF Calm
  <2> QED BY <2>1, SaveOp
<1>5. /\ lock'["op"] = "none" /\ caller'[c].pc = "idle" /\ last' = Answer(record'["op"])
  BY <1>4 DEF RetriesNow, Op
<1>6. Done' /\ Effects' = 1 /\ Calm' /\ target' = target
  BY <1>4 DEF Done, Op, Effects, Calm
<1>7. After(Played)'
  <2>1. CASE Now = "late-landing"
    <3>1. Held(Played)'
      BY <1>2, <1>3, <1>6, <2>1 DEF Held, Calm
    <3> QED BY <1>3, <2>1, <3>1 DEF After
  <2>2. CASE Now # "late-landing"
    <3>1. /\ WaitsUntil > 0 /\ WaitsUntil \in Nat /\ InFlightUntil \in Nat /\ InFlightUntil <= WaitsUntil
          /\ ~ReadFails /\ Now # "pending-then-settled"
          /\ Now = "pending-then-rejected" => WaitsUntil = 11
      BY <1>2, <2>2, ScenarioTable, ScenarioNames
    <3>2. TargetFits(Played)'
      BY <1>2, <1>3, <1>6, <2>2, <3>1 DEF TargetFits
    <3>3. Settled(Played)'
      BY <1>2, <1>3, <1>6, <2>2, <3>1, <3>2 DEF Settled
    <3> QED BY <1>3, <2>2, <3>3 DEF After
  <2> QED BY <2>1, <2>2
<1> QED BY <1>5, <1>7, LaterEnds

\* An operation that waits, seen without its effect after the window, is attempted again.
LEMMA WaitsSaves ==
  ASSUME Basics, NEW c \in Callers, CallStep(c), caller[c].op = "op", caller[c].pc = "save",
         Played > First, ClockFits, After(Played - 1), Waits, Effects = 0, ~target.pending["op"],
         caller[c].ok <=> Latest(Op).ok, caller[c].evidence = Evidence(Latest(Op).ok, FALSE)
  PROVE  AfterFirst'
<1>1. PICK o : o = caller[c].op
  OBVIOUS
<1>2. /\ Inputs /\ Played \in Nat /\ o = "op" /\ Played' = Played /\ Now \in Names /\ Driven
      /\ Played \in 1..Len(Plan) /\ Plan[Played].do = "run"
      /\ UNCHANGED Running /\ UNCHANGED <<contract, options, n>> /\ First \in {1, 2, 3, 4}
  BY <1>1, CallPlaces, CallBasics
<1>3. /\ First' = First /\ WaitsUntil' = WaitsUntil /\ LandsAt' = LandsAt /\ Now' = Now
      /\ (RetryAllowed' <=> RetryAllowed) /\ InFlightUntil' = InFlightUntil /\ (ReadFails' <=> ReadFails)
      /\ (Declared' <=> Declared)
  BY <1>2, SameTable
<1>4. PICK p : p = Played - 1
  OBVIOUS
<1>5. Calm /\ After(p) /\ target.held = IF Now = "late-landing" THEN "op" ELSE "none"
  BY <1>4, CalmAfter
<1>6. /\ RetryAllowed /\ Len(Op.attempts) = 1 /\ (Latest(Op).ok <=> Now = "pending-then-rejected")
      /\ ~Latest(Op).ok => Declared /\ ~contract.cautious /\ Latest(Op).startedAt = 0
      /\ Latest(Op).status = "RESOLVED" /\ Latest(Op).disposition = "RETRY"
  BY DEF Waits, Is, Resolved
<1>7. caller[c].evidence = "NOT_APPLIED"
  BY <1>6 DEF Evidence
<1>8. /\ contract.retryOnNotApplied /\ 1 < contract.maxAttempts
      /\ ~Latest(Op).ok => clock >= contract.window /\ contract.window \in Nat /\ clock \in Nat
  <2>1. contract.maxAttempts \in Nat
    BY <1>2, ContractFields
  <2>2. ~Latest(Op).ok => clock >= contract.window /\ contract.window \in Nat /\ clock \in Nat
    BY <1>2, WindowPassed
  <2> QED BY <1>6, <2>1, <2>2 DEF RetryAllowed
<1>9. /\ UNCHANGED <<target, executes>> /\ crashOn' = crashOn /\ lock["op"] = c
      /\ Len(record'["op"].attempts) = 1
      /\ Latest(record'["op"]).ok <=> Latest(Op).ok
      /\ Latest(record'["op"]).startedAt = Latest(Op).startedAt
      /\ Is(record'["op"], "OPEN", "NOT_APPLIED", "RETRY")
      /\ Latest(record'["op"]).retryNotBefore = NoTime
  <2>1. crashOn # "onResolve" /\ Op = record["op"]
    BY <1>5 DEF Calm, Op
  <2>2. /\ UNCHANGED <<target, executes>> /\ crashOn' = crashOn /\ lock["op"] = c
        /\ Len(record'["op"].attempts) = Len(record["op"].attempts)
        /\ Latest(record'["op"]).ok <=> caller[c].ok
        /\ Latest(record'["op"]).startedAt = Latest(record["op"]).startedAt
        /\ caller[c].evidence = "NOT_APPLIED" =>
              IF contract.retryOnNotApplied /\ Len(record["op"].attempts) < contract.maxAttempts
                 /\ (caller[c].ok \/ Declared)
              THEN /\ Is(record'["op"], "OPEN", "NOT_APPLIED", "RETRY")
                   /\ Latest(record'["op"]).retryNotBefore =
                        IF ~caller[c].ok /\ Declared
                           /\ clock < Latest(record["op"]).startedAt + contract.window
                        THEN Latest(record["op"]).startedAt + contract.window ELSE NoTime
              ELSE Is(record'["op"], "CLOSED", "NOT_APPLIED", "INVESTIGATE")
    BY <2>1, SaveOp
  <2>3. caller[c].ok \/ Declared
    BY <1>6
  <2>4. ~(~caller[c].ok /\ Declared /\ clock < Latest(record["op"]).startedAt + contract.window)
    BY <1>6, <1>8, <2>1
  <2> QED BY <1>6, <1>7, <1>8, <2>1, <2>2, <2>3, <2>4
<1>10. lock' = lock /\ last' = last /\ caller'[c].pc = "reserve"
  <2>1. RetriesNow(record["op"], record'["op"])
    BY <1>6, <1>9 DEF RetriesNow, Op, Is, Resolved
  <2>2. crashOn # "onResolve"
    BY <1>5 DEF Calm
  <2> QED BY <2>1, <2>2, SaveOp
<1>11. Waits' /\ Effects' = 0 /\ target' = target
  BY <1>2, <1>3, <1>6, <1>9 DEF Waits, Op, Effects
<1>12. (Executed(1)' <=> Executed(1)) /\ Op.status = "OPEN" /\ ~InFlight
  <2>1. ~InFlight
    BY <1>6, SentFields DEF InFlight, Waits, Is, Resolved
  <2> QED BY <1>3, <1>9, <2>1 DEF Executed, Waits, Is
<1>13. After(p)'
  <2>1. CASE Now = "late-landing"
    <3>1. Held(p)
      BY <1>5, <2>1 DEF After
    <3>2. Executed(1) /\ 0 = (IF p < LandsAt THEN 0 ELSE 1) /\ p < (IF LandsAt = 6 THEN 4 ELSE 6)
      BY <1>12, <3>1 DEF Held, Done, GaveUp, Is
    <3>3. Held(p)'
      BY <1>3, <1>5, <1>9, <1>11, <1>12, <3>1, <3>2 DEF Held, Calm
    <3> QED BY <1>3, <2>1, <3>3 DEF After
  <2>2. CASE Now # "late-landing"
    <3>1. Settled(p)
      BY <1>5, <2>2 DEF After
    <3>2. p >= InFlightUntil /\ p < WaitsUntil /\ TargetFits(p)
          /\ (Executed(1) \/ (WaitsUntil > 0 /\ p >= WaitsUntil))
      BY <1>12, <3>1 DEF Settled, Done, GaveUp, Is
    <3>3. TargetFits(p)'
      BY <1>3, <1>9, <1>11, <3>2 DEF TargetFits, Calm
    <3>4. Settled(p)'
      BY <1>3, <1>11, <1>12, <3>2, <3>3 DEF Settled
    <3> QED BY <1>3, <2>2, <3>4 DEF After
  <2> QED BY <2>1, <2>2
<1>14. After(Played - 1)' /\ Played' > First'
  BY <1>2, <1>3, <1>4, <1>13
<1>15. Reruns(c)'
  BY <1>9, <1>10, <1>11, <1>14 DEF Reruns, At
<1> QED BY <1>10, <1>15, LaterGoes

\* The call ends when no retry goes on.
LEMMA SaveEnds ==
  ASSUME Basics, NEW c \in Callers, CallStep(c), caller[c].op = "op", caller[c].pc = "save",
         crashOn = "none", ~RetriesNow(record["op"], record'["op"]),
         Played > First, ClockFits, After(Played)'
  PROVE  AfterFirst'
<1>1. lock'["op"] = "none" /\ caller'[c].pc = "idle" /\ last' = Answer(record'["op"])
  BY SaveOp
<1> QED BY <1>1, LaterEnds

\* A request that landed while the operation waited is seen.
LEMMA LandedSaves ==
  ASSUME Basics, NEW c \in Callers, CallStep(c), caller[c].op = "op", caller[c].pc = "save",
         Played > First, ClockFits, Now = "late-landing", Held(Played - 1), Op.status = "OPEN",
         Effects # 0, caller[c].evidence = Evidence(Latest(Op).ok, FALSE)
  PROVE  AfterFirst'
<1>1. PICK o : o = caller[c].op
  OBVIOUS
<1>2. /\ Inputs /\ Played \in Nat /\ o = "op" /\ Played' = Played /\ Driven
      /\ Played \in 1..Len(Plan) /\ Plan[Played].do = "run"
      /\ UNCHANGED Running /\ UNCHANGED <<contract, options, n>>
  BY <1>1, CallPlaces, CallBasics
<1>3. /\ LandsAt' = LandsAt /\ Now' = Now /\ (RetryAllowed' <=> RetryAllowed)
  BY <1>2, SameTable
<1>4. PICK i \in 1..Len(Plan) : i = Played
  BY <1>2
<1>5. /\ i = 4 \/ i = 6 \/ i >= 8
      /\ i = 4 => LandsAt = 6
      /\ i = 6 => LandsAt = 4
      /\ LandsAt \in {4, 6}
  BY <1>2, <1>4, LateAfterwards DEF LandsAt
<1>6. /\ Executed(1) /\ Effects = (IF Played - 1 < LandsAt THEN 0 ELSE 1)
      /\ Waits /\ Played - 1 < (IF LandsAt = 6 THEN 4 ELSE 6)
  BY DEF Held, Done, GaveUp, Is
<1>7. LandsAt = 4 /\ Played = 6 /\ Effects = 1 /\ RetryAllowed
  BY <1>2, <1>4, <1>5, <1>6 DEF Waits
<1>8. /\ target.mode = "normal" /\ ~target.failRead /\ crashOn = "none" /\ ~target.pending["op"]
      /\ target.held = "op"
  BY DEF Held
<1>9. caller[c].evidence = "APPLIED"
  BY <1>7, <1>8 DEF Evidence
<1>10. /\ UNCHANGED <<target, executes>> /\ crashOn' = crashOn
       /\ Is(record'["op"], "CLOSED", "APPLIED", "COMPLETE")
  BY <1>8, <1>9, SaveOp
<1>11. Held(Played)'
  BY <1>2, <1>3, <1>6, <1>7, <1>8, <1>10 DEF Held, Done, Op, Effects, Executed
<1>12. After(Played)'
  BY <1>3, <1>11 DEF After
<1>13. ~RetriesNow(record["op"], record'["op"])
  BY <1>10 DEF RetriesNow, Is
<1> QED BY <1>8, <1>12, <1>13, SaveEnds

\* What becomes of an operation in flight when it is observed.
LEMMA InFlightSaves ==
  ASSUME Basics, NEW c \in Callers, CallStep(c), caller[c].op = "op", caller[c].pc = "save",
         Followed, Played > First, ClockFits, Now # "late-landing", Settled(Played - 1), InFlight,
         caller[c].ok <=> Latest(Op).ok, caller[c].evidence = Evidence(Latest(Op).ok, FALSE)
  PROVE  AfterFirst'
<1>1. PICK o : o = caller[c].op
  OBVIOUS
<1>2. /\ Inputs /\ Played \in Nat /\ o = "op" /\ Played' = Played /\ Driven /\ Now \in Names
      /\ Played \in 1..Len(Plan) /\ Plan[Played].do = "run" /\ First \in {1, 2, 3, 4}
      /\ UNCHANGED Running /\ UNCHANGED <<contract, options, n>>
  BY <1>1, CallPlaces, CallBasics
<1>3. /\ First' = First /\ WaitsUntil' = WaitsUntil /\ Now' = Now /\ CrashAt' = CrashAt
      /\ (RetryAllowed' <=> RetryAllowed) /\ InFlightUntil' = InFlightUntil /\ (ReadFails' <=> ReadFails)
      /\ (Declared' <=> Declared) /\ (MayGiveUp' <=> MayGiveUp) /\ Sent' = Sent
  BY <1>2, SameTable
<1>4. PICK i \in 1..Len(Plan) : i = Played
  BY <1>2
<1>5. /\ i <= InFlightUntil /\ (CrashAt # "none" \/ i > 7) => i = InFlightUntil
      /\ i = 7 => Now \notin {"pending-then-settled", "pending-then-rejected"}
  BY <1>2, <1>4, Afterwards
<1>6. /\ Played - 1 < InFlightUntil /\ InFlight
      /\ Effects = IF Now = "crash-after-effect-before-save" \/ (Now = "pending-then-settled" /\ Played - 1 >= 7)
                   THEN 1 ELSE 0
      /\ TargetFits(Played - 1) /\ (Executed(1) \/ (WaitsUntil > 0 /\ Played - 1 >= WaitsUntil))
  <2>1. ~Waits /\ ~GaveUp /\ ~Done /\ ~Is(Op, "CLOSED", "UNKNOWN", "INVESTIGATE")
    BY SentFields DEF InFlight, Waits, GaveUp, Done, Is, Resolved
  <2> QED BY <2>1 DEF Settled
<1>7. /\ Calm /\ crashOn = "none" /\ target.held = "none" /\ Len(Op.attempts) = 1 /\ Op = record["op"]
      /\ target.pending["op"] <=> Now \in {"pending-then-settled", "pending-then-rejected"} /\ Played - 1 < 7
  BY <1>6 DEF TargetFits, Calm, InFlight, Op
<1>8. ~RetriesNow(record["op"], record'["op"])
  <2>1. Latest(Op).status = "RESERVED" \/ Latest(Op).disposition = "NULL"
    BY <1>6, SentFields DEF InFlight, Is
  <2> QED BY <1>7, <2>1 DEF RetriesNow
<1>w. /\ contract.maxAttempts \in Nat /\ contract.retryOnNotApplied \in BOOLEAN
      /\ RetryAllowed <=> contract.retryOnNotApplied /\ 1 < contract.maxAttempts
  BY <1>2, ContractFields DEF RetryAllowed
<1>9. /\ UNCHANGED <<target, executes>> /\ crashOn' = crashOn
      /\ Len(record'["op"].attempts) = 1
      /\ Latest(record'["op"]).ok <=> Latest(Op).ok
      /\ Latest(record'["op"]).startedAt = Latest(Op).startedAt
      /\ caller[c].evidence = "APPLIED" => Is(record'["op"], "CLOSED", "APPLIED", "COMPLETE")
      /\ caller[c].evidence = "PENDING" => Is(record'["op"], "OPEN", "PENDING", "NULL")
      /\ caller[c].evidence = "UNKNOWN" => Is(record'["op"], "CLOSED", "UNKNOWN", "INVESTIGATE")
      /\ caller[c].evidence = "NOT_APPLIED" =>
            IF RetryAllowed /\ (Latest(Op).ok \/ Declared)
            THEN /\ Is(record'["op"], "OPEN", "NOT_APPLIED", "RETRY")
                 /\ Latest(record'["op"]).retryNotBefore =
                      IF ~Latest(Op).ok /\ Declared
                         /\ clock < Latest(Op).startedAt + contract.window
                      THEN Latest(Op).startedAt + contract.window ELSE NoTime
            ELSE Is(record'["op"], "CLOSED", "NOT_APPLIED", "INVESTIGATE")
  <2>1. /\ UNCHANGED <<target, executes>> /\ crashOn' = crashOn
        /\ Len(record'["op"].attempts) = Len(record["op"].attempts)
        /\ Latest(record'["op"]).ok <=> caller[c].ok
        /\ Latest(record'["op"]).startedAt = Latest(record["op"]).startedAt
        /\ caller[c].evidence = "APPLIED" => Is(record'["op"], "CLOSED", "APPLIED", "COMPLETE")
        /\ caller[c].evidence = "PENDING" => Is(record'["op"], "OPEN", "PENDING", "NULL")
        /\ caller[c].evidence = "UNKNOWN" => Is(record'["op"], "CLOSED", "UNKNOWN", "INVESTIGATE")
    BY <1>7, SaveOp
  <2>2. caller[c].evidence = "NOT_APPLIED" =>
              IF contract.retryOnNotApplied /\ Len(record["op"].attempts) < contract.maxAttempts
                 /\ (caller[c].ok \/ Declared)
              THEN /\ Is(record'["op"], "OPEN", "NOT_APPLIED", "RETRY")
                   /\ Latest(record'["op"]).retryNotBefore =
                        IF ~caller[c].ok /\ Declared
                           /\ clock < Latest(record["op"]).startedAt + contract.window
                        THEN Latest(record["op"]).startedAt + contract.window ELSE NoTime
              ELSE Is(record'["op"], "CLOSED", "NOT_APPLIED", "INVESTIGATE")
    BY <1>7, SaveOp
  <2>3. Len(record["op"].attempts) = 1 /\ (caller[c].ok <=> Latest(record["op"]).ok)
    BY <1>7
  <2>4. PICK k : k = record["op"]
    OBVIOUS
  <2>5. caller[c].evidence = "NOT_APPLIED" =>
              IF contract.retryOnNotApplied /\ 1 < contract.maxAttempts /\ (Latest(k).ok \/ Declared)
              THEN /\ Is(record'["op"], "OPEN", "NOT_APPLIED", "RETRY")
                   /\ Latest(record'["op"]).retryNotBefore =
                        IF ~Latest(k).ok /\ Declared
                           /\ clock < Latest(k).startedAt + contract.window
                        THEN Latest(k).startedAt + contract.window ELSE NoTime
              ELSE Is(record'["op"], "CLOSED", "NOT_APPLIED", "INVESTIGATE")
    BY <2>2, <2>3, <2>4
  <2>6. Op = k
    BY <1>7, <2>4
  <2> QED BY <1>w, <2>1, <2>3, <2>4, <2>5, <2>6
<1>10. Effects' = Effects /\ (Executed(1)' <=> Executed(1)) /\ Op' = record'["op"] /\ Calm'
  BY <1>3, <1>7, <1>9 DEF Effects, Executed, Op, Calm
<1>11. TargetFits(Played)'
  <2>1. i # 7 \/ Now \notin {"pending-then-settled", "pending-then-rejected"}
    BY <1>5
  <2>2. ~(Played - 1 < 7 /\ ~(Played < 7)) \/ Now \notin {"pending-then-settled", "pending-then-rejected"}
    BY <1>2, <1>4, <2>1
  <2>3. target'.pending["op"] <=> Now' \in {"pending-then-settled", "pending-then-rejected"} /\ Played' < 7
    BY <1>2, <1>3, <1>7, <1>9, <2>2
  <2> QED BY <1>7, <1>9, <1>10, <2>3 DEF TargetFits
<1>12. Settled(Played)'
  <2>1. CASE Now = "crash-after-effect-before-save"
    <3>1. InFlightUntil = 4 /\ WaitsUntil = 0 /\ CrashAt = "onResolve" /\ ~ReadFails
      BY <2>1, ScenarioTable
    <3>2. Effects = 1 /\ Played = 4 /\ ~target.pending["op"] /\ Executed(1)
      BY <1>2, <1>4, <1>5, <1>6, <1>7, <2>1, <3>1
    <3>3. caller[c].evidence = "APPLIED"
      BY <3>2 DEF Evidence
    <3>4. Done'
      BY <1>9, <1>10, <3>3 DEF Done
    <3> QED BY <1>2, <1>3, <1>10, <1>11, <2>1, <3>1, <3>2, <3>4 DEF Settled
  <2>2. CASE Now = "crash-before-execute"
    <3>1. InFlightUntil = 4 /\ WaitsUntil = 6 /\ CrashAt = "afterReserve" /\ ~ReadFails
      BY <2>2, ScenarioTable
    <3>2. Effects = 0 /\ Played = 4 /\ ~target.pending["op"] /\ Executed(1)
      BY <1>2, <1>4, <1>5, <1>6, <1>7, <2>2, <3>1
    <3>3. ~Latest(Op).ok /\ Latest(Op).startedAt = 0
      BY <1>6, <3>1, SentFields DEF InFlight
    <3>4. caller[c].evidence = IF contract.cautious THEN "UNKNOWN" ELSE "NOT_APPLIED"
      BY <3>2, <3>3 DEF Evidence
    <3>5. Waits' \/ (GaveUp' /\ MayGiveUp')
      <4>1. CASE contract.cautious
        BY <1>3, <1>9, <1>10, <2>2, <3>4, <4>1 DEF GaveUp, MayGiveUp
      <4>2. CASE ~contract.cautious /\ RetryAllowed /\ Declared
        <5>1. contract.window \in Nat /\ 0 + contract.window = contract.window
          BY <1>2, <4>2, ContractFields DEF Declared, Times
        <5>2. Latest(record'["op"]).retryNotBefore \in {NoTime, contract.window}
          BY <1>9, <3>3, <3>4, <4>2, <5>1
        <5> QED BY <1>2, <1>3, <1>9, <1>10, <2>2, <3>3, <3>4, <4>2, <5>2 DEF Waits
      <4>3. CASE ~contract.cautious /\ ~(RetryAllowed /\ Declared)
        BY <1>3, <1>9, <1>10, <2>2, <3>3, <3>4, <4>3 DEF GaveUp, MayGiveUp
      <4> QED BY <4>1, <4>2, <4>3
    <3> QED BY <1>2, <1>3, <1>10, <1>11, <2>2, <3>1, <3>2, <3>5 DEF Settled
  <2>3. CASE Now \in {"pending-then-settled", "pending-then-rejected"}
    <3>1. /\ InFlightUntil = 9 /\ CrashAt = "none" /\ ~ReadFails
          /\ Now = "pending-then-settled" => WaitsUntil = 0
          /\ Now = "pending-then-rejected" => WaitsUntil = 11
      BY <2>3, ScenarioTable
    <3>2. Latest(Op).ok /\ contract.onPending = "PENDING" /\ Executed(1)
      BY <1>2, <1>6, <2>3, <3>1 DEF InFlight, Followed, Honest
    <3>3. CASE Played < 7
      <4>1. target.pending["op"] /\ Effects = 0
        BY <1>2, <1>6, <1>7, <2>3, <3>3
      <4>2. caller[c].evidence = "PENDING"
        BY <3>2, <4>1 DEF Evidence
      <4>3. InFlight'
        BY <1>3, <1>9, <1>10, <3>1, <3>2, <4>2 DEF InFlight, Is
      <4> QED BY <1>2, <1>3, <1>10, <1>11, <2>3, <3>1, <3>2, <3>3, <4>1, <4>3 DEF Settled
    <3>4. CASE ~(Played < 7)
      <4>1. Played = 9 /\ ~target.pending["op"]
        BY <1>2, <1>4, <1>5, <1>6, <1>7, <2>3, <3>1, <3>4
      <4>2. CASE Now = "pending-then-settled"
        <5>1. Effects = 1
          BY <1>6, <4>1, <4>2
        <5>2. caller[c].evidence = "APPLIED"
          BY <4>1, <5>1 DEF Evidence
        <5>3. Done'
          BY <1>9, <1>10, <5>2 DEF Done
        <5> QED BY <1>2, <1>3, <1>10, <1>11, <3>1, <3>2, <4>1, <4>2, <5>1, <5>3 DEF Settled
      <4>3. CASE Now = "pending-then-rejected"
        <5>1. Effects = 0
          BY <1>6, <4>1, <4>3
        <5>2. caller[c].evidence = "NOT_APPLIED"
          BY <3>2, <4>1, <5>1 DEF Evidence
        <5>3. Waits' \/ (GaveUp' /\ MayGiveUp')
          <6>1. CASE RetryAllowed
            BY <1>2, <1>3, <1>9, <1>10, <3>2, <4>3, <5>2, <6>1 DEF Waits
          <6>2. CASE ~RetryAllowed
            BY <1>3, <1>9, <1>10, <4>3, <5>2, <6>2 DEF GaveUp, MayGiveUp
          <6> QED BY <6>1, <6>2
        <5> QED BY <1>2, <1>3, <1>10, <1>11, <3>1, <3>2, <4>1, <4>3, <5>1, <5>3 DEF Settled
      <4> QED BY <2>3, <4>2, <4>3
    <3> QED BY <3>3, <3>4
  <2>4. InFlightUntil > 0
    <3>1. InFlightUntil \in Nat
      BY <1>2, ScenarioTable, ScenarioNames
    <3> QED BY <1>2, <1>6, <3>1
  <2> QED BY <1>2, <2>1, <2>2, <2>3, <2>4, ScenarioTable, ScenarioNames
<1>13. After(Played)'
  BY <1>3, <1>12 DEF After
<1> QED BY <1>7, <1>8, <1>13, SaveEnds

LEMMA LaterSaves ==
  ASSUME Basics, NEW c \in Callers, CallStep(c), caller[c].op = "op", caller[c].pc = "save",
         Followed, Played > First, ClockFits, Reruns(c)
  PROVE  AfterFirst'
<1>1. \/ /\ Op.status = "OPEN" /\ After(Played - 1) /\ (caller[c].ok <=> Latest(Op).ok)
         /\ caller[c].evidence = Evidence(Latest(Op).ok, FALSE)
      \/ /\ Latest(Op).status = "RESERVED"
         /\ Calm /\ ~target.pending["op"]
         /\ target.held = IF Now = "late-landing" THEN "op" ELSE "none"
         /\ Played = IF Now = "late-landing" THEN 4 ELSE WaitsUntil
         /\ Now = "late-landing" => LandsAt = 6
         /\ RetryAllowed /\ (Now = "request-lost-before-commit" => ~contract.cautious)
         /\ Effects = 1 /\ caller[c].evidence = "APPLIED"
  BY DEF Reruns, At
<1>2. CASE /\ Latest(Op).status = "RESERVED"
           /\ Calm /\ ~target.pending["op"]
           /\ target.held = IF Now = "late-landing" THEN "op" ELSE "none"
           /\ Played = IF Now = "late-landing" THEN 4 ELSE WaitsUntil
           /\ Now = "late-landing" => LandsAt = 6
           /\ RetryAllowed /\ (Now = "request-lost-before-commit" => ~contract.cautious)
           /\ Effects = 1 /\ caller[c].evidence = "APPLIED"
  BY <1>2, RetrySaves
<1>3. CASE /\ Op.status = "OPEN" /\ After(Played - 1) /\ (caller[c].ok <=> Latest(Op).ok)
           /\ caller[c].evidence = Evidence(Latest(Op).ok, FALSE)
  <2>1. CASE Now = "late-landing"
    <3>1. Held(Played - 1)
      BY <1>3, <2>1 DEF After
    <3>2. CASE Effects # 0
      BY <1>3, <2>1, <3>1, <3>2, LandedSaves
    <3>3. CASE Effects = 0
      <4>1. Waits /\ ~target.pending["op"]
        BY <1>3, <3>1 DEF Held, GaveUp, Done, Is
      <4> QED BY <1>3, <3>3, <4>1, WaitsSaves
    <3> QED BY <3>2, <3>3
  <2>2. CASE Now # "late-landing"
    <3>1. Settled(Played - 1)
      BY <1>3, <2>2 DEF After
    <3>2. CASE InFlight
      BY <1>3, <2>2, <3>1, <3>2, InFlightSaves
    <3>3. CASE ~InFlight
      <4>1. Waits /\ Effects = 0 /\ Played - 1 >= InFlightUntil /\ TargetFits(Played - 1)
        BY <1>3, <3>1, <3>3 DEF Settled, GaveUp, Done, Is
      <4>2. Now \in {"pending-then-settled", "pending-then-rejected"} => InFlightUntil = 9
        BY ScenarioTable
      <4>3. Played \in Nat
        BY CallPlaces
      <4>4. ~target.pending["op"]
        BY <4>1, <4>2, <4>3 DEF TargetFits
      <4> QED BY <1>3, <4>1, <4>4, WaitsSaves
    <3> QED BY <3>2, <3>3
  <2> QED BY <2>1, <2>2
<1> QED BY <1>1, <1>2, <1>3

\* Two callers at the operation's end: the second sees it done.
LEMMA SecondEnds ==
  ASSUME Basics, NEW c \in Callers, CallStep(c), caller[c].op = "op", Played = First, AfterFirst
  PROVE  AfterFirst'
<1>1. PICK o : o = caller[c].op
  OBVIOUS
<1>2. /\ Inputs /\ Played \in Nat /\ o = "op" /\ Played' = Played /\ Now \in Names /\ Driven
      /\ UNCHANGED Running /\ UNCHANGED <<contract, options, n>> /\ "op" \in Ops
      /\ Plan[Played].by = 2 => Now = "concurrent-same-identity"
  BY <1>1, CallPlaces
<1>3. ~Idle
  BY CallBasics DEF Idle, At
<1>4. Now = "concurrent-same-identity"
  BY <1>2, <1>3 DEF AfterFirst
<1>5. lock["op"] = "none" /\ Settled(Played)
  <2>1. ~\E d \in Callers : Reruns(d)
    <3>1. ASSUME NEW d \in Callers, Reruns(d) PROVE FALSE
      <4>1. Played > First
        BY <3>1 DEF Reruns
      <4> QED BY <1>2, <4>1
    <3> QED BY <3>1
  <2>2. lock["op"] = "none" /\ After(Played)
    BY <2>1 DEF AfterFirst
  <2> QED BY <1>4, <2>2 DEF After
<1>6. Done
  <2>1. InFlightUntil = 0 /\ WaitsUntil = 0 /\ ~ReadFails
    BY <1>4, ScenarioTable
  <2> QED BY <1>2, <1>5, <2>1 DEF Settled
<1>7. caller[c].pc = "begin"
  <2>1. caller[c].pc \in Working => lock["op"] = c
    BY <1>1, <1>2, StageFrame
  <2>2. caller[c].pc \in {"begin", "reserve", "execute", "observe", "save"} /\ c # "none"
    BY <1>1, CallOutcome DEF Callers
  <2> QED BY <1>5, <2>1, <2>2 DEF Working
<1>8. BeginOutcome(c, o) /\ record[o] \in Record /\ RecordFits(record[o]) /\ clock \in Nat
  BY <1>1, <1>7, CallOutcome, StageFrame
<1>9. record[o].status = "CLOSED" /\ NextStep(record[o], clock) = "idle" /\ record[o] # NoRecord
  <2>1. record[o].status = "CLOSED"
    BY <1>2, <1>6 DEF Done, Is, Op
  <2> QED BY <1>8, <2>1, NextStepFields, NewFits
<1>10. /\ UNCHANGED <<target, crashOn, executes>>
       /\ caller'[c].pc = "idle" /\ record' = record /\ lock' = lock /\ last' = Answer(record["op"])
  BY <1>2, <1>8, <1>9 DEF BeginOutcome
<1>11. PICK q : q = Played
  OBVIOUS
<1>12. After(q)
  BY <1>4, <1>5, <1>11 DEF After
<1>13. After(q)'
  BY <1>2, <1>10, <1>12, AfterStays
<1>14. After(Played)'
  BY <1>2, <1>11, <1>13
<1> QED BY <1>5, <1>10, <1>14, FirstEnds

\* No step leaves what is described of the time after the first run.
LEMMA AfterFirstStep ==
  ASSUME Basics, Step, Followed, AfterFirst, Now # "neighbor-effect-isolation" => NeighborUntouched
  PROVE  AfterFirst'
<1>1. CASE Drive \/ Prepare \/ StartRun
  BY <1>1, PlayedAfterFirst
<1>2. ASSUME NEW c \in Callers, CallStep(c)
      PROVE  AfterFirst'
  <2>1. PICK o : o = caller[c].op
    OBVIOUS
  <2>2. o \in Ops /\ Played \in Nat /\ First \in {1, 2, 3, 4} /\ (o = "op" => Played >= First)
        /\ (o # "op" => Played < First)
        /\ ((\A d \in Callers : d # c => caller[d].pc = "idle") \/ Plan[Played].by = 2)
        /\ (Plan[Played].by = 2 => Played = First)
    BY <1>2, <2>1, CallPlaces
  <2>3. Played >= First /\ ClockFits /\ o = "op"
    BY <2>2 DEF AfterFirst
  <2>4. CASE Played = First
    BY <1>2, <2>1, <2>3, <2>4, SecondEnds
  <2>5. CASE Played > First
    <3>1. caller[c].pc \in {"begin", "reserve", "execute", "observe", "save"}
      BY <1>2, <2>1, CallOutcome
    <3>2. CASE caller[c].pc = "begin"
      <4>1. lock["op"] = "none"
        <5>1. ASSUME NEW d \in Callers, lock["op"] = d PROVE FALSE
          <6>1. caller[d].pc \in Working
            <7>1. lock[o] = d <=> caller[d].op = o /\ caller[d].pc \in Working
              BY <1>2, <2>1, StageFrame
            <7> QED BY <2>3, <5>1, <7>1
          <6>2. d # c /\ caller[d].pc # "idle"
            BY <3>2, <6>1 DEF Working
          <6> QED BY <2>2, <2>5, <6>2
        <5>2. lock["op"] \in Callers \cup {"none"}
          BY DEF Basics, TypeOK, Ops
        <5> QED BY <5>1, <5>2
      <4>2. ~Idle /\ Played # First
        BY <1>2, <2>2, <2>5, <3>2 DEF Idle
      <4>3. ~\E d \in Callers : Reruns(d)
        BY <4>1 DEF Reruns, Callers
      <4>4. After(Played - 1)
        BY <4>1, <4>2, <4>3 DEF AfterFirst
      <4> QED BY <1>2, <2>1, <2>3, <2>5, <3>2, <4>1, <4>4, LaterBegins
    <3>3. CASE caller[c].pc # "begin"
      <4>1. Reruns(c)
        BY <1>2, <2>1, <2>3, <2>5, <3>3, LaterWorks
      <4>2. Plain
        BY DEF Followed
      <4> QED BY <1>2, <2>1, <2>3, <2>5, <3>1, <3>3, <4>1, <4>2, LaterReserves, LaterExecutes,
                 LaterObserves, LaterSaves
    <3> QED BY <3>2, <3>3
  <2> QED BY <2>2, <2>3, <2>4, <2>5
<1> QED BY <1>1, <1>2 DEF Step

\* A contract that is followed stays where its scenario has it.
LEMMA FollowedStep ==
  ASSUME Basics, Step, FollowedFits, Now # "neighbor-effect-isolation" => NeighborUntouched
  PROVE  FollowedFits'
<1>1. UNCHANGED <<contract, options, n>>
  BY StepStays
<1>2. Followed' <=> Followed
  BY <1>1, SameTable
<1> QED BY <1>2, AtFirstStep, AfterFirstStep DEF FollowedFits

-----------------------------------------------------------------------------
(* What a right contract's scenarios expect *)

\* What a scenario may expect at which place after the first run.
LEMMA Expected ==
  ASSUME Inputs, Driven, Now \in Names, NEW i \in 1..Len(Plan), i > First, Plan[i].do = "expect"
  PROVE  /\ Plan[i].what \in {"one", "none", "atMostOne", "executedOnce", "recovered",
                               "recoveredFromRejection", "rejectsReuse", "APPLIED", "PENDING", "UNKNOWN"}
         /\ Plan[i].what = "UNKNOWN" => ReadFails /\ i > InFlightUntil /\ i > WaitsUntil /\ WaitsUntil = 0
         /\ Plan[i].what = "PENDING" =>
              Now \in {"pending-then-settled", "pending-then-rejected"} /\ i < InFlightUntil
         /\ Plan[i].what = "none" =>
              Now \in {"pending-then-settled", "pending-then-rejected"} /\ i < InFlightUntil /\ i < 7
         /\ Plan[i].what = "one" =>
              i > InFlightUntil /\ WaitsUntil = 0 /\ (Now = "late-landing" => i >= 13)
         /\ Plan[i].what = "executedOnce" =>
              /\ Now \notin {"crash-before-execute", "neighbor-effect-isolation"}
              /\ i < InFlightUntil \/ WaitsUntil = 0
              /\ Now = "late-landing" => Declared /\ ~(RunAt < options.late) /\ i >= 13
         /\ Plan[i].what = "APPLIED" =>
              /\ i > InFlightUntil /\ WaitsUntil = 0 /\ ~ReadFails
              /\ Now = "late-landing" => Declared /\ ~(RunAt < options.late) /\ i >= 13
         /\ Plan[i].what = "atMostOne" => Now # "late-landing"
         /\ Plan[i].what = "recovered" =>
              /\ i > InFlightUntil /\ i > WaitsUntil /\ WaitsUntil > 0 /\ ~ReadFails
              /\ Now \notin {"late-landing", "pending-then-rejected"}
         /\ Plan[i].what = "recoveredFromRejection" =>
              i > InFlightUntil /\ i > WaitsUntil /\ Now = "pending-then-rejected" /\ ~ReadFails
<1>1. CASE Now = "normal"
  BY <1>1, ScenarioTable, NormalKinds
<1>2. CASE Now = "response-lost-after-commit"
  BY <1>2, ScenarioTable, ResponseLostKinds
<1>3. CASE Now = "request-lost-before-commit"
  BY <1>3, ScenarioTable, RequestLostKinds
<1>4. CASE Now = "late-landing" /\ RunAt < options.late
  BY <1>4, ScenarioTable, HastyKinds
<1>13. CASE Now = "late-landing" /\ ~(RunAt < options.late)
  BY <1>13, ScenarioTable, PatientKinds
<1>5. CASE Now = "read-fails-after-lost-response"
  BY <1>5, ScenarioTable, ReadFailsKinds
<1>6. CASE Now = "crash-after-effect-before-save"
  BY <1>6, ScenarioTable, CrashAfterKinds
<1>7. CASE Now = "crash-before-execute"
  BY <1>7, ScenarioTable, CrashBeforeKinds
<1>8. CASE Now = "concurrent-same-identity"
  BY <1>8, ScenarioTable, ConcurrentKinds
<1>9. CASE Now = "identity-reuse-different-intent"
  BY <1>9, ScenarioTable, ReuseKinds
<1>10. CASE Now = "pending-then-settled"
  BY <1>10, ScenarioTable, SettledKinds
<1>11. CASE Now = "pending-then-rejected"
  BY <1>11, ScenarioTable, RejectedKinds
<1>12. CASE Now = "neighbor-effect-isolation"
  BY <1>12, ScenarioTable, NeighborKinds
<1> QED BY <1>1, <1>2, <1>3, <1>4, <1>5, <1>6, <1>7, <1>8, <1>9, <1>10, <1>11, <1>12, <1>13, ScenarioNames

\* The answer that the latest attempt is.
LEMMA AnswerIs ==
  ASSUME Basics, last = Answer(Op), NEW status, NEW evidence, NEW disposition,
         Is(Op, status, evidence, disposition)
  PROVE  last.evidence = evidence /\ last.disposition = disposition
<1>1. Op \in Record /\ RecordFits(Op)
  BY DEF Basics, TypeOK, RecordsFit, Op, Ops
<1>2. /\ Op.attempts # << >> /\ Latest(Op).status = "RESOLVED"
      /\ Latest(Op).evidence = evidence /\ Latest(Op).disposition = disposition
  BY DEF Is, Resolved
<1>3. /\ Answer(Op).evidence = IF Op.attempts = << >> \/ Latest(Op).status = "RESERVED" THEN "none"
                               ELSE Latest(Op).evidence
      /\ Answer(Op).disposition = IF Op.attempts = << >> \/ Latest(Op).status = "RESERVED"
                                  THEN "NULL" ELSE Latest(Op).disposition
  BY <1>1, AnswerFields
<1> QED BY <1>2, <1>3

\* What is right of a right contract.
LEMMA RightMeans ==
  ASSUME Right
  PROVE  /\ Honest /\ Plain /\ Followed /\ contract.tells /\ contract.writes = "once"
         /\ WaitsLongEnough /\ Recovers
         /\ Now = "late-landing" => ~Conservative
BY DEF Right, Honest, Plain, Followed

\* late-landing: a right contract ends with one effect, and sees it if it waited for it.
LEMMA LateIsRight ==
  ASSUME Basics, Right, Driven, Now = "late-landing", Held(Played), Played \in Nat, Played >= 12, last = Answer(Op)
  PROVE  /\ Effects = 1 /\ executes = 1
         /\ Declared /\ ~(RunAt < options.late) => last.evidence = "APPLIED"
<1>1. Inputs /\ Now # "none" /\ LandsAt \in {4, 6} /\ (LandsAt = 6 <=> RunAt < options.late)
  BY DEF Basics, TypeOK, LandsAt
<1>2. options.late \in Nat /\ OrZero(options.late) = options.late
  <2>1. options.late # NoTime
    BY DEF Driven, Skipped
  <2> QED BY <1>1, <2>1, OptionsFields DEF Times, OrZero
<1>3. ~(LandsAt = 6 /\ RetryAllowed)
  <2>1. ASSUME LandsAt = 6, RetryAllowed PROVE FALSE
    <3>1. RunAt < options.late
      BY <1>1, <2>1
    <3>2. Declared
      <4>1. ASSUME ~Declared PROVE FALSE
        <5>1. RunAt = options.late + 1
          BY <4>1 DEF RunAt
        <5> QED BY <1>2, <3>1, <5>1
      <4> QED BY <4>1
    <3>3. contract.window \in Nat /\ RunAt = contract.window
      BY <1>1, <3>2, ContractFields DEF Declared, RunAt, Times
    <3>4. contract.window >= options.late
      BY <1>2, <2>1, <3>2, RightMeans DEF WaitsLongEnough
    <3> QED BY <1>2, <3>1, <3>3, <3>4
  <2> QED BY <2>1
<1>4. Executed(1) /\ Effects = 1 /\ ((GaveUp /\ MayGiveUp) \/ Done)
  BY <1>1, <1>3 DEF Held
<1>5. executes = 1
  BY <1>4 DEF Executed
<1>6. Declared /\ ~(RunAt < options.late) => last.evidence = "APPLIED"
  <2>1. ASSUME Declared, ~(RunAt < options.late) PROVE Done
    <3>1. contract.window \in Nat /\ RunAt = contract.window
      BY <1>1, <2>1, ContractFields DEF Declared, RunAt, Times
    <3>2. contract.window >= OrZero(options.late)
      BY <1>2, <2>1, <3>1
    <3>3. RetryAllowed
      BY <2>1, <3>2, RightMeans DEF Conservative
    <3>4. ~MayGiveUp
      <4>1. ~contract.cautious
        BY <2>1, <3>3, RightMeans DEF Recovers
      <4> QED BY <2>1, <3>3, <4>1 DEF MayGiveUp
    <3> QED BY <1>4, <3>4
  <2> QED BY <2>1, AnswerIs DEF Done
<1> QED BY <1>4, <1>5, <1>6

\* A right contract meets what is expected.
LEMMA RightExpects ==
  ASSUME Basics, FollowedFits, NeighborRuns, Right, Prepare,
         NEW x, x = Plan[Played + 1], x.do = "expect"
  PROVE  Holds(x.what)
<1>1. /\ UNCHANGED <<contract, options, n, record, lock, executes, last>>
      /\ Played \in Nat /\ Played + 1 \in 1..Len(Plan) /\ Len(Plan) \in Nat
      /\ Driven /\ Inputs
      /\ \A c \in Callers : caller[c].pc = "idle"
      /\ \A o \in Ops : lock[o] = "none"
  BY HarnessDoes
<1>2. PICK i \in 1..Len(Plan) : i = Played + 1
  BY <1>1
<1>3. /\ Honest /\ Plain /\ Followed /\ contract.tells /\ contract.writes = "once"
      /\ WaitsLongEnough /\ Recovers
  BY RightMeans
<1>4. Now \in Names /\ "op" \in Ops /\ "a" \in Callers /\ First \in {1, 2, 3, 4}
  BY PlayedFits, <1>1, EarlyFirst DEF Basics, Ops, Callers
<1>5. CASE AtFirst
  <2>1. i <= First
    BY <1>1, <1>2, <1>4, <1>5, IdleAtFirst
  <2>2. Now = "neighbor-effect-isolation" /\ i = 2 /\ x.what = "neighbor"
    BY <1>1, <1>2, <1>4, <2>1, Preparation
  <2>3. target.applied["neighbor"] = 1
    BY <1>1, <1>2, <1>3, <1>4, <2>2 DEF NeighborRuns
  <2> QED BY <2>2, <2>3 DEF Holds, EvidenceStates
<1>6. CASE AfterFirst
  <2>1. Played >= First /\ last = Answer(Op) /\ After(Played)
    BY <1>1, <1>4, <1>6, IdleAfterFirst
  <2>2. /\ x.what \in {"one", "none", "atMostOne", "executedOnce", "recovered",
                       "recoveredFromRejection", "rejectsReuse", "APPLIED", "PENDING", "UNKNOWN"}
        /\ x.what = "UNKNOWN" => ReadFails /\ i > InFlightUntil /\ i > WaitsUntil /\ WaitsUntil = 0
        /\ x.what = "PENDING" =>
             Now \in {"pending-then-settled", "pending-then-rejected"} /\ i < InFlightUntil
        /\ x.what = "none" =>
             Now \in {"pending-then-settled", "pending-then-rejected"} /\ i < InFlightUntil /\ i < 7
        /\ x.what = "one" =>
             i > InFlightUntil /\ WaitsUntil = 0 /\ (Now = "late-landing" => i >= 13)
        /\ x.what = "executedOnce" =>
             /\ Now \notin {"crash-before-execute", "neighbor-effect-isolation"}
             /\ i < InFlightUntil \/ WaitsUntil = 0
             /\ Now = "late-landing" => Declared /\ ~(RunAt < options.late) /\ i >= 13
        /\ x.what = "APPLIED" =>
             /\ i > InFlightUntil /\ WaitsUntil = 0 /\ ~ReadFails
             /\ Now = "late-landing" => Declared /\ ~(RunAt < options.late) /\ i >= 13
        /\ x.what = "atMostOne" => Now # "late-landing"
        /\ x.what = "recovered" =>
             /\ i > InFlightUntil /\ i > WaitsUntil /\ WaitsUntil > 0 /\ ~ReadFails
             /\ Now \notin {"late-landing", "pending-then-rejected"}
        /\ x.what = "recoveredFromRejection" =>
             i > InFlightUntil /\ i > WaitsUntil /\ Now = "pending-then-rejected" /\ ~ReadFails
    BY <1>1, <1>2, <1>4, <2>1, Expected
  <2>3. CASE Now = "late-landing"
    <3>1. Held(Played) /\ ~ReadFails /\ InFlightUntil = 0
      BY <2>1, <2>3, ScenarioTable DEF After
    <3>2. x.what \in {"one", "executedOnce", "APPLIED", "rejectsReuse"}
      BY <1>2, <2>2, <2>3, <3>1
    <3>3. x.what \in {"one", "executedOnce", "APPLIED"} =>
            /\ Effects = 1 /\ executes = 1
            /\ Declared /\ ~(RunAt < options.late) => last.evidence = "APPLIED"
      BY <1>1, <1>2, <2>1, <2>2, <2>3, <3>1, LateIsRight
    <3> QED BY <1>3, <2>2, <2>3, <3>2, <3>3 DEF Holds, EvidenceStates
  <2>4. CASE Now # "late-landing"
    <3>1. Settled(Played) /\ InFlightUntil \in Nat /\ WaitsUntil \in Nat /\ Played = i - 1
      BY <1>1, <1>2, <1>4, <2>1, <2>4, ScenarioTable, ScenarioNames DEF After
    <3>2. Effects \in {0, 1}
      BY <3>1 DEF Settled
    <3>3. i > InFlightUntil /\ WaitsUntil = 0 =>
            Effects = 1 /\ IF ReadFails THEN Is(Op, "CLOSED", "UNKNOWN", "INVESTIGATE") ELSE Done
      BY <3>1 DEF Settled
    <3>4. Executed(1) \/ (WaitsUntil > 0 /\ Played >= WaitsUntil)
      BY <3>1 DEF Settled
    <3>5. i > InFlightUntil /\ i > WaitsUntil /\ ~ReadFails =>
            (Effects = 1 /\ Done) \/ (Effects = 0 /\ GaveUp /\ MayGiveUp)
      BY <3>1 DEF Settled
    <3>6. CASE x.what \in {"PENDING", "none"}
      <4>1. Played < InFlightUntil /\ InFlightUntil = 9 /\ WaitsUntil \in {0, 11} /\ CrashAt = "none"
            /\ Now # "crash-after-effect-before-save"
        BY <1>2, <2>2, <3>1, <3>6, ScenarioTable
      <4>2. InFlight /\ Effects = (IF Now = "pending-then-settled" /\ Played >= 7 THEN 1 ELSE 0)
        BY <3>1, <4>1 DEF Settled
      <4>3. x.what = "none" => Effects = 0
        BY <1>2, <2>2, <3>1, <4>2
      <4>4. last.evidence = "PENDING"
        BY <2>1, <4>1, <4>2, AnswerIs DEF InFlight
      <4> QED BY <3>6, <4>3, <4>4 DEF Holds, EvidenceStates
    <3>7. CASE x.what \in {"one", "APPLIED", "UNKNOWN"}
      <4>1. /\ x.what = "one" => Effects = 1
            /\ x.what = "APPLIED" => Done
            /\ x.what = "UNKNOWN" => Is(Op, "CLOSED", "UNKNOWN", "INVESTIGATE")
        BY <2>2, <3>3, <3>7
      <4>2. /\ x.what = "APPLIED" => last.evidence = "APPLIED"
            /\ x.what = "UNKNOWN" => last.evidence = "UNKNOWN"
        BY <2>1, <4>1, AnswerIs DEF Done
      <4> QED BY <3>7, <4>1, <4>2 DEF Holds, EvidenceStates
    <3>8. CASE x.what = "executedOnce"
      <4>1. Executed(1)
        <5>1. ~(WaitsUntil > 0 /\ Played >= WaitsUntil)
          <6>1. InFlightUntil > 0 /\ WaitsUntil > 0 => InFlightUntil <= WaitsUntil
            BY <1>4, ScenarioTable, ScenarioNames
          <6> QED BY <2>2, <3>1, <3>8, <6>1
        <5> QED BY <3>4, <5>1
      <4>2. executes = 1
        BY <2>2, <3>8, <4>1 DEF Executed
      <4> QED BY <3>8, <4>2 DEF Holds, EvidenceStates
    <3>9. CASE x.what \in {"recovered", "recoveredFromRejection"}
      <4>1. (Effects = 1 /\ Done) \/ (Effects = 0 /\ GaveUp /\ MayGiveUp)
        BY <2>2, <3>5, <3>9
      <4>2. CASE Effects = 1 /\ Done
        <5>1. last.evidence = "APPLIED"
          BY <2>1, <4>2, AnswerIs DEF Done
        <5> QED BY <3>9, <4>2, <5>1 DEF Holds, EvidenceStates, Recovered
      <4>3. CASE Effects = 0 /\ GaveUp /\ MayGiveUp
        <5>1. last.disposition = "INVESTIGATE"
          BY <2>1, <4>3, AnswerIs DEF GaveUp
        <5>2. ~RetryAllowed \/ (x.what = "recovered" /\ ~Declared)
          BY <1>3, <2>2, <3>9, <4>3 DEF MayGiveUp, Recovers
        <5> QED BY <3>9, <4>3, <5>1, <5>2 DEF Holds, EvidenceStates, Recovered
      <4> QED BY <4>1, <4>2, <4>3
    <3>10. CASE x.what \in {"atMostOne", "rejectsReuse"}
      <4>1. CASE x.what = "atMostOne"
        BY <3>2, <4>1 DEF Holds, EvidenceStates
      <4>2. CASE x.what = "rejectsReuse"
        BY <1>3, <4>2 DEF Holds, EvidenceStates
      <4> QED BY <3>10, <4>1, <4>2
    <3> QED BY <2>2, <3>6, <3>7, <3>8, <3>9, <3>10
  <2> QED BY <2>3, <2>4
<1> QED BY <1>3, <1>5, <1>6 DEF FollowedFits

\* So nothing it does fails a scenario.
LEMMA RightStep ==
  ASSUME Basics, Step, FollowedFits, NeighborRuns, RightFits
  PROVE  RightFits'
<1>1. Right' <=> Right
  BY StepStays, SameTable
<1>2. ASSUME Right PROVE ok'
  <2>1. ok
    BY <1>2 DEF RightFits
  <2>2. CASE Drive \/ StartRun
    <3>1. ok' = ok
      BY <2>2 DEF Drive, StartRun
    <3> QED BY <2>1, <3>1
  <2>3. CASE Prepare
    <3>1. PICK x : x = Plan[Played + 1]
      OBVIOUS
    <3>2. ok' <=> ok /\ (x.do = "expect" => Holds(x.what))
      BY <2>3, <3>1, HarnessDoes
    <3>3. x.do = "expect" => Holds(x.what)
      BY <1>2, <2>3, <3>1, RightExpects
    <3> QED BY <2>1, <3>2, <3>3
  <2>4. CASE \E c \in Callers : CallStep(c)
    <3>1. ok' = ok
      BY <2>4, CallBasics DEF Running
    <3> QED BY <2>1, <3>1
  <2> QED BY <2>2, <2>3, <2>4 DEF Step
<1> QED BY <1>1, <1>2 DEF RightFits

-----------------------------------------------------------------------------
(* The end of a scenario *)

\* A scenario ends after all that it follows.
LEMMA ScenarioEnds ==
  ASSUME Inputs, Driven, Now \in Names
  PROVE  /\ Len(Plan) \in Nat /\ Len(Plan) > First /\ InFlightUntil < Len(Plan) /\ WaitsUntil < Len(Plan)
         /\ Now = "late-landing" => Len(Plan) >= 13
         /\ Now \in {"read-fails-after-lost-response", "pending-then-settled",
                     "neighbor-effect-isolation"} => Len(Plan) > 3
<1>1. CASE Now = "normal"
  <2>1. Len(Plan) = 10
    BY <1>1, NormalPlan
  <2> QED BY <1>1, <2>1, ScenarioTable
<1>2. CASE Now = "response-lost-after-commit"
  <2>1. Len(Plan) = 11
    BY <1>2, ResponseLostPlan
  <2> QED BY <1>2, <2>1, ScenarioTable
<1>3. CASE Now = "request-lost-before-commit"
  <2>1. Len(Plan) = 10
    BY <1>3, RequestLostPlan
  <2> QED BY <1>3, <2>1, ScenarioTable
<1>4. CASE Now = "late-landing"
  <2>1. Len(Plan) \in Nat /\ Len(Plan) >= 13
    BY <1>4, HastyPlan, PatientPlan
  <2>2. First = 2 /\ InFlightUntil = 0 /\ WaitsUntil = 0
    BY <1>4, ScenarioTable
  <2> QED BY <1>4, <2>1, <2>2
<1>5. CASE Now = "read-fails-after-lost-response"
  <2>1. Len(Plan) = 11
    BY <1>5, ReadFailsPlan
  <2> QED BY <1>5, <2>1, ScenarioTable
<1>6. CASE Now = "crash-after-effect-before-save"
  <2>1. Len(Plan) = 11
    BY <1>6, CrashAfterPlan
  <2> QED BY <1>6, <2>1, ScenarioTable
<1>7. CASE Now = "crash-before-execute"
  <2>1. Len(Plan) = 10
    BY <1>7, CrashBeforePlan
  <2> QED BY <1>7, <2>1, ScenarioTable
<1>8. CASE Now = "concurrent-same-identity"
  <2>1. Len(Plan) = 9
    BY <1>8, ConcurrentPlan
  <2> QED BY <1>8, <2>1, ScenarioTable
<1>9. CASE Now = "identity-reuse-different-intent"
  <2>1. Len(Plan) = 2
    BY <1>9, ReusePlan
  <2> QED BY <1>9, <2>1, ScenarioTable
<1>10. CASE Now = "pending-then-settled"
  <2>1. Len(Plan) = 16
    BY <1>10, SettledPlan
  <2> QED BY <1>10, <2>1, ScenarioTable
<1>11. CASE Now = "pending-then-rejected"
  <2>1. Len(Plan) = 15
    BY <1>11, RejectedPlan
  <2> QED BY <1>11, <2>1, ScenarioTable
<1>12. CASE Now = "neighbor-effect-isolation"
  <2>1. Len(Plan) = 11
    BY <1>12, NeighborPlan
  <2> QED BY <1>12, <2>1, ScenarioTable
<1> QED BY <1>1, <1>2, <1>3, <1>4, <1>5, <1>6, <1>7, <1>8, <1>9, <1>10, <1>11, <1>12, ScenarioNames

\* What the last expectations of a scenario that has not failed say.
LEMMA EndsMet ==
  ASSUME Basics, MetSoFar, ok, Driven, Played = Len(Plan)
  PROVE  /\ Now = "normal" => Effects = 1
         /\ Now = "response-lost-after-commit" =>
              Effects = 1 /\ executes = 1 /\ last.evidence = "APPLIED"
         /\ Now \in {"request-lost-before-commit", "neighbor-effect-isolation"} => Recovered(TRUE)
         /\ Now = "identity-reuse-different-intent" => contract.tells
         /\ Now = "late-landing" /\ Declared /\ ~(RunAt < options.late) => last.evidence = "APPLIED"
<1>1. Inputs /\ Played \in Nat
  BY PlayedFits DEF Basics, TypeOK
<1>2. ASSUME NEW j \in 1..Len(Plan), \A i \in j..Len(Plan) : Plan[i].do = "expect"
      PROVE  Holds(Plan[j].what)
  BY <1>2 DEF MetSoFar, Trailing
<1>3. CASE Now = "normal"
  <2>0. Len(Plan) = 10
    BY <1>1, <1>3, NormalPlan
  <2>1. Len(Plan) = 10 /\ 8 \in 1..Len(Plan) /\ \A i \in 8..Len(Plan) : i \in {8, 9, 10} /\ i \in 1..Len(Plan)
    BY <2>0
  <2>2. Plan[8].what = "one" /\ \A i \in 8..Len(Plan) : Plan[i].do = "expect"
    BY <1>1, <1>3, <2>1, NormalKinds
  <2>3. Holds("one")
    BY <1>2, <2>1, <2>2
  <2> QED BY <1>3, <2>3 DEF Holds, EvidenceStates
<1>4. CASE Now = "response-lost-after-commit"
  <2>0. Len(Plan) = 11
    BY <1>1, <1>4, ResponseLostPlan
  <2>1. /\ Len(Plan) = 11 /\ {9, 10, 11} \subseteq 1..Len(Plan)
        /\ \A i \in 9..Len(Plan) : i \in {9, 10, 11} /\ i \in 1..Len(Plan)
    BY <2>0
  <2>2. /\ Plan[9].what = "one" /\ Plan[10].what = "executedOnce" /\ Plan[11].what = "APPLIED"
        /\ \A i \in 9..Len(Plan) : Plan[i].do = "expect"
    BY <1>1, <1>4, <2>1, ResponseLostKinds
  <2>3. Holds("one") /\ Holds("executedOnce") /\ Holds("APPLIED")
    <3>1. \A i \in 10..Len(Plan) : i \in 9..Len(Plan)
      BY <2>1
    <3>2. \A i \in 11..Len(Plan) : i \in 9..Len(Plan)
      BY <2>1
    <3> QED BY <1>2, <2>1, <2>2, <3>1, <3>2
  <2>4. Effects = 1 /\ executes = 1
    BY <2>3 DEF Holds, EvidenceStates
  <2>5. last.evidence = "APPLIED"
    BY <2>3 DEF Holds, EvidenceStates
  <2> QED BY <1>4, <2>4, <2>5
<1>5. CASE Now = "request-lost-before-commit"
  <2>0. Len(Plan) = 10
    BY <1>1, <1>5, RequestLostPlan
  <2>1. Len(Plan) = 10 /\ 10 \in 1..Len(Plan) /\ \A i \in 10..Len(Plan) : i = 10
    BY <2>0
  <2>2. Plan[10].what = "recovered" /\ Plan[10].do = "expect"
    BY <1>1, <1>5, <2>1, RequestLostKinds
  <2>3. Holds("recovered")
    BY <1>2, <2>1, <2>2
  <2> QED BY <1>5, <2>3 DEF Holds, EvidenceStates
<1>6. CASE Now = "neighbor-effect-isolation"
  <2>0. Len(Plan) = 11
    BY <1>1, <1>6, NeighborPlan
  <2>1. Len(Plan) = 11 /\ 11 \in 1..Len(Plan) /\ \A i \in 11..Len(Plan) : i = 11
    BY <2>0
  <2>2. Plan[11].what = "recovered" /\ Plan[11].do = "expect"
    BY <1>1, <1>6, <2>1, NeighborKinds
  <2>3. Holds("recovered")
    BY <1>2, <2>1, <2>2
  <2> QED BY <1>6, <2>3 DEF Holds, EvidenceStates
<1>7. CASE Now = "identity-reuse-different-intent"
  <2>0. Len(Plan) = 2
    BY <1>1, <1>7, ReusePlan
  <2>1. Len(Plan) = 2 /\ 2 \in 1..Len(Plan) /\ \A i \in 2..Len(Plan) : i = 2
    BY <2>0
  <2>2. Plan[2].what = "rejectsReuse" /\ Plan[2].do = "expect"
    BY <1>1, <1>7, <2>1, ReuseKinds
  <2>3. Holds("rejectsReuse")
    BY <1>2, <2>1, <2>2
  <2> QED BY <1>7, <2>3 DEF Holds, EvidenceStates
<1>8. CASE Now = "late-landing" /\ Declared /\ ~(RunAt < options.late)
  <2>0. Len(Plan) = 15
    BY <1>1, <1>8, PatientPlan
  <2>1. Len(Plan) = 15 /\ 15 \in 1..Len(Plan) /\ \A i \in 15..Len(Plan) : i = 15
    BY <2>0
  <2>2. Plan[15].what = "APPLIED" /\ Plan[15].do = "expect"
    BY <1>1, <1>8, <2>1, PatientKinds
  <2>3. Holds("APPLIED")
    BY <1>2, <2>1, <2>2
  <2> QED BY <1>8, <2>3 DEF Holds, EvidenceStates
<1> QED BY <1>3, <1>4, <1>5, <1>6, <1>7, <1>8

\* Where a followed operation is at the end of a scenario.
LEMMA EndsAfter ==
  ASSUME Basics, FollowedFits, Followed, Driven, Now \in Names, script = << >>, Idle
  PROVE  /\ Played = Len(Plan) /\ Played \in Nat /\ last = Answer(Op) /\ After(Played)
         /\ Played > First /\ InFlightUntil < Played /\ WaitsUntil < Played
         /\ Now = "late-landing" => Played >= 13
<1>1. Inputs /\ Played = Len(Plan) /\ Played \in Nat
  BY PlayedFits DEF Basics, TypeOK
<1>2. /\ Played > First /\ InFlightUntil < Played /\ WaitsUntil < Played
      /\ Now = "late-landing" => Played >= 13
  <2>1. /\ Len(Plan) > First /\ InFlightUntil < Len(Plan) /\ WaitsUntil < Len(Plan)
        /\ Now = "late-landing" => Len(Plan) >= 13
    BY <1>1, ScenarioEnds
  <2> QED BY <1>1, <2>1
<1>3. \A c \in Callers : caller[c].pc = "idle"
  BY DEF Idle
<1>4. First \in Nat
  BY EarlyFirst
<1>5. ~AtFirst
  BY <1>1, <1>2, <1>3, <1>4, IdleAtFirst
<1>6. AfterFirst
  BY <1>5 DEF FollowedFits
<1>7. lock["op"] = "none"
  BY <1>3, IdleLocks DEF Basics, Ops
<1> QED BY <1>1, <1>2, <1>3, <1>6, <1>7, IdleAfterFirst

-----------------------------------------------------------------------------
(* Results *)

\* request-lost-before-commit passes only who recovers.
LEMMA LostShows ==
  ASSUME Basics, MetSoFar, FollowedFits, ok, Driven, Now \in Names, script = << >>, Idle, Plain,
         Now = "request-lost-before-commit"
  PROVE  Recovers
<1>1. Followed
  BY DEF Followed
<1>2. /\ Played = Len(Plan) /\ Played \in Nat /\ After(Played)
      /\ InFlightUntil < Played /\ WaitsUntil < Played
  BY <1>1, EndsAfter
<1>3. InFlightUntil = 0 /\ WaitsUntil = 4 /\ ~ReadFails
  BY ScenarioTable
<1>4. Settled(Played)
  BY <1>2 DEF After
<1>5. \/ Effects = 1 /\ (Now = "request-lost-before-commit" => ~contract.cautious)
      \/ Effects = 0
  BY <1>2, <1>3, <1>4 DEF Settled
<1>6. Recovered(TRUE)
  BY <1>2, EndsMet
<1>7. ~contract.cautious \/ ~RetryAllowed \/ ~Declared
  BY <1>5, <1>6 DEF Recovered
<1> QED BY <1>7 DEF Recovers

\* late-landing passes only who waits long enough, of those who recover.
LEMMA LateShows ==
  ASSUME Basics, FollowedFits, Driven, Now \in Names, script = << >>, Idle, Plain, Universal,
         Now = "late-landing", Recovers
  PROVE  WaitsLongEnough
<1>1. Followed
  BY DEF Followed
<1>2. Played \in Nat /\ After(Played) /\ Played >= 13
  BY <1>1, EndsAfter
<1>3. Held(Played)
  BY <1>2 DEF After
<1>4. Inputs /\ LandsAt \in {4, 6} /\ (LandsAt = 6 <=> RunAt < options.late)
  BY DEF Basics, TypeOK, LandsAt
<1>5. options.late \in Nat /\ OrZero(options.late) = options.late
  <2>1. options.late # NoTime
    BY DEF Driven, Skipped
  <2> QED BY <1>4, <2>1, OptionsFields DEF Times, OrZero
<1>6. ASSUME RetryAllowed, Declared, ~(contract.window >= OrZero(options.late)) PROVE FALSE
  <2>1. contract.window \in Nat /\ RunAt = contract.window
    BY <1>4, <1>6, ContractFields DEF Declared, RunAt, Times
  <2>2. LandsAt = 6
    BY <1>4, <1>5, <1>6, <2>1
  <2>3. ~MayGiveUp
    BY <1>6 DEF MayGiveUp, Recovers
  <2>4. Effects = 2
    BY <1>2, <1>3, <2>2, <2>3 DEF Held
  <2> QED BY <2>4 DEF Universal
<1> QED BY <1>6 DEF WaitsLongEnough

\* And none that has to see the effect but may not look again.
LEMMA LateAlarm ==
  ASSUME Basics, MetSoFar, FollowedFits, Driven, Now \in Names, script = << >>, Idle, ok, Plain,
         Now = "late-landing"
  PROVE  ~Conservative
<1>1. SUFFICES ASSUME Conservative PROVE FALSE
  OBVIOUS
<1>2. Followed
  BY DEF Followed
<1>3. Played = Len(Plan) /\ Played \in Nat /\ last = Answer(Op) /\ Held(Played) /\ Played >= 13
  BY <1>2, EndsAfter DEF After
<1>4. Inputs /\ Declared /\ ~RetryAllowed
  BY <1>1 DEF Basics, TypeOK, Conservative
<1>5. ~(RunAt < options.late)
  <2>1. options.late # NoTime
    BY DEF Driven, Skipped
  <2>2. contract.window \in Nat /\ RunAt = contract.window
    BY <1>4, ContractFields DEF Declared, RunAt, Times
  <2>3. options.late \in Nat /\ contract.window >= options.late
    BY <1>1, <1>4, <2>1, OptionsFields DEF Times, OrZero, Conservative
  <2> QED BY <2>2, <2>3
<1>6. last.evidence = "APPLIED"
  BY <1>3, <1>4, <1>5, EndsMet
<1>7. LandsAt = 4
  BY <1>5 DEF LandsAt
<1>8. GaveUp
  BY <1>3, <1>4, <1>7 DEF Held, Waits
<1>9. last.evidence # "APPLIED"
  BY <1>3, <1>8, AnswerIs DEF GaveUp
<1> QED BY <1>6, <1>9

\* A scenario that passes shows what it is there for.
LEMMA PassShows ==
  ASSUME Basics, MetSoFar, ScenarioFits, Driven, Now \in Names, script = << >>, Idle, ok, Universal
  PROVE  Shows(Now)
<1>1. Inputs /\ Played = Len(Plan) /\ Played \in Nat /\ Len(Plan) \in Nat
  BY PlayedFits DEF Basics, TypeOK
<1>2. TwiceFits /\ TransportFits /\ FailedReadFits /\ PendingFits /\ NeighborFits /\ FollowedFits
  BY DEF ScenarioFits
<1>3. /\ contract.writes \in {"once", "twice", "untilAnswered"}
      /\ contract.trusts \in {"observation", "transport"} /\ contract.scope \in {"own", "all"}
  BY <1>1, ContractFields
<1>4. Now \in {"read-fails-after-lost-response", "pending-then-settled",
               "neighbor-effect-isolation"} => Played > 3
  <2>1. Now \in {"read-fails-after-lost-response", "pending-then-settled",
                 "neighbor-effect-isolation"} => Len(Plan) > 3
    BY <1>1, ScenarioEnds
  <2> QED BY <1>1, <2>1
<1>5. CASE Now = "normal"
  <2>1. Effects = 1
    BY <1>1, <1>5, EndsMet
  <2> QED BY <1>2, <1>5, <2>1 DEF TwiceFits, Shows
<1>6. CASE Now = "response-lost-after-commit"
  <2>1. Effects = 1 /\ executes = 1 /\ last.evidence = "APPLIED"
    BY <1>1, <1>6, EndsMet
  <2>2. contract.writes # "untilAnswered"
    BY <1>2, <1>6, <2>1 DEF TwiceFits
  <2>3. ~(contract.writes = "once" /\ contract.trusts = "transport")
    BY <1>2, <1>6, <2>1 DEF TransportFits
  <2> QED BY <1>3, <1>6, <2>2, <2>3 DEF Shows
<1>7. CASE Now = "request-lost-before-commit"
  BY <1>2, <1>7, LostShows DEF Shows
<1>8. CASE Now = "late-landing"
  <2>1. Plain => ~Conservative
    BY <1>2, <1>8, LateAlarm
  <2>2. Plain /\ Recovers => WaitsLongEnough
    BY <1>2, <1>8, LateShows
  <2> QED BY <1>8, <2>1, <2>2 DEF Shows
<1>9. CASE Now = "read-fails-after-lost-response"
  BY <1>1, <1>2, <1>4, <1>9 DEF FailedReadFits, Shows
<1>10. CASE Now = "identity-reuse-different-intent"
  BY <1>1, <1>10, EndsMet DEF Shows
<1>11. CASE Now = "pending-then-settled"
  BY <1>1, <1>2, <1>4, <1>11 DEF PendingFits, Shows
<1>12. CASE Now = "neighbor-effect-isolation"
  <2>1. ASSUME Plain, contract.scope = "all" PROVE FALSE
    <3>1. Effects = 0 /\ last.disposition # "INVESTIGATE"
      BY <1>1, <1>2, <1>4, <1>12, <2>1 DEF NeighborFits
    <3>2. Recovered(TRUE)
      BY <1>1, <1>12, EndsMet
    <3> QED BY <3>1, <3>2 DEF Recovered
  <2> QED BY <1>3, <1>12, <2>1 DEF Shows
<1>13. CASE Now \notin {"normal", "response-lost-after-commit", "request-lost-before-commit",
                       "late-landing", "read-fails-after-lost-response",
                       "identity-reuse-different-intent", "pending-then-settled",
                       "neighbor-effect-isolation"}
  BY <1>13 DEF Shows
<1> QED BY <1>5, <1>6, <1>7, <1>8, <1>9, <1>10, <1>11, <1>12, <1>13

\* A right contract fails late-landing only, and only if it may not retry.
LEMMA FailMeans ==
  ASSUME Basics, ScenarioFits, Driven, Now \in Names, script = << >>, Idle, ~(ok /\ Universal),
         Honest, WaitsLongEnough, Recovers
  PROVE  Now = "late-landing" /\ Conservative
<1>1. SUFFICES ASSUME ~(Now = "late-landing" /\ Conservative) PROVE FALSE
  OBVIOUS
<1>2. Right
  BY <1>1 DEF Right
<1>3. ok /\ FollowedFits /\ Followed
  BY <1>2, RightMeans DEF ScenarioFits, RightFits
<1>4. /\ Played \in Nat /\ last = Answer(Op) /\ After(Played)
      /\ InFlightUntil < Played /\ WaitsUntil < Played
      /\ Now = "late-landing" => Played >= 13
  BY <1>3, EndsAfter
<1>5. CASE Now = "late-landing"
  <2>1. Held(Played) /\ Played >= 12
    BY <1>4, <1>5 DEF After
  <2>2. Effects = 1
    BY <1>2, <1>4, <1>5, <2>1, LateIsRight
  <2> QED BY <1>3, <2>2 DEF Universal
<1>6. CASE Now # "late-landing"
  <2>1. Settled(Played) /\ InFlightUntil \in Nat /\ WaitsUntil \in Nat
    BY <1>4, <1>6, ScenarioTable, ScenarioNames DEF After
  <2>2. Effects = 1 \/ (Effects = 0 /\ GaveUp)
    BY <1>4, <2>1 DEF Settled
  <2>3. CASE Effects = 1
    BY <1>3, <2>3 DEF Universal
  <2>4. CASE Effects = 0 /\ GaveUp
    <3>1. last.evidence # "APPLIED"
      BY <1>4, <2>4, AnswerIs DEF GaveUp
    <3> QED BY <1>3, <2>4, <3>1 DEF Universal
  <2> QED BY <2>2, <2>3, <2>4
<1> QED BY <1>5, <1>6

\* What is said of the contract stays.
LEMMA ShowsStays ==
  ASSUME UNCHANGED <<contract, options>>
  PROVE  /\ \A s \in Names : Shows(s)' <=> Shows(s)
         /\ (Honest' <=> Honest) /\ (WaitsLongEnough' <=> WaitsLongEnough)
         /\ (Recovers' <=> Recovers) /\ (Conservative' <=> Conservative)
<1>1. (RetryAllowed' <=> RetryAllowed) /\ (Declared' <=> Declared) /\ (Plain' <=> Plain)
  BY DEF RetryAllowed, Declared, Plain
<1>2. /\ (Honest' <=> Honest) /\ (WaitsLongEnough' <=> WaitsLongEnough)
      /\ (Recovers' <=> Recovers) /\ (Conservative' <=> Conservative)
  BY <1>1 DEF Honest, WaitsLongEnough, Recovers, Conservative
<1>3. ASSUME NEW s \in Names PROVE Shows(s)' <=> Shows(s)
  BY <1>1, <1>2 DEF Shows
<1> QED BY <1>2, <1>3

\* A result, once given, says what it says.
LEMMA ResultsStay ==
  ASSUME ResultsFit, UNCHANGED <<contract, options, results>>
  PROVE  ResultsFit'
<1>1. ASSUME NEW s \in Names
      PROVE  /\ results'[s] = "pass" => Shows(s)'
             /\ results'[s] = "fail" /\ Honest' /\ WaitsLongEnough' /\ Recovers'
                  => s = "late-landing" /\ Conservative'
  BY ShowsStays DEF ResultsFit
<1> QED BY <1>1 DEF ResultsFit

\* The result of the scenario that ended says what it should.
LEMMA ResultsNext ==
  ASSUME Basics, MetSoFar, Driven => ScenarioFits, ResultsFit, NextScenario
  PROVE  ResultsFit'
<1>1. /\ UNCHANGED <<contract, options>> /\ Idle /\ script = << >>
      /\ results \in [Names -> {"notAsked", "skipped", "pass", "fail"}]
  BY FreshDoes DEF NextScenario, Basics, TypeOK
<1>2. CASE results' = results
  BY <1>1, <1>2, ResultsStay
<1>3. CASE results' # results
  <2>1. n \in 1..12 /\ Scenarios[n] \in options.scenarios
    <3>1. n \in 0..13 /\ ~(n > 12)
      BY ScenarioNames DEF Basics, TypeOK, NextScenario, Finished
    <3> QED BY <1>3, <3>1 DEF NextScenario
  <2>2. Now = Scenarios[n] /\ Now \in Names /\ Now # "none"
    BY <2>1, ScenarioNames DEF Now, Names
  <2>3. PICK v : /\ results' = [results EXCEPT ![Now] = v]
                 /\ v = (CASE Skipped(Now)                    -> "skipped"
                           [] ~Skipped(Now) /\ ok /\ Universal -> "pass"
                           [] OTHER                           -> "fail")
    BY <1>3, <2>2 DEF NextScenario
  <2>4. /\ results'[Now] = v
        /\ \A s \in Names : s # Now => results'[s] = results[s]
    BY <1>1, <2>2, <2>3
  <2>5. Driven <=> ~Skipped(Now)
    BY <2>1, <2>2 DEF Driven
  <2>6. /\ v = "pass" => Driven /\ ok /\ Universal
        /\ v = "fail" => Driven /\ ~(ok /\ Universal)
    BY <2>3, <2>5
  <2>7. v = "pass" => Shows(Now)
    BY <1>1, <2>2, <2>6, PassShows
  <2>8. v = "fail" /\ Honest /\ WaitsLongEnough /\ Recovers => Now = "late-landing" /\ Conservative
    BY <1>1, <2>2, <2>6, FailMeans
  <2>9. ASSUME NEW s \in Names
        PROVE  /\ results'[s] = "pass" => Shows(s)
               /\ results'[s] = "fail" /\ Honest /\ WaitsLongEnough /\ Recovers
                    => s = "late-landing" /\ Conservative
    <3>1. CASE s = Now
      BY <2>4, <2>7, <2>8, <3>1
    <3>2. CASE s # Now
      BY <2>4, <3>2 DEF ResultsFit
    <3> QED BY <3>1, <3>2
  <2>10. ASSUME NEW s \in Names
         PROVE  /\ results'[s] = "pass" => Shows(s)'
                /\ results'[s] = "fail" /\ Honest' /\ WaitsLongEnough' /\ Recovers'
                     => s = "late-landing" /\ Conservative'
    BY <1>1, <2>9, ShowsStays
  <2> QED BY <2>10 DEF ResultsFit
<1> QED BY <1>2, <1>3

-----------------------------------------------------------------------------
(* The invariant *)

\* What is said of the scenario under way is kept by every step within it.
LEMMA ScenarioStep ==
  ASSUME Basics, Step, ScenarioFits
  PROVE  ScenarioFits'
<1>1. Now' = Now
  BY StepStays
<1>2. Now # "neighbor-effect-isolation" => NeighborUntouched'
  BY NeighborUntouchedStep DEF ScenarioFits
<1>3. TwiceFits' /\ TransportFits' /\ FailedReadFits' /\ PendingFits'
  BY TwiceStep, TransportStep, FailedReadStep, PendingStep DEF ScenarioFits
<1>4. NeighborFits' /\ NeighborRuns' /\ FollowedFits' /\ RightFits'
  BY NeighborStep, NeighborRunsStep, FollowedStep, RightStep DEF ScenarioFits
<1> QED BY <1>1, <1>2, <1>3, <1>4 DEF ScenarioFits

\* The invariant holds at first, and every step keeps it.
LEMMA InvariantInit ==
  ASSUME Init
  PROVE  ConformanceInvariant
<1>1. Basics /\ Played = 0 /\ ~Driven
  BY InitBasics
<1>2. MetSoFar
  BY <1>1 DEF MetSoFar
<1>3. ResultsFit
  <2>1. \A s \in Names : results[s] = "notAsked"
    BY DEF Init, Names
  <2> QED BY <2>1 DEF ResultsFit
<1> QED BY <1>1, <1>2, <1>3 DEF ConformanceInvariant, Basics

LEMMA InvariantStays ==
  ASSUME ConformanceInvariant, UNCHANGED vars
  PROVE  ConformanceInvariant'
<1>1. /\ UNCHANGED <<contract, options, n, script, target, record, lock, caller>>
      /\ UNCHANGED <<crashOn, clock, executes, last, ok, results>>
  BY DEF vars
<1>2. /\ First' = First /\ Mode' = Mode /\ CrashAt' = CrashAt /\ (ReadFails' <=> ReadFails)
      /\ InFlightUntil' = InFlightUntil /\ WaitsUntil' = WaitsUntil /\ LandsAt' = LandsAt
      /\ RunAt' = RunAt /\ SettleStep' = SettleStep /\ Now' = Now /\ Plan' = Plan
      /\ (Followed' <=> Followed) /\ (MayGiveUp' <=> MayGiveUp) /\ Sent' = Sent
      /\ (Answered' <=> Answered) /\ (RetryAllowed' <=> RetryAllowed)
      /\ (Declared' <=> Declared) /\ (Right' <=> Right) /\ (Plain' <=> Plain)
  BY <1>1, SameTable
<1>3. /\ Played' = Played /\ Effects' = Effects /\ Op' = Op /\ (Idle' <=> Idle) /\ (Calm' <=> Calm)
      /\ (Driven' <=> Driven)
  BY <1>1, <1>2 DEF Played, Effects, Op, Idle, Calm, Driven, Skipped
<1>4. TypeOK' /\ ScriptFits' /\ CallersFit' /\ RecordsFit'
  <2>1. TypeOK'
    BY <1>1 DEF ConformanceInvariant, TypeOK, Inputs
  <2>2. ScriptFits' /\ CallersFit' /\ RecordsFit'
    BY <1>1, <1>2, <1>3 DEF ConformanceInvariant, ScriptFits, CallersFit, RecordsFit, Of
  <2> QED BY <2>1, <2>2
<1>5. MetSoFar'
  <2>1. \A e : Holds(e)' <=> Holds(e)
    BY <1>1, <1>2, <1>3 DEF Holds, Recovered
  <2> QED BY <1>1, <1>2, <1>3, <2>1 DEF ConformanceInvariant, MetSoFar, Trailing
<1>6. ResultsFit'
  BY <1>1, ResultsStay DEF ConformanceInvariant
<1>7. ASSUME ScenarioFits PROVE ScenarioFits'
  <2>1. /\ Now' # "neighbor-effect-isolation" => NeighborUntouched'
        /\ TwiceFits' /\ TransportFits' /\ PendingFits'
    BY <1>1, <1>2, <1>3, <1>7
       DEF ScenarioFits, NeighborUntouched, TwiceFits, TransportFits, PendingFits, At
  <2>2. FailedReadFits' /\ NeighborRuns'
    BY <1>1, <1>2, <1>3, <1>7 DEF ScenarioFits, FailedReadFits, NeighborRuns, At
  <2>3. NeighborFits'
    BY <1>1, <1>2, <1>3, <1>7 DEF ScenarioFits, NeighborFits, At
  <2>4. RightFits'
    BY <1>1, <1>2, <1>7 DEF ScenarioFits, RightFits
  <2>5. ASSUME AtFirst PROVE AtFirst'
    <3>1. (Prepared' <=> Prepared) /\ (Written' <=> Written) /\ \A k : Executed(k)' <=> Executed(k)
      BY <1>1, <1>2, <1>3 DEF Prepared, Written, Executed
    <3>2. Evidence(Answered, ReadFails)' = Evidence(Answered, ReadFails)
      BY <1>1, <1>2, <1>3 DEF Evidence
    <3>3. ASSUME NEW c \in Callers, FirstRun(c) PROVE FirstRun(c)'
      <4>1. /\ lock'["op"] = c /\ Played' = First' /\ (At(c, "reserve")' \/ CrashAt' # "afterReserve")
        BY <1>1, <1>2, <1>3, <3>3 DEF FirstRun, At
      <4>2. \/ At(c, "reserve") /\ record["op"] = New /\ Prepared /\ Executed(0)
            \/ At(c, "execute") /\ record["op"] = Sent /\ Prepared /\ Executed(0)
            \/ /\ At(c, "observe") /\ record["op"] = Sent /\ Written /\ Executed(1)
               /\ (caller[c].ok <=> Answered) /\ (target.failRead <=> ReadFails) /\ crashOn = CrashAt
            \/ /\ At(c, "save") /\ record["op"] = Sent /\ Written /\ Executed(1)
               /\ (caller[c].ok <=> Answered) /\ ~target.failRead /\ crashOn = CrashAt
               /\ caller[c].evidence = Evidence(Answered, ReadFails)
        BY <3>3 DEF FirstRun
      <4>3. \A pc : At(c, pc)' <=> At(c, pc)
        BY <1>1 DEF At
      <4>4. \/ At(c, "reserve")' /\ record'["op"] = New /\ Prepared' /\ Executed(0)'
            \/ At(c, "execute")' /\ record'["op"] = Sent' /\ Prepared' /\ Executed(0)'
            \/ /\ At(c, "observe")' /\ record'["op"] = Sent' /\ Written' /\ Executed(1)'
               /\ (caller'[c].ok <=> Answered') /\ (target'.failRead <=> ReadFails') /\ crashOn' = CrashAt'
            \/ /\ At(c, "save")' /\ record'["op"] = Sent' /\ Written' /\ Executed(1)'
               /\ (caller'[c].ok <=> Answered') /\ ~target'.failRead /\ crashOn' = CrashAt'
               /\ caller'[c].evidence = Evidence(Answered, ReadFails)'
        BY <1>1, <1>2, <3>1, <3>2, <4>2, <4>3
      <4> QED BY <4>1, <4>4 DEF FirstRun
    <3> QED BY <1>1, <1>2, <1>3, <2>5, <3>1, <3>3 DEF AtFirst, At
  <2>6. ASSUME AfterFirst PROVE AfterFirst'
    <3>1. \A p : After(p) => After(p)'
      BY <1>1, AfterStays
    <3>2. ClockFits' /\ Played' >= First' /\ (Idle' => last' = Answer(Op)')
      BY <1>1, <1>2, <1>3, <2>6 DEF AfterFirst, ClockFits, Answer, Latest, Reported
    <3>3. Played' = First' => Idle' \/ Plan'[Played'].by = 2
      BY <1>2, <1>3, <2>6 DEF AfterFirst
    <3>4. CASE lock["op"] = "none" /\ After(IF Idle \/ Played = First THEN Played ELSE Played - 1)
      <4>1. After(IF Idle \/ Played = First THEN Played ELSE Played - 1)'
        <5>1. PICK p : p = (IF Idle \/ Played = First THEN Played ELSE Played - 1)
          OBVIOUS
        <5>2. After(p)'
          BY <3>1, <3>4, <5>1
        <5>3. p = (IF Idle' \/ Played' = First' THEN Played' ELSE Played' - 1)
          BY <1>2, <1>3, <5>1
        <5> QED BY <5>2, <5>3
      <4> QED BY <1>1, <3>2, <3>3, <3>4, <4>1 DEF AfterFirst
    <3>5. ASSUME NEW c \in Callers, Reruns(c) PROVE Reruns(c)'
      <4>1. PICK p : p = Played - 1
        OBVIOUS
      <4>2. /\ lock["op"] = c /\ Played > First
            /\ \/ /\ At(c, "observe") /\ Op.status = "OPEN" /\ After(p) /\ (caller[c].ok <=> Latest(Op).ok)
               \/ /\ At(c, "save") /\ Op.status = "OPEN" /\ After(p) /\ (caller[c].ok <=> Latest(Op).ok)
                  /\ caller[c].evidence = Evidence(Latest(Op).ok, FALSE)
               \/ /\ At(c, "reserve") /\ After(p) /\ Waits /\ Effects = 0
               \/ /\ caller[c].pc \in {"execute", "observe", "save"}
                  /\ Op.status = "OPEN" /\ Len(Op.attempts) = 2 /\ Latest(Op).status = "RESERVED"
                  /\ Calm /\ ~target.pending["op"]
                  /\ target.held = IF Now = "late-landing" THEN "op" ELSE "none"
                  /\ Played = IF Now = "late-landing" THEN 4 ELSE WaitsUntil
                  /\ Now = "late-landing" => LandsAt = 6
                  /\ RetryAllowed /\ (Now = "request-lost-before-commit" => ~contract.cautious)
                  /\ At(c, "execute") => Effects = 0
                  /\ ~At(c, "execute") => Effects = 1 /\ caller[c].ok
                  /\ At(c, "save") => caller[c].evidence = "APPLIED"
        BY <3>5, <4>1 DEF Reruns
      <4>3. /\ \A pc : At(c, pc)' <=> At(c, pc)
            /\ Waits' <=> Waits
            /\ Latest(Op)' = Latest(Op)
        BY <1>1, <1>3, SameOp DEF At, Latest
      <4>4. Evidence(Latest(Op).ok, FALSE)' = Evidence(Latest(Op).ok, FALSE)
        BY <1>1, <1>3, <4>3 DEF Evidence
      <4>5. /\ lock'["op"] = c /\ Played' > First'
            /\ \/ /\ At(c, "observe")' /\ Op'.status = "OPEN" /\ After(p)' /\ (caller'[c].ok <=> Latest(Op)'.ok)
               \/ /\ At(c, "save")' /\ Op'.status = "OPEN" /\ After(p)' /\ (caller'[c].ok <=> Latest(Op)'.ok)
                  /\ caller'[c].evidence = Evidence(Latest(Op).ok, FALSE)'
               \/ /\ At(c, "reserve")' /\ After(p)' /\ Waits' /\ Effects' = 0
               \/ /\ caller'[c].pc \in {"execute", "observe", "save"}
                  /\ Op'.status = "OPEN" /\ Len(Op'.attempts) = 2 /\ Latest(Op)'.status = "RESERVED"
                  /\ Calm' /\ ~target'.pending["op"]
                  /\ target'.held = IF Now' = "late-landing" THEN "op" ELSE "none"
                  /\ Played' = IF Now' = "late-landing" THEN 4 ELSE WaitsUntil'
                  /\ Now' = "late-landing" => LandsAt' = 6
                  /\ RetryAllowed' /\ (Now' = "request-lost-before-commit" => ~contract'.cautious)
                  /\ At(c, "execute")' => Effects' = 0
                  /\ ~At(c, "execute")' => Effects' = 1 /\ caller'[c].ok
                  /\ At(c, "save")' => caller'[c].evidence = "APPLIED"
        BY <1>1, <1>2, <1>3, <3>1, <4>2, <4>3, <4>4
      <4>6. After(p)' => After(Played - 1)'
        <5>1. p = Played' - 1
          BY <1>3, <4>1
        <5> QED BY <5>1
      <4> QED BY <4>5, <4>6 DEF Reruns
    <3> QED BY <2>6, <3>2, <3>3, <3>4, <3>5 DEF AfterFirst
  <2> QED BY <1>2, <1>7, <2>1, <2>2, <2>3, <2>4, <2>5, <2>6 DEF ScenarioFits, FollowedFits
<1> QED BY <1>3, <1>4, <1>5, <1>6, <1>7 DEF ConformanceInvariant

LEMMA InvariantNext ==
  ASSUME ConformanceInvariant, [Next]_vars
  PROVE  ConformanceInvariant'
<1>1. Basics /\ MetSoFar /\ (Driven => ScenarioFits) /\ ResultsFit
  BY DEF ConformanceInvariant, Basics
<1>2. CASE NextScenario
  <2>1. Basics' /\ MetSoFar' /\ ResultsFit'
    BY <1>1, <1>2, NextBasics, NextMet, ResultsNext
  <2>2. ScenarioFits'
    BY <1>1, <1>2, StartScenarios, StartFollowed DEF ScenarioFits, FollowedFits
  <2> QED BY <2>1, <2>2 DEF ConformanceInvariant, Basics
<1>3. CASE Step
  <2>1. Basics' /\ Driven /\ UNCHANGED <<contract, options, results>>
    BY <1>1, <1>3, StepStays
  <2>2. MetSoFar'
    BY <1>1, <1>3, DriveMet, PrepareMet, StartMet, CallMet DEF Step
  <2>3. ScenarioFits'
    BY <1>1, <1>3, <2>1, ScenarioStep
  <2>4. ResultsFit'
    BY <1>1, <2>1, ResultsStay
  <2> QED BY <2>1, <2>2, <2>3, <2>4 DEF ConformanceInvariant, Basics
<1>4. CASE UNCHANGED vars
  BY <1>4, InvariantStays
<1>5. NextScenario \/ Step \/ UNCHANGED vars
  BY DEF Next, Step, CallStep
<1> QED BY <1>2, <1>3, <1>4, <1>5

\* The invariant of the harness: each scenario is followed to its end.
THEOREM ConformanceInvariantHolds == Spec => []ConformanceInvariant
<1>1. Init => ConformanceInvariant
  BY InvariantInit
<1>2. ConformanceInvariant /\ [Next]_vars => ConformanceInvariant'
  BY InvariantNext
<1> QED BY <1>1, <1>2, PTL DEF Spec

\* Twelve scenarios have run only if all have.
LEMMA AllRan ==
  ASSUME ConformanceInvariant, Cardinality(Ran) = Len(Scenarios)
  PROVE  Ran = Names
<1>1. Ran \subseteq Names
  BY DEF ConformanceInvariant, TypeOK, Ran
<1>2. IsFiniteSet(Names) /\ Cardinality(Names) = 12
  <2> DEFINE f == [i \in 1..12 |-> Scenarios[i]]
  <2>1. Names = {Scenarios[i] : i \in 1..12}
    BY ScenarioNames DEF Names
  <2>2. f \in [1..12 -> Names] /\ \A s \in Names : \E i \in 1..12 : f[i] = s
    BY <2>1
  <2>3. \A i, j \in 1..12 : f[i] = f[j] => i = j
    BY ScenarioNames
  <2>4. f \in Bijection(1..12, Names)
    BY <2>2, <2>3 DEF Bijection, Injection, Surjection, IsInjective
  <2>5. ExistsBijection(1..12, Names)
    BY <2>4 DEF ExistsBijection
  <2>6. Cardinality(Names) = 12
    BY <2>5, FS_CountingElements
  <2>7. IsFiniteSet(Names)
    BY <2>5, FS_NatBijection
  <2> QED BY <2>6, <2>7
<1>3. Cardinality(Ran) = Cardinality(Names)
  BY <1>2, ScenarioNames
<1> QED BY <1>1, <1>2, <1>3, FS_Subset

\* What the invariant says at the end.
LEMMA InvariantBad == ConformanceInvariant => BadContractsFail
<1>1. SUFFICES ASSUME ConformanceInvariant, Cardinality(Ran) = Len(Scenarios), Passed
               PROVE  Honest /\ WaitsLongEnough /\ Recovers
  BY DEF BadContractsFail
<1>2. \A s \in Names : results[s] = "pass"
  BY <1>1, AllRan DEF Passed
<1>3. \A s \in Names : Shows(s)
  BY <1>1, <1>2 DEF ConformanceInvariant, ResultsFit
<1>4. /\ Shows("normal") /\ Shows("response-lost-after-commit")
      /\ Shows("request-lost-before-commit") /\ Shows("late-landing")
      /\ Shows("read-fails-after-lost-response") /\ Shows("identity-reuse-different-intent")
      /\ Shows("pending-then-settled") /\ Shows("neighbor-effect-isolation")
  BY <1>3, ScenarioNames
<1>5. /\ contract.writes \in {"once", "twice", "untilAnswered"}
      /\ contract.trusts \in {"observation", "transport"} /\ contract.scope \in {"own", "all"}
  BY <1>1, ContractFields DEF ConformanceInvariant, TypeOK
<1>6. contract.writes = "once" /\ contract.trusts = "observation" /\ Plain
  BY <1>4, <1>5 DEF Shows, Plain
<1>7. Recovers /\ contract.onFailedRead = "UNKNOWN" /\ contract.tells
  BY <1>4, <1>6 DEF Shows
<1>8. contract.onPending = "PENDING" /\ contract.scope = "own" /\ WaitsLongEnough
  BY <1>4, <1>6, <1>7 DEF Shows
<1> QED BY <1>6, <1>7, <1>8 DEF Honest

LEMMA InvariantGood == ConformanceInvariant => GoodContractsPass
<1>1. SUFFICES ASSUME ConformanceInvariant
               PROVE  /\ Ran = {} => ~Passed
                      /\ Ran # {} /\ Honest /\ WaitsLongEnough /\ Recovers =>
                           (Passed <=> ~("late-landing" \in Ran /\ Conservative))
  BY DEF GoodContractsPass
<1>2. Ran = {} => ~Passed
  BY DEF Passed
<1>3. ASSUME Ran # {}, Honest, WaitsLongEnough, Recovers, ~("late-landing" \in Ran /\ Conservative)
      PROVE  Passed
  <2>1. Ran \subseteq Names
    BY <1>1 DEF ConformanceInvariant, TypeOK, Ran
  <2>2. ASSUME NEW s \in Ran, results[s] # "pass" PROVE FALSE
    <3>1. s \in Names /\ results[s] = "fail"
      BY <2>1, <2>2 DEF Ran
    <3>2. s = "late-landing" /\ Conservative
      BY <1>1, <1>3, <3>1 DEF ConformanceInvariant, ResultsFit
    <3> QED BY <1>3, <2>2, <3>2
  <2> QED BY <1>3, <2>2 DEF Passed
<1>4. ASSUME Honest, Passed, "late-landing" \in Ran, Conservative
      PROVE  FALSE
  <2>1. results["late-landing"] = "pass" /\ "late-landing" \in Names
    BY <1>4, ScenarioNames DEF Passed
  <2>2. Shows("late-landing") /\ Plain
    BY <1>1, <1>4, <2>1 DEF ConformanceInvariant, ResultsFit, Honest, Plain
  <2> QED BY <1>4, <2>2 DEF Shows
<1> QED BY <1>2, <1>3, <1>4

\* For every set of contracts and of options: a contract that passes all twelve scenarios counts
\* its own effects, says of a failed read and of a pending effect what they are, trusts what it
\* observes, writes once, tells identities apart, waits long enough and recovers.
THEOREM HarnessCatchesBadContracts == Spec => []BadContractsFail
  BY ConformanceInvariantHolds, InvariantBad, PTL

\* And it has one false alarm: whatever scenarios were asked for, a right contract passes them,
\* unless late-landing is one, its window covers how late the target is and it may not retry,
\* when it fails; nothing passes if nothing ran.
THEOREM HarnessPassesGoodContracts == Spec => []GoodContractsPass
  BY ConformanceInvariantHolds, InvariantGood, PTL

=============================================================================
