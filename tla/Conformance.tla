---------------------------- MODULE Conformance ----------------------------
(***************************************************************************)
(* verifyEffectContract() of src/testing/conformance.ts: the harness runs  *)
(* a contract through its scenarios, one after the other, against the fake *)
(* ledger, and reports whether it passed.                                  *)
(*                                                                         *)
(* A scenario is the sequence of commands the code runs for it; run.once() *)
(* is a call of runEffect() in steps, so that the two calls of             *)
(* concurrent-same-identity meet in every order and a crash comes between  *)
(* two steps.  One clock unit stands for the granularity of the windows.   *)
(***************************************************************************)
EXTENDS OnePass, FiniteSets

CONSTANTS
  Contracts,  \* the contracts that are verified
  Options     \* [late, pendings, otherIntent, scenarios]: how late the target is (NoTime: not
              \* said), its optional hook, the optional intent, the scenarios asked for

Callers == {"a", "b"}  \* the second one runs in concurrent-same-identity only

Scenarios ==
  <<"normal", "response-lost-after-commit", "request-lost-before-commit", "late-landing",
    "read-fails-after-lost-response", "crash-after-effect-before-save", "crash-before-execute",
    "concurrent-same-identity", "identity-reuse-different-intent", "pending-then-settled",
    "pending-then-rejected", "neighbor-effect-isolation">>

Ops == {"op", "neighbor"}
F == INSTANCE FakeLedger

ASSUME ContractsAssumption == Contracts \subseteq F!Contract

ASSUME OptionsAssumption ==
  Options \subseteq [late : Times, pendings : BOOLEAN, otherIntent : BOOLEAN,
                    scenarios : SUBSET {Scenarios[i] : i \in DOMAIN Scenarios}]

VARIABLES
  contract, options,
  n,        \* the scenario under way: Scenarios[n]; n > Len(Scenarios) at the end
  script,   \* its commands that are left
  target,
  record,   \* [Ops -> what the harness' store holds]
  lock,     \* [Ops -> the caller that has it, or "none"]
  caller,   \* [Callers -> the call under way]
  crashOn, clock,
  executes, \* how often execute() ran
  last,     \* what the latest run of the operation answered
  ok,       \* no expectation has failed
  results   \* [scenario -> its result]

vars == <<contract, options, n, script, target, record, lock, caller, crashOn, clock,
          executes, last, ok, results>>

-----------------------------------------------------------------------------
(* The scenarios *)

Policy == [retryOnNotApplied |-> contract.retryOnNotApplied, maxAttempts |-> contract.maxAttempts]
RetryAllowed == contract.retryOnNotApplied /\ contract.maxAttempts >= 2
Declared == contract.window # NoWindow
OrZero(t) == IF t = NoTime THEN 0 ELSE t

Cmd(do, what, by) == [do |-> do, what |-> what, by |-> by]
Once == Cmd("run", "op", 1)
Fault(mode) == Cmd("fault", mode, 0)
Advance(t) == Cmd("advance", "clock", t)
Expect(what) == Cmd("expect", what, 0)

SettleStep == OrZero(contract.window) + OrZero(options.late) + 1
FollowUp == <<Advance(SettleStep), Once, Advance(SettleStep), Once, Advance(SettleStep), Once>>

\* late-landing: a contract that says it may retry before the request arrives, does.
LateLandingBeforeRetry ==
  <<Fault("hold"), Once, Advance(options.late), Cmd("land", "op", 0), Once>>
    \o FollowUp \o <<Expect("one")>>

LateLanding ==
  LET runAt == IF Declared THEN contract.window ELSE options.late + 1
  IN  (IF runAt < options.late
       THEN <<Fault("hold"), Once, Advance(runAt), Once, Advance(options.late - runAt), Cmd("land", "op", 0)>>
       ELSE <<Fault("hold"), Once, Advance(options.late), Cmd("land", "op", 0), Advance(runAt - options.late), Once>>)
      \o FollowUp \o <<Expect("one")>>
      \o (IF Declared /\ contract.window >= options.late
          THEN <<Expect("executedOnce"), Expect("APPLIED")>> ELSE << >>)

Accepted == <<Fault("pending"), Once, Expect("PENDING"), Once, Expect("executedOnce"), Expect("none")>>

Script(scenario) ==
  CASE scenario = "normal" ->
         <<Once>> \o FollowUp \o <<Expect("one"), Expect("executedOnce"), Expect("APPLIED")>>
    [] scenario = "response-lost-after-commit" ->
         <<Fault("loseResponse"), Once>> \o FollowUp
           \o <<Expect("one"), Expect("executedOnce"), Expect("APPLIED")>>
    [] scenario = "request-lost-before-commit" ->
         <<Fault("loseRequest"), Once>> \o FollowUp \o <<Expect("atMostOne"), Expect("recovered")>>
    [] scenario = "late-landing" -> LateLanding
    [] scenario = "read-fails-after-lost-response" ->
         <<Fault("loseResponse"), Cmd("failRead", "op", 0), Once, Expect("UNKNOWN")>>
           \o FollowUp \o <<Expect("one")>>
    [] scenario = "crash-after-effect-before-save" ->
         <<Cmd("crash", "onResolve", 0), Once>> \o FollowUp
           \o <<Expect("one"), Expect("executedOnce"), Expect("APPLIED")>>
    [] scenario = "crash-before-execute" ->
         <<Cmd("crash", "afterReserve", 0), Once>> \o FollowUp
           \o <<Expect("atMostOne"), Expect("recovered")>>
    [] scenario = "concurrent-same-identity" ->
         <<Cmd("run", "op", 2)>> \o FollowUp \o <<Expect("one"), Expect("executedOnce")>>
    [] scenario = "identity-reuse-different-intent" ->
         <<Once, Expect("rejectsReuse")>>
    [] scenario = "pending-then-settled" ->
         Accepted \o <<Cmd("settle", "op", 0)>> \o FollowUp
           \o <<Expect("one"), Expect("executedOnce"), Expect("APPLIED")>>
    [] scenario = "pending-then-rejected" ->
         Accepted \o <<Cmd("reject", "op", 0)>> \o FollowUp
           \o <<Expect("atMostOne"), Expect("recoveredFromRejection")>>
    [] scenario = "neighbor-effect-isolation" ->
         <<Cmd("run", "neighbor", 1), Expect("neighbor"), Fault("loseRequest"), Once>> \o FollowUp
           \o <<Expect("recovered")>>

\* Scenarios the target or the options can't drive.
Skipped(scenario) ==
  \/ scenario = "late-landing" /\ options.late = NoTime
  \/ scenario \in {"pending-then-settled", "pending-then-rejected"} /\ ~options.pendings
  \/ scenario = "identity-reuse-different-intent" /\ ~options.otherIntent

-----------------------------------------------------------------------------
(* The expectations *)

Effects == target.applied["op"]

\* recovered(): an effect that provably never happened is made, unless the contract
\* deliberately can't.
RecoveredStrictly(windowMatters) == Effects = 1 /\ last.evidence = "APPLIED"

Recovered(windowMatters) ==
  \/ Effects = 1 /\ last.evidence = "APPLIED"
  \/ /\ ~RetryAllowed \/ (windowMatters /\ ~Declared)
     /\ Effects = 0 /\ last.disposition = "INVESTIGATE"

\* rejectsReuse: runEffect() throws if the two intents' fingerprints differ (IdentityBinding).
Holds(what) ==
  CASE what = "one"          -> Effects = 1
    [] what = "none"         -> Effects = 0
    [] what = "atMostOne"    -> Effects <= 1
    [] what = "neighbor"     -> target.applied["neighbor"] = 1
    [] what = "executedOnce" -> executes = 1
    [] what = "recovered"    -> Recovered(TRUE)
    [] what = "recoveredFromRejection" -> Recovered(FALSE)
    [] what = "rejectsReuse" -> contract.tells
    [] what \in EvidenceStates -> last.evidence = what

\* The rules of every scenario.
Universal == Effects <= 1 /\ ~(last.evidence = "APPLIED" /\ Effects = 0)

-----------------------------------------------------------------------------
Quiet == [pc |-> "idle", op |-> "op", ok |-> FALSE, evidence |-> "UNKNOWN"]
NoAnswer == [evidence |-> "none", disposition |-> "NULL"]

\* makeRun(): a fresh store, target and counters for the n-th scenario.
Fresh(k) ==
  /\ n' = k
  /\ script' = IF k > Len(Scenarios) \/ Scenarios[k] \notin options.scenarios \/ Skipped(Scenarios[k])
               THEN << >> ELSE Script(Scenarios[k])
  /\ target' = F!Reset
  /\ record' = [o \in Ops |-> NoRecord]
  /\ lock' = [o \in Ops |-> "none"]
  /\ caller' = [c \in Callers |-> Quiet]
  /\ crashOn' = "none"
  /\ clock' = 0
  /\ executes' = 0
  /\ last' = NoAnswer
  /\ ok' = TRUE

Init ==
  /\ contract \in Contracts
  /\ options \in Options
  /\ n = 0
  /\ script = << >>
  /\ target = F!Reset
  /\ record = [o \in Ops |-> NoRecord]
  /\ lock = [o \in Ops |-> "none"]
  /\ caller = [c \in Callers |-> Quiet]
  /\ crashOn = "none"
  /\ clock = 0
  /\ executes = 0
  /\ last = NoAnswer
  /\ ok = TRUE
  /\ results = [s \in {Scenarios[i] : i \in DOMAIN Scenarios} |-> "notAsked"]

Finished == n > Len(Scenarios)
Idle == \A c \in Callers : caller[c].pc = "idle"

\* The result of the scenario that ended, and the next one.
NextScenario ==
  /\ ~Finished /\ script = << >> /\ Idle
  /\ results' =
       IF n = 0 \/ Scenarios[n] \notin options.scenarios THEN results
       ELSE [results EXCEPT ![Scenarios[n]] =
               CASE Skipped(Scenarios[n])                   -> "skipped"
                 [] ~Skipped(Scenarios[n]) /\ ok /\ Universal -> "pass"
                 [] OTHER                                   -> "fail"]
  /\ Fresh(n + 1)
  /\ UNCHANGED <<contract, options>>

\* The next command; a call has to end first.
Command(do) ==
  /\ script # << >> /\ Idle
  /\ Head(script).do = do
  /\ script' = Tail(script)

Drive ==
  /\ \/ Command("fault")    /\ target' = [target EXCEPT !.mode = Head(script).what]
     \/ Command("failRead") /\ target' = [target EXCEPT !.failRead = TRUE]
     \/ Command("land")     /\ target' = F!Land(target)
     \/ Command("settle")   /\ target' = F!Settle(target)
     \/ Command("reject")   /\ target' = F!Reject(target)
  /\ UNCHANGED <<contract, options, n, record, lock, caller, crashOn, clock, executes, last, ok, results>>

Prepare ==
  /\ \/ Command("crash")   /\ crashOn' = Head(script).what /\ UNCHANGED <<clock, ok>>
     \/ Command("advance") /\ clock' = clock + Head(script).by /\ UNCHANGED <<crashOn, ok>>
     \/ Command("expect")  /\ ok' = (ok /\ Holds(Head(script).what)) /\ UNCHANGED <<crashOn, clock>>
  /\ UNCHANGED <<contract, options, n, target, record, lock, caller, executes, last, results>>

StartRun ==
  /\ Command("run")
  /\ caller' = [c \in Callers |->
                  IF c = "a" \/ Head(script).by = 2
                  THEN [Quiet EXCEPT !.pc = "begin", !.op = Head(script).what] ELSE Quiet]
  /\ UNCHANGED <<contract, options, n, target, record, lock, crashOn, clock, executes, last, ok, results>>

-----------------------------------------------------------------------------
(* run.once() *)

\* Scenario and command stay while a call runs.
Running == <<contract, options, n, script, clock, ok, results>>

Become(c, s) == caller' = [caller EXCEPT ![c] = s]
Goto(c, pc) == Become(c, [caller[c] EXCEPT !.pc = pc])
Of(c) == record[caller[c].op]
At(c, pc) == caller[c].pc = pc

Answer(r) ==
  [evidence    |-> IF r.attempts = << >> \/ Latest(r).status = "RESERVED" THEN "none"
                   ELSE Latest(r).evidence,
   disposition |-> Reported(r)]

\* The call returns r; only a run of the operation itself counts as its last one.
Return(c, r) ==
  /\ Become(c, Quiet)
  /\ last' = IF caller[c].op = "op" THEN Answer(r) ELSE last

Unlock(c) == lock' = [lock EXCEPT ![caller[c].op] = "none"]

Busy(c) ==
  /\ At(c, "begin") /\ lock[caller[c].op] # "none"
  /\ Return(c, Of(c))
  /\ UNCHANGED <<Running, target, record, lock, crashOn, executes>>

Begin(c) ==
  /\ At(c, "begin") /\ lock[caller[c].op] = "none"
  /\ LET step == NextStep(Of(c), clock)
     IN  IF step = "idle"
         THEN Return(c, Of(c)) /\ UNCHANGED <<lock, record>>
         ELSE /\ lock' = [lock EXCEPT ![caller[c].op] = c]
              /\ record' = IF step = "create"
                           THEN [record EXCEPT ![caller[c].op] = NewRecord("OPEN", FALSE, NoEpisode)]
                           ELSE record
              /\ Become(c, [caller[c] EXCEPT
                   !.pc = IF step = "create" THEN "reserve" ELSE step,
                   !.ok = Of(c).attempts # << >> /\ Latest(Of(c)).ok])
              /\ UNCHANGED last
  /\ UNCHANGED <<Running, target, crashOn, executes>>

\* The process dies where crashOn says: the call ends without an answer.
Dies(c) == crashOn' = "none" /\ Unlock(c) /\ Become(c, Quiet)

Reserve(c) ==
  /\ At(c, "reserve")
  /\ record' = [record EXCEPT ![caller[c].op] =
       [Of(c) EXCEPT !.version = @ + 1, !.attempts = Append(@, Reserved(clock, contract.window))]]
  /\ IF crashOn = "afterReserve" THEN Dies(c) ELSE Goto(c, "execute") /\ UNCHANGED <<crashOn, lock>>
  /\ UNCHANGED <<Running, target, executes, last>>

Execute(c) ==
  /\ At(c, "execute")
  /\ LET done == F!Execute(contract, target, caller[c].op)
     IN  target' = done.target /\ Become(c, [caller[c] EXCEPT !.pc = "observe", !.ok = done.ok])
  /\ executes' = executes + 1
  /\ UNCHANGED <<Running, record, lock, crashOn, last>>

Observe(c) ==
  /\ At(c, "observe")
  /\ LET read == F!Observe(contract, target, caller[c].op)
     IN  /\ target' = read.target
         /\ Become(c, [caller[c] EXCEPT !.pc = "save",
                         !.evidence = F!Reconcile(contract, caller[c].ok, read.seen)])
  /\ UNCHANGED <<Running, record, lock, crashOn, executes, last>>

Save(c) ==
  /\ At(c, "save")
  /\ IF crashOn = "onResolve"
     THEN Dies(c) /\ UNCHANGED <<record, last>>
     ELSE LET r == ResolvedRecord(Of(c), caller[c].ok, caller[c].evidence, Policy, contract.window, clock)
          IN  /\ record' = [record EXCEPT ![caller[c].op] = r]
              /\ IF RetriesNow(Of(c), r)
                 THEN Goto(c, "reserve") /\ UNCHANGED <<lock, last>>
                 ELSE Return(c, r) /\ Unlock(c)
              /\ UNCHANGED crashOn
  /\ UNCHANGED <<Running, target, executes>>

-----------------------------------------------------------------------------
Next ==
  \/ NextScenario \/ Drive \/ Prepare \/ StartRun
  \/ \E c \in Callers : Busy(c) \/ Begin(c) \/ Reserve(c) \/ Execute(c) \/ Observe(c) \/ Save(c)
  \/ Finished /\ UNCHANGED vars

Spec == Init /\ [][Next]_vars

-----------------------------------------------------------------------------
(* Properties *)

Ran == {s \in DOMAIN results : results[s] \in {"pass", "fail"}}
Passed == Ran # {} /\ \A s \in Ran : results[s] = "pass"

\* What makes a contract right for this target, whatever scenarios there are.
Honest ==
  /\ contract.scope = "own" /\ contract.onFailedRead = "UNKNOWN" /\ contract.onPending = "PENDING"
  /\ contract.trusts = "observation" /\ contract.writes = "once" /\ contract.tells

\* It never retries before a request can no longer arrive.
WaitsLongEnough == ~RetryAllowed \/ ~Declared \/ contract.window >= OrZero(options.late)

\* It recovers where it declares that it can.
Recovers == contract.cautious => ~RetryAllowed \/ ~Declared

\* A contract that may not retry, with a window that covers how late the target is: the
\* late-landing scenario demands that it sees the effect, which only a retry would look for.
Conservative == ~RetryAllowed /\ Declared /\ contract.window >= OrZero(options.late)

\* The harness passes every right contract, in whichever order the concurrent callers of a
\* scenario run, whatever policy and window the contract declares, with one false alarm: it
\* fails the conservative ones, and only those, if late-landing runs. It never passes a contract
\* of which no scenario ran.
GoodContractsPass ==
  Finished => /\ Ran = {} => ~Passed
              /\ Ran # {} /\ Honest /\ WaitsLongEnough /\ Recovers =>
                   (Passed <=> ~("late-landing" \in Ran /\ Conservative))

\* The harness catches every broken contract when all of its scenarios run: broken in one way
\* or in several that could hide each other.
BadContractsFail ==
  (Finished /\ Cardinality(Ran) = Len(Scenarios) /\ Passed) => Honest /\ WaitsLongEnough /\ Recovers

=============================================================================
