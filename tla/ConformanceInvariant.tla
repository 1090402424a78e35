------------------------ MODULE ConformanceInvariant ------------------------
(***************************************************************************)
(* Why the harness judges contracts as it should: an inductive invariant   *)
(* of Conformance.  It follows each scenario by how many of its commands   *)
(* have been played: what a broken contract has done by then, and where    *)
(* the operation of a right one is.                                        *)
(***************************************************************************)
EXTENDS Conformance

Names == {Scenarios[i] : i \in DOMAIN Scenarios}

-----------------------------------------------------------------------------
(* Types *)

CallerState ==
  [pc : {"idle", "begin", "reserve", "execute", "observe", "save"}, op : Ops, ok : BOOLEAN,
   evidence : EvidenceStates]
Target ==
  [applied : [Ops -> Nat], pending : [Ops -> BOOLEAN], mode : F!Modes, held : Ops \cup {"none"},
   failRead : BOOLEAN]
Expectations ==
  {"one", "none", "atMostOne", "neighbor", "executedOnce", "recovered", "recoveredFromRejection",
   "rejectsReuse"} \cup EvidenceStates
Commands ==
  [do : {"run"}, what : Ops, by : {1, 2}]
    \cup [do : {"fault"}, what : F!Modes, by : {0}]
    \cup [do : {"crash"}, what : {"onResolve", "afterReserve"}, by : {0}]
    \cup [do : {"advance"}, what : {"clock"}, by : Nat]
    \cup [do : {"expect"}, what : Expectations, by : {0}]
    \cup [do : {"failRead", "land", "settle", "reject"}, what : {"op"}, by : {0}]

Inputs == contract \in Contracts /\ options \in Options

\* Every variable has its type.
TypeOK ==
  /\ Inputs
  /\ n \in 0..Len(Scenarios) + 1
  /\ script \in Seq(Commands)
  /\ target \in Target
  /\ record \in [Ops -> Record]
  /\ lock \in [Ops -> Callers \cup {"none"}]
  /\ caller \in [Callers -> CallerState]
  /\ crashOn \in {"none", "afterReserve", "onResolve"}
  /\ clock \in Nat /\ executes \in Nat
  /\ last \in [evidence : EvidenceStates \cup {"none"}, disposition : Dispositions \cup {"REVIEW"}]
  /\ ok \in BOOLEAN
  /\ results \in [Names -> {"notAsked", "skipped", "pass", "fail"}]

-----------------------------------------------------------------------------
(* The place in the scenario *)

Now == IF n \in DOMAIN Scenarios THEN Scenarios[n] ELSE "none"

\* The scenario under way is played.
Driven == Now # "none" /\ Now \in options.scenarios /\ ~Skipped(Now)

Plan == IF Driven THEN Script(Now) ELSE << >>

\* How many of its commands have been played.
Played == Len(Plan) - Len(script)

ScriptFits ==
  /\ Len(script) <= Len(Plan)
  /\ \A i \in 1..Len(script) : script[i] = Plan[Played + i]

\* Calls are of the run that was played last; one that works has the lock.
Working == {"reserve", "execute", "observe", "save"}

CallersFit ==
  /\ \A c \in Callers :
       caller[c].pc # "idle" =>
         /\ Played > 0 /\ Plan[Played].do = "run" /\ caller[c].op = Plan[Played].what
         /\ c = "a" \/ Plan[Played].by = 2
  /\ \A c \in Callers, o \in Ops : lock[o] = c <=> caller[c].op = o /\ caller[c].pc \in Working
  /\ \A c \in Callers :
       /\ caller[c].pc \in Working => Of(c).status = "OPEN"
       /\ caller[c].pc \in {"execute", "observe", "save"} => Of(c).attempts # << >>

\* Expectations that nothing has followed since hold if none has failed.
Trailing(j) == j \in 1..Played /\ \A i \in j..Played : Plan[i].do = "expect"
MetSoFar == \A j \in 1..Played : ok /\ Trailing(j) => Holds(Plan[j].what)

\* A record is of no checks and reviews; its latest attempt says whether it is open.
RecordFits(r) ==
  /\ r.review = NoReview /\ r.blockedBy = NoBlock
  /\ r.status \in {"NONE", "OPEN", "CLOSED"}
  /\ r.status = "NONE" => r = NoRecord
  /\ r.attempts = << >> => r.status \in {"NONE", "OPEN"}
  /\ r.attempts # << >> =>
       r.status = IF Latest(r).status = "RESERVED" THEN "OPEN"
                  ELSE StatusAfter(Latest(r).evidence, Latest(r).disposition)
RecordsFit == \A o \in Ops : RecordFits(record[o])

\* The neighbor has an effect in its own scenario only.
NeighborUntouched ==
  /\ target.applied["neighbor"] = 0 /\ ~target.pending["neighbor"]
  /\ target.held # "neighbor"

-----------------------------------------------------------------------------
(* Broken contracts *)

Plain == contract.writes = "once" /\ contract.trusts = "observation"

Resolved(r) == r.attempts # << >> /\ Latest(r).status = "RESOLVED"

\* Two writes are two effects.
TwiceFits ==
  /\ Now = "normal" => target.mode = "normal" /\ (contract.writes = "twice" => Effects # 1)
  /\ Now = "response-lost-after-commit" /\ contract.writes = "untilAnswered" =>
       /\ Effects # 1
       /\ Effects = 0 => target.mode = IF Played > 0 THEN "loseResponse" ELSE "normal"

\* Who trusts the transport sees no effect whose answer was lost, until it makes another.
TransportFits ==
  Now = "response-lost-after-commit" /\ contract.writes = "once" /\ contract.trusts = "transport"
    /\ executes <= 1 =>
    /\ executes = 0 /\ Played > 0 => target.mode = "loseResponse"
    /\ last.evidence # "APPLIED"
    /\ \A o \in Ops : record[o].attempts # << >> =>
         ~Latest(record[o]).ok /\ Latest(record[o]).evidence # "APPLIED"
    /\ \A c \in Callers :
         /\ caller[c].pc \in {"observe", "save"} => ~caller[c].ok
         /\ At(c, "save") => caller[c].evidence # "APPLIED"

\* A wrong answer after a failed read is seen at once.
FailedReadFits ==
  Now = "read-fails-after-lost-response" /\ Plain /\ contract.onFailedRead # "UNKNOWN" =>
    /\ Played > 3 => ~ok
    /\ Played < 3 => record["op"] = NoRecord
    /\ Played <= 3 =>
         /\ last.evidence # "UNKNOWN"
         /\ Resolved(record["op"]) => Latest(record["op"]).evidence # "UNKNOWN"
         /\ Played = 2 \/ caller["a"].pc \in {"begin", "reserve", "execute", "observe"} => target.failRead
         /\ At("a", "begin") => record["op"] = NoRecord
         /\ caller["a"].pc \in Working => ~Resolved(record["op"])
         /\ At("a", "save") => caller["a"].evidence # "UNKNOWN"

\* So is a wrong answer about a pending effect.
PendingFits ==
  Now = "pending-then-settled" /\ Plain /\ contract.onPending # "PENDING" =>
    /\ ~target.failRead
    /\ last.evidence # "PENDING"
    /\ \A o \in Ops : record[o].attempts # << >> => Latest(record[o]).evidence # "PENDING"
    /\ \A c \in Callers : At(c, "save") => caller[c].evidence # "PENDING"
    /\ Played >= 3 => ~ok

\* Who reads all effects takes the neighbor's for its own.
NeighborFits ==
  Now = "neighbor-effect-isolation" /\ Plain /\ contract.scope = "all" =>
    /\ ~target.failRead /\ crashOn = "none" /\ \A o \in Ops : ~target.pending[o]
    /\ target.mode = "normal" \/ (target.mode = "loseRequest" /\ Played >= 3)
    /\ Played <= 3 => record["op"] = NoRecord /\ Effects = 0 /\ last = NoAnswer
    /\ Played = 3 => target.mode = "loseRequest"
    /\ Played >= 2 /\ ok =>
         /\ target.applied["neighbor"] > 0 /\ Effects = 0
         /\ last.disposition # "INVESTIGATE"
         /\ Resolved(record["op"]) =>
              Latest(record["op"]).evidence = "APPLIED" /\ Latest(record["op"]).disposition = "COMPLETE"
         /\ At("a", "idle") \/ At("a", "begin") => Resolved(record["op"]) \/ record["op"] = NoRecord
         /\ ~Resolved(record["op"]) /\ Played >= 3 =>
              target.mode = "loseRequest" \/ At("a", "observe") \/ At("a", "save")
         /\ At("a", "save") => caller["a"].evidence = "APPLIED"
         /\ caller["a"].pc \in Working => ~Resolved(record["op"])

\* Until the neighbor has its effect.
NeighborRuns ==
  Now = "neighbor-effect-isolation" /\ contract.writes = "once" /\ Played <= 1 =>
    /\ target.mode = "normal" /\ crashOn = "none"
    /\ target.applied["neighbor"] =
         IF Played = 0 \/ caller["a"].pc \in {"begin", "reserve", "execute"} THEN 0 ELSE 1
    /\ Played = 0 \/ At("a", "begin") => record["neighbor"] = NoRecord
    /\ caller["a"].pc \in Working => ~Resolved(record["neighbor"])

-----------------------------------------------------------------------------
(* A contract that writes once and observes: where its operation is *)

\* How it fares is followed in every scenario if the contract is right, in two if it is not.
Followed ==
  Plain /\ (Honest \/ Now \in {"request-lost-before-commit", "late-landing"})

\* The position of the first run of the operation, and what has been prepared for it.
First ==
  CASE Now \in {"normal", "concurrent-same-identity", "identity-reuse-different-intent"} -> 1
    [] Now = "read-fails-after-lost-response" -> 3
    [] Now = "neighbor-effect-isolation" -> 4
    [] OTHER -> 2

Mode ==
  CASE Now \in {"response-lost-after-commit", "read-fails-after-lost-response"} -> "loseResponse"
    [] Now \in {"request-lost-before-commit", "neighbor-effect-isolation"} -> "loseRequest"
    [] Now = "late-landing" -> "hold"
    [] Now \in {"pending-then-settled", "pending-then-rejected"} -> "pending"
    [] OTHER -> "normal"

CrashAt == CASE Now = "crash-after-effect-before-save" -> "onResolve"
             [] Now = "crash-before-execute" -> "afterReserve"
             [] OTHER -> "none"

ReadFails == Now = "read-fails-after-lost-response"

\* The faults that wait for the first write and read, and what the write does.
Prepared ==
  /\ target.mode = IF Played + 1 >= First \/ (ReadFails /\ Played > 0) THEN Mode ELSE "normal"
  /\ target.failRead <=> ReadFails /\ Played + 1 >= First
  /\ crashOn = IF Played + 1 >= First THEN CrashAt ELSE "none"
  /\ target.held = "none" /\ Effects = 0 /\ ~target.pending["op"]

Written ==
  /\ target.mode = "normal"
  /\ Effects = IF Mode \in {"normal", "loseResponse"} THEN 1 ELSE 0
  /\ target.pending["op"] <=> Mode = "pending"
  /\ target.held = IF Mode = "hold" THEN "op" ELSE "none"
Answered == Mode \in {"normal", "pending"}

Executed(k) == Now \notin {"crash-before-execute", "neighbor-effect-isolation"} => executes = k

\* The evidence an observation is.
Evidence(sent, failed) ==
  CASE failed                             -> contract.onFailedRead
    [] ~failed /\ target.pending["op"]      -> contract.onPending
    [] ~failed /\ ~target.pending["op"] /\ Effects = 0 ->
         IF contract.cautious /\ ~sent THEN "UNKNOWN" ELSE "NOT_APPLIED"
    [] ~failed /\ ~target.pending["op"] /\ Effects # 0 -> IF Effects = 1 THEN "APPLIED" ELSE "CONFLICTED"

\* The first run has not ended.
New == NewRecord("OPEN", FALSE, NoEpisode)
Sent == [New EXCEPT !.version = 1, !.attempts = <<Reserved(0, contract.window)>>]

FirstRun(c) ==
  /\ lock["op"] = c /\ Played = First /\ (At(c, "reserve") \/ CrashAt # "afterReserve")
  /\ \/ At(c, "reserve") /\ record["op"] = New /\ Prepared /\ Executed(0)
     \/ At(c, "execute") /\ record["op"] = Sent /\ Prepared /\ Executed(0)
     \/ /\ At(c, "observe") /\ record["op"] = Sent /\ Written /\ Executed(1)
        /\ (caller[c].ok <=> Answered) /\ (target.failRead <=> ReadFails) /\ crashOn = CrashAt
     \/ /\ At(c, "save") /\ record["op"] = Sent /\ Written /\ Executed(1)
        /\ (caller[c].ok <=> Answered) /\ ~target.failRead /\ crashOn = CrashAt
        /\ caller[c].evidence = Evidence(Answered, ReadFails)

AtFirst ==
  /\ clock = 0 /\ last.evidence = "none" /\ last.disposition = "NULL"
  /\ \/ /\ record["op"] = NoRecord /\ lock["op"] = "none" /\ Prepared /\ Executed(0)
        /\ Played <= First /\ (Played = First => \A c \in Callers : c = "a" \/ Plan[Played].by = 2 => At(c, "begin"))
     \/ \E c \in Callers : FirstRun(c)

-----------------------------------------------------------------------------
(* After the first run *)

Calm == target.mode = "normal" /\ ~target.failRead /\ crashOn = "none"

Is(r, status, evidence, disposition) ==
  r.status = status /\ Resolved(r) /\ Latest(r).evidence = evidence /\ Latest(r).disposition = disposition

\* The contract does not make up for an effect that is not there.
MayGiveUp ==
  IF Now = "pending-then-rejected" THEN ~RetryAllowed
  ELSE contract.cautious \/ ~RetryAllowed \/ ~Declared

Op == record["op"]
Done == Is(Op, "CLOSED", "APPLIED", "COMPLETE")
GaveUp == \E e \in {"NOT_APPLIED", "UNKNOWN"} : Is(Op, "CLOSED", e, "INVESTIGATE")
Waits ==
  /\ Is(Op, "OPEN", "NOT_APPLIED", "RETRY") /\ Len(Op.attempts) = 1 /\ RetryAllowed
  /\ Latest(Op).ok <=> Now = "pending-then-rejected"
  /\ Latest(Op).ok => Latest(Op).retryNotBefore = NoTime
  /\ ~Latest(Op).ok =>
       /\ Declared /\ ~contract.cautious /\ Latest(Op).startedAt = 0
       /\ Latest(Op).retryNotBefore \in {NoTime, contract.window}
InFlight ==
  /\ Op.status = "OPEN" /\ Len(Op.attempts) = 1
  /\ IF CrashAt # "none"
     THEN Op = Sent
     ELSE Is(Op, "OPEN", "PENDING", "NULL") /\ Latest(Op).ok

\* Until when an operation stays in flight, and waits.
InFlightUntil ==
  CASE CrashAt # "none" -> 4
    [] Now \in {"pending-then-settled", "pending-then-rejected"} -> 9
    [] OTHER -> 0
WaitsUntil ==
  CASE Now = "request-lost-before-commit" -> 4
    [] Now \in {"neighbor-effect-isolation", "crash-before-execute"} -> 6
    [] Now = "pending-then-rejected" -> 11
    [] OTHER -> 0

\* What the target has by then.
TargetFits(p) ==
  /\ target.held = "none" /\ Calm
  /\ target.pending["op"] <=> Now \in {"pending-then-settled", "pending-then-rejected"} /\ p < 7

Settled(p) ==
  /\ TargetFits(p)
  /\ \/ /\ p < InFlightUntil /\ InFlight
        /\ Effects = IF Now = "crash-after-effect-before-save" \/ (Now = "pending-then-settled" /\ p >= 7)
                     THEN 1 ELSE 0
     \/ p >= InFlightUntil /\ p < WaitsUntil /\ Effects = 0 /\ (Waits \/ (GaveUp /\ MayGiveUp))
     \/ /\ p >= InFlightUntil /\ p >= WaitsUntil /\ Effects = 1
        /\ IF ReadFails THEN Is(Op, "CLOSED", "UNKNOWN", "INVESTIGATE") ELSE Done
        /\ Now = "request-lost-before-commit" => ~contract.cautious
     \/ p >= InFlightUntil /\ p >= WaitsUntil /\ WaitsUntil > 0 /\ Effects = 0 /\ GaveUp /\ MayGiveUp
  /\ Executed(1) \/ (WaitsUntil > 0 /\ p >= WaitsUntil)

\* late-landing: the request is held until it lands, while the operation waits or is given up;
\* one that may not wait long enough is attempted again before.
RunAt == IF Declared THEN contract.window ELSE options.late + 1
LandsAt == IF RunAt < options.late THEN 6 ELSE 4

Held(p) ==
  /\ target.mode = "normal" /\ ~target.failRead /\ crashOn = "none" /\ ~target.pending["op"]
  /\ target.held = "op"
  /\ \/ /\ Executed(1) /\ Effects = IF p < LandsAt THEN 0 ELSE 1
        /\ (GaveUp /\ MayGiveUp) \/ (Waits /\ p < (IF LandsAt = 6 THEN 4 ELSE 6))
     \/ Executed(1) /\ LandsAt = 4 /\ p >= 6 /\ Effects = 1 /\ Done /\ RetryAllowed
     \/ LandsAt = 6 /\ p >= 4 /\ Effects = (IF p < 6 THEN 1 ELSE 2) /\ Done /\ RetryAllowed

After(p) == IF Now = "late-landing" THEN Held(p) ELSE Settled(p)

\* A later run.
Reruns(c) ==
  /\ lock["op"] = c /\ Played > First
  /\ \/ /\ At(c, "observe") /\ Op.status = "OPEN" /\ After(Played - 1) /\ (caller[c].ok <=> Latest(Op).ok)
     \/ /\ At(c, "save") /\ Op.status = "OPEN" /\ After(Played - 1) /\ (caller[c].ok <=> Latest(Op).ok)
        /\ caller[c].evidence = Evidence(Latest(Op).ok, FALSE)
     \/ /\ At(c, "reserve") /\ After(Played - 1) /\ Waits /\ Effects = 0
     \/ /\ caller[c].pc \in {"execute", "observe", "save"}
        /\ Op.status = "OPEN" /\ Len(Op.attempts) = 2 /\ Latest(Op).status = "RESERVED"
        /\ Calm /\ ~target.pending["op"]
        /\ target.held = IF Now = "late-landing" THEN "op" ELSE "none"
        /\ Played = IF Now = "late-landing" THEN 4 ELSE WaitsUntil
        /\ Now = "late-landing" => LandsAt = 6
        /\ RetryAllowed /\ (Now = "request-lost-before-commit" => ~contract.cautious)
        /\ At(c, "execute") => Effects = 0
        /\ ~At(c, "execute") => Effects = 1 /\ caller[c].ok
        /\ At(c, "save") => caller[c].evidence = "APPLIED"

\* The time that has passed.
ClockFits ==
  /\ Played > First /\ (CrashAt # "none" \/ Now \in {"request-lost-before-commit", "neighbor-effect-isolation"})
       => clock >= SettleStep
  /\ Now = "late-landing" /\ Played >= 3 =>
       clock >= IF RunAt < options.late THEN RunAt ELSE options.late
  /\ Now = "late-landing" /\ Played >= 5 => clock >= RunAt

AfterFirst ==
  /\ Played >= First /\ ClockFits
  /\ Idle => last = Answer(Op)
  /\ Played = First => Idle \/ Plan[Played].by = 2
  /\ \/ lock["op"] = "none" /\ After(IF Idle \/ Played = First THEN Played ELSE Played - 1)
     \/ \E c \in Callers : Reruns(c)

FollowedFits == Followed => AtFirst \/ AfterFirst

\* What no right contract's scenario does is fail.
Right ==
  Honest /\ WaitsLongEnough /\ Recovers /\ (Now = "late-landing" => ~Conservative)
RightFits == Right => ok

\* What a scenario that passes shows of the contract, and one that fails.
Shows(s) ==
  CASE s = "normal" -> contract.writes # "twice"
    [] s = "response-lost-after-commit" ->
         contract.writes # "untilAnswered" /\ (contract.writes = "once" => contract.trusts = "observation")
    [] s = "request-lost-before-commit" -> Plain => Recovers
    [] s = "late-landing" -> Plain => ~Conservative /\ (Recovers => WaitsLongEnough)
    [] s = "read-fails-after-lost-response" -> Plain => contract.onFailedRead = "UNKNOWN"
    [] s = "identity-reuse-different-intent" -> contract.tells
    [] s = "pending-then-settled" -> Plain => contract.onPending = "PENDING"
    [] s = "neighbor-effect-isolation" -> Plain => contract.scope = "own"
    [] OTHER -> TRUE

ResultsFit ==
  \A s \in Names :
    /\ results[s] = "pass" => Shows(s)
    /\ results[s] = "fail" /\ Honest /\ WaitsLongEnough /\ Recovers => s = "late-landing" /\ Conservative

ScenarioFits ==
  /\ Now # "neighbor-effect-isolation" => NeighborUntouched
  /\ TwiceFits /\ TransportFits /\ FailedReadFits /\ PendingFits /\ NeighborFits /\ NeighborRuns
  /\ FollowedFits /\ RightFits

ConformanceInvariant ==
  /\ TypeOK /\ ScriptFits /\ CallersFit /\ RecordsFit /\ MetSoFar
  /\ Driven => ScenarioFits
  /\ ResultsFit

=============================================================================
