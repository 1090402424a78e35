--------------------------- MODULE ContractCalls ---------------------------
(***************************************************************************)
(* The contracts of examples/ under runEffect(): one operation against the *)
(* provider of its example, called again and again.                        *)
(*                                                                         *)
(* RunEffect has the runtime in full and takes honest contracts for        *)
(* granted; here the contracts and their providers are in full, and the    *)
(* runtime (src/core/runtime.ts) is what they need of it: one pass at a    *)
(* time, no lost locks, one deploy.  The payments example has the action   *)
(* table of examples/action-table as its caller, with several workers.     *)
(*                                                                         *)
(* Faults: a request that fails and may arrive later, a lost response, a   *)
(* failed read, a crash; and others who change the same charge or order.   *)
(***************************************************************************)
EXTENDS OnePass, FiniteSets

CONSTANTS
  Workers,          \* who calls processRefund(); the other examples have one caller
  NoWorker,         \* the lock is free
  Starts,           \* [example, world, reserved]: the provider as the first call finds it, and
                    \* whether an older release left a reserved attempt
  Readable,         \* StripeRefund: how many refunds observe() reads
  MaxObservations,  \* how many observations an attempt keeps
  MaxPolls,         \* bound: how often one attempt is observed
  MaxClock,         \* bound: time passes beyond it only while a retry waits
  MaxFaults         \* bound: faults and changes by others

Stripe == INSTANCE StripeRefund
Ledger == INSTANCE LedgerCredit
Rest   == INSTANCE RestCancel
Judged == INSTANCE JudgedRefund

Examples == {"stripe", "ledger", "payments", "rest", "judged"}

ASSUME WorkersAssumption == Workers # {} /\ NoWorker \notin Workers
\* Providers as a first call may find them: nothing at Stripe is labeled for the operation, and
\* only an older release, which sent no labels, can have made its refund; orders are counted
\* from version 1; ledgers hold nothing under a new reference.
ChargeAtStart(charge, reserved) ==
  LET ours == {i \in DOMAIN charge.refunds : charge.refunds[i].ours}
  IN  /\ charge \in Stripe!Charge
      /\ \A i \in DOMAIN charge.refunds : charge.refunds[i].label # "ours"
      /\ \A i \in ours : charge.refunds[i].label = "none" /\ charge.refunds[i].sameAmount
      /\ \A i, j \in ours : i = j
      /\ charge.key \in ours \cup {0}
      /\ ~reserved => ours = {}

OrderAtStart(order) ==
  /\ order \in Rest!Order /\ order.ours = 0
  /\ order.status # "missing" => order.version >= Rest!ExpectedVersion

ASSUME StartsAssumption ==
  \A s \in Starts :
    /\ s.example \in Examples /\ s.reserved \in BOOLEAN
    /\ s.reserved => s.example = "stripe"
    /\ CASE s.example = "stripe" -> ChargeAtStart(s.world, s.reserved)
         [] s.example = "rest"   -> OrderAtStart(s.world)
         [] OTHER                -> s.world = 0
ASSUME BoundsAssumption ==
  {Readable, MaxObservations} \subseteq Nat \ {0} /\ {MaxPolls, MaxClock, MaxFaults} \subseteq Nat

VARIABLES
  example,
  world,     \* the provider's state
  op,        \* the stored record
  kept,      \* with its latest attempt: the provider's answer, the observations it keeps, and
             \* how often it has been observed
  flying,    \* the attempts whose requests failed and may still arrive
  lock, pass,
  row,       \* the status of the application's row
  clock, faults

vars == <<example, world, op, kept, flying, lock, pass, row, clock, faults>>

-----------------------------------------------------------------------------
(* The five contracts and their providers *)

\* maxInFlightMs; every example has three attempts and retries on NOT_APPLIED.
Window == CASE example = "stripe" -> 0
            [] example = "judged" -> NoWindow
            [] OTHER              -> 1

Policy == [maxAttempts |-> 3, retryOnNotApplied |-> TRUE]

\* Nothing bounds how late these two providers take a request: they deduplicate.
Deduplicates == example \in {"stripe", "judged"}

\* What becomes of a request that reaches the provider: the next world, and its answer.
Serve == CASE example = "stripe"               -> Stripe!DoCreate(world)
           [] example \in {"ledger", "payments"} -> Ledger!Post(world)
           [] example = "rest"                 -> Rest!Post(world)
           [] example = "judged"               -> Judged!Create(world)

See(answer) == CASE example = "stripe"               -> Stripe!Observe(world, answer)
                 [] example \in {"ledger", "payments"} -> Ledger!Observe(world)
                 [] example = "rest"                 -> Rest!Observe(world)
                 [] example = "judged"               -> Judged!Observe(world)

Evidence(answer, seen) ==
  CASE example = "stripe"               -> Stripe!Reconcile(answer, seen)
    [] example \in {"ledger", "payments"} -> Ledger!Reconcile(seen)
    [] example = "rest"                 -> Rest!Reconcile(answer, seen)
    [] example = "judged"               -> Judged!Reconcile(seen)

\* authorize(): above the Stripe example's threshold, or as the judgment says.
ReviewsAsked ==
  CASE example = "stripe" -> BOOLEAN
    [] example = "judged" -> {Judged!RequiresReview(j) : j \in Judged!Judgment}
    [] OTHER              -> {FALSE}

WorldSteps == CASE example = "stripe" -> Stripe!Settled(world)
                [] example = "rest"   -> Rest!Settled(world)
                [] OTHER              -> {}

OthersSteps == CASE example = "stripe" -> Stripe!RefundedByOthers(world)
                 [] example = "rest"   -> Rest!ChangedByOthers(world)
                 [] OTHER              -> {}

-----------------------------------------------------------------------------
NothingKept == [answer |-> "none", observations |-> << >>, polls |-> 0]

Idle == [pc |-> "idle", ok |-> FALSE, answer |-> "none", evidence |-> "UNKNOWN", result |-> "NULL"]

Init ==
  /\ \E s \in Starts :
       /\ example = s.example
       /\ world = s.world
       /\ op = IF s.reserved
               THEN [NewRecord("OPEN", FALSE, NoEpisode) EXCEPT !.attempts = <<Reserved(0, Window)>>]
               ELSE NoRecord
  /\ kept = NothingKept
  /\ flying = {}
  /\ lock = NoWorker
  /\ pass = [w \in Workers |-> Idle]
  /\ row = "confirmed"
  /\ clock = 0
  /\ faults = 0

At(w, pc) == pass[w].pc = pc
Become(w, s) == pass' = [pass EXCEPT ![w] = s]
Goto(w, pc) == Become(w, [pass[w] EXCEPT !.pc = pc])
Fault == faults < MaxFaults /\ faults' = faults + 1

\* The call is over; processRefund() goes on with its result.
Finish(w, r) ==
  /\ lock' = NoWorker
  /\ Become(w, IF example = "payments" THEN [Idle EXCEPT !.pc = "project", !.result = Reported(r)]
               ELSE Idle)

-----------------------------------------------------------------------------
(* The caller: processRefund() and sweep() *)

\* Rows that need no more calls: processRefund() returns at once for the first kind, the
\* sweeper leaves out both.
Finished == {"refunded"}
UnfinishedOnlyConfirmed == {"confirmed"}
Unfinished == {"confirmed", "waiting"}

Calls(w) ==
  /\ At(w, "idle")
  /\ example = "payments" => row \notin Finished
  /\ example # "payments" => \A v \in Workers : At(v, "idle")  \* one caller

ProjectedAttention(result) ==
  CASE result = "COMPLETE" -> "refunded"
    [] result = "RETRY"    -> "waiting"
    [] OTHER               -> "needs_attention"

Projected(result) ==
  CASE result = "COMPLETE"          -> "refunded"
    [] result \in {"RETRY", "NULL"} -> "waiting"
    [] OTHER                        -> "needs_attention"

Project(w) ==
  /\ At(w, "project")
  /\ row' = Projected(pass[w].result)
  /\ Become(w, Idle)
  /\ UNCHANGED <<example, world, op, kept, flying, lock, clock, faults>>

-----------------------------------------------------------------------------
(* A pass of runEffect() *)

Branch == NextStep(op, clock)

\* Another worker has the lock: what is recorded is the answer.
CallBusy(w) ==
  /\ Calls(w) /\ lock # NoWorker
  /\ example = "payments"
  /\ Become(w, [Idle EXCEPT !.pc = "project", !.result = Reported(op)])
  /\ UNCHANGED <<example, world, op, kept, flying, lock, row, clock, faults>>

CallReturns(w) ==
  /\ Calls(w) /\ lock = NoWorker
  /\ Branch = "idle"
  /\ Finish(w, op)
  /\ UNCHANGED <<example, world, op, kept, flying, row, clock, faults>>

CallGoesOn(w) ==
  /\ Calls(w) /\ lock = NoWorker
  /\ Branch # "idle"
  /\ lock' = w
  /\ Become(w, [Idle EXCEPT !.pc = Branch, !.answer = kept.answer,
                            !.ok = op.attempts # << >> /\ Latest(op).ok])
  /\ UNCHANGED <<example, world, op, kept, flying, row, clock, faults>>

Create(w) ==
  /\ At(w, "create")
  /\ \E review \in ReviewsAsked :
       IF review
       THEN /\ op' = NewRecord("AWAITING_REVIEW", TRUE, [generation |-> 1, openedAt |-> clock])
            /\ Finish(w, op')
       ELSE /\ op' = NewRecord("OPEN", FALSE, NoEpisode)
            /\ Goto(w, "reserve") /\ UNCHANGED lock
  /\ UNCHANGED <<example, world, kept, flying, row, clock, faults>>

Reserve(w) ==
  /\ At(w, "reserve")
  /\ op' = [op EXCEPT !.version = @ + 1, !.attempts = Append(@, Reserved(clock, Window))]
  /\ kept' = NothingKept
  /\ Become(w, [Idle EXCEPT !.pc = "execute"])
  /\ UNCHANGED <<example, world, flying, lock, row, clock, faults>>

\* The request is served and answered, or served with the answer lost, or fails and may
\* arrive later.
ExecuteAnswered(w) ==
  /\ At(w, "execute")
  /\ world' = Serve.world
  /\ Become(w, [pass[w] EXCEPT !.pc = "observe", !.ok = TRUE, !.answer = Serve.answer])
  /\ UNCHANGED <<example, op, kept, flying, lock, row, clock, faults>>

ExecuteUnanswered(w) ==
  /\ At(w, "execute")
  /\ Fault
  /\ \/ world' = Serve.world /\ UNCHANGED flying
     \/ flying' = flying \cup {Len(op.attempts)} /\ UNCHANGED world
  /\ Goto(w, "observe")
  /\ UNCHANGED <<example, op, kept, lock, row, clock>>

Observe(w) ==
  /\ At(w, "observe")
  /\ kept.polls < MaxPolls
  /\ Become(w, [pass[w] EXCEPT !.pc = "save",
                  !.evidence = Evidence(pass[w].answer, See(pass[w].answer))])
  /\ UNCHANGED <<example, world, op, kept, flying, lock, row, clock, faults>>

ObserveFails(w) ==
  /\ At(w, "observe")
  /\ kept.polls < MaxPolls
  /\ Fault
  /\ Become(w, [pass[w] EXCEPT !.pc = "save",
                  !.evidence = Evidence(pass[w].answer, [status |-> "failed"])])
  /\ UNCHANGED <<example, world, op, kept, flying, lock, row, clock>>

Resolved(w) == ResolvedRecord(op, pass[w].ok, pass[w].evidence, Policy, Window, clock)

\* boundedObservations: the first and the most recent ones.
BoundedLatest(list) ==
  IF Len(list) <= MaxObservations THEN list
  ELSE SubSeq(list, Len(list) - MaxObservations + 1, Len(list))

BoundedObservations(list) ==
  IF Len(list) <= MaxObservations THEN list
  ELSE <<Head(list)>> \o SubSeq(list, Len(list) - MaxObservations + 2, Len(list))

Save(w) ==
  /\ At(w, "save")
  /\ op' = Resolved(w)
  /\ kept' = [answer |-> pass[w].answer, polls |-> kept.polls + 1,
              observations |-> BoundedObservations(Append(kept.observations, kept.polls + 1))]
  /\ IF RetriesNow(op, op')
     THEN Goto(w, "reserve") /\ UNCHANGED lock
     ELSE Finish(w, op')
  /\ UNCHANGED <<example, world, flying, row, clock, faults>>

Crash(w) ==
  /\ ~At(w, "idle")
  /\ Fault
  /\ Become(w, Idle)
  /\ lock' = IF lock = w THEN NoWorker ELSE lock
  /\ UNCHANGED <<example, world, op, kept, flying, row, clock>>

\* reviewEffect(): a person decides.
Decide ==
  /\ lock = NoWorker
  /\ op.status = "AWAITING_REVIEW"
  /\ \E decision \in {"approved", "rejected"} :
       op' = [op EXCEPT !.version = @ + 1,
                        !.status = IF decision = "approved" THEN "OPEN" ELSE "CLOSED",
                        !.review = [NoReview EXCEPT !.decision = decision, !.token = 1,
                                                    !.attemptCount = 0]]
  /\ UNCHANGED <<example, world, kept, flying, lock, pass, row, clock, faults>>

-----------------------------------------------------------------------------
(* The provider, others, time *)

\* A request is served late; within its window, unless the provider deduplicates.
Land(n) ==
  /\ n \in flying
  /\ Deduplicates \/ clock < op.attempts[n].startedAt + Window
  /\ flying' = flying \ {n}
  /\ world' = Serve.world
  /\ UNCHANGED <<example, op, kept, lock, pass, row, clock, faults>>

Settle ==
  /\ world' \in WorldSteps
  /\ UNCHANGED <<example, op, kept, flying, lock, pass, row, clock, faults>>

Others ==
  /\ Fault
  /\ world' \in OthersSteps
  /\ UNCHANGED <<example, op, kept, flying, lock, pass, row, clock>>

\* Time does not pass a request on its way out: the window counts the reservation in.
Tick ==
  /\ \/ clock < MaxClock
     \/ op.status = "OPEN" /\ Delayed(op, clock)
  /\ ~Deduplicates => \A w \in Workers : ~At(w, "execute")
  /\ clock' = clock + 1
  /\ UNCHANGED <<example, world, op, kept, flying, lock, pass, row, faults>>

-----------------------------------------------------------------------------
Call(w) == CallBusy(w) \/ CallReturns(w) \/ CallGoesOn(w)

\* sweep(): calls processRefund() for the rows that wait for something.
Sweep(w) == example = "payments" /\ row \in Unfinished /\ Call(w)

\* What a call does by itself.
Run(w) ==
  \/ Create(w) \/ Reserve(w) \/ ExecuteAnswered(w) \/ ExecuteUnanswered(w)
  \/ Observe(w) \/ ObserveFails(w) \/ Save(w) \/ Project(w)

Next ==
  \/ \E w \in Workers : Call(w) \/ Run(w) \/ Crash(w)
  \/ \E n \in flying : Land(n)
  \/ Decide \/ Settle \/ Others \/ Tick

\* Calls end, time passes while a retry waits, and the sweeper runs the rows it finds
\* unfinished.
Fairness ==
  /\ \A w \in Workers : WF_vars(Run(w)) /\ WF_vars(Sweep(w))
  /\ WF_vars(Delayed(op, clock) /\ Tick)

Spec == Init /\ [][Next]_vars /\ Fairness

-----------------------------------------------------------------------------
(* Properties *)

\* What the provider holds of this operation.
Effects == CASE example = "stripe" -> Cardinality(Stripe!InForce(world))
             [] example = "rest"   -> world.ours
             [] OTHER              -> world

InPlace == CASE example = "stripe" -> Stripe!InPlace(world)
             [] example = "rest"   -> world.status = "cancelled"
             [] OTHER              -> world > 0

\* The provider never holds two effects of one operation: where requests are deduplicated,
\* although a retry does not wait for them (the Stripe contract's maxInFlightMs of 0), and
\* where they are not, because it does; also when an older release sent the refund without
\* a label and Stripe no longer knows its key.
OneEffect == Effects <= 1

\* The answer a closed operation gives is true, of the provider and not of its record:
\* COMPLETE says that the effect is in place, REPLAN and a rejection that nothing was done,
\* however late a request arrives and whatever others do to the charge or the order.
AnswerIsTrue ==
  op.status = "CLOSED" =>
    /\ Reported(op) = "COMPLETE" => InPlace
    /\ Reported(op) \in {"REPLAN", "REVIEW"} => Effects = 0

\* What leaves a person with an open question, apart from faults.
Unclear == CASE example = "stripe" -> world.fails \/ ~world.known
                                       \/ Len(world.refunds) > Readable
                                       \/ \E i \in DOMAIN world.refunds : world.refunds[i].label = "none"
             [] example = "rest"   -> world.status = "missing"
             [] OTHER              -> FALSE

\* Nobody is called without a cause: where nothing failed, and nothing at the provider is
\* unclear, no operation ends in INVESTIGATE.
NoFalseAlarm ==
  (op.status = "CLOSED" /\ Reported(op) = "INVESTIGATE") => faults > 0 \/ Unclear

\* However often a pending attempt is observed again, the record keeps its first observation
\* and the latest ones, without a gap between those.
HistoryKeepsEnds ==
  LET list == kept.observations
      n == Len(list)
  IN  /\ n = IF kept.polls < MaxObservations THEN kept.polls ELSE MaxObservations
      /\ n > 0 => list[1] = 1
      /\ \A i \in 2..n : list[i] = kept.polls - n + i

\* The application's row never says more than is true: it is refunded only if the refund
\* exists, and needs attention only if the operation ended without one being confirmed;
\* also when workers write their results in another order than they got them.
RowTellsTruth ==
  /\ row = "refunded" => InPlace
  /\ row = "needs_attention" => op.status = "CLOSED" /\ Reported(op) # "COMPLETE"

\* Whatever crashes or stale results did to the row, it ends as the operation did.
RowsRepaired ==
  <>[](example = "payments" => op.status = "CLOSED" /\ row = Projected(Reported(op)))

=============================================================================
