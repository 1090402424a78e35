# corrobo in TLA+

corrobo runs one logical side effect ("refund this order") against an external
system whose answers can be lost, late or wrong, and decides after every attempt
what is safe to do next. Its promise is that calling `runEffect()` again and
again, from several processes, across crashes and deploys, never makes the effect
happen twice, and that an operation sent to a person is attempted only under that
person's current approval. This directory models that protocol, the connections and
locks it rests on under Postgres, the contracts of the repository's examples and the
conformance harness; model-checks all of it; and proves all of its safety for
every size, up to a refinement of a one-page specification of what the runtime
promises, and that the harness judges every contract as it should.

Paths below are relative to the repository; line numbers are in `PROJECT.json`.

## Inventory

| Part | State it keeps | Operations | What makes it correct |
|---|---|---|---|
| `src/core/runtime.ts` | the locals of one pass: record read, attempt number, clock readings, hook answers | `runEffect()`, `reviewEffect()` | one effect at most; no attempt while an earlier request can still take hold; approvals cover the attempt; every call returns |
| `src/core/disposition.ts` | none | `decideDisposition`, `decideRetry` | NOT_APPLIED is final only after a response or after the window |
| `src/core/types.ts` (`OperationRecord`) | attempts, status, review, review episode, blocking check, version | - | the record says enough for the next process to go on safely |
| `src/stores/memory.ts`, `src/stores/postgres.ts` | records by identity; locks (a set, or session-level advisory locks on pooled connections) | `tryAcquireLock`/`release`, `createOperation`, `reserveAttempt`, `updateLatestAttempt`, `updateOperation`, `now` | a write based on an old version changes nothing; a lock never outlives its session; passes do not starve each other of connections |
| `src/core/fingerprint.ts`, `prepareIntent`, identity resolution | none | `fingerprintIntent`, `resolveIdentity`, `assertSameLogicalOperation` | one identity, one intent: what was authorized is what is executed, another intent is refused, the same one never |
| `src/core/helpers.ts` | none | constructors of hook answers | - |
| `src/testing/` | the scenario under way, a fresh store and target for each; a schedule of faults | `verifyEffectContract`, `withFaultInjection`, `withObservationFault` | a contract that loses or repeats an effect is reported, a right one is not, in whatever order concurrent calls run |
| `examples/timeout-after-write`, `quickstart` | a ledger that posts twice if asked twice | contract, server | a retry waits until the request can no longer arrive |
| `examples/action-table` | the application's rows beside the operations | `processRefund()`, `sweep()` | the row ends as the operation did |
| `examples/stripe-refund` | a charge, its refunds, idempotency keys | contract, fake client | one refund, found by its label, or a person is asked |
| `examples/rest` | orders with versions | contract, server | a conflict caused by others is not taken for our own effect |
| `examples/jev-refund` | a deduplicating ledger, a judgment | contract | review thresholds; no window declared |
| `examples/conformance` | the fake the harness drives | contract, fake ledger | - |
| `examples/durable-workflow`, scripts, skills, docs | - | - | not modelled |

How they interact: a caller calls `runEffect(store, contract, request)`; the runtime
takes the identity's lock from the store, reads the record, calls the contract's
hooks (`authorize`, `revalidate`, `execute`, `observe`, `reconcile`) and writes the
record, every write carrying the version it read. A second caller of the same
identity finds the lock taken and only reads. A review flow calls `reviewEffect()`,
which takes the same lock and writes a decision, and nothing else. Processes share
only the store (and its clock) and the external system. Operations of one process
share, under Postgres, its pool of connections: a pass keeps the one whose session
holds its lock, and calls that read outside a lock take another.

What is hard: a pass can lose its lock (its database session dies) and go on; a
process can die between any two steps; a request whose client gave up can still
take effect; the provider can accept a request and settle it much later; workers
with different contracts take turns on one operation; approvals expire while a
hook runs; decisions answer reviews that are no longer current; records were
written by older releases; every connection of the pool is taken; one identity is
used with two intents. `PROJECT.json` lists these under "hazards", each at the
line where it bites, with the properties aimed at it.

## Modules

The protocol of one operation:

- `EffectOnce`: what corrobo promises of one operation, with no records, passes,
  locks or windows. `RunEffect` implements it.
- `Disposition`: the decision rules as operators: `decideDisposition`,
  `decideRetry`, `settlementWindow`, `statusAfter`.
- `EffectRecord` (extends `Disposition`): the stored record and the questions the
  runtime asks of it: `OpenReview`, `Attributed`, `ApprovalProblem`, `Reported`...
- `RunEffect` (extends `EffectRecord`): the state machine of one identity.
- `RunEffectProperties`: the type invariant, safety invariants, action properties,
  liveness properties and the refinement. `RunEffectInvariant`: the three parts of
  the inductive invariant.
- `MCRunEffect`, `MCRunEffectLive`: instances for TLC; the second has the fairness.
- `RunEffectProofs`, `RunEffectOutcomeProofs`: the theorems; the first has the types and
  the first part of the invariant, the second extends it by the other two.

What lies beside and around it:

- `PgPool`, `PgPoolProperties`, `PgPoolProofs`, `MCPgPool`: the connections and the
  advisory locks of `PostgresStore`.
- `IdentityBinding`, `IdentityBindingProofs`, `MCIdentityBinding`: one identity and many
  intents.
- `OnePass` (extends `EffectRecord`): what a pass does next with the record it read,
  for the two modules below, in which no check and no deploy gets in its way.
- `ContractCalls`, `MCContractCalls`: the contracts of the examples against their
  providers, which are `StripeRefund`, `LedgerCredit`, `RestCancel` and `JudgedRefund`;
  with the action table as the caller of the payments contract.
- `ContractCallsInvariant`, `ProviderProofs`, `ContractCallsProofs`: their inductive
  invariant, what every provider keeps and shows, and the theorems.
- `Conformance`, `MCConformance`, and `FakeLedger`: the harness, the fake it
  drives and the contracts it judges.
- `ConformanceInvariant`, `ConformanceBaseProofs`, `ConformanceProofs`: its inductive
  invariant; what each operator, command and step does, and what the broken contracts do;
  where a contract that writes once and observes is in each scenario, and the theorems.

An operator whose name extends another's (`BranchForOpenWithoutSettling`,
`AlwaysCurrent`) is a faulty variant of it. No specification uses these: each is
put in the place of the operator it varies, to see that a property notices.

### State and actions of `RunEffect`

| Variable | In the code |
|---|---|
| `op` | the identity's row; `NoRecord` (version -1) if there is none |
| `lock` | the holder of `tryAcquireLock(identity)` |
| `clock` | `CoordinatedStore.now()` |
| `requests[n]` | what became, outside, of the request of attempt `n` (external) |
| `pass[p]` | call `p`: its program counter, contract, the record it holds, what it read |
| `faults` | counts crashes and lost locks, for the bound |

A pass is cut exactly where another actor can come between: at the lock, the read,
each hook, each clock reading that is compared later, each write. So `AcquireLock`;
`ReadAndReturn`/`ReadAndContinue` (`runCoordinated` and `continueOpen` up to the
first await of the chosen branch); `Authorize`, `CreateAwaitingReview`,
`CreateOpen`, `Reopen`; `AttemptUnchecked`, `ApprovalRefused`, `StartRevalidate`,
`Revalidated`, `WriteBlock` (`checkThenAttempt`); `Reserve`, `Execute`,
`ExecuteReturned`, `ExecuteFailed`, `Observe`, `ResolveAndReturn`,
`ResolveAndContinue` (`performAttempt`, `recoverReservedAttempt`, `reObserve`, the
settlement check); `RefuseDecision`, `AcceptDecision`, `RecordDecision`
(`reviewEffect`); `Conflict` (`StoreConflictError`), `Crash`, `LoseLock`, `Tick`.

Choices made in the abstraction:

- *One identity.* Identities share nothing but the pool of connections, so the
  protocol of one is the whole protocol. The pool has a module of its own.
- *A caller that does not get the lock* reads the record and returns, and a reviewer
  that does not gets `OperationBusyError`; neither changes anything, so those calls
  are no steps. Neither is the re-read after a conflict.
- *`observe()` and `reconcile()`* are one step, `Observe`: `reconcile()` is
  synchronous. Its answer is what the external system shows at that moment
  (`HonestEvidence`), or one of `Doubts`. The clock is read in the step after it
  (`ResolveAnd...`), as in the code: time can pass between the two.
- *A clock reading followed by the write that stores it* (`openedAt`, the decision of
  a resolution) is one step. A write that comes later with the older reading either
  conflicts, or is the same as the earlier one. The start of an attempt is different: it
  is read at one step (`readAt`) and written at the next (`Reserve`), because the
  approval is judged at that reading.
- *Windows are honest.* A request sent under `maxInFlightMs` w takes hold, if ever,
  before w has passed since the attempt's recorded start, which is what types.ts
  asks of whoever declares it ("at least your execute() client timeout plus any
  provider-side processing delay", plus a margin for the reservation's write). A
  pass that stalls between its reservation and its request for longer than that is
  outside this promise, here and there. One sent under no declared window takes
  hold before `Lateness`; a later contract's window is no shorter than that. A
  window of 0 with a provider that deduplicates is outside the model.
- *Deploys.* Each call picks any contract of `Contracts`: the window, the retry policy,
  the approval's maximum age, whether there is a `revalidate()`, and what
  `fingerprintIntent()` says of the recorded intent.
- *Crash and hook errors.* An `authorize()` that throws, a query that fails and a
  process that dies all end the pass with nothing more written: `Crash`. A
  `revalidate()` that throws is its verdict "failed", an `execute()` that throws is
  `ExecuteFailed`, an `observe()` or `reconcile()` that throws is UNKNOWN.
- *Lost locks.* With `PostgresStore` a pass whose session died gets an error at its
  next query; the store interface promises more in general ("a pass that silently lost its
  lock"), and `LoseLock` models that: the pass goes on and its writes reach the store.
- *Review tokens* are generation numbers. The code's token is a digest over the
  generation and a nonce, equal within one operation exactly when the generations are.
- *Older releases.* `LegacyRecords` are records with no attempts, left by 0.3.x and
  0.4.0: awaiting review or approved, without an episode, with no decision (0.3.x) or with
  one in full but for its token and perhaps its number of attempts (0.4.0's
  `TokenlessReview`). Such a decision has a real fingerprint and may not have expired, so
  nothing but the missing token keeps it from counting. 0.4.0's clock is before the
  model's: it decided at 0.

### `EffectOnce` and how `RunEffect` maps to it

| `EffectOnce` | in `RunEffect` |
|---|---|
| `phase` | the record's status |
| `pending` | the request of some attempt may still take hold |
| `applied` | some request took hold |
| `answer` | what a call reports of the closed record, "NULL" before |

Its actions are `Begin`, `Attempt` (only when nothing is pending or applied), `Apply`,
`Lapse`, `AskReview` (likewise), `Approve`, `Reject` (likewise) and `Conclude`. So it says
that an effect is not attempted while an earlier attempt is undecided, that it
does not take place twice, that nobody is asked about an attempt that can still happen,
that a rejected operation never takes effect, and that the final answer is true and
stays. `Promise` in `RunEffectProperties` is this specification under the mapping.

### State and actions of `PgPool`

| Variable | In the code |
|---|---|
| `conn[c]` | one of `pool.max` connections: not opened, idle in the pool, or out; its session alive or not |
| `holder[k]` | the session that holds the advisory lock of key `k` (the server's table), or an orphaned one that is about to end |
| `queue` | callers waiting in `pool.connect()`/`pool.query()` |
| `call[p]` | a call: its step, whether it is `runEffect` or `reviewEffect`, its own connection, and one for a read through the pool |
| `setup` | whether other tools write records (conflicts), whether `connectionTimeoutMillis` is set |

`Begin`, `Grant` and `GiveUp` are the wait for a connection; `AcquireLock`, `LoseLock`
and `LockFails` are `tryAcquireLock`; `Bookkeep`, `HookEnds`, `Write`, `Conflict` and
`PassFails` a pass; `ReadEnds` a query through the pool; `Unlock`, `Done` and
`UnlockFails` are `release`; `Evict`, `SessionEnds`, `Die` and `Crash` are the pool's, the
server's and the faults'. What a pass reads and writes is `RunEffect`'s subject, and
left out here. node-postgres and the server are external: the pool serves its
queue in order, a session's locks end with it, at once or when the server notices.

postgres.ts and the specification say that no pass ever takes two connections. On a conflict
`runEffect()` reads the record again through the pool with its own connection still in
its hands. Only another tool's write makes a conflict under a live lock. The run `Pool` has every
setup: `CallsEnd` and `LocksEnd` say that where waits are bounded, or no other tool writes
(`WaitsAreBounded`), every call ends and every lock is given up; the safety properties hold in
every setup. In the one that is left, other tools and node-postgres' default of no bound, passes can
wait on each other for ever: that is the run `SelfDeadlock`. `postgres-pool.test.ts` is the
setup without tools and without a bound; docs/operations.md recommends the bound.

### State and actions of `IdentityBinding`

An intent is what tells intents apart: the effect it asks for, a lesser field (`note`),
the order of its keys, and its form, which says what JSON does to the note:

| Form | For instance | JSON stores | Default fingerprint | Custom fingerprint |
|---|---|---|---|---|
| `plain` | parsed JSON | the same | accepted | accepted |
| `converted` | a `Date` | another value that tells the same | accepted | accepted |
| `altered` | `NaN`, an `undefined` field | null, or nothing | accepted | accepted |
| `lossy` | a `Map`, a function | nothing of it | refused | accepted |
| `unstorable` | a circular reference, a `bigint` | - | refused | refused |

Contracts have the default fingerprint (canonical JSON) or one of their own, over the effect
only or over everything, and an operation type; a call picks any of them, so deploys that change
the rule are in. A call
runs `Begin` (`resolveIdentity`, `prepareIntent`), then `LoseRace` or `AcquireLock`;
`FindNothing`, `FindAnother`, `FindEnded` and `FindOpen` are `runCoordinated`'s ways
on; `Authorize`, `Create`, `Reserve`, `Execute`, `Resolve` and `Conflict` follow the intent
that hooks are given. `executed` collects what `execute()` was called with.

With a custom fingerprint the hooks get the recorded data, on every call. With the default one they
get the caller's own object: a note that is `NaN` reaches `execute()` as `NaN`, while the record,
the reviewer and the fingerprint have null, and a later call that says null is the same operation.
fingerprint.ts names these equivalences, and so `HooksSeeRecordedIntent` asks for no more than holds:
what hooks are given is stored by JSON as the record is (`IsRecorded`). The field that names the
effect is taken to be plain. An object that changes while the call runs, or whose `toJSON()`
disagrees with its fields, is left to the caller by docs/v0.1-spec.md, and out of the model.

### State and actions of `ContractCalls`

`example` says which contract; `world` is its provider (a charge with refunds and
keys, a count of credits, an order with a version, a deduplicating ledger); `op` and
`kept` the record and its observations; `flying` the requests that failed and
may arrive later; `row` the application's row. A pass is `CallGoesOn`, `Create`,
`Reserve`, `ExecuteAnswered`/`ExecuteUnanswered`, `Observe`/`ObserveFails`, `Save`;
`CallBusy` and `CallReturns` are the short ways out; `Project` is the row's update, a step of
its own, so that two workers write it in either order. `Land`, `Settle`, `Others` and
`Tick` are the provider's side. The hooks of a contract are operators (`DoCreate`,
`Observe`, `Reconcile`), used as the code composes them.

The REST example's `getOrder` takes the body of an error other than 404 for an order; the server of
the example sends none, and the model has none. Two of the providers deduplicate and take
a request at any later time; the others take it within the declared window or not at all. That
window is counted from the attempt's recorded start, so it has to hold the write of the reservation
too, for which types.ts asks a margin. The ledger's and the REST contract's windows are their client
timeout plus the server's delay and name no such margin; that the reservation's write fits in is
an assumption here. The action table has one row: that a call which throws keeps `sweep()` from
the rows after it is not covered.

### State and actions of `Conformance`

A scenario is the sequence of commands the code runs for it (`Script`): set a fault, call
`run.once()` by one or two callers, advance the clock, let the held request land, settle or
reject what is pending, crash at a point, check an expectation. `NextScenario` makes
a fresh store and target, `Drive`, `Prepare` and `StartRun` execute commands, and `Begin`,
`Busy`, `Reserve`, `Execute`, `Observe` and `Save` are the calls, in every order where
there are two. `results` is the report.

## Runs

Time is counted in units in which the windows are 1 or 2 and `Lateness` is 1. The bounds of the
protocol's runs are `MaxClock` (last clock value), `MaxVersion` (no call begins once the record
has been written that often) and `MaxFaults`. They stop the callers, so these runs, `Identity` and
`Examples` have `CHECK_DEADLOCK FALSE`; `CallsReturn` is what says that no call gets
stuck. So has `Pool`, because in one of its setups calls do get stuck (`SelfDeadlock`); `CallsEnd`
says so of the others. `Conformance` checks for deadlock.

| Run | States | What it shows | Bounds, and why they are enough |
|---|---|---|---|
| `Fencing` | 2.7 M | Two callers, two faults, late requests, a deploy that shortens the window from 2 to 1: `AtMostOneEffect` and its reason `EarlierRequestsGone`; no attempt executed twice (`OneExecutionPerAttempt`); no attempt stacked on an unsettled one (`HistoryIsSettled`) or beyond the budget (`RetryBudget`); `ClosedIsFinal`; `ReobservedBeforeRetry`; `SafetyInvariant`, the proof's invariant | clock to 3 passes the longer window; 5 writes are create, reserve, resolve, settle, reserve, so a second attempt with a stale pass of the first still running happens; two faults let both a lost lock and a crash, or two of one, happen |
| `Deploys` | 3.2 M | One caller, an asynchronous provider, uncertain evidence, contracts without a window, with one of 1 or 2, and without retry: `ReportIsHonest`, `SafetyInvariant`, `Promise` | three attempts need 7 writes when each is settled by re-observation, 5 when it got a response; calls that begin below version 6 may end above it |
| `Review` | 2.2 M | One caller or reviewer at a time, every answer of `authorize()`, `revalidate()` and the reviewer, decisions with every token, fingerprint and expiry, records of older releases: attempts are approved, decisions answer their review, what a call leaves in review can be answered, reports are honest | two reviews, with an attempt after each; clock to 3 reaches both expiry times and the maximum age of 2; 26 older records, with each fingerprint and expiry |
| `ReviewRace` | 2.2 M | Two calls at once, callers or reviewers, with a lost lock or a crash: attempts are approved and decisions answer their review in races too, and `Promise` | one fault is one race; clock to 3 as above; no record, or an older one whose review nobody can answer, so that two calls race to open it |
| `Liveness` | | `CallsReturn`, `EventuallySettled` | see below |
| `Pool` | 181 k | No connection is lost or shared, no lock outlives its pass, two live passes never work on one operation, and where waits are bounded every call ends and every lock is given up | every setup; three callers, two of one operation, and two connections: the pool runs out while a lock's loser and a pass that met a conflict wait for it; one fault hits any step |
| `Identity` | 3.7 M | `HooksSeeRecordedIntent`, `OnlyOwnOperation`, `ResendAccepted` | two callers, four contracts, and an intent with each difference and each form; version 2 is a record created, attempted and resolved, or approved, so a call meets it on every path |
| `Examples` | 1.1 M | The examples' contracts have one effect, true answers, no false alarms, bounded observations; the row never says more than is true and ends as the operation did | every start that a contract distinguishes, also our own refund behind more refunds than are read, with Stripe's key for it forgotten; two workers; three faults or changes by others are a lost request, a crash and another writer together; 5 polls overflow the list of 3 observations |
| `Conformance` | 436 k | The harness passes every right contract, with one false alarm that is its own, and fails every broken one | every policy and window from none to longer than the target is late; contracts broken in one or two ways |
| `LongerWindow`, `PolicyChange`, `SelfDeadlock` | | the first three disagreements below | one caller, no faults; for `SelfDeadlock` three callers, two connections, no faults |

`Fencing`, `ReviewRace` and `Identity` use the symmetry of callers; runs with liveness
properties do not.

`ReportIsHonest` relates what a call reports to the operation and to the world: a
closed operation never says to wait or retry, an open one never that it is over, and
COMPLETE is said only of an effect that took place. `AnswerIsTrue` says the same of the
examples, where others change the order or the charge too and a contract has to tell their
changes from its own.

`BadContractsFail` is worth its run because expectations can cancel out: a contract that
executes twice and never retries, or one that reads all effects instead of its own. For `GoodContractsPass`, a
right contract is one that is right by itself (`Honest`), waits out the lateness before it
retries, and recovers where it says it can; the false alarm is the last of the disagreements
below.

### Fairness

`MCRunEffectLive` assumes: every step of a call goes on (`Progress`, weak fairness
per call), since it is the runtime's code, a store query, or a hook whose calls have
deadlines (docs/operations.md); `execute()` in particular ends at the latest in its
client's timeout, so `ExecuteFailed` is in `Progress` and `ExecuteReturned` is not;
callers keep calling until the operation is settled, as docs/operations.md asks
(`BeginRun`); and time passes while a request may still take hold. Nothing is
assumed of the provider: it may never answer. Faults are finitely many
(`MaxFaults`). Under this the operation ends with every crash and lost lock in between
recovered, after at most three attempts. The provider there is synchronous and evidence is
certain; with an asynchronous one the operation is PENDING for as long as the provider likes.
The bounds of this run (9 and 20) are out of reach: within it the clock stays below 4, and the calls
stop writing long before version 20.

`PgPool`'s `Fairness`: a query on a live or a dead connection ends, and so do hooks (docs/operations.md
gives each a deadline): `Step` of each call; the pool serves the head of its queue when a
connection is available (`Grant`); a bounded wait ends (`GiveUp`); the server notices
a session that is gone (`SessionEnds`). A pass may loop from a write to more bookkeeping, as
long as retries are due; strong fairness of the write that ends it says that it does not do so for
ever, which is the finite budget of attempts, left out of that module.

`ContractCalls`' `Fairness`: a call that has begun goes on (`Run`); `sweep()` keeps calling for
unfinished rows, which is what it is for; and time passes while a retry waits. That a
provider settles, that a late request lands and that a person decides is not assumed.

### Disagreements between code and documentation

- `LongerWindow`: types.ts says of `maxInFlightMs` that the next call after
  `attemptStartedAt + maxInFlightMs` re-observes before executing again. `reObserve`
  reads the clock after `observe()` has answered, so after a deploy that lengthens
  the window, an observation made before the new window ended is judged at a clock
  reading after it, and the next attempt is made on it. `ReobservedBeforeRetry`, the
  same property with the window the request was sent under, holds.
- `PolicyChange`: docs/operations.md says that changes of the retry policy apply to
  operations already open. A RETRY recorded after a response goes straight to the next
  attempt, whatever the acting contract's policy says.
- `SelfDeadlock`: postgres.ts says that an identity takes "exactly one pool connection for the
  duration of its pass, never two", lest passes self-deadlock, and docs/v0.1-spec.md and the failure
  matrix (8.6) promise the same. After a conflict `runEffect()` reads through the pool before it
  gives its own connection back. With another tool that writes records and no
  `connectionTimeoutMillis`, two passes on a pool of two connections wait for each other for ever.
- `GoodContractsPass`, a property that holds of the code as it is: docs/testing-your-contract.md
  says of the late-landing scenario that
  it wants one effect and fails if `maxInFlightMs` is shorter than how late the target can
  land a request. It also fails every right contract whose window is long enough and
  whose policy allows no retry: such an operation ends in INVESTIGATE before the request lands
  and never observes it, and the scenario demands the evidence APPLIED. The
  harness' own `recovered()` accepts that ending in other scenarios.

## Proofs

### The protocol

Everything here is proved for any number of callers, any contracts, any bounds and
any inputs, from four assumptions: `PassesAssumption`, `BoundsAssumption`,
`ContractsAssumption` (contracts as `validateContract` accepts them, with honest
windows and a finite budget; the code also allows Infinity) and `InputsAssumption`. TLC evaluates
all four in every run.

| Theorem | Says |
|---|---|
| `TypeCorrect` | `Spec => []TypeOK` |
| `SafetyInvariantHolds`; `OneEffect`, `NoRetryBeforeGone`, `SettledHistory`, `OneExecution`, `Closed` | the first part of the inductive invariant, and from it `AtMostOneEffect`, `EarlierRequestsGone`, `HistoryIsSettled`, `OneExecutionPerAttempt`, `ClosedIsFinal` |
| `OutcomeInvariantHolds`; `BudgetHolds`, `ReviewAnswerable`, `HonestReports`, `ApprovedAttempts`, `LooksBeforeRetry`, `LooksAfterApproval` | the second part, and from it `RetryBudget`, `AwaitedReviewIsOpen`, `ReportIsHonest`, `AttemptsAreApproved`, `ReobservedBeforeRetry`, `ReobservedAfterApproval` |
| `PromiseInvariantHolds`; `PromiseKept`, `DecisionsAnswer` | the third part, and from it the refinement `Promise` and `DecisionAnswersItsReview` |

So every safety property that a run checks of the protocol and that holds is also proved.

*First part.* `AtMostOneEffect` follows from `EarlierRequestsGone`: only the latest
request can take effect, and none after one that did. That is not inductive by itself: the step
that appends a request is `Reserve`, made by a pass that decided long ago, from a
record it read longer ago. So `SafetyInvariant` says what each handover relies on:

1. *The version names the record* (`VersionIdentifiesRecord`): a pass whose copy has
   the stored version holds exactly the stored record. With the version check, a
   write that goes through is based on the truth.
2. *The record is sound* (`RecordInvariant`): a RETRY on record means that its
   request is over already (a response finished it, or its window has passed), or
   will be by `retryNotBefore`; a recorded response was real. The windows enter here:
   settlement never uses a shorter one than the request was sent under.
3. *A pass carries that knowledge across its steps* (`PassInvariant`): one that
   observes a settled attempt does so when it is over (`ObservesInTime`), so the
   NOT_APPLIED it then reads is final (`ObservationIsFinal`); one about to make the
   next attempt stands on a RETRY without delay whose request is gone (`AttemptsSafely`).
   A pass that is out of date needs to know nothing: its write will conflict. What it
   may still do is send its own request, which nobody else has sent (`KnowsItsRequest`).

`OneExecutionPerAttempt` needs 1 and `KnowsItsRequest`: a reservation is written only
over the version that was read, so its number belongs to one pass.

*Second part.* What a report says is computed from the record long after the pass that wrote it is
gone, and what lets an attempt through was checked steps before the reservation. `RecordOutcome`
says that the record's outcome fits its status: a blocking check counts until the next write
only (`BlockFitsStatus`); a closed record was closed by a rejection, a check or a final
disposition, and COMPLETE is on it only after an effect (`OutcomeFitsStatus`); a decision's
token is never ahead of the review's (`ReviewFitsStatus`); a RETRY leaves room under some contract's
`maxAttempts` (`BudgetKept`). `PassOutcome` says what each pass carries: the decision it is about to write
answers the review it read (`AnswersOpenReview`); an attempt about to be reserved is covered by
the approval at the clock reading that will be its start (`ChecksApproval`); one that read a review
nobody can answer is about to open one (`ActsOnUnanswerable`), from which `AwaitedReviewIsOpen`
follows; what it saw, it saw
after the approval and after the window (`SawInTime`, `LookedBeforeNext`). With 1 above, what
a pass that is not out of date carries is true of the store.

*Third part.* In the refinement a rejection ends an operation that never takes effect, so no
attempt may be undecided when a reviewer is asked. `PromiseInvariant` says so of the record
(`NothingUnderReview`) and of a pass about to send an operation to review or to stop it
(`StopsSafely`); both come from `AttemptsSafely`, since checks run only before an attempt. Then each
write is an action of `EffectOnce`: `Reserve` is `Attempt`, or no step when the window of the new
attempt is already over; `WriteBlock` is `AskReview`, `Conclude` or no step; `RecordDecision` is `Approve` or
`Reject`; a resolution is `Conclude` or no step; landing is `Apply`; a refusal and the passing of
a window are `Lapse`. `DecisionAnswersItsReview` also needs that reviews are numbered from 1
(`ReviewsAreNumbered`): the token of a decision is then never that of no decision.

Each proof that a step preserves the invariant has a step per action, and the lemmas
before it isolate what the action needs (what a write leaves, what appending a request
leaves, what a pass that goes idle owes).

### The pool

For any number of calls, keys and connections, from `ConnsAssumption`, `KeysAssumption`,
`SetupsAssumption` and `FaultsAssumption`: `PoolInvariantHolds`, and from it `EveryConnectionAccounted`
(`ConnectionsAccounted`), `NoLockOutlivesItsPass` (`LockBelongsToPass`) and `LivePassesExclude`
(`PassesExclude`). `PassesExclude` is not inductive: that a pass holds its lock has to be
said of every live pass (`LiveHasLock`), and what a call holds at which step (`HandsFitStep`), so that
taking a connection from the pool, or a lock on it, cannot give away what another call relies on.
A connection that the pool dropped has no live session (`DroppedIsDead`), so opening it anew finds
no lock on it.

### Identity binding

For any calls, contracts, intents, versions and faults, from `PassesAssumption`,
`ContractsAssumption` (each contract has one of the three fingerprints),
`IntentsAssumption` (intents are records of the four things that tell them apart) and
`BoundsAssumption`: `IdentityInvariantHolds`, and from it `HooksSeeRecordedIntentAlways`
(`HooksSeeRecordedIntent`), `ResendAcceptedAlways` (`ResendAccepted`) and
`OnlyOwnOperationAlways` (`OnlyOwnOperation`).

None of the three is inductive: what `execute()` is given was chosen when the pass met the
record, and a call that lost the lock learns of the record from a read of its own. So
`IdentityInvariant` follows the intent through the call.

- `RecordFits`: storing an intent loses nothing that fingerprints look at. The stored
  intent and the one `created` remembers are the same after `Json` and `Canonical`.
- `FirstCallFits`: before there is a record, a call carries an intent that can be stored,
  and asks `authorize()` about just what storing it keeps. If it creates the record, the
  record is what was authorized.
- `AttemptFits`: from the reservation on, the call's own identity is that of the record,
  and it acts on the recorded intent, not on its own.
- `AnswerFits`: what a call was told, or refused for, is the one record there is.

`NothingExecuted` closes the gap between the first call and the record. That a repeated call
is accepted rests on two facts about fingerprints, `FingerprintsIgnoreOrder` and
`SameDataSameOperation`; that another is refused, on `FingerprintsTell`.

### The examples

For any number of workers, charges, refunds, orders, observations, pages, time and faults,
from `WorkersAssumption`, `StartsAssumption` and `BoundsAssumption`: `ExamplesInvariantHolds`,
and from it `OneEffectAlways`, `AnswerIsTrueAlways`, `NoFalseAlarmAlways`,
`HistoryKeepsEndsAlways` and `RowTellsTruthAlways`. `StartsAssumption` says what a provider may
hold when the first call comes: nothing labeled for the operation, and a refund of its own only
from an older release, which sent no labels; an order at the expected version or later; no
credit under a new reference.

Five contracts share one argument, and differ in what their providers are worth. `ProviderProofs`
says the second once for each: what any step of the provider keeps (`Serves`, `MovesByItself`) and
what an observation shows (`ObservationShows`). Stripe keeps one refund of ours and shows it by its
label; the order server changes an order only at the version it was asked for, and a later version
without our change stays without it; the ledgers hold one credit. `ContractCallsProofs` is then about
calls:

1. *No request goes out while another may arrive* (`RequestsFit`, `RequestsOf`). A provider that does
   not deduplicate is sent a request only when the effect is not there and none is on
   its way (`Quiet`); a retry on record means that the window has passed, or will have by the time it
   names (`LatestFits`, `RetryObserved`). A provider that deduplicates needs none of this, but must not be
   sent anything once it has forgotten the key of a refund without a label
   (`Orphaned`): that refund is seen as unclear, never as absent.
2. *Answers stay true* (`AnswerHolds`): a success stays in place, and a conflict or a rejection is
   never followed by our effect. `AnswerIsTrue` says so of records, which may be old.
3. *Evidence has a cause* (`EvidenceFits`, `EvidenceOf`): UNKNOWN, or an attempt that got no answer, comes from
   a fault, from what the provider cannot tell, or from the older release (`LeftByOlder`).
4. *A result survives the wait before it is written to the row* (`ResultHolds`), in whatever order
   the workers write.

### The harness

For every set of contracts and of options, from `ContractsAssumption` (contracts are what
`FakeLedger` calls one: any window or none, any policy, any combination of faults) and
`OptionsAssumption` (any lateness or none, any choice of scenarios):
`ConformanceInvariantHolds`, and from it `HarnessCatchesBadContracts` (`BadContractsFail`) and
`HarnessPassesGoodContracts` (`GoodContractsPass`). The run has windows up to 3, one lateness and
contracts broken in at most two ways; in the theorems windows and lateness are any
numbers and faults meet in any combination.

A verdict is a fact about a finished script, so the invariant is about the way there: how many
commands of the scenario have been played (`Played`; `ScriptFits`: what is left is the rest of the
script) and, for each place, what holds.

1. *Calls and records* (`CallersFit`, `RecordsFit`): a call belongs to the run that was played
   last, one that works has the lock and an open record, and a record is open as its latest
   attempt says. This is what makes the order of concurrent callers not matter.
2. *What a broken contract has done by then.* One that writes twice, or until it is
   answered, does not have exactly one effect (`TwiceFits`); one that trusts the transport takes a lost response for an
   absent effect (`TransportFits`); a wrong answer after a failed read or about a pending
   effect is seen where it is asked for (`FailedReadFits`, `PendingFits`); and one that reads all effects
   takes the neighbor's for its own (`NeighborFits`). Each is followed in the scenario that
   catches it; the last three among contracts that write once and observe, because the first
   two kinds are caught before.
3. *Where the operation of one that writes once and observes is.* Until its first run has
   written, the fault that was prepared waits (`AtFirst`); afterwards the operation is in flight,
   waits for its retry, is given up or done, and by which place it is which depends on the
   scenario (`AfterFirst`, by `Settled`, or by `Held` in late-landing, where the request
   lands before, at or after the contract's window).
4. *What has been met stays met* (`MetSoFar`) until a command other than an expectation follows; a result, once given,
   shows something of the contract (`ResultsFit`, `Shows`). That twelve results are in means
   that every scenario's is (`AllRan`), and then each way to be broken has its scenario.

The other direction (`RightFits`) has no expectation fail for a right contract. It is here that
late-landing is the exception (`Conservative`): there an operation that was given up is never
observed again, so the evidence that the scenario demands cannot come.

`IdentityInvariant`, `ExamplesInvariant` and `ConformanceInvariant` were found to hold on the
instances of the runs `Identity`, `Examples` and `Conformance` before they were proved.

### Only model-checked

Liveness (`CallsReturn`, `EventuallySettled`, `CallsEnd`, `LocksEnd`, `RowsRepaired`): fairness and
ENABLED are out of the prover's reach. Every safety property that a passing run checks is also
proved.

## Not modelled, and why

- `src/core/helpers.ts`: constructors of plain values, without state.
- `examples/durable-workflow`: its steps are replayed by the DBOS library, whose scheduling is not
  in the repository; what it asks of corrobo (a step may run again after it was done) is a call
  repeated after a crash, which every module has.
- Demo scripts and `examples/quickstart`: they print a story; the quickstart's contract is the
  payments contract of the action table.
- Schema migration, row conversions, error sanitising, wording, receipts and notes: no
  property here depends on them. `appendAttempt` and `setStatus` have no caller in `src/`.
- Scripts, skills and documentation.

What is left to do: records of older releases that already have attempts (a RETRY without
`retryNotBefore`, attempts without a window) in `RunEffect` (`Examples` has one kind, the reserved
attempt of an older Stripe contract), and workers of different releases at once; a window of 0
with a provider that deduplicates, which `ContractCalls` has and `RunEffect` has not.
