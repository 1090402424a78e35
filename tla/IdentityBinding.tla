-------------------------- MODULE IdentityBinding --------------------------
(***************************************************************************)
(* One operation identity used with several intents, operation types and   *)
(* fingerprint rules (src/core/fingerprint.ts, and in src/core/runtime.ts  *)
(* prepareIntent, resolveIdentity, assertSameLogicalOperation and the      *)
(* intent that hooks act on).                                              *)
(*                                                                         *)
(* An intent, as the caller's object, says what effect it asks for, has a  *)
(* field of lesser weight (note), an order of keys and a form:             *)
(*   plain       parsed JSON: what is stored is what there was             *)
(*   converted   JSON writes the note as another value that tells the same *)
(*               (a Date as its ISO string)                                *)
(*   altered     JSON stores null, or nothing, for the note (NaN,          *)
(*               undefined), and every fingerprint accepts it              *)
(*   lossy       the same, of a value the default fingerprint rejects (a   *)
(*               Map, a function)                                          *)
(*   unstorable  JSON.stringify rejects it or returns undefined            *)
(* The field that names the effect is plain.  A toJSON() that disagrees    *)
(* with what execute() reads, and an object changed during the call, are   *)
(* left out: the caller answers for them (docs/v0.1-spec.md:151).          *)
(* The record holds its JSON.  Attempts, windows and reviews are           *)
(* RunEffect's subject: here an attempt runs execute() and leaves the      *)
(* operation open or closed.                                               *)
(***************************************************************************)
EXTENDS Integers, FiniteSets

CONSTANTS
  Passes,      \* concurrent callers
  NoPass,      \* the lock is free
  Contracts,   \* [type, fingerprint]: operationType, and fingerprintIntent() if it has one
  Intents,     \* the objects callers pass
  MaxVersion,  \* bound: no call begins once the record's version reaches it
  MaxFaults    \* bound: crashes and lost locks

Fingerprints == {"default", "effectOnly", "everything"}
Forms == {"plain", "converted", "altered", "lossy", "unstorable"}
Notes == 0..2   \* 0: null, or no note at all
Orders == 0..2  \* 0: the order a store that keeps none (jsonb) returns

ASSUME PassesAssumption == NoPass \notin Passes
ASSUME ContractsAssumption ==
  Contracts # {} /\ \A c \in Contracts : c.fingerprint \in Fingerprints
ASSUME IntentsAssumption ==
  /\ Intents # {}
  /\ \A i \in Intents :
       /\ i = [effect |-> i.effect, note |-> i.note, order |-> i.order, form |-> i.form]
       /\ i.note \in Notes /\ i.order \in Orders \ {0} /\ i.form \in Forms
ASSUME BoundsAssumption == MaxVersion \in Nat /\ MaxFaults \in Nat

VARIABLES
  op,        \* the stored record; created remembers the call that created it
  lock,
  pass,      \* pass[p]: the private state of call p
  executed,  \* what execute() was given, and whether under a custom fingerprint
  faults

vars == <<op, lock, pass, executed, faults>>

-----------------------------------------------------------------------------
(* Fingerprints *)

\* What JSON keeps of an object, and the JSON of an intent.
Kept(o) ==
  [effect |-> o.effect, note |-> IF o.form \in {"altered", "lossy"} THEN 0 ELSE o.note]

Json(i) == [effect |-> i.effect, note |-> Kept(i).note, order |-> i.order]

\* What hooks can read, key order apart: of the caller's object, and of parsed JSON.
Seen(i) == [effect |-> i.effect, note |-> i.note, form |-> i.form]
Parsed(json) == [effect |-> json.effect, note |-> json.note, form |-> "plain"]

\* canonicalStringify: the JSON with sorted keys.
CanonicalUnsorted(json) == json

Canonical(json) == [effect |-> json.effect, note |-> json.note]

\* materializeIntent rejects Maps, functions and what JSON cannot store at all, but not NaN,
\* undefined fields and Dates; a contract with its own fingerprintIntent() takes
\* responsibility for all that JSON.stringify accepts.
Custom(c) == c.fingerprint # "default"

Storable(c, i) ==
  i.form \notin IF Custom(c) THEN {"unstorable"} ELSE {"lossy", "unstorable"}

\* fingerprintIntent, of an intent's JSON.
FingerprintIntent(c, json) ==
  CASE c.fingerprint = "effectOnly" -> <<json.effect>>
    [] c.fingerprint = "everything" -> <<json.effect, json.note>>
    [] c.fingerprint = "default"    -> Canonical(json)

\* assertSameLogicalOperation: both sides under the acting contract's rules.
SameOperation(c, i, r) ==
  /\ r.type = c.type
  /\ FingerprintIntent(c, r.intent) = FingerprintIntent(c, Json(i))

-----------------------------------------------------------------------------
(* Calls *)

NoRecord == [version |-> -1]

AnyCall == [pc |-> "idle"]

Init ==
  /\ op = NoRecord
  /\ lock = NoPass
  /\ pass = [p \in Passes |-> AnyCall]
  /\ executed = {}
  /\ faults = 0

At(p, pc) == pass[p].pc = pc
Become(p, s) == pass' = [pass EXCEPT ![p] = s]
Goto(p, pc) == Become(p, [pass[p] EXCEPT !.pc = pc])

\* The call is over: it was refused, or told what is recorded of the operation (a
\* placeholder if nothing is).
End(p, answer, r) ==
  /\ Become(p, [pc |-> "told", contract |-> pass[p].contract, intent |-> pass[p].intent,
                answer |-> answer, rec |-> r])
  /\ lock' = IF lock = p THEN NoPass ELSE lock

Tell(p, r) ==
  IF r = NoRecord THEN End(p, "in progress", r)
  ELSE IF SameOperation(pass[p].contract, pass[p].intent, r) THEN End(p, "told", r)
  ELSE End(p, "refused", r)

\* A call whose identity names another type, or whose intent cannot be stored, is refused
\* by resolveIdentity or prepareIntent before anything happens: no step.
Begin(p) ==
  /\ pass[p].pc \in {"idle", "told"}
  /\ op.version < MaxVersion
  /\ \E c \in Contracts, i \in Intents :
       /\ Storable(c, i)
       /\ Become(p, [pc |-> "lock", contract |-> c, intent |-> i, rec |-> NoRecord])
  /\ UNCHANGED <<op, lock, executed, faults>>

\* What the hooks are given on a call that finds no record: with a custom fingerprint the
\* intent's JSON, otherwise the caller's own object, Dates and NaNs in it.
FirstIntent(p) ==
  IF Custom(pass[p].contract) THEN Parsed(Json(pass[p].intent)) ELSE Seen(pass[p].intent)

\* And on one that finds a record: with a custom fingerprint the recorded intent.
ActingIntentOfRequest(p) == FirstIntent(p)

ActingIntent(p) ==
  IF Custom(pass[p].contract) THEN Parsed(op.intent) ELSE Seen(pass[p].intent)

\* The loser of the lock reads the record.
LoseRace(p) ==
  /\ At(p, "lock") /\ lock # NoPass
  /\ Tell(p, op)
  /\ UNCHANGED <<op, executed, faults>>

AcquireLock(p) ==
  /\ At(p, "lock") /\ lock = NoPass
  /\ lock' = p
  /\ Goto(p, "read")
  /\ UNCHANGED <<op, executed, faults>>

\* runCoordinated: no record, another operation's, one that is ended or waits for review,
\* or an open one.  Of continueOpen's branches only the one that attempts passes the intent
\* to execute(): here an open operation is always attempted.
FindNothing(p) ==
  /\ At(p, "read") /\ op = NoRecord
  /\ Become(p, [pass[p] EXCEPT !.pc = "authorize"])
  /\ UNCHANGED <<op, lock, executed, faults>>

FindAnother(p) ==
  /\ At(p, "read") /\ op # NoRecord
  /\ ~SameOperation(pass[p].contract, pass[p].intent, op)
  /\ End(p, "refused", op)
  /\ UNCHANGED <<op, executed, faults>>

FindEnded(p) ==
  /\ At(p, "read") /\ op # NoRecord
  /\ SameOperation(pass[p].contract, pass[p].intent, op)
  /\ op.status # "OPEN"
  /\ End(p, "told", op)
  /\ UNCHANGED <<op, executed, faults>>

FindOpen(p) ==
  /\ At(p, "read") /\ op # NoRecord
  /\ SameOperation(pass[p].contract, pass[p].intent, op)
  /\ op.status = "OPEN"
  /\ Become(p, [pc |-> "reserve", contract |-> pass[p].contract, intent |-> pass[p].intent,
                rec |-> op, acting |-> ActingIntent(p)])
  /\ UNCHANGED <<op, lock, executed, faults>>

\* authorize() answers; it was asked about the intent the hooks are given.
Authorize(p) ==
  /\ At(p, "authorize")
  /\ \E status \in {"OPEN", "AWAITING_REVIEW"} :
       Become(p, [pc |-> "create", contract |-> pass[p].contract, intent |-> pass[p].intent,
                  rec |-> NoRecord, acting |-> FirstIntent(p), status |-> status])
  /\ UNCHANGED <<op, lock, executed, faults>>

\* createOperation: the record keeps the intent's JSON, its key order or none.
Create(p) ==
  /\ At(p, "create") /\ op = NoRecord
  /\ \E order \in {pass[p].intent.order, 0} :
       op' = [version |-> 0, type |-> pass[p].contract.type, status |-> pass[p].status,
              intent |-> [Json(pass[p].intent) EXCEPT !.order = order],
              created |-> [contract |-> pass[p].contract, intent |-> pass[p].intent,
                           authorized |-> pass[p].acting]]
  /\ IF pass[p].status = "OPEN"
     THEN Become(p, [pc |-> "reserve", contract |-> pass[p].contract, intent |-> pass[p].intent,
                     rec |-> op', acting |-> pass[p].acting]) /\ UNCHANGED lock
     ELSE End(p, "told", op')
  /\ UNCHANGED <<executed, faults>>

\* performAttempt: reserve, execute, and record what came of it.
Current(p) == op.version = pass[p].rec.version

Reserve(p) ==
  /\ At(p, "reserve") /\ Current(p)
  /\ op' = [op EXCEPT !.version = @ + 1]
  /\ Become(p, [pass[p] EXCEPT !.pc = "execute", !.rec = op'])
  /\ UNCHANGED <<lock, executed, faults>>

Given(c, a) == [custom |-> Custom(c), intent |-> a]

Execute(p) ==
  /\ At(p, "execute")
  /\ executed' = executed \cup {Given(pass[p].contract, pass[p].acting)}
  /\ Goto(p, "resolve")
  /\ UNCHANGED <<op, lock, faults>>

Resolve(p) ==
  /\ At(p, "resolve") /\ Current(p)
  /\ \E status \in {"OPEN", "CLOSED"} :
       op' = [op EXCEPT !.version = @ + 1, !.status = status]
  /\ End(p, "told", op')
  /\ UNCHANGED <<executed, faults>>

\* StoreConflictError: the record is read again, and may be another operation's.
ConflictUnasserted(p) ==
  /\ pass[p].pc \in {"create", "reserve", "resolve"} /\ ~Current(p)
  /\ End(p, "told", op)
  /\ UNCHANGED <<op, executed, faults>>

Conflict(p) ==
  /\ pass[p].pc \in {"create", "reserve", "resolve"} /\ ~Current(p)
  /\ Tell(p, op)
  /\ UNCHANGED <<op, executed, faults>>

\* A reviewer approves (reviewEffect takes the lock, and checks the operation type).
Approve ==
  /\ lock = NoPass
  /\ op # NoRecord
  /\ op.status = "AWAITING_REVIEW"
  /\ op' = [op EXCEPT !.version = @ + 1, !.status = "OPEN"]
  /\ UNCHANGED <<lock, pass, executed, faults>>

Crash(p) ==
  /\ pass[p].pc \notin {"idle", "told"}
  /\ faults < MaxFaults /\ faults' = faults + 1
  /\ Become(p, AnyCall)
  /\ lock' = IF lock = p THEN NoPass ELSE lock
  /\ UNCHANGED <<op, executed>>

LoseLock(p) ==
  /\ lock = p
  /\ faults < MaxFaults /\ faults' = faults + 1
  /\ lock' = NoPass
  /\ UNCHANGED <<op, pass, executed>>

Next ==
  \/ \E p \in Passes :
       \/ Begin(p) \/ LoseRace(p) \/ AcquireLock(p)
       \/ FindNothing(p) \/ FindAnother(p) \/ FindEnded(p) \/ FindOpen(p)
       \/ Authorize(p) \/ Create(p) \/ Reserve(p) \/ Execute(p) \/ Resolve(p)
       \/ Conflict(p) \/ Crash(p) \/ LoseLock(p)
  \/ Approve

Spec == Init /\ [][Next]_vars

-----------------------------------------------------------------------------
(* Types *)

Types == {c.type : c \in Contracts}
Effects == {i.effect : i \in Intents}

\* What a record stores of an intent, and what hooks can read of one.
Stored == [effect : Effects, note : Notes, order : Orders]
Acting == [effect : Effects, note : Notes, form : Forms]
Executions == [custom : BOOLEAN, intent : Acting]

Record ==
  [version : Nat, type : Types, status : {"OPEN", "AWAITING_REVIEW", "CLOSED"}, intent : Stored,
   created : [contract : Contracts, intent : Intents, authorized : Acting]]

\* The private state of a call, by what it has to remember: nothing, its request, what
\* authorize() said, the record it attempts, or what it was told.
CallState ==
  [pc : {"idle"}]
  \cup [pc : {"lock", "read", "authorize"}, contract : Contracts, intent : Intents,
        rec : {NoRecord}]
  \cup [pc : {"create"}, contract : Contracts, intent : Intents, rec : {NoRecord},
        acting : Acting, status : {"OPEN", "AWAITING_REVIEW"}]
  \cup [pc : {"reserve", "execute", "resolve"}, contract : Contracts, intent : Intents,
        rec : Record, acting : Acting]
  \cup [pc : {"told"}, contract : Contracts, intent : Intents,
        answer : {"told", "refused", "in progress"}, rec : Record \cup {NoRecord}]

\* Every variable has its type.
TypeOK ==
  /\ op \in Record \cup {NoRecord}
  /\ lock \in Passes \cup {NoPass}
  /\ pass \in [Passes -> CallState]
  /\ executed \subseteq Executions
  /\ faults \in Nat

-----------------------------------------------------------------------------
(* Properties *)

\* What hooks are given is the recorded intent.  With a custom fingerprint it is the recorded
\* data.  With the default one it is an object of the caller's that JSON stores as the record
\* does, and never one with a value that materializeIntent rejects.
IsRecorded(custom, a, json) ==
  /\ Kept(a) = Canonical(json)
  /\ a.form \in IF custom THEN {"plain"} ELSE {"plain", "converted", "altered"}

\* Whatever intents, contracts and deploys meet on one identity, authorize() was asked about
\* the recorded intent, and execute() is only ever given the recorded intent: what was
\* authorized or reviewed is what is done, as far as JSON tells (recorded-intent.test.ts,
\* docs/v0.1-spec.md:151).
HooksSeeRecordedIntent ==
  op # NoRecord =>
    /\ IsRecorded(Custom(op.created.contract), op.created.authorized, op.intent)
    /\ \A e \in executed : IsRecorded(e.custom, e.intent, op.intent)

\* The call asks for another effect, or another kind of operation, than the recorded one.
AsksForAnother(p) ==
  /\ op # NoRecord /\ pass[p].pc # "idle"
  /\ pass[p].contract.type # op.type \/ pass[p].intent.effect # op.intent.effect

\* Such a call never changes the record, never executes, and is never told the other
\* operation's outcome: also when it lost the lock, or lost the race to create the record.
OnlyOwnOperation ==
  [][\A p \in Passes :
       (pass'[p] # pass[p] /\ AsksForAnother(p)')
         => /\ op # NoRecord => UNCHANGED <<op, executed>>
            /\ ~(At(p, "told")' /\ pass'[p].answer = "told")]_vars

\* A call repeated under the same contract with what JSON stores identically is never refused:
\* whatever the order of its keys, NaN for null, a Date or an undefined field
\* (fingerprint.ts:10-12), and whatever the store made of the recorded intent.
ResendAccepted ==
  \A p \in Passes :
    (At(p, "told") /\ pass[p].answer = "refused")
      => ~(/\ pass[p].contract = pass[p].rec.created.contract
           /\ Kept(pass[p].intent) = Kept(pass[p].rec.created.intent))

-----------------------------------------------------------------------------
(* The inductive invariant *)

\* A record is of the operation it was created for, and keeps all of the intent that
\* fingerprints look at.
RecordFits ==
  op # NoRecord =>
    /\ op.type = op.created.contract.type
    /\ Canonical(op.intent) = Kept(op.created.intent)

\* Without a record nothing has been executed.
NothingExecuted == op = NoRecord => executed = {}

\* A call that has not met a record carries an intent that can be stored, and asks
\* authorize() about just what storing it keeps.
FirstCallFits(p) ==
  /\ pass[p].pc \in {"lock", "read", "authorize", "create"}
       => Storable(pass[p].contract, pass[p].intent)
  /\ At(p, "create") => IsRecorded(Custom(pass[p].contract), pass[p].acting, Json(pass[p].intent))

\* An attempt is of the recorded operation, and acts on the recorded intent.
AttemptFits(p) ==
  pass[p].pc \in {"reserve", "execute", "resolve"} =>
    /\ op # NoRecord
    /\ IsRecorded(Custom(pass[p].contract), pass[p].acting, op.intent)
    /\ SameOperation(pass[p].contract, pass[p].intent, op)

\* A call was told of the one operation there is, or refused because its own is another.
AnswerFits(p) ==
  At(p, "told") =>
    /\ pass[p].rec # NoRecord =>
         /\ op # NoRecord
         /\ <<pass[p].rec.type, pass[p].rec.intent, pass[p].rec.created>>
              = <<op.type, op.intent, op.created>>
    /\ pass[p].answer = "told" =>
         pass[p].rec # NoRecord /\ SameOperation(pass[p].contract, pass[p].intent, op)
    /\ pass[p].answer = "refused" =>
         pass[p].rec # NoRecord /\ ~SameOperation(pass[p].contract, pass[p].intent, op)

IdentityInvariant ==
  /\ TypeOK
  /\ HooksSeeRecordedIntent
  /\ RecordFits
  /\ NothingExecuted
  /\ \A p \in Passes : FirstCallFits(p) /\ AttemptFits(p) /\ AnswerFits(p)

=============================================================================
