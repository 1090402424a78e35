----------------------- MODULE IdentityBindingProofs -----------------------
(***************************************************************************)
(* One identity, one intent, for any callers, contracts, intents and       *)
(* deploys: IdentityInvariant is inductive, and what hooks are given, who  *)
(* is refused and who is not follow from it.                               *)
(***************************************************************************)
EXTENDS IdentityBinding, TLAPS

-----------------------------------------------------------------------------
(* Intents and fingerprints *)

LEMMA IntentFields ==
  ASSUME NEW i \in Intents
  PROVE  /\ i = [effect |-> i.effect, note |-> i.note, order |-> i.order, form |-> i.form]
         /\ i.effect \in Effects /\ i.note \in Notes /\ i.order \in Orders /\ i.form \in Forms
         /\ Json(i) \in Stored
         /\ Seen(i) \in Acting
         /\ Parsed(Json(i)) \in Acting
         /\ Canonical(Json(i)) = Kept(i)
<1>1. /\ i = [effect |-> i.effect, note |-> i.note, order |-> i.order, form |-> i.form]
      /\ i.note \in Notes /\ i.order \in Orders /\ i.form \in Forms
  BY IntentsAssumption
<1>2. i.effect \in Effects
  BY DEF Effects
<1>3. 0 \in Notes
  BY DEF Notes
<1>4. "plain" \in Forms
  BY DEF Forms
<1> QED BY <1>1, <1>2, <1>3, <1>4 DEF Json, Kept, Seen, Parsed, Canonical, Stored, Acting

\* Fingerprints see of a JSON no more than its canonical form.
LEMMA FingerprintsIgnoreOrder ==
  ASSUME NEW c, NEW i, NEW j, Canonical(i) = Canonical(j)
  PROVE  FingerprintIntent(c, i) = FingerprintIntent(c, j)
<1>1. i.effect = j.effect /\ i.note = j.note
  BY DEF Canonical
<1> QED BY <1>1 DEF FingerprintIntent, Canonical

\* And no fingerprint takes two effects for one; the default one is the canonical form.
LEMMA FingerprintsTell ==
  ASSUME NEW c \in Contracts, NEW i, NEW j, FingerprintIntent(c, i) = FingerprintIntent(c, j)
  PROVE  /\ i.effect = j.effect
         /\ ~Custom(c) => Canonical(i) = Canonical(j)
<1>1. c.fingerprint \in {"default", "effectOnly", "everything"}
  BY ContractsAssumption DEF Fingerprints
<1>2. CASE c.fingerprint = "default"
  BY <1>2 DEF FingerprintIntent, Canonical
<1>3. CASE c.fingerprint = "effectOnly"
  BY <1>3 DEF FingerprintIntent, Custom
<1>4. CASE c.fingerprint = "everything"
  BY <1>4 DEF FingerprintIntent, Custom
<1> QED BY <1>1, <1>2, <1>3, <1>4

\* What hooks are given of an intent that can be stored, or of a record, is recorded.
LEMMA StorableIsRecorded ==
  ASSUME NEW c \in Contracts, NEW i \in Intents, Storable(c, i), ~Custom(c)
  PROVE  IsRecorded(FALSE, Seen(i), Json(i))
<1>1. i.form \in {"plain", "converted", "altered"}
  BY IntentFields DEF Storable, Forms
<1> QED BY <1>1 DEF IsRecorded, Kept, Seen, Canonical, Json

LEMMA ParsedIsRecorded ==
  ASSUME NEW json
  PROVE  IsRecorded(TRUE, Parsed(json), json)
  BY DEF IsRecorded, Kept, Parsed, Canonical

LEMMA RecordedAlike ==
  ASSUME NEW custom, NEW a, NEW i, NEW j, IsRecorded(custom, a, i), Canonical(i) = Canonical(j)
  PROVE  IsRecorded(custom, a, j)
  BY DEF IsRecorded

\* What a reservation leaves of a record, and of a call's state.
LEMMA Reserved ==
  ASSUME NEW r, NEW a, NEW b, NEW c, NEW d, NEW e, NEW n,
         r = [version |-> a, type |-> b, status |-> c, intent |-> d, created |-> e],
         NEW s, s = [r EXCEPT !.version = n, !.status = c],
         NEW t, t = [r EXCEPT !.version = n]
  PROVE  s = t
<1>1. s = [version |-> n, type |-> b, status |-> c, intent |-> d, created |-> e]
  OBVIOUS
<1>2. t = [version |-> n, type |-> b, status |-> c, intent |-> d, created |-> e]
  OBVIOUS
<1> QED BY <1>1, <1>2

LEMMA Executing ==
  ASSUME NEW r, NEW a, NEW b, NEW c, NEW d, NEW e, NEW n,
         r = [pc |-> a, contract |-> b, intent |-> c, rec |-> d, acting |-> e],
         NEW s, s = [r EXCEPT !.pc = "execute", !.rec = n]
  PROVE  s = [pc |-> "execute", contract |-> b, intent |-> c, rec |-> n, acting |-> e]
  OBVIOUS

-----------------------------------------------------------------------------
(* What a call knows at each of its steps *)

LEMMA RecordNotMissing == NoRecord \notin Record
  BY DEF Record, NoRecord

LEMMA CallFields ==
  ASSUME TypeOK, NEW p \in Passes
  PROVE  /\ pass[p] \in CallState
         /\ pass[p].pc \in {"idle", "lock", "read", "authorize", "create", "reserve",
                            "execute", "resolve", "told"}
         /\ pass[p].pc # "idle" => pass[p].contract \in Contracts /\ pass[p].intent \in Intents
         /\ pass[p].pc \in {"lock", "read", "authorize"} =>
              pass[p] = [pc |-> pass[p].pc, contract |-> pass[p].contract,
                         intent |-> pass[p].intent, rec |-> NoRecord]
         /\ At(p, "create") =>
              /\ pass[p].acting \in Acting /\ pass[p].status \in {"OPEN", "AWAITING_REVIEW"}
              /\ pass[p].rec = NoRecord
         /\ pass[p].pc \in {"reserve", "execute", "resolve"} =>
              /\ pass[p] = [pc |-> pass[p].pc, contract |-> pass[p].contract,
                            intent |-> pass[p].intent, rec |-> pass[p].rec,
                            acting |-> pass[p].acting]
              /\ pass[p].rec \in Record /\ pass[p].acting \in Acting
<1>1. pass[p] \in CallState
  BY DEF TypeOK
<1> QED BY <1>1 DEF CallState, At

LEMMA RecordFields ==
  ASSUME TypeOK, op # NoRecord
  PROVE  /\ op \in Record /\ op.version \in Nat /\ op.type \in Types /\ op.intent \in Stored
         /\ op.created.contract \in Contracts /\ op.created.intent \in Intents
         /\ op.created.authorized \in Acting
         /\ Parsed(op.intent) \in Acting
<1>1. op \in Record
  BY DEF TypeOK
<1>2. /\ op.version \in Nat /\ op.type \in Types /\ op.intent \in Stored
      /\ op.created.contract \in Contracts /\ op.created.intent \in Intents
      /\ op.created.authorized \in Acting
  BY <1>1 DEF Record
<1> QED BY <1>1, <1>2 DEF Stored, Acting, Parsed, Forms

\* What a step of one call does to its own state and leaves of the others'.
LEMMA Becomes ==
  ASSUME TypeOK, NEW p \in Passes, NEW s \in CallState, Become(p, s)
  PROVE  /\ pass' \in [Passes -> CallState]
         /\ pass'[p] = s
         /\ \A q \in Passes : q # p => pass'[q] = pass[q]
  BY DEF TypeOK, Become

-----------------------------------------------------------------------------
(* What a step does to the record and to the other calls *)

\* What a record is of never changes once it is there.
RecordKept ==
  /\ op' \in Record \cup {NoRecord}
  /\ op # NoRecord =>
       op' # NoRecord /\ <<op'.type, op'.intent, op'.created>> = <<op.type, op.intent, op.created>>

LEMMA SameRecordSameOperation ==
  ASSUME NEW c, NEW i, NEW r, NEW q, r.type = q.type, r.intent = q.intent
  PROVE  SameOperation(c, i, r) <=> SameOperation(c, i, q)
  BY DEF SameOperation

\* The invariant of the calls that do not move.
LEMMA OthersKeep ==
  ASSUME IdentityInvariant, RecordKept, NEW q \in Passes, pass'[q] = pass[q]
  PROVE  FirstCallFits(q)' /\ AttemptFits(q)' /\ AnswerFits(q)'
<1>1. FirstCallFits(q) /\ AttemptFits(q) /\ AnswerFits(q)
  BY DEF IdentityInvariant
<1>2. FirstCallFits(q)'
  BY <1>1 DEF FirstCallFits, At
<1>3. op # NoRecord => (SameOperation(pass[q].contract, pass[q].intent, op')
                          <=> SameOperation(pass[q].contract, pass[q].intent, op))
  BY SameRecordSameOperation DEF RecordKept
<1>4. AttemptFits(q)'
  BY <1>1, <1>3 DEF AttemptFits, RecordKept
<1>5. AnswerFits(q)'
  BY <1>1, <1>3 DEF AnswerFits, RecordKept, At
<1> QED BY <1>2, <1>4, <1>5

\* Steps that write nothing.
LEMMA RecordUntouched ==
  ASSUME IdentityInvariant, UNCHANGED <<op, executed>>
  PROVE  RecordKept /\ RecordFits' /\ NothingExecuted' /\ HooksSeeRecordedIntent'
<1>1. op \in Record \cup {NoRecord}
  BY DEF IdentityInvariant, TypeOK
<1>2. RecordKept
  BY <1>1 DEF RecordKept
<1>3. RecordFits' /\ NothingExecuted' /\ HooksSeeRecordedIntent'
  BY DEF IdentityInvariant, RecordFits, NothingExecuted, HooksSeeRecordedIntent
<1> QED BY <1>2, <1>3

\* Writes of a record that is there: the version and the status change, no more.
Rewrites ==
  \E status \in {"OPEN", "AWAITING_REVIEW", "CLOSED"} :
    op' = [op EXCEPT !.version = @ + 1, !.status = status]

LEMMA RecordRewritten ==
  ASSUME IdentityInvariant, op # NoRecord, Rewrites, executed' = executed
  PROVE  RecordKept /\ op' \in Record /\ RecordFits' /\ NothingExecuted' /\ HooksSeeRecordedIntent'
<1>1. op \in Record
  BY RecordFields DEF IdentityInvariant
<1>2. PICK status \in {"OPEN", "AWAITING_REVIEW", "CLOSED"} :
        op' = [op EXCEPT !.version = @ + 1, !.status = status]
  BY DEF Rewrites
<1>3. op' \in Record /\ <<op'.type, op'.intent, op'.created>> = <<op.type, op.intent, op.created>>
  <2>1. op = [version |-> op.version, type |-> op.type, status |-> op.status,
              intent |-> op.intent, created |-> op.created]
    BY <1>1 DEF Record
  <2>2. op' = [version |-> op.version + 1, type |-> op.type, status |-> status,
               intent |-> op.intent, created |-> op.created]
    BY <1>2, <2>1
  <2>3. op.version + 1 \in Nat /\ op.type \in Types /\ op.intent \in Stored
        /\ op.created \in [contract : Contracts, intent : Intents, authorized : Acting]
    BY <1>1 DEF Record
  <2> QED BY <2>2, <2>3 DEF Record
<1>4. op' # NoRecord
  BY <1>3, RecordNotMissing
<1>5. RecordFits' /\ NothingExecuted' /\ HooksSeeRecordedIntent'
  BY <1>3, <1>4 DEF IdentityInvariant, RecordFits, NothingExecuted, HooksSeeRecordedIntent
<1> QED BY <1>3, <1>4, <1>5 DEF RecordKept

\* One call moves: the invariant holds afterwards if it does of the record and of that call.
LEMMA CallMoves ==
  ASSUME IdentityInvariant, RecordKept, NEW p \in Passes, NEW s \in CallState, Become(p, s),
         lock' \in Passes \cup {NoPass}, executed' \subseteq Executions, faults' \in Nat,
         RecordFits', NothingExecuted', HooksSeeRecordedIntent',
         FirstCallFits(p)' /\ AttemptFits(p)' /\ AnswerFits(p)'
  PROVE  IdentityInvariant'
<1>1. /\ pass' \in [Passes -> CallState] /\ pass'[p] = s
      /\ \A q \in Passes : q # p => pass'[q] = pass[q]
  BY Becomes DEF IdentityInvariant
<1>2. TypeOK'
  BY <1>1 DEF TypeOK, RecordKept
<1>3. \A q \in Passes : FirstCallFits(q)' /\ AttemptFits(q)' /\ AnswerFits(q)'
  BY <1>1, OthersKeep
<1> QED BY <1>2, <1>3 DEF IdentityInvariant

\* A call that moves and writes nothing.
LEMMA CallMovesQuietly ==
  ASSUME IdentityInvariant, UNCHANGED <<op, executed>>, NEW p \in Passes, NEW s \in CallState,
         Become(p, s), lock' \in Passes \cup {NoPass}, faults' \in Nat,
         FirstCallFits(p)' /\ AttemptFits(p)' /\ AnswerFits(p)'
  PROVE  IdentityInvariant'
<1>1. executed' \subseteq Executions
  BY DEF IdentityInvariant, TypeOK
<1> QED BY <1>1, CallMoves, RecordUntouched

\* The call is over: it is told of the record r, or refused because of it.
Told(p, answer, r) ==
  [pc |-> "told", contract |-> pass[p].contract, intent |-> pass[p].intent,
   answer |-> answer, rec |-> r]

LEMMA CallEnds ==
  ASSUME IdentityInvariant, NEW p \in Passes, pass[p].pc # "idle", NEW answer, NEW r,
         End(p, answer, r), r = op', faults' = faults, executed' = executed,
         RecordKept, RecordFits', NothingExecuted', HooksSeeRecordedIntent',
         \/ answer = "in progress"
         \/ answer = "told" /\ r # NoRecord /\ SameOperation(pass[p].contract, pass[p].intent, r)
         \/ answer = "refused" /\ r # NoRecord /\ ~SameOperation(pass[p].contract, pass[p].intent, r)
  PROVE  IdentityInvariant' /\ pass'[p] = Told(p, answer, r)
<1> DEFINE s == Told(p, answer, r)
<1>1. s \in CallState
  <2>1. r \in Record \cup {NoRecord}
    BY DEF RecordKept
  <2>2. pass[p].contract \in Contracts /\ pass[p].intent \in Intents
    BY CallFields DEF IdentityInvariant
  <2>3. answer \in {"told", "refused", "in progress"}
    OBVIOUS
  <2> QED BY <2>1, <2>2, <2>3 DEF CallState, Told
<1>2. Become(p, s) /\ lock' \in Passes \cup {NoPass}
  BY DEF End, Told, IdentityInvariant, TypeOK
<1>3. pass'[p] = s
  BY <1>1, <1>2, Becomes DEF IdentityInvariant
<1>4. s.pc = "told" /\ s.contract = pass[p].contract /\ s.intent = pass[p].intent
      /\ s.answer = answer /\ s.rec = r
  BY DEF Told
<1> HIDE DEF s
<1>5. FirstCallFits(p)' /\ AttemptFits(p)' /\ AnswerFits(p)'
  BY <1>3, <1>4 DEF FirstCallFits, AttemptFits, AnswerFits, At
<1>6. executed' \subseteq Executions /\ faults' \in Nat
  BY DEF IdentityInvariant, TypeOK
<1>7. IdentityInvariant'
  BY <1>1, <1>2, <1>5, <1>6, CallMoves
<1> QED BY <1>3, <1>7 DEF s

LEMMA TellEnds ==
  ASSUME IdentityInvariant, NEW p \in Passes, pass[p].pc # "idle", Tell(p, op),
         UNCHANGED <<op, executed, faults>>
  PROVE  /\ IdentityInvariant'
         /\ \E answer \in {"told", "refused", "in progress"} :
              /\ pass'[p] = Told(p, answer, op)
              /\ answer = "told" =>
                   op # NoRecord /\ SameOperation(pass[p].contract, pass[p].intent, op)
<1>1. RecordKept /\ RecordFits' /\ NothingExecuted' /\ HooksSeeRecordedIntent'
  BY RecordUntouched
<1>2. CASE op = NoRecord
  BY <1>1, <1>2, CallEnds DEF Tell
<1>3. CASE op # NoRecord /\ SameOperation(pass[p].contract, pass[p].intent, op)
  BY <1>1, <1>3, CallEnds DEF Tell
<1>4. CASE op # NoRecord /\ ~SameOperation(pass[p].contract, pass[p].intent, op)
  BY <1>1, <1>4, CallEnds DEF Tell
<1> QED BY <1>2, <1>3, <1>4

-----------------------------------------------------------------------------
(* Each step keeps the invariant *)

LEMMA AfterBegin ==
  ASSUME IdentityInvariant, NEW p \in Passes, Begin(p)
  PROVE  IdentityInvariant'
<1>1. PICK c \in Contracts, i \in Intents :
        /\ Storable(c, i)
        /\ Become(p, [pc |-> "lock", contract |-> c, intent |-> i, rec |-> NoRecord])
  BY DEF Begin
<1> DEFINE s == [pc |-> "lock", contract |-> c, intent |-> i, rec |-> NoRecord]
<1>2. s \in CallState
  BY DEF CallState
<1>3. pass'[p] = s
  BY <1>1, <1>2, Becomes DEF IdentityInvariant
<1>4. FirstCallFits(p)' /\ AttemptFits(p)' /\ AnswerFits(p)'
  BY <1>1, <1>3 DEF FirstCallFits, AttemptFits, AnswerFits, At
<1>5. lock' \in Passes \cup {NoPass} /\ faults' \in Nat
  BY DEF Begin, IdentityInvariant, TypeOK
<1> QED BY <1>1, <1>2, <1>4, <1>5, CallMovesQuietly DEF Begin

LEMMA AfterTelling ==
  ASSUME IdentityInvariant, NEW p \in Passes, LoseRace(p) \/ Conflict(p)
  PROVE  IdentityInvariant'
<1>1. Tell(p, op) /\ UNCHANGED <<op, executed, faults>> /\ pass[p].pc # "idle"
  BY DEF LoseRace, Conflict, At
<1> QED BY <1>1, TellEnds

\* A call that goes to another step with the request it came with.
LEMMA AfterMoving ==
  ASSUME IdentityInvariant, NEW p \in Passes, AcquireLock(p) \/ FindNothing(p)
  PROVE  IdentityInvariant'
<1>1. PICK pc \in {"read", "authorize"} : Goto(p, pc)
  BY DEF AcquireLock, FindNothing, Goto
<1>2. pass[p].pc \in {"lock", "read"}
  BY DEF AcquireLock, FindNothing, At
<1> DEFINE s == [pass[p] EXCEPT !.pc = pc]
<1>3. s = [pc |-> pc, contract |-> pass[p].contract, intent |-> pass[p].intent, rec |-> NoRecord]
  <2>1. pass[p] = [pc |-> pass[p].pc, contract |-> pass[p].contract, intent |-> pass[p].intent,
                   rec |-> NoRecord]
    BY <1>2, CallFields DEF IdentityInvariant
  <2> QED BY <2>1
<1>4. s \in CallState
  <2>1. pass[p].contract \in Contracts /\ pass[p].intent \in Intents
    BY <1>2, CallFields DEF IdentityInvariant
  <2> QED BY <1>3, <2>1 DEF CallState
<1>5. Become(p, s)
  BY <1>1 DEF Goto
<1>6. pass'[p] = s
  BY <1>4, <1>5, Becomes DEF IdentityInvariant
<1>7. Storable(pass[p].contract, pass[p].intent)
  BY <1>2 DEF IdentityInvariant, FirstCallFits
<1>8. FirstCallFits(p)' /\ AttemptFits(p)' /\ AnswerFits(p)'
  BY <1>3, <1>6, <1>7 DEF FirstCallFits, AttemptFits, AnswerFits, At
<1>9. /\ lock' \in Passes \cup {NoPass} /\ faults' \in Nat
      /\ UNCHANGED <<op, executed>>
  BY DEF AcquireLock, FindNothing, IdentityInvariant, TypeOK
<1> QED BY <1>4, <1>5, <1>8, <1>9, CallMovesQuietly

LEMMA AfterFinding ==
  ASSUME IdentityInvariant, NEW p \in Passes, FindAnother(p) \/ FindEnded(p)
  PROVE  IdentityInvariant'
<1>1. /\ op # NoRecord /\ UNCHANGED <<op, executed, faults>> /\ pass[p].pc # "idle"
      /\ \/ ~SameOperation(pass[p].contract, pass[p].intent, op) /\ End(p, "refused", op)
         \/ SameOperation(pass[p].contract, pass[p].intent, op) /\ End(p, "told", op)
  BY DEF FindAnother, FindEnded, At
<1>2. RecordKept /\ RecordFits' /\ NothingExecuted' /\ HooksSeeRecordedIntent'
  BY <1>1, RecordUntouched
<1> QED BY <1>1, <1>2, CallEnds

\* The intent that hooks are given is the recorded one, also when it is the caller's object.
LEMMA ActingIntentIsRecorded ==
  ASSUME IdentityInvariant, NEW p \in Passes, At(p, "read"), op # NoRecord,
         SameOperation(pass[p].contract, pass[p].intent, op)
  PROVE  /\ IsRecorded(Custom(pass[p].contract), ActingIntent(p), op.intent)
         /\ ActingIntent(p) \in Acting
<1>1. /\ pass[p].contract \in Contracts /\ pass[p].intent \in Intents
      /\ Storable(pass[p].contract, pass[p].intent)
  BY CallFields DEF IdentityInvariant, FirstCallFits, At
<1>2. CASE Custom(pass[p].contract) = TRUE
  <2>1. ActingIntent(p) = Parsed(op.intent)
    BY <1>2 DEF ActingIntent
  <2>2. Parsed(op.intent) \in Acting
    BY RecordFields DEF IdentityInvariant
  <2> QED BY <1>2, <2>1, <2>2, ParsedIsRecorded
<1>3. CASE Custom(pass[p].contract) = FALSE
  <2>1. Canonical(Json(pass[p].intent)) = Canonical(op.intent)
    BY <1>1, <1>3, FingerprintsTell DEF SameOperation
  <2>2. ActingIntent(p) = Seen(pass[p].intent)
    BY <1>3 DEF ActingIntent
  <2>3. IsRecorded(FALSE, ActingIntent(p), Json(pass[p].intent)) /\ ActingIntent(p) \in Acting
    BY <1>1, <1>3, <2>2, StorableIsRecorded, IntentFields
  <2>4. IsRecorded(FALSE, ActingIntent(p), op.intent)
    BY <2>1, <2>3, RecordedAlike
  <2> QED BY <1>3, <2>3, <2>4
<1>4. Custom(pass[p].contract) \in BOOLEAN
  BY DEF Custom
<1> QED BY <1>2, <1>3, <1>4

LEMMA FirstIntentIsRecorded ==
  ASSUME IdentityInvariant, NEW p \in Passes, At(p, "authorize")
  PROVE  /\ IsRecorded(Custom(pass[p].contract), FirstIntent(p), Json(pass[p].intent))
         /\ FirstIntent(p) \in Acting
<1>1. /\ pass[p].contract \in Contracts /\ pass[p].intent \in Intents
      /\ Storable(pass[p].contract, pass[p].intent)
  BY CallFields DEF IdentityInvariant, FirstCallFits, At
<1>2. CASE Custom(pass[p].contract) = TRUE
  <2>1. FirstIntent(p) = Parsed(Json(pass[p].intent))
    BY <1>2 DEF FirstIntent
  <2> QED BY <1>1, <1>2, <2>1, ParsedIsRecorded, IntentFields
<1>3. CASE Custom(pass[p].contract) = FALSE
  <2>1. FirstIntent(p) = Seen(pass[p].intent)
    BY <1>3 DEF FirstIntent
  <2> QED BY <1>1, <1>3, <2>1, StorableIsRecorded, IntentFields
<1>4. Custom(pass[p].contract) \in BOOLEAN
  BY DEF Custom
<1> QED BY <1>2, <1>3, <1>4

LEMMA AfterFindOpen ==
  ASSUME IdentityInvariant, NEW p \in Passes, FindOpen(p)
  PROVE  IdentityInvariant'
<1> DEFINE s == [pc |-> "reserve", contract |-> pass[p].contract, intent |-> pass[p].intent,
                 rec |-> op, acting |-> ActingIntent(p)]
<1>1. /\ At(p, "read") /\ op # NoRecord /\ Become(p, s)
      /\ SameOperation(pass[p].contract, pass[p].intent, op)
      /\ UNCHANGED <<op, lock, executed, faults>>
  BY DEF FindOpen
<1>2. IsRecorded(Custom(pass[p].contract), ActingIntent(p), op.intent) /\ ActingIntent(p) \in Acting
  BY <1>1, ActingIntentIsRecorded
<1>3. s \in CallState
  <2>1. op \in Record
    BY <1>1, RecordFields DEF IdentityInvariant
  <2>2. pass[p].contract \in Contracts /\ pass[p].intent \in Intents
    BY <1>1, CallFields DEF IdentityInvariant, At
  <2> QED BY <1>2, <2>1, <2>2 DEF CallState
<1>4. pass'[p] = s
  BY <1>1, <1>3, Becomes DEF IdentityInvariant
<1>5. FirstCallFits(p)' /\ AttemptFits(p)' /\ AnswerFits(p)'
  BY <1>1, <1>2, <1>4 DEF FirstCallFits, AttemptFits, AnswerFits, At
<1>6. lock' \in Passes \cup {NoPass} /\ faults' \in Nat
  BY <1>1 DEF IdentityInvariant, TypeOK
<1> QED BY <1>1, <1>3, <1>5, <1>6, CallMovesQuietly

LEMMA AfterAuthorize ==
  ASSUME IdentityInvariant, NEW p \in Passes, Authorize(p)
  PROVE  IdentityInvariant'
<1>1. PICK status \in {"OPEN", "AWAITING_REVIEW"} :
        Become(p, [pc |-> "create", contract |-> pass[p].contract, intent |-> pass[p].intent,
                   rec |-> NoRecord, acting |-> FirstIntent(p), status |-> status])
  BY DEF Authorize
<1> DEFINE s == [pc |-> "create", contract |-> pass[p].contract, intent |-> pass[p].intent,
                 rec |-> NoRecord, acting |-> FirstIntent(p), status |-> status]
<1>2. /\ pass[p].contract \in Contracts /\ pass[p].intent \in Intents
      /\ Storable(pass[p].contract, pass[p].intent)
  BY CallFields DEF IdentityInvariant, FirstCallFits, At, Authorize
<1>3. /\ IsRecorded(Custom(pass[p].contract), FirstIntent(p), Json(pass[p].intent))
      /\ FirstIntent(p) \in Acting
  BY FirstIntentIsRecorded DEF Authorize
<1>4. s \in CallState
  BY <1>2, <1>3 DEF CallState
<1>5. pass'[p] = s
  BY <1>1, <1>4, Becomes DEF IdentityInvariant
<1>6. FirstCallFits(p)' /\ AttemptFits(p)' /\ AnswerFits(p)'
  BY <1>2, <1>3, <1>5 DEF FirstCallFits, AttemptFits, AnswerFits, At
<1>7. lock' \in Passes \cup {NoPass} /\ faults' \in Nat /\ UNCHANGED <<op, executed>>
  BY DEF Authorize, IdentityInvariant, TypeOK
<1> QED BY <1>1, <1>4, <1>6, <1>7, CallMovesQuietly

\* The record of a first call is the call's own.
LEMMA CreatedRecord ==
  ASSUME IdentityInvariant, NEW p \in Passes, Create(p)
  PROVE  /\ op' \in Record /\ RecordKept
         /\ SameOperation(pass[p].contract, pass[p].intent, op')
         /\ IsRecorded(Custom(pass[p].contract), pass[p].acting, op'.intent)
         /\ RecordFits' /\ NothingExecuted' /\ HooksSeeRecordedIntent'
<1>1. PICK order \in {pass[p].intent.order, 0} :
        op' = [version |-> 0, type |-> pass[p].contract.type, status |-> pass[p].status,
               intent |-> [Json(pass[p].intent) EXCEPT !.order = order],
               created |-> [contract |-> pass[p].contract, intent |-> pass[p].intent,
                            authorized |-> pass[p].acting]]
  BY DEF Create
<1> DEFINE stored == [Json(pass[p].intent) EXCEPT !.order = order]
<1>2. At(p, "create") /\ op = NoRecord /\ executed' = executed
  BY DEF Create
<1>3. /\ pass[p].contract \in Contracts /\ pass[p].intent \in Intents
      /\ pass[p].acting \in Acting /\ pass[p].status \in {"OPEN", "AWAITING_REVIEW"}
      /\ IsRecorded(Custom(pass[p].contract), pass[p].acting, Json(pass[p].intent))
  BY <1>2, CallFields DEF IdentityInvariant, FirstCallFits, At
<1>4. order \in Orders
  BY <1>3, IntentFields DEF Orders
<1>5. /\ stored = [effect |-> Json(pass[p].intent).effect, note |-> Json(pass[p].intent).note,
                   order |-> order]
      /\ Json(pass[p].intent) \in Stored
  BY <1>3, IntentFields DEF Json
<1>6. stored \in Stored /\ Canonical(stored) = Canonical(Json(pass[p].intent))
  BY <1>4, <1>5 DEF Stored, Canonical
<1> HIDE DEF stored
<1>7. /\ op'.type = pass[p].contract.type /\ op'.intent = stored
      /\ op'.created = [contract |-> pass[p].contract, intent |-> pass[p].intent,
                        authorized |-> pass[p].acting]
  BY <1>1 DEF stored
<1>8. op' \in Record
  <2>1. op' = [version |-> 0, type |-> pass[p].contract.type, status |-> pass[p].status,
               intent |-> stored,
               created |-> [contract |-> pass[p].contract, intent |-> pass[p].intent,
                            authorized |-> pass[p].acting]]
    BY <1>1 DEF stored
  <2>2. pass[p].contract.type \in Types
    BY <1>3 DEF Types
  <2> QED BY <1>3, <1>6, <2>1, <2>2 DEF Record
<1>9. SameOperation(pass[p].contract, pass[p].intent, op')
  BY <1>6, <1>7, FingerprintsIgnoreOrder DEF SameOperation
<1>10. RecordFits'
  BY <1>3, <1>6, <1>7, IntentFields DEF RecordFits
<1>11. IsRecorded(Custom(pass[p].contract), pass[p].acting, op'.intent)
  BY <1>3, <1>6, <1>7, RecordedAlike
<1>12. NothingExecuted' /\ HooksSeeRecordedIntent'
  <2>1. executed' = {}
    BY <1>2 DEF IdentityInvariant, NothingExecuted
  <2> QED BY <1>7, <1>11, <2>1 DEF NothingExecuted, HooksSeeRecordedIntent
<1> QED BY <1>2, <1>8, <1>9, <1>10, <1>11, <1>12 DEF RecordKept

LEMMA AfterCreate ==
  ASSUME IdentityInvariant, NEW p \in Passes, Create(p)
  PROVE  IdentityInvariant'
<1>1. /\ op' \in Record /\ RecordKept
      /\ SameOperation(pass[p].contract, pass[p].intent, op')
      /\ IsRecorded(Custom(pass[p].contract), pass[p].acting, op'.intent)
      /\ RecordFits' /\ NothingExecuted' /\ HooksSeeRecordedIntent'
  BY CreatedRecord
<1>2. op' # NoRecord
  BY <1>1, RecordNotMissing
<1>3. At(p, "create") /\ UNCHANGED <<executed, faults>>
  BY DEF Create
<1>4. CASE pass[p].status = "OPEN"
  <2> DEFINE s == [pc |-> "reserve", contract |-> pass[p].contract, intent |-> pass[p].intent,
                   rec |-> op', acting |-> pass[p].acting]
  <2>1. Become(p, s) /\ UNCHANGED lock
    BY <1>4 DEF Create
  <2>2. s \in CallState
    <3>1. /\ pass[p].contract \in Contracts /\ pass[p].intent \in Intents
          /\ pass[p].acting \in Acting
      BY <1>3, CallFields DEF IdentityInvariant, At
    <3> QED BY <1>1, <3>1 DEF CallState
  <2>3. pass'[p] = s
    BY <2>1, <2>2, Becomes DEF IdentityInvariant
  <2>4. FirstCallFits(p)' /\ AttemptFits(p)' /\ AnswerFits(p)'
    BY <1>1, <1>2, <2>3 DEF FirstCallFits, AttemptFits, AnswerFits, At
  <2>5. lock' \in Passes \cup {NoPass} /\ faults' \in Nat /\ executed' \subseteq Executions
    BY <1>3, <2>1 DEF IdentityInvariant, TypeOK
  <2> QED BY <1>1, <2>1, <2>2, <2>4, <2>5, CallMoves
<1>5. CASE pass[p].status # "OPEN"
  <2>1. End(p, "told", op')
    BY <1>5 DEF Create
  <2>2. pass[p].pc # "idle"
    BY <1>3 DEF At
  <2> QED BY <1>1, <1>2, <1>3, <2>1, <2>2, CallEnds
<1> QED BY <1>4, <1>5

LEMMA AfterReserve ==
  ASSUME IdentityInvariant, NEW p \in Passes, Reserve(p)
  PROVE  IdentityInvariant'
<1>0. PICK s : s = [pass[p] EXCEPT !.pc = "execute", !.rec = op']
  OBVIOUS
<1>1. At(p, "reserve") /\ Become(p, s) /\ UNCHANGED <<lock, executed, faults>>
  BY <1>0 DEF Reserve
<1>2. /\ op # NoRecord
      /\ IsRecorded(Custom(pass[p].contract), pass[p].acting, op.intent)
      /\ SameOperation(pass[p].contract, pass[p].intent, op)
  BY <1>1 DEF IdentityInvariant, AttemptFits, At
<1>3. Rewrites
  <2>1. op \in Record
    BY <1>2, RecordFields DEF IdentityInvariant
  <2>2. op.status \in {"OPEN", "AWAITING_REVIEW", "CLOSED"}
    BY <2>1 DEF Record
  <2>3. op' = [op EXCEPT !.version = @ + 1, !.status = op.status]
    <3>1. op = [version |-> op.version, type |-> op.type, status |-> op.status,
                intent |-> op.intent, created |-> op.created]
      BY <2>1 DEF Record
    <3>2. op' = [op EXCEPT !.version = op.version + 1]
      BY DEF Reserve
    <3>3. [op EXCEPT !.version = op.version + 1, !.status = op.status]
            = [op EXCEPT !.version = op.version + 1]
      BY <3>1, Reserved
    <3> QED BY <3>2, <3>3
  <2> QED BY <2>2, <2>3 DEF Rewrites
<1>4. RecordKept /\ op' \in Record /\ RecordFits' /\ NothingExecuted' /\ HooksSeeRecordedIntent'
  BY <1>1, <1>2, <1>3, RecordRewritten
<1>5. /\ pass[p].contract \in Contracts /\ pass[p].intent \in Intents /\ pass[p].acting \in Acting
      /\ s = [pc |-> "execute", contract |-> pass[p].contract, intent |-> pass[p].intent,
              rec |-> op', acting |-> pass[p].acting]
  <2>1. /\ pass[p] = [pc |-> pass[p].pc, contract |-> pass[p].contract,
                      intent |-> pass[p].intent, rec |-> pass[p].rec, acting |-> pass[p].acting]
        /\ pass[p].contract \in Contracts /\ pass[p].intent \in Intents /\ pass[p].acting \in Acting
    BY <1>1, CallFields DEF IdentityInvariant, At
  <2> QED BY <1>0, <2>1, Executing
<1>6. s \in CallState
  BY <1>4, <1>5 DEF CallState
<1>7. pass'[p] = s
  BY <1>1, <1>6, Becomes DEF IdentityInvariant
<1>8. /\ op' # NoRecord /\ op'.intent = op.intent
      /\ SameOperation(pass[p].contract, pass[p].intent, op')
  BY <1>2, <1>4, SameRecordSameOperation DEF RecordKept
<1>9. /\ s.pc = "execute" /\ s.contract = pass[p].contract /\ s.intent = pass[p].intent
      /\ s.acting = pass[p].acting
  BY <1>5
<1>10. FirstCallFits(p)' /\ AttemptFits(p)' /\ AnswerFits(p)'
  BY <1>2, <1>7, <1>8, <1>9 DEF FirstCallFits, AttemptFits, AnswerFits, At
<1>11. lock' \in Passes \cup {NoPass} /\ faults' \in Nat /\ executed' \subseteq Executions
  BY <1>1 DEF IdentityInvariant, TypeOK
<1> QED BY <1>1, <1>4, <1>6, <1>10, <1>11, CallMoves

LEMMA AfterExecute ==
  ASSUME IdentityInvariant, NEW p \in Passes, Execute(p)
  PROVE  IdentityInvariant'
<1> DEFINE s == [pass[p] EXCEPT !.pc = "resolve"]
<1>1. /\ At(p, "execute") /\ Become(p, s) /\ UNCHANGED <<op, lock, faults>>
      /\ executed' = executed \cup {Given(pass[p].contract, pass[p].acting)}
  BY DEF Execute, Goto
<1>2. /\ op # NoRecord
      /\ IsRecorded(Custom(pass[p].contract), pass[p].acting, op.intent)
      /\ SameOperation(pass[p].contract, pass[p].intent, op)
  BY <1>1 DEF IdentityInvariant, AttemptFits, At
<1>3. /\ pass[p].contract \in Contracts /\ pass[p].intent \in Intents /\ pass[p].acting \in Acting
      /\ pass[p].rec \in Record
      /\ s = [pc |-> "resolve", contract |-> pass[p].contract, intent |-> pass[p].intent,
              rec |-> pass[p].rec, acting |-> pass[p].acting]
  <2>1. /\ pass[p] = [pc |-> pass[p].pc, contract |-> pass[p].contract,
                      intent |-> pass[p].intent, rec |-> pass[p].rec, acting |-> pass[p].acting]
        /\ pass[p].contract \in Contracts /\ pass[p].intent \in Intents /\ pass[p].acting \in Acting
        /\ pass[p].rec \in Record
    BY <1>1, CallFields DEF IdentityInvariant, At
  <2> QED BY <2>1
<1>4. s \in CallState
  BY <1>3 DEF CallState
<1>5. pass'[p] = s
  BY <1>1, <1>4, Becomes DEF IdentityInvariant
<1> HIDE DEF s
<1>6. /\ s.pc = "resolve" /\ s.contract = pass[p].contract /\ s.intent = pass[p].intent
      /\ s.acting = pass[p].acting
  BY <1>3
<1>7. FirstCallFits(p)' /\ AttemptFits(p)' /\ AnswerFits(p)'
  BY <1>1, <1>2, <1>5, <1>6 DEF FirstCallFits, AttemptFits, AnswerFits, At
<1>8. RecordKept /\ RecordFits'
  BY <1>1 DEF RecordKept, RecordFits, IdentityInvariant, TypeOK
<1> DEFINE e == Given(pass[p].contract, pass[p].acting)
<1>9. NothingExecuted' /\ HooksSeeRecordedIntent'
  <2>1. e.custom = Custom(pass[p].contract) /\ e.intent = pass[p].acting
    BY DEF Given
  <2>2. executed' = executed \cup {e}
    BY <1>1
  <2> HIDE DEF e
  <2>3. IsRecorded(e.custom, e.intent, op.intent)
    BY <1>2, <2>1
  <2> QED BY <1>1, <1>2, <2>2, <2>3 DEF IdentityInvariant, NothingExecuted, HooksSeeRecordedIntent
<1>10. lock' \in Passes \cup {NoPass} /\ faults' \in Nat /\ executed' \subseteq Executions
  <2>1. e \in Executions
    BY <1>3 DEF Given, Custom, Executions
  <2> QED BY <1>1, <2>1 DEF IdentityInvariant, TypeOK
<1> QED BY <1>1, <1>4, <1>7, <1>8, <1>9, <1>10, CallMoves DEF s

LEMMA AfterResolve ==
  ASSUME IdentityInvariant, NEW p \in Passes, Resolve(p)
  PROVE  IdentityInvariant'
<1>1. At(p, "resolve") /\ End(p, "told", op') /\ UNCHANGED <<executed, faults>>
  BY DEF Resolve
<1>2. op # NoRecord /\ SameOperation(pass[p].contract, pass[p].intent, op)
  BY <1>1 DEF IdentityInvariant, AttemptFits, At
<1>3. Rewrites
  BY DEF Resolve, Rewrites
<1>4. RecordKept /\ op' \in Record /\ RecordFits' /\ NothingExecuted' /\ HooksSeeRecordedIntent'
  BY <1>1, <1>2, <1>3, RecordRewritten
<1>5. op' # NoRecord /\ SameOperation(pass[p].contract, pass[p].intent, op')
  BY <1>2, <1>4, SameRecordSameOperation DEF RecordKept
<1>6. pass[p].pc # "idle"
  BY <1>1 DEF At
<1> QED BY <1>1, <1>4, <1>5, <1>6, CallEnds

\* Steps after which no call knows more than it did.
LEMMA AfterApprove ==
  ASSUME IdentityInvariant, Approve
  PROVE  IdentityInvariant'
<1>1. op # NoRecord /\ UNCHANGED <<lock, pass, executed, faults>>
  BY DEF Approve
<1>2. Rewrites
  BY DEF Approve, Rewrites
<1>3. RecordKept /\ op' \in Record /\ RecordFits' /\ NothingExecuted' /\ HooksSeeRecordedIntent'
  BY <1>1, <1>2, RecordRewritten
<1>4. TypeOK'
  BY <1>1, <1>3 DEF IdentityInvariant, TypeOK
<1>5. \A q \in Passes : FirstCallFits(q)' /\ AttemptFits(q)' /\ AnswerFits(q)'
  BY <1>1, <1>3, OthersKeep
<1> QED BY <1>3, <1>4, <1>5 DEF IdentityInvariant

LEMMA AfterLoseLock ==
  ASSUME IdentityInvariant, NEW p \in Passes, LoseLock(p)
  PROVE  IdentityInvariant'
<1>1. UNCHANGED <<op, pass, executed>> /\ lock' = NoPass /\ faults' = faults + 1
  BY DEF LoseLock
<1>2. RecordKept /\ RecordFits' /\ NothingExecuted' /\ HooksSeeRecordedIntent'
  BY <1>1, RecordUntouched
<1>3. TypeOK'
  BY <1>1 DEF IdentityInvariant, TypeOK
<1>4. \A q \in Passes : FirstCallFits(q)' /\ AttemptFits(q)' /\ AnswerFits(q)'
  BY <1>1, <1>2, OthersKeep
<1> QED BY <1>2, <1>3, <1>4 DEF IdentityInvariant

LEMMA AfterCrash ==
  ASSUME IdentityInvariant, NEW p \in Passes, Crash(p)
  PROVE  IdentityInvariant'
<1>1. /\ Become(p, AnyCall) /\ UNCHANGED <<op, executed>> /\ faults' = faults + 1
      /\ lock' = IF lock = p THEN NoPass ELSE lock
  BY DEF Crash
<1>2. AnyCall \in CallState
  BY DEF AnyCall, CallState
<1>3. pass'[p] = AnyCall
  BY <1>1, <1>2, Becomes DEF IdentityInvariant
<1>4. FirstCallFits(p)' /\ AttemptFits(p)' /\ AnswerFits(p)'
  BY <1>3 DEF AnyCall, FirstCallFits, AttemptFits, AnswerFits, At
<1>5. lock' \in Passes \cup {NoPass} /\ faults' \in Nat
  BY <1>1 DEF IdentityInvariant, TypeOK
<1> QED BY <1>1, <1>2, <1>4, <1>5, CallMovesQuietly

-----------------------------------------------------------------------------
(* Theorems *)

LEMMA IdentityInit == Init => IdentityInvariant
<1> SUFFICES ASSUME Init PROVE IdentityInvariant
  OBVIOUS
<1>1. /\ op = NoRecord /\ lock = NoPass /\ executed = {} /\ faults = 0
      /\ pass = [p \in Passes |-> AnyCall] /\ AnyCall \in CallState
  BY DEF Init, AnyCall, CallState
<1>2. TypeOK
  BY <1>1 DEF TypeOK
<1>3. HooksSeeRecordedIntent /\ RecordFits /\ NothingExecuted
  BY <1>1 DEF HooksSeeRecordedIntent, RecordFits, NothingExecuted
<1>4. \A p \in Passes : pass[p].pc = "idle"
  BY <1>1 DEF AnyCall
<1>5. \A p \in Passes : FirstCallFits(p) /\ AttemptFits(p) /\ AnswerFits(p)
  BY <1>4 DEF FirstCallFits, AttemptFits, AnswerFits, At
<1> QED BY <1>2, <1>3, <1>5 DEF IdentityInvariant

LEMMA IdentityStep == IdentityInvariant /\ [Next]_vars => IdentityInvariant'
<1> SUFFICES ASSUME IdentityInvariant, [Next]_vars PROVE IdentityInvariant'
  OBVIOUS
<1>1. CASE UNCHANGED vars
  <2>1. RecordKept /\ RecordFits' /\ NothingExecuted' /\ HooksSeeRecordedIntent'
    BY <1>1, RecordUntouched DEF vars
  <2>2. TypeOK'
    BY <1>1 DEF IdentityInvariant, TypeOK, vars
  <2>3. \A q \in Passes : FirstCallFits(q)' /\ AttemptFits(q)' /\ AnswerFits(q)'
    BY <1>1, <2>1, OthersKeep DEF vars
  <2> QED BY <2>1, <2>2, <2>3 DEF IdentityInvariant
<1>2. CASE Approve
  BY <1>2, AfterApprove
<1>3. ASSUME NEW p \in Passes,
             \/ Begin(p) \/ LoseRace(p) \/ AcquireLock(p)
             \/ FindNothing(p) \/ FindAnother(p) \/ FindEnded(p) \/ FindOpen(p)
             \/ Authorize(p) \/ Create(p) \/ Reserve(p) \/ Execute(p) \/ Resolve(p)
             \/ Conflict(p) \/ Crash(p) \/ LoseLock(p)
      PROVE  IdentityInvariant'
  BY <1>3, AfterBegin, AfterTelling, AfterMoving, AfterFinding, AfterFindOpen, AfterAuthorize,
     AfterCreate, AfterReserve, AfterExecute, AfterResolve, AfterCrash, AfterLoseLock
<1> QED BY <1>1, <1>2, <1>3 DEF Next

\* Whatever callers, contracts, intents and deploys meet on one identity: every call fits the
\* one record there is, and what is executed is what the record holds.
THEOREM IdentityInvariantHolds == Spec => []IdentityInvariant
  BY IdentityInit, IdentityStep, PTL DEF Spec

\* runEffect: what authorize() was asked about, and what execute() is given, is the recorded
\* intent.
THEOREM HooksSeeRecordedIntentAlways == Spec => []HooksSeeRecordedIntent
<1>1. IdentityInvariant => HooksSeeRecordedIntent
  BY DEF IdentityInvariant
<1> QED BY <1>1, IdentityInvariantHolds, PTL

\* What JSON stores identically, under the same contract, is the same operation.
LEMMA SameDataSameOperation ==
  ASSUME IdentityInvariant, op # NoRecord, NEW c, NEW i \in Intents, c = op.created.contract,
         Kept(i) = Kept(op.created.intent)
  PROVE  SameOperation(c, i, op)
<1>1. Canonical(op.intent) = Kept(op.created.intent) /\ op.type = c.type
  BY DEF IdentityInvariant, RecordFits
<1>2. Canonical(Json(i)) = Canonical(op.intent)
  BY <1>1, IntentFields
<1> QED BY <1>1, <1>2, FingerprintsIgnoreOrder DEF SameOperation

\* assertSameLogicalOperation: no one who repeats the call that created the record is refused.
THEOREM ResendAcceptedAlways == Spec => []ResendAccepted
<1>1. IdentityInvariant => ResendAccepted
  <2> SUFFICES ASSUME IdentityInvariant, NEW p \in Passes, At(p, "told"),
                      pass[p].answer = "refused",
                      pass[p].contract = pass[p].rec.created.contract,
                      Kept(pass[p].intent) = Kept(pass[p].rec.created.intent)
               PROVE  FALSE
    BY DEF ResendAccepted
  <2>1. /\ op # NoRecord /\ pass[p].rec.created = op.created
        /\ ~SameOperation(pass[p].contract, pass[p].intent, op)
    BY DEF IdentityInvariant, AnswerFits
  <2>2. pass[p].intent \in Intents
    BY CallFields DEF IdentityInvariant, At
  <2> QED BY <2>1, <2>2, SameDataSameOperation
<1> QED BY <1>1, IdentityInvariantHolds, PTL

\* An operation and a request that are the same ask for the same effect.
LEMMA OwnIsNotAnother ==
  ASSUME NEW c \in Contracts, NEW i, NEW r, SameOperation(c, i, r)
  PROVE  r.type = c.type /\ r.intent.effect = i.effect
<1>1. r.type = c.type /\ r.intent.effect = Json(i).effect
  BY FingerprintsTell DEF SameOperation
<1> QED BY <1>1 DEF Json

LEMMA OwnAfterwards ==
  ASSUME TypeOK', NEW p \in Passes, pass'[p].pc # "idle",
         SameOperation(pass'[p].contract, pass'[p].intent, op')
  PROVE  ~AsksForAnother(p)'
<1>1. pass'[p] \in CallState
  BY DEF TypeOK
<1>2. pass'[p].contract \in Contracts
  BY <1>1 DEF CallState
<1> QED BY <1>2, OwnIsNotAnother DEF AsksForAnother

\* The steps that write or execute leave a call that is still of the recorded operation.
LEMMA WritersOwn ==
  ASSUME IdentityInvariant, IdentityInvariant', NEW p \in Passes,
         Reserve(p) \/ Execute(p) \/ Resolve(p)
  PROVE  ~AsksForAnother(p)'
<1>1. CASE Reserve(p) \/ Execute(p)
  <2>1. pass[p].pc \in {"reserve", "execute"}
    BY <1>1 DEF Reserve, Execute, At
  <2>2. pass[p] = [pc |-> pass[p].pc, contract |-> pass[p].contract, intent |-> pass[p].intent,
                   rec |-> pass[p].rec, acting |-> pass[p].acting]
    BY <2>1, CallFields DEF IdentityInvariant
  <2>3. pass'[p].pc \in {"execute", "resolve"}
    <3>1. pass \in [Passes -> CallState]
      BY DEF IdentityInvariant, TypeOK
    <3>2. CASE Reserve(p)
      BY <2>2, <3>1, <3>2 DEF Reserve, Become
    <3>3. CASE Execute(p)
      BY <2>2, <3>1, <3>3 DEF Execute, Goto, Become
    <3> QED BY <1>1, <3>2, <3>3
  <2>4. SameOperation(pass'[p].contract, pass'[p].intent, op')
    BY <2>3 DEF IdentityInvariant, AttemptFits
  <2> QED BY <2>3, <2>4, OwnAfterwards DEF IdentityInvariant
<1>2. CASE Resolve(p)
  <2>1. pass'[p].pc = "told" /\ pass'[p].answer = "told"
    <3>1. pass \in [Passes -> CallState]
      BY DEF IdentityInvariant, TypeOK
    <3> QED BY <1>2, <3>1 DEF Resolve, End, Become
  <2>2. SameOperation(pass'[p].contract, pass'[p].intent, op')
    BY <2>1 DEF IdentityInvariant, AnswerFits, At
  <2> QED BY <2>1, <2>2, OwnAfterwards DEF IdentityInvariant
<1> QED BY <1>1, <1>2

\* Every other step of a call that finds a record writes and executes nothing.
LEMMA OthersWriteNothing ==
  ASSUME IdentityInvariant, [Next]_vars, NEW p \in Passes, pass'[p] # pass[p], op # NoRecord
  PROVE  \/ UNCHANGED <<op, executed>>
         \/ Reserve(p) \/ Execute(p) \/ Resolve(p)
<1>1. pass \in [Passes -> CallState]
  BY DEF IdentityInvariant, TypeOK
<1>2. CASE UNCHANGED vars
  BY <1>2 DEF vars
<1>3. CASE Approve
  BY <1>3 DEF Approve
<1>4. ASSUME NEW q \in Passes, LoseLock(q)
      PROVE  FALSE
  BY <1>4 DEF LoseLock
<1>5. ASSUME NEW q \in Passes,
             \/ Begin(q) \/ LoseRace(q) \/ AcquireLock(q)
             \/ FindNothing(q) \/ FindAnother(q) \/ FindEnded(q) \/ FindOpen(q)
             \/ Authorize(q) \/ Create(q) \/ Conflict(q) \/ Crash(q)
      PROVE  UNCHANGED <<op, executed>>
  BY <1>5 DEF Begin, LoseRace, AcquireLock, FindNothing, FindAnother, FindEnded, FindOpen,
              Authorize, Create, Conflict, Crash
<1>6. ASSUME NEW q \in Passes, Reserve(q) \/ Execute(q) \/ Resolve(q)
      PROVE  q = p
  <2>1. \E s : Become(q, s)
    BY <1>6 DEF Reserve, Execute, Resolve, Goto, End
  <2> QED BY <1>1, <2>1 DEF Become
<1> QED BY <1>2, <1>3, <1>4, <1>5, <1>6 DEF Next

\* A call for another effect, or of another type, never writes, executes or is told the
\* recorded operation's outcome.
THEOREM OnlyOwnOperationAlways == Spec => OnlyOwnOperation
<1> DEFINE Own ==
      \A p \in Passes :
        (pass'[p] # pass[p] /\ AsksForAnother(p)')
          => /\ op # NoRecord => UNCHANGED <<op, executed>>
             /\ ~(At(p, "told")' /\ pass'[p].answer = "told")
<1>1. IdentityInvariant /\ IdentityInvariant' /\ [Next]_vars => [Own]_vars
  <2> SUFFICES ASSUME IdentityInvariant, IdentityInvariant', [Next]_vars,
                      NEW p \in Passes, pass'[p] # pass[p], AsksForAnother(p)'
               PROVE  /\ op # NoRecord => UNCHANGED <<op, executed>>
                      /\ ~(At(p, "told")' /\ pass'[p].answer = "told")
    OBVIOUS
  <2>1. op # NoRecord => UNCHANGED <<op, executed>>
    BY OthersWriteNothing, WritersOwn
  <2>2. ASSUME At(p, "told")', pass'[p].answer = "told"
        PROVE  FALSE
    <3>1. pass'[p].pc # "idle" /\ SameOperation(pass'[p].contract, pass'[p].intent, op')
      BY <2>2 DEF IdentityInvariant, AnswerFits, At
    <3> QED BY <3>1, OwnAfterwards DEF IdentityInvariant
  <2> QED BY <2>1, <2>2
<1> QED BY <1>1, IdentityInvariantHolds, PTL DEF Spec, OnlyOwnOperation

=============================================================================
