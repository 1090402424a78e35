----------------------------- MODULE FakeLedger -----------------------------
(***************************************************************************)
(* The fake the conformance harness drives (examples/conformance/          *)
(* fake-ledger.ts): a ledger that takes a credit once for every write, and *)
(* one fault for the next write or read.  And the contracts that are run   *)
(* against it: the correct one, and the broken ones of the harness' tests. *)
(***************************************************************************)
EXTENDS EffectRecord

CONSTANT Ops

Modes == {"normal", "loseResponse", "loseRequest", "hold", "pending"}

\* reset().  held: the operation whose write was held back, "none" if none was.
Reset == [applied |-> [o \in Ops |-> 0], pending |-> [o \in Ops |-> FALSE],
          mode |-> "normal", held |-> "none", failRead |-> FALSE]

Apply(t, o) == [t EXCEPT !.applied[o] = @ + 1]

\* write(): the next target, and whether the call got a response.
Write(t, o) ==
  LET u == [t EXCEPT !.mode = "normal"]
  IN  CASE t.mode = "loseRequest"  -> [target |-> u, ok |-> FALSE]
        [] t.mode = "hold"         -> [target |-> [u EXCEPT !.held = o], ok |-> FALSE]
        [] t.mode = "pending"      -> [target |-> [u EXCEPT !.pending[o] = TRUE], ok |-> TRUE]
        [] t.mode = "loseResponse" -> [target |-> Apply(u, o), ok |-> FALSE]
        [] t.mode = "normal"       -> [target |-> Apply(u, o), ok |-> TRUE]

\* The functions holdCommit() and acceptAsPending() return.
Land(t) == IF t.held = "none" THEN t ELSE Apply(t, t.held)
Settle(t) == [t EXCEPT !.applied = [o \in Ops |-> @[o] + (IF t.pending[o] THEN 1 ELSE 0)],
                       !.pending = [o \in Ops |-> FALSE]]
Reject(t) == [t EXCEPT !.pending = [o \in Ops |-> FALSE]]

-----------------------------------------------------------------------------
(* The contracts.  Every field but the policy has one good value: window may be any that is
   no shorter than the target is late. *)
Contract ==
  [window : Times, retryOnNotApplied : BOOLEAN, maxAttempts : Nat,
   scope : {"own", "all"},                  \* what observe() reads
   onFailedRead : EvidenceStates,           \* reconcile(): UNKNOWN is right
   onPending : EvidenceStates,              \* PENDING is right
   trusts : {"observation", "transport"},   \* what reconcile() decides from
   cautious : BOOLEAN,                      \* UNKNOWN for an absent effect after a failed write
   writes : {"once", "twice", "untilAnswered"},  \* what execute() does
   tells : BOOLEAN]                         \* whether the fingerprint tells two intents apart

\* execute()
Execute(c, t, o) ==
  LET first == Write(t, o)
  IN  IF c.writes = (IF first.ok THEN "twice" ELSE "untilAnswered")
      THEN Write(first.target, o) ELSE first

\* observe(): what is read, and the target after it.
Observe(c, t, o) ==
  LET read == IF c.scope = "own" THEN {o} ELSE Ops
  IN  [target |-> [t EXCEPT !.failRead = FALSE],
       seen   |-> [failed  |-> t.failRead,
                   pending |-> \E p \in read : t.pending[p],
                   applied |-> IF c.scope = "own" THEN t.applied[o]
                               ELSE IF \E p \in Ops : t.applied[p] > 0 THEN 1 ELSE 0]]

\* reconcile()
Reconcile(c, ok, seen) ==
  CASE c.trusts = "transport" -> IF ok THEN "APPLIED" ELSE "NOT_APPLIED"
    [] c.trusts # "transport" /\ seen.failed -> c.onFailedRead
    [] c.trusts # "transport" /\ ~seen.failed /\ seen.pending -> c.onPending
    [] OTHER -> CASE seen.applied = 0 -> IF c.cautious /\ ~ok THEN "UNKNOWN" ELSE "NOT_APPLIED"
                  [] seen.applied = 1 -> "APPLIED"
                  [] OTHER            -> "CONFLICTED"

=============================================================================
