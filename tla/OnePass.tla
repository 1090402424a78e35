------------------------------ MODULE OnePass ------------------------------
(***************************************************************************)
(* What one pass of runEffect() (src/core/runtime.ts) does next with the   *)
(* record it read, for operations that no check and no other deploy gets   *)
(* in the way of: the part of RunEffect that contracts and harnesses see.  *)
(***************************************************************************)
EXTENDS EffectRecord

\* A retry that may not go yet.
Delayed(r, now) ==
  /\ r.attempts # << >>
  /\ Latest(r).retryNotBefore # NoTime
  /\ now < Latest(r).retryNotBefore

\* continueOpen, and what comes before it: nothing to do, create the record, make an attempt,
\* or observe the latest one again.
NextStep(r, now) ==
  CASE r.status = "NONE" -> "create"
    [] r.status \in {"CLOSED", "AWAITING_REVIEW"} -> "idle"
    [] r.status = "OPEN" ->
         IF r.attempts = << >> THEN "reserve"
         ELSE IF Latest(r).status = "RESERVED" \/ Latest(r).evidence = "PENDING" THEN "observe"
         ELSE IF Latest(r).ok THEN "reserve"
         ELSE IF Delayed(r, now) THEN "idle" ELSE "observe"

\* resolveAttempt, for the latest attempt.
ResolvedRecord(r, ok, evidence, policy, window, now) ==
  LET a == Latest(r)
      d == DecideDisposition(evidence, Len(r.attempts), policy,
             [ok |-> ok, startedAt |-> a.startedAt, window |-> window, now |-> now])
  IN  [r EXCEPT
        !.version = @ + 1,
        !.status = StatusAfter(evidence, d.disposition),
        !.attempts[Len(r.attempts)] =
          [a EXCEPT !.status = "RESOLVED", !.ok = ok, !.evidence = evidence,
                    !.disposition = d.disposition, !.retryNotBefore = d.retryNotBefore]]

\* A retry whose delay has passed, and that the new observation allows, goes in the same call.
RetriesNow(before, after) ==
  /\ Latest(before).status = "RESOLVED" /\ Latest(before).disposition = "RETRY"
  /\ Latest(after).disposition = "RETRY" /\ Latest(after).retryNotBefore = NoTime

=============================================================================
