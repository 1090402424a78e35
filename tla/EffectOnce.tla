----------------------------- MODULE EffectOnce -----------------------------
(***************************************************************************)
(* What corrobo promises about one operation, with no records, passes,     *)
(* locks, versions or windows: an effect is attempted, takes place at most *)
(* once, is put before a reviewer only while nothing can come of an        *)
(* attempt, and the operation ends with an answer that is true.            *)
(*                                                                         *)
(* RunEffect implements this specification: see Promise in                 *)
(* RunEffectProperties.                                                    *)
(***************************************************************************)
VARIABLES
  phase,    \* the operation: not begun, open, with a reviewer, or ended
  pending,  \* an attempt may still take effect
  applied,  \* the effect took place
  answer    \* how the operation ended, "NULL" before that

promised == <<phase, pending, applied, answer>>

\* COMPLETE: it took place.  REVIEW: a reviewer rejected it.  REPLAN: it must not be
\* done like this.  INVESTIGATE: nobody can tell.
Answers == {"COMPLETE", "REVIEW", "REPLAN", "INVESTIGATE"}

\* Nothing has come of the operation, and nothing will unless it is attempted again.
Untouched == ~pending /\ ~applied

\* Operations begun by an older release may be waiting to be picked up.
Init ==
  /\ phase \in {"NONE", "OPEN", "AWAITING_REVIEW"}
  /\ Untouched
  /\ answer = "NULL"

Begin ==
  /\ phase = "NONE"
  /\ phase' \in {"OPEN", "AWAITING_REVIEW"}
  /\ UNCHANGED <<pending, applied, answer>>

Attempt ==
  /\ phase = "OPEN"
  /\ Untouched
  /\ pending' = TRUE
  /\ UNCHANGED <<phase, applied, answer>>

\* Also after the operation ended, when its answer was INVESTIGATE or REPLAN.
Apply ==
  /\ pending
  /\ pending' = FALSE
  /\ applied' = TRUE
  /\ UNCHANGED <<phase, answer>>

Lapse ==
  /\ pending
  /\ pending' = FALSE
  /\ UNCHANGED <<phase, applied, answer>>

AskReview ==
  /\ phase = "OPEN"
  /\ Untouched
  /\ phase' = "AWAITING_REVIEW"
  /\ UNCHANGED <<pending, applied, answer>>

Approve ==
  /\ phase = "AWAITING_REVIEW"
  /\ phase' = "OPEN"
  /\ UNCHANGED <<pending, applied, answer>>

\* A reviewer's rejection ends an operation that never takes effect.
Reject ==
  /\ phase = "AWAITING_REVIEW"
  /\ Untouched
  /\ phase' = "CLOSED"
  /\ answer' = "REVIEW"
  /\ UNCHANGED <<pending, applied>>

Conclude ==
  /\ phase = "OPEN"
  /\ phase' = "CLOSED"
  /\ answer' \in Answers \ {"REVIEW"}
  /\ answer' = "COMPLETE" => applied
  /\ UNCHANGED <<pending, applied>>

Next ==
  \/ Begin \/ Attempt \/ Apply \/ Lapse
  \/ AskReview \/ Approve \/ Reject \/ Conclude

Spec == Init /\ [][Next]_promised

=============================================================================
