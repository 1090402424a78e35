----------------------------- MODULE RestCancel -----------------------------
(***************************************************************************)
(* The REST example: cancelling an order at examples/rest/server.ts with   *)
(* the contract of examples/rest/contract.ts, as operators over the state  *)
(* of the order.  The caller's plan expects version 1.                     *)
(***************************************************************************)
EXTENDS Naturals

ExpectedVersion == 1

\* converges: the intent asks for convergeAsync.  ours: how often a request of this
\* operation changed the order.
Order == [status : {"missing", "open", "cancelling", "cancelled"}, version : Nat,
          converges : BOOLEAN, ours : Nat]

\* POST /orders/:id/cancel, once the request has reached the server.
PostUnversioned(order) ==
  CASE order.status = "missing" -> [world |-> order, answer |-> "rejected"]
    [] OTHER ->
         [world |-> [order EXCEPT !.status = IF order.converges THEN "cancelling" ELSE "cancelled",
                                  !.version = @ + 1, !.ours = @ + 1],
          answer |-> "responded"]

Post(order) ==
  CASE order.status = "missing" -> [world |-> order, answer |-> "rejected"]
    [] order.status # "missing" /\ order.version # ExpectedVersion ->
         [world |-> order, answer |-> "conflict"]
    [] order.status = "cancelled" /\ order.version = ExpectedVersion ->
         [world |-> order, answer |-> "responded"]
    [] OTHER ->
         [world |-> [order EXCEPT !.status = IF order.converges THEN "cancelling" ELSE "cancelled",
                                  !.version = @ + 1, !.ours = @ + 1],
          answer |-> "responded"]

\* The order converges by itself; others edit or cancel it.
Settled(order) == IF order.status = "cancelling" THEN {[order EXCEPT !.status = "cancelled"]} ELSE {}

ChangedByOthers(order) ==
  IF order.status = "open"
  THEN {[order EXCEPT !.version = @ + 1, !.status = status] : status \in {"open", "cancelled"}}
  ELSE {}

-----------------------------------------------------------------------------
(* The contract *)

\* observe(): GET /orders/:id.
Observe(order) ==
  [status |-> IF order.status = "cancelling" THEN "pending" ELSE "observed",
   found |-> order.status]

Reconcile(answer, seen) ==
  CASE seen.status = "failed"  -> "UNKNOWN"
    [] seen.status = "pending" -> "PENDING"
    [] seen.status = "observed" /\ answer = "conflict" -> "CONFLICTED"
    [] seen.status = "observed" /\ answer # "conflict" ->
         CASE seen.found = "missing"   -> "UNKNOWN"
           [] seen.found = "cancelled" -> "APPLIED"
           [] OTHER                    -> "NOT_APPLIED"

=============================================================================
