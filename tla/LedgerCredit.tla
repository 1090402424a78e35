---------------------------- MODULE LedgerCredit ----------------------------
(***************************************************************************)
(* The ledger of examples/timeout-after-write (ledger-server.ts) and its   *)
(* contract, as operators over the number of credits the ledger holds      *)
(* under the operation's reference.  It stores the reference and can be    *)
(* asked for it, but posting twice makes two credits.                      *)
(*                                                                         *)
(* The payments API of examples/quickstart and examples/action-table is    *)
(* the same kind of provider, with a contract that decides alike.          *)
(***************************************************************************)
EXTENDS Naturals

\* POST /credits, once the request has reached the ledger.
Post(credits) == [world |-> credits + 1, answer |-> "responded"]

\* observe(): GET /credits?reference=...
Observe(credits) == [status |-> "observed", found |-> credits]

Reconcile(seen) ==
  CASE seen.status = "failed"   -> "UNKNOWN"
    [] seen.status = "observed" -> CASE seen.found = 0 -> "NOT_APPLIED"
                                     [] seen.found = 1 -> "APPLIED"
                                     [] OTHER          -> "CONFLICTED"

=============================================================================
