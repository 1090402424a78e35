---------------------------- MODULE StripeRefund ----------------------------
(***************************************************************************)
(* The Stripe refund example: examples/stripe-refund/contract.ts and the   *)
(* client it runs against, fake-stripe-client.ts, as operators over the    *)
(* state of one charge.                                                    *)
(*                                                                         *)
(* Every refund is for one unit of money or for another amount.  A refund  *)
(* is `ours' if it was made for the operation; its label says so only if   *)
(* it was sent with one (corrobo 0.5.0's version of the example sent none).*)
(***************************************************************************)
EXTENDS Naturals, Sequences

CONSTANT Readable  \* how many refunds observe() reads: MAX_LIST_PAGES pages

Labels == {"ours", "theirs", "none"}
Refund == [label : Labels, ours : BOOLEAN, sameAmount : BOOLEAN,
           status : {"pending", "succeeded", "failed"}]

\* converges: refunds start as pending.  fails: Stripe takes the refund but the money does
\* not arrive.  key: the refund cached under our Idempotency-Key, 0 if there is none.
Charge == [known : BOOLEAN, refundable : Nat, converges : BOOLEAN, fails : BOOLEAN,
           refunds : Seq(Refund), key : Nat]

\* idempotencyKeyFor: the operation's, the same for each of its attempts.
\* doCreate.  Returns the charge and the answer.
DoCreate(charge) ==
  CASE charge.key # 0         -> [world |-> charge, answer |-> "responded"]
    [] charge.key = 0 /\ ~charge.known -> [world |-> charge, answer |-> "rejected"]
    [] charge.key = 0 /\ charge.known /\ charge.refundable = 0 ->
         [world |-> charge, answer |-> "conflict"]
    [] OTHER ->
         [world |-> [charge EXCEPT
            !.refunds = Append(@, [label |-> "ours", ours |-> TRUE, sameAmount |-> TRUE,
                                   status |-> CASE charge.converges -> "pending"
                                                [] ~charge.converges /\ charge.fails -> "failed"
                                                [] OTHER -> "succeeded"]),
            !.key = Len(charge.refunds) + 1,
            !.refundable = IF charge.fails THEN @ ELSE @ - 1],
          answer |-> "responded"]

\* What the charge does by itself, and what others do: a refund settles; another
\* operation, or a person in the dashboard, refunds the same charge.
Settled(charge) ==
  {[charge EXCEPT !.refunds[i].status = "succeeded"] :
     i \in {j \in DOMAIN charge.refunds : charge.refunds[j].status = "pending"}}

AnotherRefund(charge, label, same) ==
  [charge EXCEPT !.refundable = @ - 1,
                 !.refunds = Append(@, [label |-> label, ours |-> FALSE, sameAmount |-> same,
                                        status |-> "succeeded"])]

RefundedByOthers(charge) ==
  IF ~charge.known \/ charge.refundable = 0 THEN {}
  ELSE {AnotherRefund(charge, label, same) : label \in {"theirs", "none"}, same \in BOOLEAN}

-----------------------------------------------------------------------------
(* The contract *)

FromRefund(refund) ==
  [status |-> IF refund.status = "pending" THEN "pending" ELSE "observed",
   found |-> refund.status, authoritative |-> TRUE]

ObserveWithoutGivingUp(charge, answer) ==
  LET read  == {charge.refunds[i] : i \in DOMAIN charge.refunds \cap 1..Readable}
      ours  == {r \in read : r.label = "ours"}
      maybe == {r \in read : r.label = "none" /\ r.sameAmount}
  IN  CASE answer = "responded"                    -> FromRefund(charge.refunds[charge.key])
        [] answer # "responded" /\ ours # {}       -> FromRefund(CHOOSE r \in ours : TRUE)
        [] OTHER -> [status |-> "observed", found |-> "absent", authoritative |-> maybe = {}]

\* observe(): the refund execute() was told of, or else the charge's refunds, page by page,
\* until ours is found; more pages than it reads is a failed observation.
Observe(charge, answer) ==
  LET read  == {charge.refunds[i] : i \in DOMAIN charge.refunds \cap 1..Readable}
      ours  == {r \in read : r.label = "ours"}
      maybe == {r \in read : r.label = "none" /\ r.sameAmount}
  IN  CASE answer = "responded"                    -> FromRefund(charge.refunds[charge.key])
        [] answer # "responded" /\ ours # {}       -> FromRefund(CHOOSE r \in ours : TRUE)
        [] answer # "responded" /\ ours = {} /\ Len(charge.refunds) > Readable
             -> [status |-> "failed", found |-> "absent", authoritative |-> FALSE]
        [] OTHER -> [status |-> "observed", found |-> "absent", authoritative |-> maybe = {}]

ReconcileTrustingAbsence(answer, seen) ==
  CASE seen.status = "failed"      -> "UNKNOWN"
    [] seen.status = "pending"     -> "PENDING"
    [] OTHER -> CASE seen.found = "succeeded" -> "APPLIED"
                  [] seen.found = "failed"    -> "NOT_APPLIED"
                  [] OTHER -> IF answer = "conflict" THEN "CONFLICTED" ELSE "NOT_APPLIED"

ReconcileUnsettledUnknown(answer, seen) ==
  CASE seen.status # "observed"    -> "UNKNOWN"
    [] OTHER -> CASE seen.found = "succeeded" -> "APPLIED"
                  [] OTHER                    -> "NOT_APPLIED"

Reconcile(answer, seen) ==
  CASE seen.status = "failed"      -> "UNKNOWN"
    [] seen.status = "pending"     -> "PENDING"
    [] seen.status = "observed" ->
         CASE seen.found = "succeeded" -> "APPLIED"
           [] seen.found = "failed"    -> "NOT_APPLIED"
           [] seen.found = "absent" ->
                IF ~seen.authoritative THEN "UNKNOWN"
                ELSE IF answer = "conflict" THEN "CONFLICTED" ELSE "NOT_APPLIED"

-----------------------------------------------------------------------------
(* What is true, for the properties *)

\* The refunds of the operation that have taken effect or will.
InForce(charge) ==
  {i \in DOMAIN charge.refunds : charge.refunds[i].ours /\ charge.refunds[i].status # "failed"}

InPlace(charge) ==
  \E i \in DOMAIN charge.refunds : charge.refunds[i].ours /\ charge.refunds[i].status = "succeeded"

=============================================================================
