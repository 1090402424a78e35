-------------------------- MODULE MCContractCalls --------------------------
(***************************************************************************)
(* Instances of ContractCalls for TLC.                                     *)
(***************************************************************************)
EXTENDS ContractCalls

\* Charges: fresh ones for one or two refunds, refunds that settle later or fail, a charge
\* nobody knows, one already refunded.
Fresh == [known |-> TRUE, refundable |-> 2, converges |-> FALSE, fails |-> FALSE,
          refunds |-> << >>, key |-> 0]
Theirs(n) == [i \in 1..n |-> [label |-> "theirs", ours |-> FALSE, sameAmount |-> TRUE,
                              status |-> "succeeded"]]
Charges ==
  {Fresh, [Fresh EXCEPT !.refundable = 1], [Fresh EXCEPT !.refundable = 0],
   [Fresh EXCEPT !.known = FALSE], [Fresh EXCEPT !.converges = TRUE], [Fresh EXCEPT !.fails = TRUE],
   [Fresh EXCEPT !.refundable = 1, !.refunds = Theirs(Readable)]}

\* What corrobo 0.5.0 left: a reserved attempt, and an unlabeled refund that Stripe still
\* has the key of, or no longer, or that stands behind more refunds than observe() reads, or
\* that was never made.
Unlabeled == <<[label |-> "none", ours |-> TRUE, sameAmount |-> TRUE, status |-> "succeeded"]>>
Older == {[Fresh EXCEPT !.refunds = Unlabeled, !.key = 1], [Fresh EXCEPT !.refunds = Unlabeled],
          [Fresh EXCEPT !.refunds = Theirs(Readable) \o Unlabeled], Fresh}

\* Orders: as the plan expects them, changed before, converging, cancelled, unknown.
Open == [status |-> "open", version |-> 1, converges |-> FALSE, ours |-> 0]
Orders == {Open, [Open EXCEPT !.converges = TRUE], [Open EXCEPT !.version = 2],
           [Open EXCEPT !.status = "cancelled"], [Open EXCEPT !.status = "missing", !.version = 0]}

AllStarts ==
  [example : {"stripe"}, world : Charges, reserved : {FALSE}] \cup
  [example : {"stripe"}, world : Older, reserved : {TRUE}] \cup
  [example : {"rest"}, world : Orders, reserved : {FALSE}] \cup
  [example : {"ledger", "payments", "judged"}, world : {0}, reserved : {FALSE}]

=============================================================================
