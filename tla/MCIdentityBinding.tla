------------------------- MODULE MCIdentityBinding -------------------------
(***************************************************************************)
(* Instances of IdentityBinding for TLC.                                   *)
(***************************************************************************)
EXTENDS IdentityBinding, TLC

Callers == Permutations(Passes)

\* A fingerprint of its own, one that a deploy puts in its place or drops, and another
\* operation's contract.
Refund(fingerprint) == [type |-> "refund", fingerprint |-> fingerprint]
AllContracts ==
  {Refund("default"), Refund("effectOnly"), Refund("everything"),
   [type |-> "cancel", fingerprint |-> "effectOnly"]}

\* One intent; with no note; with its keys in another order and a note that JSON converts;
\* with a note that JSON alters or loses; for another effect; and one that cannot be stored.
Refund10 == [effect |-> 10, note |-> 1, order |-> 1, form |-> "plain"]
SomeIntents ==
  {Refund10, [Refund10 EXCEPT !.note = 0],
   [Refund10 EXCEPT !.form = "converted", !.order = 2],
   [Refund10 EXCEPT !.form = "altered"], [Refund10 EXCEPT !.form = "lossy"],
   [Refund10 EXCEPT !.effect = 20], [Refund10 EXCEPT !.form = "unstorable"]}

=============================================================================
