--------------------------- MODULE ProviderProofs ---------------------------
(***************************************************************************)
(* The providers of the examples by themselves: what any request, change   *)
(* by others or passing of time does to them, and what an observation of   *)
(* them is worth.  For any number of refunds, readable pages and versions. *)
(***************************************************************************)
EXTENDS ContractCallsInvariant, FiniteSetTheorems, TLAPS

\* What no step of a provider disturbs.
ProviderKeeps ==
  /\ world' \in Worlds'
  /\ ChargeFits' /\ OrderFits' /\ CreditsFit'
  /\ Orphaned' => Orphaned
  /\ InPlace => InPlace'
  /\ Unclear => Unclear'
  /\ \A answer \in AnswerKinds : AnswerHolds(answer) => AnswerHolds(answer)'

LEMMA NothingHappens ==
  ASSUME world \in Worlds, ChargeFits, OrderFits, CreditsFit, UNCHANGED <<example, world>>
  PROVE  ProviderKeeps
<1>1. world' \in Worlds' /\ ChargeFits' /\ OrderFits' /\ CreditsFit'
  BY DEF Worlds, ChargeFits, OrderFits, CreditsFit
<1>2. (Orphaned' => Orphaned) /\ (InPlace => InPlace') /\ (Unclear => Unclear')
  BY DEF Orphaned, InPlace, Unclear
<1>3. ASSUME NEW answer \in AnswerKinds, AnswerHolds(answer)
      PROVE  AnswerHolds(answer)'
  BY <1>3 DEF AnswerHolds, Untouched
<1> QED BY <1>1, <1>2, <1>3 DEF ProviderKeeps

-----------------------------------------------------------------------------
(* Stripe *)

LEMMA ChargeFields ==
  ASSUME example = "stripe", world \in Worlds
  PROVE  /\ world \in Stripe!Charge
         /\ world.refunds \in Seq(Stripe!Refund)
         /\ world.key \in Nat /\ world.refundable \in Nat
         /\ world.known \in BOOLEAN /\ world.converges \in BOOLEAN /\ world.fails \in BOOLEAN
         /\ world = [known |-> world.known, refundable |-> world.refundable,
                     converges |-> world.converges, fails |-> world.fails,
                     refunds |-> world.refunds, key |-> world.key]
  BY DEF Worlds, Stripe!Charge

\* A refund is added, and the charge is as it was but for its key and what is left of it.
LEMMA RefundAdded ==
  ASSUME example = "stripe", world \in Worlds, ChargeFits, example' = example,
         NEW r \in Stripe!Refund, NEW key \in {world.key, Len(world.refunds) + 1},
         NEW refundable \in Nat,
         world' = [known |-> world.known, refundable |-> refundable,
                   converges |-> world.converges, fails |-> world.fails,
                   refunds |-> Append(world.refunds, r), key |-> key],
         \/ key = world.key /\ ~r.ours /\ r.label # "ours"
         \/ /\ key = Len(world.refunds) + 1 /\ world.key = 0 /\ ~Orphaned
            /\ r.ours /\ r.label = "ours"
            /\ r.status = "failed" => world.fails
  PROVE  /\ world' \in Worlds' /\ ChargeFits'
         /\ Orphaned' => Orphaned
         /\ InPlace => InPlace'
         /\ Unclear => Unclear'
         /\ Untouched /\ ~r.ours => Untouched'
<1> DEFINE n == Len(world.refunds)
<1>1. /\ world.refunds \in Seq(Stripe!Refund) /\ world.key \in Nat
      /\ world.known \in BOOLEAN /\ world.converges \in BOOLEAN /\ world.fails \in BOOLEAN
  BY ChargeFields
<1>2. /\ n \in Nat /\ DOMAIN world.refunds = 1..n
      /\ DOMAIN world'.refunds = 1..n + 1
      /\ world'.refunds \in Seq(Stripe!Refund)
      /\ world'.refunds[n + 1] = r
      /\ \A i \in 1..n : world'.refunds[i] = world.refunds[i]
      /\ Len(world'.refunds) = n + 1
  BY <1>1
<1>3. world'.key = key /\ world'.known = world.known /\ world'.fails = world.fails
  OBVIOUS
<1>4. world' \in Worlds'
  <2>1. key \in Nat
    BY <1>1, <1>2
  <2> QED BY <1>1, <1>2, <2>1 DEF Worlds, Stripe!Charge
<1>5. /\ world.key \in (1..n) \cup {0}
      /\ world.key # 0 => world.refunds[world.key].ours
      /\ \A i, j \in 1..n : world.refunds[i].ours /\ world.refunds[j].ours => i = j
      /\ \A i \in 1..n :
           /\ world.refunds[i].label = "ours" =>
                i = world.key /\ (world.refunds[i].status = "failed" => world.fails)
           /\ world.refunds[i].ours /\ world.refunds[i].label # "ours" =>
                world.refunds[i].label = "none" /\ world.refunds[i].sameAmount
  BY <1>2 DEF ChargeFits
<1>6. InPlace => InPlace'
  BY <1>2 DEF InPlace, Stripe!InPlace
<1>7. Unclear => Unclear'
  <2>1. Unclear <=> \/ world.fails \/ ~world.known \/ n > Readable
                    \/ \E i \in 1..n : world.refunds[i].label = "none"
    BY <1>2 DEF Unclear
  <2>2. Unclear' <=> \/ world.fails \/ ~world.known \/ n + 1 > Readable
                     \/ \E i \in 1..n + 1 : world'.refunds[i].label = "none"
    BY <1>2, <1>3 DEF Unclear
  <2> QED BY <1>2, <2>1, <2>2, BoundsAssumption
<1>8. CASE key = world.key /\ ~r.ours /\ r.label # "ours"
  <2>1. ChargeFits'
    BY <1>2, <1>3, <1>5, <1>8 DEF ChargeFits
  <2>2. /\ Orphaned' => Orphaned
        /\ Untouched => Untouched'
    BY <1>2, <1>3, <1>8 DEF Orphaned, Untouched
  <2> QED BY <2>1, <2>2, <1>4, <1>6, <1>7
<1>9. CASE /\ key = n + 1 /\ world.key = 0 /\ ~Orphaned
           /\ r.ours /\ r.label = "ours" /\ (r.status = "failed" => world.fails)
  <2>1. \A i \in 1..n : ~world.refunds[i].ours
    BY <1>2, <1>9 DEF Orphaned
  <2>2. ChargeFits'
    BY <1>2, <1>3, <1>5, <1>9, <2>1 DEF ChargeFits
  <2>3. ~Orphaned'
    BY <1>2, <1>3, <1>9 DEF Orphaned
  <2> QED BY <2>2, <2>3, <1>4, <1>9, <1>6, <1>7
<1> QED BY <1>8, <1>9

\* Another refund is worth no more to an answer that was given.
LEMMA ChargeAnswers ==
  ASSUME example = "stripe", example' = example, NEW answer, AnswerHolds(answer),
         world.key # 0 => world'.key # 0,
         Untouched /\ world.refundable = 0 => Untouched' /\ world'.refundable = 0,
         world'.known = world.known
  PROVE  AnswerHolds(answer)'
  BY DEF AnswerHolds

\* doCreate: one refund under the key, however often and however late it is asked.
LEMMA StripeServes ==
  ASSUME example = "stripe", world \in Worlds, ChargeFits, ~Orphaned,
         UNCHANGED example, world' = Serve.world, NEW answer, answer = Serve.answer
  PROVE  /\ ProviderKeeps
         /\ answer \in AnswerKinds \ {"none"}
         /\ AnswerHolds(answer)'
<1> DEFINE n == Len(world.refunds)
<1>1. /\ world \in Stripe!Charge /\ world.refunds \in Seq(Stripe!Refund)
      /\ world.key \in Nat /\ world.refundable \in Nat
      /\ world.known \in BOOLEAN /\ world.converges \in BOOLEAN /\ world.fails \in BOOLEAN
  BY ChargeFields
<1>0. OrderFits /\ CreditsFit
  BY DEF OrderFits, CreditsFit
<1>2. Serve = Stripe!DoCreate(world)
  BY DEF Serve
<1>3. CASE world.key # 0
  <2>1. Serve.world = world /\ answer = "responded"
    BY <1>2, <1>3 DEF Stripe!DoCreate
  <2>2. UNCHANGED world
    BY <2>1
  <2>3. ProviderKeeps
    BY <2>2, <1>0, NothingHappens
  <2> QED BY <1>3, <2>1, <2>2, <2>3 DEF AnswerHolds, AnswerKinds
<1>4. CASE world.key = 0 /\ (~world.known \/ world.refundable = 0)
  <2>1. /\ Serve.world = world
        /\ answer = IF world.known THEN "conflict" ELSE "rejected"
    BY <1>2, <1>4 DEF Stripe!DoCreate
  <2>2. UNCHANGED world
    BY <2>1
  <2>3. ProviderKeeps
    BY <2>2, <1>0, NothingHappens
  <2>4. Untouched
    BY <1>4 DEF Untouched, Orphaned
  <2> QED BY <1>1, <1>4, <2>1, <2>2, <2>3, <2>4 DEF AnswerHolds, AnswerKinds, Untouched
<1>5. CASE world.key = 0 /\ world.known /\ world.refundable # 0
  <2> DEFINE r == [label |-> "ours", ours |-> TRUE, sameAmount |-> TRUE,
                   status |-> CASE world.converges -> "pending"
                                [] ~world.converges /\ world.fails -> "failed"
                                [] OTHER -> "succeeded"]
             refundable == IF world.fails THEN world.refundable ELSE world.refundable - 1
  <2>1. /\ Serve.world = [world EXCEPT !.refunds = Append(@, r), !.key = n + 1,
                                       !.refundable = refundable]
        /\ answer = "responded"
    BY <1>1, <1>2, <1>5 DEF Stripe!DoCreate
  <2>2. PICK c : c = [world EXCEPT !.refunds = Append(world.refunds, r), !.key = n + 1,
                                   !.refundable = refundable]
    OBVIOUS
  <2>3. c = [known |-> world.known, refundable |-> refundable, converges |-> world.converges,
             fails |-> world.fails, refunds |-> Append(world.refunds, r), key |-> n + 1]
    BY <2>2, ChargeFields
  <2>4. world' = c
    BY <2>1, <2>2
  <2>5. r \in Stripe!Refund /\ refundable \in Nat /\ (r.status = "failed" => world.fails)
    BY <1>1, <1>5 DEF Stripe!Refund, Stripe!Labels
  <2>6. r.ours /\ r.label = "ours" /\ n \in Nat
    BY <1>1
  <2> HIDE DEF r, refundable
  <2>7. /\ world' \in Worlds' /\ ChargeFits'
        /\ (Orphaned' => Orphaned) /\ (InPlace => InPlace') /\ (Unclear => Unclear')
    BY <1>5, <2>3, <2>4, <2>5, <2>6, RefundAdded
  <2>8. world'.key # 0 /\ world'.known = world.known
    BY <2>3, <2>4, <2>6
  <2>9. ASSUME NEW a \in AnswerKinds, AnswerHolds(a)
        PROVE  AnswerHolds(a)'
    BY <1>5, <2>8, <2>9, ChargeAnswers
  <2>10. AnswerHolds(answer)' /\ answer \in AnswerKinds \ {"none"}
    BY <2>1, <2>8 DEF AnswerHolds, AnswerKinds
  <2> QED BY <2>7, <2>9, <2>10 DEF ProviderKeeps, OrderFits, CreditsFit
<1> QED BY <1>1, <1>3, <1>4, <1>5

LEMMA StripeRefundsByOthers ==
  ASSUME example = "stripe", world \in Worlds, ChargeFits, UNCHANGED example,
         world' \in OthersSteps
  PROVE  ProviderKeeps /\ (Untouched => Untouched')
<1> DEFINE n == Len(world.refunds)
<1>1. /\ world.refunds \in Seq(Stripe!Refund) /\ world.key \in Nat /\ world.refundable \in Nat
      /\ n \in Nat
  BY ChargeFields
<1>2. world' \in IF ~world.known \/ world.refundable = 0 THEN {}
                 ELSE {Stripe!AnotherRefund(world, label, same) :
                         label \in {"theirs", "none"}, same \in BOOLEAN}
  BY DEF OthersSteps, Stripe!RefundedByOthers
<1>3. world.known /\ world.refundable # 0
  BY <1>2
<1>4. PICK label \in {"theirs", "none"}, same \in BOOLEAN :
        world' = Stripe!AnotherRefund(world, label, same)
  BY <1>2, <1>3
<1> DEFINE r == [label |-> label, ours |-> FALSE, sameAmount |-> same, status |-> "succeeded"]
<1>5. r \in Stripe!Refund /\ ~r.ours /\ r.label # "ours"
  BY DEF Stripe!Refund, Stripe!Labels
<1> HIDE DEF r
<1>6. PICK c : c = [world EXCEPT !.refundable = world.refundable - 1,
                                 !.refunds = Append(world.refunds, r)]
  OBVIOUS
<1>7. c = [known |-> world.known, refundable |-> world.refundable - 1,
           converges |-> world.converges, fails |-> world.fails,
           refunds |-> Append(world.refunds, r), key |-> world.key]
  BY <1>6, ChargeFields
<1>8. world' = c
  BY <1>4, <1>6 DEF r, Stripe!AnotherRefund
<1>9. world.refundable - 1 \in Nat
  BY <1>1, <1>3
<1>10. /\ world' \in Worlds' /\ ChargeFits'
       /\ (Orphaned' => Orphaned) /\ (InPlace => InPlace') /\ (Unclear => Unclear')
       /\ Untouched => Untouched'
  BY <1>5, <1>7, <1>8, <1>9, RefundAdded
<1>11. world'.key = world.key /\ world'.known = world.known
  BY <1>7, <1>8
<1>12. ASSUME NEW a \in AnswerKinds, AnswerHolds(a)
       PROVE  AnswerHolds(a)'
  BY <1>3, <1>11, <1>12, ChargeAnswers
<1> QED BY <1>10, <1>12 DEF ProviderKeeps, OrderFits, CreditsFit

\* Pending refunds settle: nothing about them changes but that.
LEMMA StripeSettles ==
  ASSUME example = "stripe", world \in Worlds, ChargeFits, UNCHANGED example,
         world' \in WorldSteps
  PROVE  ProviderKeeps /\ (Untouched => Untouched')
<1> DEFINE n == Len(world.refunds)
<1>1. /\ world.refunds \in Seq(Stripe!Refund) /\ world.key \in Nat /\ world.refundable \in Nat
      /\ n \in Nat /\ DOMAIN world.refunds = 1..n
      /\ world.known \in BOOLEAN /\ world.converges \in BOOLEAN /\ world.fails \in BOOLEAN
  BY ChargeFields
<1>2. PICK i \in 1..n : /\ world.refunds[i].status = "pending"
                        /\ world' = [world EXCEPT !.refunds[i].status = "succeeded"]
  BY <1>1 DEF WorldSteps, Stripe!Settled
<1>3. PICK list : list = [world.refunds EXCEPT ![i].status = "succeeded"]
  OBVIOUS
<1>4. PICK c : c = [world EXCEPT !.refunds = list]
  OBVIOUS
<1>5. c = [known |-> world.known, refundable |-> world.refundable, converges |-> world.converges,
           fails |-> world.fails, refunds |-> list, key |-> world.key]
  BY <1>4, ChargeFields
<1>6. world' = c
  BY <1>2, <1>3, <1>4
<1>7. PICK r : r = [world.refunds[i] EXCEPT !.status = "succeeded"]
  OBVIOUS
<1>8. r \in Stripe!Refund /\ r.ours = world.refunds[i].ours /\ r.label = world.refunds[i].label
      /\ r.sameAmount = world.refunds[i].sameAmount /\ r.status = "succeeded"
  <2>1. world.refunds[i] \in Stripe!Refund
    BY <1>1
  <2>2. PICK q \in Stripe!Refund : q = world.refunds[i]
    BY <2>1
  <2> QED BY <1>7, <2>2 DEF Stripe!Refund
<1>9. list = [world.refunds EXCEPT ![i] = r]
  BY <1>3, <1>7
<1>10. /\ list \in Seq(Stripe!Refund) /\ DOMAIN list = 1..n /\ Len(list) = n /\ list[i] = r
       /\ \A j \in 1..n : j # i => list[j] = world.refunds[j]
  BY <1>1, <1>8, <1>9
<1>11. /\ world'.refunds = list /\ world'.key = world.key /\ world'.known = world.known
       /\ world'.fails = world.fails /\ world'.refundable = world.refundable
  BY <1>5, <1>6
<1>12. world' \in Worlds'
  BY <1>1, <1>5, <1>6, <1>10 DEF Worlds, Stripe!Charge
<1>13. \A j \in 1..n : /\ list[j].ours = world.refunds[j].ours
                       /\ list[j].label = world.refunds[j].label
                       /\ list[j].sameAmount = world.refunds[j].sameAmount
                       /\ list[j].status = "failed" => world.refunds[j].status = "failed"
                       /\ world.refunds[j].status = "succeeded" => list[j].status = "succeeded"
  BY <1>8, <1>10
<1>14. ChargeFits'
  <2>1. /\ world.key \in (1..n) \cup {0}
        /\ world.key # 0 => world.refunds[world.key].ours
        /\ \A j, k \in 1..n : world.refunds[j].ours /\ world.refunds[k].ours => j = k
        /\ \A j \in 1..n :
             /\ world.refunds[j].label = "ours" =>
                  j = world.key /\ (world.refunds[j].status = "failed" => world.fails)
             /\ world.refunds[j].ours /\ world.refunds[j].label # "ours" =>
                  world.refunds[j].label = "none" /\ world.refunds[j].sameAmount
    BY <1>1 DEF ChargeFits
  <2> QED BY <2>1, <1>10, <1>11, <1>13 DEF ChargeFits
<1>15. (Orphaned' => Orphaned) /\ (Untouched => Untouched')
  BY <1>1, <1>10, <1>11, <1>13 DEF Orphaned, Untouched
<1>16. InPlace => InPlace'
  BY <1>1, <1>10, <1>11, <1>13 DEF InPlace, Stripe!InPlace
<1>17. Unclear => Unclear'
  BY <1>1, <1>10, <1>11, <1>13 DEF Unclear
<1>18. ASSUME NEW a \in AnswerKinds, AnswerHolds(a)
       PROVE  AnswerHolds(a)'
  BY <1>11, <1>15, <1>18, ChargeAnswers
<1> QED BY <1>12, <1>14, <1>15, <1>16, <1>17, <1>18 DEF ProviderKeeps, OrderFits, CreditsFit

\* What evidence an observation gives.
Shows(answer, evidence) ==
  /\ evidence \in EvidenceStates
  /\ EvidenceHolds(evidence, answer)
  /\ evidence = "NOT_APPLIED" => ~Orphaned
  /\ evidence = "NOT_APPLIED" /\ ~Deduplicates => Untouched
  /\ evidence \in {"UNKNOWN", "NOT_APPLIED"} =>
       Unclear \/ (evidence = "NOT_APPLIED" /\ answer = "none")

LEMMA AbsenceShows ==
  ASSUME NEW answer, NEW seen, NEW all \in BOOLEAN,
         seen = [status |-> "observed", found |-> "absent", authoritative |-> all]
  PROVE  Stripe!Reconcile(answer, seen)
           = IF ~all THEN "UNKNOWN" ELSE IF answer = "conflict" THEN "CONFLICTED" ELSE "NOT_APPLIED"
<1>1. seen.status = "observed" /\ seen.found = "absent" /\ seen.authoritative = all
  OBVIOUS
<1> QED BY <1>1 DEF Stripe!Reconcile

LEMMA StripeShows ==
  ASSUME example = "stripe", world \in Worlds, ChargeFits,
         NEW answer \in AnswerKinds, AnswerHolds(answer)
  PROVE  Shows(answer, Evidence(answer, See(answer)))
<1> DEFINE n == Len(world.refunds)
           read == {world.refunds[i] : i \in DOMAIN world.refunds \cap 1..Readable}
           ours == {r \in read : r.label = "ours"}
           maybe == {r \in read : r.label = "none" /\ r.sameAmount}
           seen == Stripe!Observe(world, answer)
           evidence == Stripe!Reconcile(answer, seen)
<1>1. Evidence(answer, See(answer)) = evidence
  BY DEF Evidence, See
<1>2. /\ world.refunds \in Seq(Stripe!Refund) /\ n \in Nat /\ DOMAIN world.refunds = 1..n
      /\ world.key \in Nat /\ Readable \in Nat
      /\ \A i \in 1..n : world.refunds[i] \in Stripe!Refund
  BY ChargeFields, BoundsAssumption
<1>3. /\ world.key \in (1..n) \cup {0}
      /\ world.key # 0 => world.refunds[world.key].ours
      /\ \A i, j \in 1..n : world.refunds[i].ours /\ world.refunds[j].ours => i = j
      /\ \A i \in 1..n :
           /\ world.refunds[i].label = "ours" =>
                i = world.key /\ (world.refunds[i].status = "failed" => world.fails)
           /\ world.refunds[i].ours /\ world.refunds[i].label # "ours" =>
                world.refunds[i].label = "none" /\ world.refunds[i].sameAmount
  BY <1>2 DEF ChargeFits
<1>4. ASSUME NEW i \in 1..n, i = world.key, seen = Stripe!FromRefund(world.refunds[i]),
             answer # "conflict"
      PROVE  Shows(answer, evidence)
  <2>1. world.refunds[i].status \in {"pending", "succeeded", "failed"}
    BY <1>2 DEF Stripe!Refund
  <2>2. CASE world.refunds[i].status = "pending"
    <3>1. evidence = "PENDING"
      BY <1>4, <2>2 DEF Stripe!Reconcile, Stripe!FromRefund
    <3> QED BY <3>1 DEF Shows, EvidenceHolds, EvidenceStates
  <2>3. CASE world.refunds[i].status = "succeeded"
    <3>1. evidence = "APPLIED"
      BY <1>4, <2>3 DEF Stripe!Reconcile, Stripe!FromRefund
    <3>2. InPlace
      BY <1>2, <1>3, <1>4, <2>3 DEF InPlace, Stripe!InPlace
    <3> QED BY <3>1, <3>2 DEF Shows, EvidenceHolds, EvidenceStates
  <2>4. CASE world.refunds[i].status = "failed"
    <3>1. evidence = "NOT_APPLIED"
      BY <1>4, <2>4 DEF Stripe!Reconcile, Stripe!FromRefund
    <3>2. Unclear
      BY <1>2, <1>3, <1>4, <2>4 DEF Unclear
    <3>3. ~Orphaned /\ Deduplicates
      BY <1>4 DEF Orphaned, Deduplicates
    <3> QED BY <3>1, <3>2, <3>3 DEF Shows, EvidenceHolds, EvidenceStates
  <2> QED BY <2>1, <2>2, <2>3, <2>4
<1>5. CASE answer = "responded"
  <2>1. world.key \in 1..n
    BY <1>3, <1>5 DEF AnswerHolds
  <2>2. seen = Stripe!FromRefund(world.refunds[world.key])
    BY <1>5 DEF Stripe!Observe
  <2> QED BY <1>1, <1>4, <1>5, <2>1, <2>2
<1>6. CASE answer # "responded" /\ ours # {}
  <2>1. (CHOOSE r \in ours : TRUE) \in ours
    BY <1>6
  <2>2. PICK i \in 1..n : (CHOOSE r \in ours : TRUE) = world.refunds[i] /\ world.refunds[i].label = "ours"
    BY <1>2, <2>1
  <2>3. seen = Stripe!FromRefund(world.refunds[i])
    BY <1>6, <2>2 DEF Stripe!Observe
  <2>4. i = world.key /\ world.key # 0
    BY <1>2, <1>3, <2>2
  <2>5. answer # "conflict"
    BY <2>4 DEF AnswerHolds, Untouched
  <2> QED BY <1>1, <1>4, <2>3, <2>4, <2>5
<1>7. CASE answer # "responded" /\ ours = {} /\ n > Readable
  <2>1. evidence = "UNKNOWN"
    BY <1>7 DEF Stripe!Observe, Stripe!Reconcile
  <2>2. Unclear
    BY <1>7 DEF Unclear
  <2> QED BY <1>1, <2>1, <2>2 DEF Shows, EvidenceHolds, EvidenceStates
<1>8. CASE answer # "responded" /\ ours = {} /\ ~(n > Readable)
  <2>1. seen = [status |-> "observed", found |-> "absent", authoritative |-> maybe = {}]
    BY <1>8 DEF Stripe!Observe
  <2>2. \A i \in 1..n : world.refunds[i] \in read
    BY <1>2, <1>8
  <2>3. evidence = IF maybe # {} THEN "UNKNOWN"
                   ELSE IF answer = "conflict" THEN "CONFLICTED" ELSE "NOT_APPLIED"
    BY <2>1, AbsenceShows
  <2>4. maybe # {} => Unclear
    BY <1>2 DEF Unclear
  <2>5. maybe = {} => ~Orphaned
    BY <1>2, <1>3, <1>8, <2>2 DEF Orphaned
  <2>6. answer = "rejected" => Unclear
    BY DEF AnswerHolds, Unclear
  <2>7. Deduplicates /\ answer \in {"none", "rejected", "conflict"}
    BY <1>8 DEF Deduplicates, AnswerKinds
  <2> HIDE DEF maybe, seen, evidence
  <2> QED BY <1>1, <2>3, <2>4, <2>5, <2>6, <2>7 DEF Shows, EvidenceHolds, EvidenceStates
<1> QED BY <1>5, <1>6, <1>7, <1>8

\* The Stripe contract's failed reads, and those of all other contracts, tell nothing.
LEMMA FailedReadShows ==
  ASSUME example \in Examples, NEW answer
  PROVE  Evidence(answer, [status |-> "failed"]) = "UNKNOWN"
  BY DEF Examples, Evidence, Stripe!Reconcile, Ledger!Reconcile, Rest!Reconcile, Judged!Reconcile

\* One refund at most is in place, and none while the key is unused and no refund is ours.
LEMMA StripeCounts ==
  ASSUME example = "stripe", world \in Worlds, ChargeFits
  PROVE  Effects <= 1 /\ (Untouched => Effects = 0)
<1> DEFINE counted == Stripe!InForce(world)
<1>1. Effects = Cardinality(counted)
  BY DEF Effects
<1>2. /\ \A i, j \in counted : i = j
      /\ Untouched => counted = {}
  <2>1. \A i \in counted : i \in DOMAIN world.refunds /\ world.refunds[i].ours
    BY DEF Stripe!InForce
  <2>2. \A i, j \in counted : i = j
    BY <2>1 DEF ChargeFits
  <2>3. Untouched => counted = {}
    BY <2>1 DEF Untouched
  <2> QED BY <2>2, <2>3
<1> HIDE DEF counted
<1>3. CASE counted = {}
  BY <1>1, <1>3, FS_EmptySet
<1>4. CASE counted # {}
  <2>1. PICK i \in counted : TRUE
    BY <1>4
  <2>2. counted = {i}
    BY <1>2, <2>1
  <2>3. Cardinality(counted) = 1
    BY <2>2, FS_Singleton
  <2> QED BY <1>1, <1>2, <1>4, <2>3
<1> QED BY <1>3, <1>4

-----------------------------------------------------------------------------
(* Orders *)

LEMMA OrderFields ==
  ASSUME example = "rest", world \in Worlds
  PROVE  /\ world.status \in {"missing", "open", "cancelling", "cancelled"}
         /\ world.version \in Nat /\ world.ours \in Nat /\ world.converges \in BOOLEAN
         /\ world = [status |-> world.status, version |-> world.version,
                     converges |-> world.converges, ours |-> world.ours]
  BY DEF Worlds, Rest!Order

\* An order that moves on: cancelled stays cancelled, versions only grow.
LEMMA OrderMoves ==
  ASSUME example = "rest", world \in Worlds, OrderFits, UNCHANGED example,
         NEW status \in {"open", "cancelling", "cancelled"}, NEW version \in Nat,
         NEW ours \in Nat,
         world' = [status |-> status, version |-> version, converges |-> world.converges,
                   ours |-> ours],
         world.status # "missing", version >= world.version,
         world.status # "open" => status # "open",
         world.status = "cancelled" => status = "cancelled",
         \/ ours = world.ours
         \/ ours = world.ours + 1 /\ world.version = Rest!ExpectedVersion
            /\ version = world.version + 1 /\ status # "open"
  PROVE  /\ ProviderKeeps
         /\ ours = world.ours => (Untouched => Untouched')
<1>1. /\ world.version \in Nat /\ world.ours \in Nat /\ world.converges \in BOOLEAN
      /\ world.status \in {"open", "cancelling", "cancelled"}
  BY OrderFields
<1>2. /\ world'.status = status /\ world'.version = version /\ world'.ours = ours
      /\ Rest!ExpectedVersion = 1
  BY DEF Rest!ExpectedVersion
<1>3. world' \in Worlds'
  BY <1>1 DEF Worlds, Rest!Order
<1>4. OrderFits'
  BY <1>1, <1>2 DEF OrderFits
<1>5. InPlace => InPlace'
  BY <1>2 DEF InPlace
<1>6. ~Unclear
  BY DEF Unclear
<1>7. ASSUME NEW a \in AnswerKinds, AnswerHolds(a)
      PROVE  AnswerHolds(a)'
  BY <1>1, <1>2, <1>7 DEF AnswerHolds, Untouched
<1>8. ours = world.ours => (Untouched => Untouched')
  BY <1>2 DEF Untouched
<1>9. ChargeFits' /\ CreditsFit' /\ ~Orphaned'
  BY DEF ChargeFits, CreditsFit, Orphaned
<1> QED BY <1>3, <1>4, <1>5, <1>6, <1>7, <1>8, <1>9 DEF ProviderKeeps

LEMMA RestServes ==
  ASSUME example = "rest", world \in Worlds, OrderFits, Untouched, UNCHANGED example,
         world' = Serve.world, NEW answer, answer = Serve.answer
  PROVE  /\ ProviderKeeps
         /\ answer \in AnswerKinds \ {"none"}
         /\ AnswerHolds(answer)'
<1>1. /\ world.status \in {"missing", "open", "cancelling", "cancelled"}
      /\ world.version \in Nat /\ world.ours \in Nat /\ world.converges \in BOOLEAN
  BY OrderFields
<1>2. Serve = Rest!Post(world) /\ Rest!ExpectedVersion = 1
  BY DEF Serve, Rest!ExpectedVersion
<1>3. ChargeFits /\ CreditsFit
  BY DEF ChargeFits, CreditsFit
<1>4. CASE world.status = "missing"
  <2>1. Serve.world = world /\ answer = "rejected"
    BY <1>2, <1>4 DEF Rest!Post
  <2>2. UNCHANGED world
    BY <2>1
  <2> QED BY <1>3, <1>4, <2>1, <2>2, NothingHappens DEF AnswerHolds, AnswerKinds
<1>5. CASE world.status # "missing" /\ world.version # 1
  <2>1. Serve.world = world /\ answer = "conflict"
    BY <1>2, <1>5 DEF Rest!Post
  <2>2. UNCHANGED world
    BY <2>1
  <2>3. world.version > 1
    BY <1>1, <1>2, <1>5 DEF OrderFits
  <2> QED BY <1>2, <1>3, <2>1, <2>2, <2>3, NothingHappens DEF AnswerHolds, AnswerKinds, Untouched
<1>6. CASE world.status = "cancelled" /\ world.version = 1
  <2>1. Serve.world = world /\ answer = "responded"
    BY <1>2, <1>6 DEF Rest!Post
  <2>2. UNCHANGED world
    BY <2>1
  <2> QED BY <1>3, <1>6, <2>1, <2>2, NothingHappens DEF AnswerHolds, AnswerKinds
<1>7. CASE world.status \in {"open", "cancelling"} /\ world.version = 1
  <2> DEFINE status == IF world.converges THEN "cancelling" ELSE "cancelled"
  <2>1. /\ Serve.world = [world EXCEPT !.status = status, !.version = world.version + 1,
                                       !.ours = world.ours + 1]
        /\ answer = "responded"
    BY <1>2, <1>7 DEF Rest!Post
  <2>2. PICK c : c = [world EXCEPT !.status = status, !.version = world.version + 1,
                                   !.ours = world.ours + 1]
    OBVIOUS
  <2>3. c = [status |-> status, version |-> world.version + 1, converges |-> world.converges,
             ours |-> world.ours + 1]
    BY <2>2, OrderFields
  <2>4. world' = c /\ status \in {"cancelling", "cancelled"}
    BY <2>1, <2>2
  <2> HIDE DEF status
  <2>5. ProviderKeeps
    BY <1>1, <1>2, <1>7, <2>3, <2>4, OrderMoves
  <2> QED BY <2>1, <2>3, <2>4, <2>5 DEF AnswerHolds, AnswerKinds
<1> QED BY <1>1, <1>4, <1>5, <1>6, <1>7

LEMMA RestMoves ==
  ASSUME example = "rest", world \in Worlds, OrderFits, UNCHANGED example,
         world' \in WorldSteps \/ world' \in OthersSteps
  PROVE  ProviderKeeps /\ (Untouched => Untouched')
<1>1. /\ world.status \in {"missing", "open", "cancelling", "cancelled"}
      /\ world.version \in Nat /\ world.ours \in Nat /\ world.converges \in BOOLEAN
      /\ world = [status |-> world.status, version |-> world.version,
                  converges |-> world.converges, ours |-> world.ours]
  BY OrderFields
<1>2. CASE world' \in WorldSteps
  <2>1. world.status = "cancelling" /\ world' = [world EXCEPT !.status = "cancelled"]
    BY <1>2 DEF WorldSteps, Rest!Settled
  <2>2. world' = [status |-> "cancelled", version |-> world.version,
                  converges |-> world.converges, ours |-> world.ours]
    BY <1>1, <2>1
  <2> QED BY <1>1, <2>1, <2>2, OrderMoves
<1>3. CASE world' \in OthersSteps
  <2>1. world.status = "open" /\ world' \in Rest!ChangedByOthers(world)
    BY <1>3 DEF OthersSteps, Rest!ChangedByOthers
  <2>2. PICK status \in {"open", "cancelled"} :
          world' = [world EXCEPT !.version = world.version + 1, !.status = status]
    BY <2>1 DEF Rest!ChangedByOthers
  <2>3. world' = [status |-> status, version |-> world.version + 1,
                  converges |-> world.converges, ours |-> world.ours]
    BY <1>1, <2>2
  <2> QED BY <1>1, <2>1, <2>3, OrderMoves
<1> QED BY <1>2, <1>3

LEMMA RestShows ==
  ASSUME example = "rest", world \in Worlds, OrderFits,
         NEW answer \in AnswerKinds, AnswerHolds(answer)
  PROVE  Shows(answer, Evidence(answer, See(answer)))
<1> DEFINE evidence == Rest!Reconcile(answer, Rest!Observe(world))
<1>1. Evidence(answer, See(answer)) = evidence
  BY DEF Evidence, See
<1>2. world.status \in {"missing", "open", "cancelling", "cancelled"} /\ world.ours \in Nat
  BY OrderFields
<1>3. evidence = IF world.status = "cancelling" THEN "PENDING"
                 ELSE IF answer = "conflict" THEN "CONFLICTED"
                 ELSE IF world.status = "missing" THEN "UNKNOWN"
                 ELSE IF world.status = "cancelled" THEN "APPLIED" ELSE "NOT_APPLIED"
  BY <1>2 DEF Rest!Reconcile, Rest!Observe
<1> HIDE DEF evidence
<1>4. evidence \in EvidenceStates
  BY <1>3 DEF EvidenceStates
<1>5. EvidenceHolds(evidence, answer)
  <2>1. evidence = "APPLIED" => InPlace
    BY <1>3 DEF InPlace
  <2>2. evidence = "CONFLICTED" => answer = "conflict"
    BY <1>3
  <2>3. evidence = "NOT_APPLIED" => answer = "none"
    BY <1>2, <1>3 DEF AnswerHolds, AnswerKinds
  <2> QED BY <2>1, <2>2, <2>3 DEF EvidenceHolds
<1>6. evidence = "NOT_APPLIED" => Untouched
  BY <1>2, <1>3 DEF OrderFits, Untouched
<1>7. evidence = "UNKNOWN" => Unclear
  BY <1>3 DEF Unclear
<1>8. ~Orphaned
  BY DEF Orphaned
<1> QED BY <1>1, <1>4, <1>5, <1>6, <1>7, <1>8 DEF Shows, EvidenceHolds

-----------------------------------------------------------------------------
(* Ledgers *)

Ledgers == {"ledger", "payments", "judged"}

LEMMA CreditsMove ==
  ASSUME example \in Ledgers, world \in {0, 1}, world' \in {0, 1}, UNCHANGED example,
         world' >= world
  PROVE  ProviderKeeps
<1>1. world' \in Worlds' /\ ChargeFits' /\ OrderFits' /\ CreditsFit'
  BY DEF Ledgers, Worlds, ChargeFits, OrderFits, CreditsFit
<1>2. ~Orphaned' /\ ~Unclear
  BY DEF Ledgers, Orphaned, Unclear
<1>3. InPlace => InPlace'
  BY DEF Ledgers, InPlace
<1>4. ASSUME NEW a \in AnswerKinds, AnswerHolds(a)
      PROVE  AnswerHolds(a)'
  BY <1>4 DEF Ledgers, AnswerHolds
<1> QED BY <1>1, <1>2, <1>3, <1>4 DEF ProviderKeeps

LEMMA LedgerServes ==
  ASSUME example \in Ledgers, CreditsFit, ~Deduplicates => Untouched, UNCHANGED example,
         world' = Serve.world, NEW answer, answer = Serve.answer
  PROVE  /\ ProviderKeeps
         /\ answer \in AnswerKinds \ {"none"}
         /\ AnswerHolds(answer)'
<1>1. world \in {0, 1}
  BY DEF Ledgers, CreditsFit
<1>2. CASE example = "judged"
  <2>1. Serve = Judged!Create(world)
    BY <1>2 DEF Serve
  <2>2. world' = 1 /\ answer = "responded"
    BY <1>1, <2>1 DEF Judged!Create
  <2> QED BY <1>1, <1>2, <2>2, CreditsMove DEF AnswerHolds, AnswerKinds
<1>3. CASE example # "judged"
  <2>1. Serve = Ledger!Post(world) /\ world = 0
    BY <1>3 DEF Ledgers, Serve, Deduplicates, Untouched
  <2>2. world' = 1 /\ answer = "responded"
    BY <2>1 DEF Ledger!Post
  <2> QED BY <1>1, <1>3, <2>2, CreditsMove DEF Ledgers, AnswerHolds, AnswerKinds
<1> QED BY <1>2, <1>3

LEMMA LedgerShows ==
  ASSUME example \in Ledgers, CreditsFit, NEW answer \in AnswerKinds, AnswerHolds(answer)
  PROVE  Shows(answer, Evidence(answer, See(answer)))
<1> DEFINE evidence == Evidence(answer, See(answer))
<1>1. world \in {0, 1}
  BY DEF Ledgers, CreditsFit
<1>2. evidence = IF world = 0 THEN "NOT_APPLIED" ELSE "APPLIED"
  <2>1. CASE example = "judged"
    BY <1>1, <2>1 DEF Evidence, See, Judged!Observe, Judged!Reconcile
  <2>2. CASE example \in {"ledger", "payments"}
    BY <1>1, <2>2 DEF Evidence, See, Ledger!Observe, Ledger!Reconcile
  <2> QED BY <2>1, <2>2 DEF Ledgers
<1> HIDE DEF evidence
<1>3. evidence = "APPLIED" => InPlace
  BY <1>1, <1>2 DEF Ledgers, InPlace
<1>4. evidence = "NOT_APPLIED" => answer = "none" /\ Untouched
  BY <1>2 DEF Ledgers, AnswerHolds, AnswerKinds, Untouched
<1>5. ~Orphaned /\ evidence \in {"APPLIED", "NOT_APPLIED"}
  BY <1>2 DEF Ledgers, Orphaned
<1>6. Shows(answer, evidence)
  BY <1>3, <1>4, <1>5 DEF Shows, EvidenceHolds, EvidenceStates
<1> QED BY <1>6 DEF evidence

-----------------------------------------------------------------------------
(* All of them *)

\* A request that goes out, or arrives late, as the runtime and the provider allow.
LEMMA Serves ==
  ASSUME example \in Examples, world \in Worlds, ChargeFits, OrderFits, CreditsFit, ~Orphaned,
         ~Deduplicates => Untouched, UNCHANGED example,
         world' = Serve.world, NEW answer, answer = Serve.answer
  PROVE  /\ ProviderKeeps
         /\ answer \in AnswerKinds \ {"none"}
         /\ AnswerHolds(answer)'
<1>1. CASE example = "stripe"
  BY <1>1, StripeServes
<1>2. CASE example = "rest"
  <2>1. Untouched
    BY <1>2 DEF Deduplicates
  <2> QED BY <1>2, <2>1, RestServes
<1>3. CASE example \in Ledgers
  BY <1>3, LedgerServes
<1> QED BY <1>1, <1>2, <1>3 DEF Examples, Ledgers

\* What happens at a provider without a request: time, and others.
LEMMA MovesByItself ==
  ASSUME example \in Examples, world \in Worlds, ChargeFits, OrderFits, CreditsFit,
         UNCHANGED example, world' \in WorldSteps \/ world' \in OthersSteps
  PROVE  ProviderKeeps /\ (Untouched => Untouched')
<1>1. CASE example = "stripe"
  BY <1>1, StripeSettles, StripeRefundsByOthers
<1>2. CASE example = "rest"
  BY <1>2, RestMoves
<1>3. CASE example \in Ledgers
  BY <1>3 DEF Ledgers, WorldSteps, OthersSteps
<1> QED BY <1>1, <1>2, <1>3 DEF Examples, Ledgers

\* An observation is worth what its evidence says of the provider.
LEMMA ObservationShows ==
  ASSUME example \in Examples, world \in Worlds, ChargeFits, OrderFits, CreditsFit,
         NEW answer \in AnswerKinds, AnswerHolds(answer)
  PROVE  Shows(answer, Evidence(answer, See(answer)))
<1>1. CASE example = "stripe"
  BY <1>1, StripeShows
<1>2. CASE example = "rest"
  BY <1>2, RestShows
<1>3. CASE example \in Ledgers
  BY <1>3, LedgerShows
<1> QED BY <1>1, <1>2, <1>3 DEF Examples, Ledgers

LEMMA ProviderCounts ==
  ASSUME example \in Examples, world \in Worlds, ChargeFits, OrderFits, CreditsFit
  PROVE  Effects <= 1 /\ (Untouched => Effects = 0)
<1>1. CASE example = "stripe"
  BY <1>1, StripeCounts
<1>2. CASE example = "rest"
  BY <1>2 DEF Effects, OrderFits, Untouched
<1>3. CASE example \in Ledgers
  BY <1>3 DEF Ledgers, Effects, CreditsFit, Untouched
<1> QED BY <1>1, <1>2, <1>3 DEF Examples, Ledgers

LEMMA ProviderStarts ==
  ASSUME NEW s \in Starts, example = s.example, world = s.world
  PROVE  /\ example \in Examples /\ world \in Worlds
         /\ ChargeFits /\ OrderFits /\ CreditsFit
         /\ ~s.reserved => Untouched
<1>1. /\ s.example \in Examples /\ s.reserved \in BOOLEAN
      /\ s.reserved => s.example = "stripe"
      /\ s.example = "stripe" => ChargeAtStart(s.world, s.reserved)
      /\ s.example = "rest" => OrderAtStart(s.world)
      /\ s.example \in Ledgers => s.world = 0
  BY StartsAssumption DEF Examples, Ledgers
<1>2. CASE example = "stripe"
  <2> DEFINE ours == {i \in DOMAIN world.refunds : world.refunds[i].ours}
  <2>1. /\ world \in Stripe!Charge
        /\ \A i \in DOMAIN world.refunds : world.refunds[i].label # "ours"
        /\ \A i \in ours : world.refunds[i].label = "none" /\ world.refunds[i].sameAmount
        /\ \A i, j \in ours : i = j
        /\ world.key \in ours \cup {0}
        /\ ~s.reserved => ours = {}
    BY <1>1, <1>2 DEF ChargeAtStart
  <2>2. ChargeFits
    BY <2>1 DEF ChargeFits
  <2>3. ~s.reserved => Untouched
    BY <1>2, <2>1 DEF Untouched
  <2>4. world \in Worlds /\ OrderFits /\ CreditsFit
    BY <1>2, <2>1 DEF Worlds, OrderFits, CreditsFit
  <2> HIDE DEF ours
  <2> QED BY <1>2, <2>2, <2>3, <2>4 DEF Examples
<1>3. CASE example = "rest"
  BY <1>1, <1>3 DEF OrderAtStart, Worlds, Untouched, OrderFits, ChargeFits, CreditsFit, Examples
<1>4. CASE example \in Ledgers
  BY <1>1, <1>4 DEF Ledgers, Worlds, Untouched, OrderFits, ChargeFits, CreditsFit, Examples
<1> QED BY <1>1, <1>2, <1>3, <1>4 DEF Examples, Ledgers

=============================================================================
