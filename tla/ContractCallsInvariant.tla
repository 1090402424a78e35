----------------------- MODULE ContractCallsInvariant -----------------------
(***************************************************************************)
(* Why the properties of ContractCalls hold: an inductive invariant of the *)
(* five examples, in the terms they have in common.                        *)
(***************************************************************************)
EXTENDS ContractCalls

(* Types *)

AnswerKinds == {"none", "responded", "rejected", "conflict"}
Results == Dispositions \cup {"REVIEW"}
Working == {"create", "reserve", "execute", "observe", "save"}

PassState ==
  [pc : Working \cup {"idle", "project"}, ok : BOOLEAN, answer : AnswerKinds,
   evidence : EvidenceStates, result : Results]

Worlds == CASE example = "stripe" -> Stripe!Charge
            [] example = "rest"   -> Rest!Order
            [] OTHER              -> Nat

\* Every variable has its type.
TypeOK ==
  /\ example \in Examples
  /\ world \in Worlds
  /\ op \in Record
  /\ kept \in [answer : AnswerKinds, observations : Seq(Nat), polls : Nat]
  /\ flying \subseteq DOMAIN op.attempts
  /\ lock \in Workers \cup {NoWorker}
  /\ pass \in [Workers -> PassState]
  /\ row \in {"confirmed", "waiting", "refunded", "needs_attention"}
  /\ clock \in Nat /\ faults \in Nat

-----------------------------------------------------------------------------
(* The providers *)

\* Nothing was done for the operation, and at Stripe its key is unused.
Untouched == CASE example = "stripe" -> /\ world.key = 0
                                        /\ \A i \in DOMAIN world.refunds : ~world.refunds[i].ours
               [] example = "rest"   -> world.ours = 0
               [] OTHER              -> world = 0

\* The operation's refund was sent without a label, and its key is forgotten: no request may
\* go out any more.
Orphaned ==
  example = "stripe" /\ world.key = 0 /\ \E i \in DOMAIN world.refunds : world.refunds[i].ours

\* There is one refund for the operation at most, the one under its key if that is known, and
\* it can be told from all others, unless it came without a label.
ChargeFits ==
  example = "stripe" =>
    /\ world.key \in DOMAIN world.refunds \cup {0}
    /\ world.key # 0 => world.refunds[world.key].ours
    /\ \A i, j \in DOMAIN world.refunds :
         world.refunds[i].ours /\ world.refunds[j].ours => i = j
    /\ \A i \in DOMAIN world.refunds :
         LET r == world.refunds[i]
         IN  /\ r.label = "ours" => i = world.key /\ (r.status = "failed" => world.fails)
             /\ r.ours /\ r.label # "ours" => r.label = "none" /\ r.sameAmount

\* The operation changed an order only in the version it expected.
OrderFits ==
  example = "rest" =>
    /\ world.ours \in {0, 1}
    /\ world.status # "missing" => world.version >= Rest!ExpectedVersion
    /\ world.ours = 1 =>
         world.version > Rest!ExpectedVersion /\ world.status \in {"cancelling", "cancelled"}

CreditsFit == example \in {"ledger", "payments", "judged"} => world \in {0, 1}

\* What an answer of the provider says stays true.
AnswerHolds(answer) ==
  /\ answer = "responded" =>
       CASE example = "stripe" -> world.key # 0
         [] example = "rest"   -> world.status \in {"cancelling", "cancelled"}
         [] OTHER              -> world > 0
  /\ answer = "conflict" =>
       /\ Untouched
       /\ CASE example = "stripe" -> world.refundable = 0
            [] example = "rest"   -> world.version > Rest!ExpectedVersion
            [] OTHER              -> FALSE
  /\ answer = "rejected" =>
       CASE example = "stripe" -> ~world.known
         [] example = "rest"   -> world.status = "missing"
         [] OTHER              -> FALSE

ProviderFits == ChargeFits /\ OrderFits /\ CreditsFit /\ AnswerHolds(kept.answer)

-----------------------------------------------------------------------------
(* The record and the pass at work *)

LockIsHeld == \A w \in Workers : pass[w].pc \in Working <=> lock = w

\* The window of the latest attempt has passed.
WindowPassed == Window # NoWindow /\ clock >= Latest(op).startedAt + Window

LatestFits ==
  LET a == Latest(op)
  IN  /\ a.ok <=> kept.answer # "none"
      /\ a.status = "RESERVED" =>
           op.status = "OPEN" /\ kept.answer = "none" /\ a.evidence = "UNKNOWN"
      /\ a.status = "RESOLVED" =>
           /\ op.status = StatusAfter(a.evidence, a.disposition)
           /\ CASE a.evidence = "APPLIED"     -> a.disposition = "COMPLETE"
                [] a.evidence = "CONFLICTED"  -> a.disposition = "REPLAN"
                [] a.evidence = "PENDING"     -> a.disposition = "NULL"
                [] a.evidence = "UNKNOWN"     -> a.disposition = "INVESTIGATE"
                [] a.evidence = "NOT_APPLIED" -> a.disposition \in {"RETRY", "INVESTIGATE"}
           /\ a.disposition = "RETRY" =>
                \/ a.ok
                \/ a.retryNotBefore = NoTime /\ WindowPassed
                \/ Window # NoWindow /\ a.retryNotBefore = a.startedAt + Window

RecordFits ==
  /\ op.blockedBy = NoBlock
  /\ op.status \in {"NONE", "AWAITING_REVIEW"} => op.attempts = << >>
  /\ op.review.decision = "rejected" <=> op.status = "CLOSED" /\ op.attempts = << >>
  /\ op.status = "AWAITING_REVIEW" => Deduplicates
  /\ op.attempts = << >> => kept = NothingKept
  /\ op.attempts # << >> => LatestFits
  /\ \A n \in DOMAIN op.attempts : op.attempts[n].startedAt <= clock

\* A retry goes through an observation made when nothing could arrive any more.
RetryObserved(w) ==
  (Latest(op).status = "RESOLVED" /\ Latest(op).disposition = "RETRY")
    => pass[w].ok \/ WindowPassed

PassFits(w) ==
  /\ pass[w].ok <=> pass[w].answer # "none"
  /\ At(w, "create") => op.status = "NONE"
  /\ pass[w].pc \in {"reserve", "execute", "observe", "save"} => op.status = "OPEN"
  /\ At(w, "execute") =>
       /\ op.attempts # << >> /\ Latest(op).status = "RESERVED"
       /\ Len(op.attempts) \notin flying /\ pass[w].answer = "none"
  /\ pass[w].pc \in {"observe", "save"} =>
       /\ op.attempts # << >>
       /\ Latest(op).status = "RESOLVED" => pass[w].answer = kept.answer
       /\ RetryObserved(w)
  /\ At(w, "project") => example = "payments"

-----------------------------------------------------------------------------
(* Requests *)

\* Requests that may still arrive, where nothing but time keeps them out.
Landable(n) == ~Deduplicates /\ clock < op.attempts[n].startedAt + Window
Quiet == Untouched /\ \A n \in flying : ~Landable(n)

\* The next observation of a pass, or the one it has made, lets it retry at once.
MayRetry(w) ==
  /\ At(w, "save") /\ pass[w].evidence = "NOT_APPLIED"
  /\ Latest(op).status = "RESOLVED" /\ Latest(op).disposition = "RETRY"

RequestsFit ==
  /\ op.attempts = << >> => Untouched
  /\ \A n \in flying : Landable(n) => n = Len(op.attempts) /\ Untouched
  /\ Orphaned => flying = {} /\ Latest(op).evidence # "NOT_APPLIED"

\* No request goes out while another may arrive, or after an unlabeled one whose key is
\* forgotten.
RequestsOf(w) ==
  /\ ~Deduplicates /\ (pass[w].pc \in {"reserve", "execute"} \/ MayRetry(w)) => Quiet
  /\ Orphaned => /\ pass[w].pc \notin {"reserve", "execute"}
                 /\ At(w, "save") => pass[w].evidence # "NOT_APPLIED"

-----------------------------------------------------------------------------
(* What is known of the effect *)

\* The one attempt nobody answered although nothing failed: an older release's.
LeftByOlder == example = "stripe" /\ Len(op.attempts) = 1

EvidenceHolds(evidence, answer) ==
  /\ evidence = "APPLIED" => InPlace
  /\ evidence = "CONFLICTED" => answer = "conflict"
  /\ evidence = "NOT_APPLIED" /\ example # "stripe" => answer = "none"

EvidenceFits ==
  op.attempts # << >> =>
    /\ Latest(op).status = "RESOLVED" => EvidenceHolds(Latest(op).evidence, kept.answer)
    /\ faults = 0 /\ kept.answer = "none" /\ (Latest(op).status = "RESOLVED" \/ lock = NoWorker)
         => LeftByOlder
    /\ Latest(op).status = "RESOLVED" /\ Latest(op).disposition = "INVESTIGATE"
         => faults > 0 \/ Unclear

EvidenceOf(w) ==
  /\ pass[w].pc \in {"observe", "save"} /\ faults = 0 /\ pass[w].answer = "none" => LeftByOlder
  /\ At(w, "save") =>
       /\ EvidenceHolds(pass[w].evidence, pass[w].answer)
       /\ pass[w].evidence \in {"UNKNOWN", "NOT_APPLIED"} =>
            \/ faults > 0 \/ Unclear
            \/ pass[w].evidence = "NOT_APPLIED" /\ LeftByOlder

\* A result that a worker is about to project is true.
ResultHolds(result) ==
  /\ result = "COMPLETE" => InPlace
  /\ result \notin {"COMPLETE", "RETRY", "NULL"} =>
       op.status = "CLOSED" /\ Reported(op) # "COMPLETE"

WorkerFits(w) ==
  /\ PassFits(w)
  /\ AnswerHolds(pass[w].answer)
  /\ RequestsOf(w)
  /\ EvidenceOf(w)
  /\ At(w, "project") => ResultHolds(pass[w].result)

ExamplesInvariant ==
  /\ TypeOK
  /\ HistoryKeepsEnds
  /\ ProviderFits
  /\ LockIsHeld
  /\ RecordFits
  /\ RequestsFit
  /\ EvidenceFits
  /\ RowTellsTruth
  /\ \A w \in Workers : WorkerFits(w)

=============================================================================
