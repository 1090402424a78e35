-------------------------- MODULE MCRunEffectLive --------------------------
(***************************************************************************)
(* RunEffect with the fairness the code's surroundings justify.            *)
(*                                                                         *)
(* Every step of a call that is not a hook's answer is the runtime's own   *)
(* code or a store query, and goes on unless the process dies.  A hook's   *)
(* answer is fair because the contract gives every call inside a hook a    *)
(* deadline (docs/operations.md): execute() fails at the latest when its   *)
(* client gives up, so ExecuteFailed is fair and no step of the provider   *)
(* is.  Callers keep calling, and time passes while a retry waits for it.  *)
(* Faults stop after MaxFaults; nothing here says the provider answers.    *)
(***************************************************************************)
EXTENDS MCRunEffect

\* The clock matters only while a request can still take hold: stopping it
\* otherwise keeps its bound out of the way of the last retry.
TickWhileAwaited == Tick /\ \E n \in DOMAIN requests : InTime(n)

LiveNext ==
  \/ \E p \in Passes : BeginRun(p) \/ Run(p) \/ Conflict(p) \/ Fault(p)
  \/ Provider
  \/ TickWhileAwaited

\* The steps of a call, with execute() ending at the latest in its timeout.
Progress(p) ==
  \/ ReadAndReturn(p) \/ ReadAndContinue(p)
  \/ Authorize(p) \/ CreateAwaitingReview(p) \/ CreateOpen(p) \/ Reopen(p)
  \/ AttemptUnchecked(p) \/ ApprovalRefused(p) \/ StartRevalidate(p) \/ Revalidated(p)
  \/ WriteBlock(p) \/ Conflict(p)
  \/ Reserve(p) \/ Execute(p) \/ ExecuteFailed(p)
  \/ Observe(p) \/ ResolveAndReturn(p) \/ ResolveAndContinue(p)

Fairness ==
  /\ \A p \in Passes : WF_vars(Progress(p))
  /\ WF_vars(\E p \in Passes : BeginRun(p))
  /\ WF_vars(TickWhileAwaited)

LiveSpec == Init /\ [][LiveNext]_vars /\ Fairness

JustThreeAttempts == {Contract(1, 3)}
=============================================================================
