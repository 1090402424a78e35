--------------------------- MODULE MCConformance ---------------------------
(***************************************************************************)
(* Instances of Conformance for TLC.                                       *)
(***************************************************************************)
EXTENDS Conformance

Right == [window |-> 2, retryOnNotApplied |-> TRUE, maxAttempts |-> 3, scope |-> "own",
          onFailedRead |-> "UNKNOWN", onPending |-> "PENDING", trusts |-> "observation",
          cautious |-> FALSE, writes |-> "once", tells |-> TRUE]

\* Every policy and window.
Policies(c) ==
  {[c EXCEPT !.window = w, !.retryOnNotApplied = p.retry, !.maxAttempts = p.max] :
     w \in {NoWindow, 0, 1, 2, 3},
     p \in {[retry |-> TRUE, max |-> 3], [retry |-> FALSE, max |-> 3], [retry |-> TRUE, max |-> 1]}}

\* The ways a contract may be broken, one at a time.
Broken(c) ==
  {[c EXCEPT !.scope = "all"], [c EXCEPT !.trusts = "transport"], [c EXCEPT !.cautious = TRUE],
   [c EXCEPT !.tells = FALSE], [c EXCEPT !.writes = "twice"], [c EXCEPT !.writes = "untilAnswered"]}
  \cup {[c EXCEPT !.onFailedRead = e] : e \in {"NOT_APPLIED", "APPLIED"}}
  \cup {[c EXCEPT !.onPending = e] : e \in {"NOT_APPLIED", "APPLIED", "UNKNOWN"}}

\* Right ones, and those broken in one or in two ways.
AllContracts ==
  LET policies == Policies(Right)
      one == UNION {Broken(c) : c \in policies}
  IN  policies \cup one \cup UNION {Broken(c) : c \in one}

All == {Scenarios[i] : i \in DOMAIN Scenarios}
Everything == [late |-> 2, pendings |-> TRUE, otherIntent |-> TRUE, scenarios |-> All]
AllOptions ==
  {Everything,
   [late |-> NoTime, pendings |-> FALSE, otherIntent |-> FALSE, scenarios |-> All],
   [late |-> NoTime, pendings |-> FALSE, otherIntent |-> FALSE,
    scenarios |-> {"late-landing", "identity-reuse-different-intent"}]}

=============================================================================
