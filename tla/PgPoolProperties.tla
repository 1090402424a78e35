-------------------------- MODULE PgPoolProperties --------------------------
(***************************************************************************)
(* What PostgresStore promises of its connections and locks.               *)
(***************************************************************************)
EXTENDS PgPool

\* Every variable has its type.
TypeOK ==
  /\ conn \in [Conns -> [state : {"absent", "idle", "out"}, alive : BOOLEAN]]
  /\ holder \in [Keys -> Conns \cup {NoConn, Orphan}]
  /\ queue \in Seq(Calls)
  /\ call \in [Calls -> CallState]
  /\ setup \in Setups
  /\ faults \in Nat

\* The connections a call has in its hands.
Hands(s) == {s.own, s.extra} \ {NoConn}
Held(p) == Hands(call[p])

\* A connection is out of the pool exactly while one call has it in its hands: none is
\* lost on any path out of a call, and no two calls ever share one.
ConnectionsAccounted ==
  /\ \A c \in Conns : conn[c].state = "out" <=> \E p \in Calls : c \in Held(p)
  /\ \A p, q \in Calls : p # q => Held(p) \cap Held(q) = {}

\* The steps at which a pass relies on its lock.
Holding == {"pass", "hook", "write", "reread", "rereading", "release"}

\* A lock that a connection's session holds belongs to a pass under way on that connection:
\* it never outlives its pass in the pool (release()'s "the lock can never outlive this pass").
LockBelongsToPass ==
  \A k \in Keys : holder[k] \in Conns =>
    \E p \in Calls : call[p].own = holder[k] /\ KeyOf[p] = k /\ call[p].pc \in Holding

\* Two passes work on one operation only if one of them lost its session, and so can write
\* nothing more: what the lock is for.
PassesExclude ==
  \A p, q \in Calls :
    (p # q /\ KeyOf[p] = KeyOf[q] /\ {call[p].pc, call[q].pc} \subseteq Holding)
      => ~Alive(p) \/ ~Alive(q)

\* A connection the pool dropped is not alive.
DroppedIsDead == \A c \in Conns : conn[c].alive => conn[c].state # "absent"

\* What a call has in its hands fits the step it is at, and is never one connection twice.
HandsFitStep ==
  \A p \in Calls :
    /\ call[p].own = NoConn <=> call[p].pc \in {"idle", "connect", "read", "reading"}
    /\ call[p].extra = NoConn <=> call[p].pc \notin {"reading", "rereading"}
    /\ call[p].own = call[p].extra => call[p].own = NoConn

\* A pass whose session is alive has its lock.
LiveHasLock ==
  \A p \in Calls : (call[p].pc \in Holding /\ Alive(p)) => holder[KeyOf[p]] = call[p].own

\* The inductive strengthening: the connections and locks are accounted for because of the
\* steps at which they change hands.
PoolInvariant ==
  /\ TypeOK
  /\ ConnectionsAccounted
  /\ LockBelongsToPass
  /\ DroppedIsDead
  /\ HandsFitStep
  /\ LiveHasLock

\* The one setup in which a pass may wait for ever, its own connection in its hands: others
\* write records, and nothing bounds the wait for the connection that re-reads one.
WaitsAreBounded == setup.tools => setup.timeout

\* Every call ends, however many operations compete for the pool, where waits are bounded:
\* no path out of a pass, and none through a fault, keeps what another call waits for.
CallsEnd == \A p \in Calls : (~At(p, "idle") /\ WaitsAreBounded) ~> At(p, "idle")

\* Every lock is given up, by its pass or by the end of its session, where waits are bounded.
LocksEnd == \A k \in Keys : (holder[k] # NoConn /\ WaitsAreBounded) ~> holder[k] = NoConn

-----------------------------------------------------------------------------
(* What the documentation says and the code does not do *)

\* postgres.ts: "One in-flight identity therefore consumes exactly one pool connection for
\* the duration of its pass, never two", lest passes "self-deadlock"; failure-matrix.md 8.6
\* promises the same: every call ends, in every setup.
NoSelfDeadlock == \A p \in Calls : ~At(p, "idle") ~> At(p, "idle")

=============================================================================
