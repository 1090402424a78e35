------------------------------- MODULE PgPool -------------------------------
(***************************************************************************)
(* The connections of one PostgresStore: calls of several operations share *)
(* a pool of Conns (pool.max of them), each pass keeps the connection      *)
(* whose session holds its advisory lock, and what a call reads outside    *)
(* its lock goes through the pool as well.                                 *)
(*                                                                         *)
(* Modelled of a call (src/core/runtime.ts runEffect and reviewEffect,     *)
(* src/stores/postgres.ts): its connections and its lock.  What it reads   *)
(* and writes is RunEffect's subject.  The pool (node-postgres) and the    *)
(* server are external: waiting calls are served in order, idle            *)
(* connections first; a session's locks end with the session.              *)
(*                                                                         *)
(* Faults: the server ends a session; the network drops a connection and   *)
(* the server notices later; an unlock fails on a healthy session; the     *)
(* process dies.                                                           *)
(***************************************************************************)
EXTENDS Integers, Sequences

CONSTANTS
  Calls,      \* callers, each making one call after another
  Conns,      \* pool.max connections
  Keys,       \* advisory lock keys, one per operation identity
  KeyOf,      \* the operation each caller works on
  NoConn,     \* no connection
  Orphan,     \* a session no connection belongs to any more, about to end
  Setups,     \* [tools, timeout]: whether other tools write records, and whether
              \* connectionTimeoutMillis bounds the wait for a connection
  MaxFaults   \* bound: faults

ASSUME ConnsAssumption == Conns # {} /\ {NoConn, Orphan} \cap Conns = {} /\ NoConn # Orphan
ASSUME KeysAssumption == KeyOf \in [Calls -> Keys]
ASSUME SetupsAssumption == Setups \subseteq [tools : BOOLEAN, timeout : BOOLEAN] /\ Setups # {}
ASSUME FaultsAssumption == MaxFaults \in Nat

VARIABLES
  conn,    \* conn[c]: absent (not opened, or destroyed), idle in the pool, or out; alive or not
  holder,  \* holder[k]: the session that holds the advisory lock k (the server's lock table)
  queue,   \* the calls that wait for a connection, first come first served
  call,    \* call[p]: the private state of caller p
  setup,
  faults

vars == <<conn, holder, queue, call, setup, faults>>

Steps == {"idle", "connect", "lock", "pass", "hook", "write", "reread", "rereading",
          "release", "done", "read", "reading"}
Kinds == {"run", "review"}
CallState == [pc : Steps, kind : Kinds, own : Conns \cup {NoConn}, extra : Conns \cup {NoConn}]
Idle == [pc |-> "idle", kind |-> "run", own |-> NoConn, extra |-> NoConn]

Absent == [state |-> "absent", alive |-> FALSE]

Init ==
  /\ conn = [c \in Conns |-> Absent]
  /\ holder = [k \in Keys |-> NoConn]
  /\ queue = << >>
  /\ call = [p \in Calls |-> Idle]
  /\ setup \in Setups
  /\ faults = 0

-----------------------------------------------------------------------------
(* The pool and the server *)

At(p, pc) == call[p].pc = pc
Become(p, s) == call' = [call EXCEPT ![p] = s]
Goto(p, pc) == Become(p, [call[p] EXCEPT !.pc = pc])

\* p joins the pool's queue, at the step that waits for a connection.
Wait(p, s) ==
  /\ Become(p, s)
  /\ queue' = Append(queue, p)

\* p leaves the queue, from wherever it stands.
LeaveQueue(p) ==
  \E i \in DOMAIN queue :
    /\ queue[i] = p
    /\ queue' = SubSeq(queue, 1, i - 1) \o SubSeq(queue, i + 1, Len(queue))

\* The connection goes back to the pool, dead or alive.
GiveBack(c) == conn' = [conn EXCEPT ![c].state = "idle"]

\* release(err): the pool drops the connection; its session ends, and with it its locks, as
\* soon as the server notices.
Destroy(c) ==
  /\ conn' = [conn EXCEPT ![c] = Absent]
  /\ holder' = [k \in Keys |-> IF holder[k] = c THEN Orphan ELSE holder[k]]

\* The connection the pool hands out: an idle one, or a new one if there is none.
Available(c) ==
  \/ conn[c].state = "idle"
  \/ conn[c].state = "absent" /\ \A d \in Conns : conn[d].state # "idle"

Granted == [connect |-> "lock", read |-> "reading", reread |-> "rereading"]

\* The first in the queue gets a connection; the pass's own, or one for a single query.
Grant(p) ==
  /\ queue # << >> /\ Head(queue) = p
  /\ call[p].pc \in DOMAIN Granted
  /\ \E c \in Conns :
       /\ Available(c)
       /\ conn' = [conn EXCEPT ![c] = [state |-> "out",
                                       alive |-> conn[c].state = "absent" \/ conn[c].alive]]
       /\ Become(p, IF At(p, "connect")
                    THEN [call[p] EXCEPT !.pc = "lock", !.own = c]
                    ELSE [call[p] EXCEPT !.pc = Granted[call[p].pc], !.extra = c])
  /\ queue' = Tail(queue)
  /\ UNCHANGED <<holder, setup, faults>>

\* The wait timed out: the call throws.  A pass that was reading again releases its lock.
GiveUpWithoutFinally(p) ==
  /\ setup.timeout
  /\ call[p].pc \in {"connect", "read", "reread"}
  /\ LeaveQueue(p)
  /\ Become(p, Idle)
  /\ UNCHANGED <<conn, holder, setup, faults>>

GiveUp(p) ==
  /\ setup.timeout
  /\ call[p].pc \in {"connect", "read", "reread"}
  /\ LeaveQueue(p)
  /\ IF At(p, "reread") THEN Goto(p, "release") ELSE Become(p, Idle)
  /\ UNCHANGED <<conn, holder, setup, faults>>

\* The pool hears that an idle connection has died.
Evict(c) ==
  /\ conn[c].state = "idle" /\ ~conn[c].alive
  /\ conn' = [conn EXCEPT ![c] = Absent]
  /\ UNCHANGED <<holder, queue, call, setup, faults>>

\* The server notices that a session's connection is gone.
SessionEnds(k) ==
  /\ holder[k] = Orphan
  /\ holder' = [holder EXCEPT ![k] = NoConn]
  /\ UNCHANGED <<conn, queue, call, setup, faults>>

-----------------------------------------------------------------------------
(* tryAcquireLock *)

Begin(p) ==
  /\ At(p, "idle")
  /\ \E kind \in Kinds : Wait(p, [Idle EXCEPT !.pc = "connect", !.kind = kind])
  /\ UNCHANGED <<conn, holder, setup, faults>>

Alive(p) == conn[call[p].own].alive

\* pg_try_advisory_lock: true also for a session that has the lock already.
LockedAlways(p) == TRUE

Locked(p) == holder[KeyOf[p]] \in {NoConn, call[p].own}

AcquireLock(p) ==
  /\ At(p, "lock") /\ Alive(p) /\ Locked(p)
  /\ holder' = [holder EXCEPT ![KeyOf[p]] = call[p].own]
  /\ Goto(p, "pass")
  /\ UNCHANGED <<conn, queue, setup, faults>>

\* The loser gives its connection back before it reads the record through the pool; a
\* reviewer is told that the operation is busy.
LoseLockKeepingConnection(p) ==
  /\ At(p, "lock") /\ Alive(p) /\ ~Locked(p)
  /\ IF call[p].kind = "run"
     THEN Wait(p, [call[p] EXCEPT !.pc = "read", !.own = NoConn])
     ELSE Become(p, Idle) /\ UNCHANGED queue
  /\ UNCHANGED <<conn, holder, setup, faults>>

LoseLock(p) ==
  /\ At(p, "lock") /\ Alive(p) /\ ~Locked(p)
  /\ GiveBack(call[p].own)
  /\ IF call[p].kind = "run"
     THEN Wait(p, [call[p] EXCEPT !.pc = "read", !.own = NoConn])
     ELSE Become(p, Idle) /\ UNCHANGED queue
  /\ UNCHANGED <<holder, setup, faults>>

LockFails(p) ==
  /\ At(p, "lock") /\ ~Alive(p)
  /\ Destroy(call[p].own)
  /\ Become(p, Idle)
  /\ UNCHANGED <<queue, setup, faults>>

-----------------------------------------------------------------------------
(* The pass: it reads, runs a hook, and writes, on the connection that holds its lock *)

BookkeepThroughPool(p) ==
  /\ At(p, "pass")
  /\ Wait(p, [call[p] EXCEPT !.pc = "reread"])
  /\ UNCHANGED <<conn, holder, setup, faults>>

Bookkeep(p) ==
  /\ At(p, "pass") /\ Alive(p)
  /\ Goto(p, "hook")
  /\ UNCHANGED <<conn, holder, queue, setup, faults>>

HookEnds(p) ==
  /\ At(p, "hook")
  /\ Goto(p, "write")
  /\ UNCHANGED <<conn, holder, queue, setup, faults>>

\* The write goes through; the pass may go on, or it is over.
Write(p) ==
  /\ At(p, "write") /\ Alive(p)
  /\ \E next \in {"pass", "release"} : Goto(p, next)
  /\ UNCHANGED <<conn, holder, queue, setup, faults>>

\* Another tool has written the record: runEffect reads it again through the pool, its
\* own connection still in its hands; reviewEffect throws.
Conflict(p) ==
  /\ At(p, "write") /\ Alive(p) /\ setup.tools
  /\ IF call[p].kind = "run"
     THEN Wait(p, [call[p] EXCEPT !.pc = "reread"])
     ELSE Goto(p, "release") /\ UNCHANGED queue
  /\ UNCHANGED <<conn, holder, setup, faults>>

\* A query on a dead connection rejects, and the finally clause runs.
PassFails(p) ==
  /\ call[p].pc \in {"pass", "write"} /\ ~Alive(p)
  /\ Goto(p, "release")
  /\ UNCHANGED <<conn, holder, queue, setup, faults>>

\* A single query through the pool is over: its connection goes back, or is dropped if
\* it turned out to be dead.  The loser's call is over too.
ReadEnds(p) ==
  /\ call[p].pc \in {"reading", "rereading"}
  /\ IF conn[call[p].extra].alive
     THEN GiveBack(call[p].extra) /\ UNCHANGED holder
     ELSE Destroy(call[p].extra)
  /\ Become(p, IF At(p, "reading")
               THEN Idle ELSE [call[p] EXCEPT !.pc = "release", !.extra = NoConn])
  /\ UNCHANGED <<queue, setup, faults>>

-----------------------------------------------------------------------------
(* release *)

UnlockWithoutDone(p) ==
  /\ At(p, "release") /\ Alive(p)
  /\ holder' = [holder EXCEPT ![KeyOf[p]] = IF @ = call[p].own THEN NoConn ELSE @]
  /\ Become(p, Idle)
  /\ UNCHANGED <<conn, queue, setup, faults>>

Unlock(p) ==
  /\ At(p, "release") /\ Alive(p)
  /\ holder' = [holder EXCEPT ![KeyOf[p]] = IF @ = call[p].own THEN NoConn ELSE @]
  /\ Goto(p, "done")
  /\ UNCHANGED <<conn, queue, setup, faults>>

Done(p) ==
  /\ At(p, "done")
  /\ GiveBack(call[p].own)
  /\ Become(p, Idle)
  /\ UNCHANGED <<holder, queue, setup, faults>>

\* The unlock query fails, because the connection is dead or for a reason of its own.
UnlockFailsAndKeeps(p) ==
  /\ At(p, "release")
  /\ \/ ~Alive(p) /\ UNCHANGED faults
     \/ Alive(p) /\ faults < MaxFaults /\ faults' = faults + 1
  /\ GiveBack(call[p].own)
  /\ Become(p, Idle)
  /\ UNCHANGED <<holder, queue, setup>>

UnlockFails(p) ==
  /\ At(p, "release")
  /\ \/ ~Alive(p) /\ UNCHANGED faults
     \/ Alive(p) /\ faults < MaxFaults /\ faults' = faults + 1
  /\ Destroy(call[p].own)
  /\ Become(p, Idle)
  /\ UNCHANGED <<queue, setup>>

-----------------------------------------------------------------------------
(* Faults *)

Fault == faults < MaxFaults /\ faults' = faults + 1

\* A connection dies.  If the server ended its session, its locks are free at once; if the
\* network dropped it, when the server notices.
Die(c) ==
  /\ Fault
  /\ conn[c].alive
  /\ conn' = [conn EXCEPT ![c].alive = FALSE]
  /\ \E freed \in {NoConn, Orphan} :
       holder' = [k \in Keys |-> IF holder[k] = c THEN freed ELSE holder[k]]
  /\ UNCHANGED <<queue, call, setup>>

\* The process dies and starts again.
Crash ==
  /\ Fault
  /\ conn' = [c \in Conns |-> Absent]
  /\ holder' = [k \in Keys |-> IF holder[k] \in Conns THEN Orphan ELSE holder[k]]
  /\ queue' = << >>
  /\ call' = [p \in Calls |-> Idle]
  /\ UNCHANGED setup

-----------------------------------------------------------------------------
\* What a call does by itself, given its connections.
Step(p) ==
  \/ AcquireLock(p) \/ LoseLock(p) \/ LockFails(p)
  \/ Bookkeep(p) \/ HookEnds(p) \/ Write(p) \/ Conflict(p) \/ PassFails(p)
  \/ ReadEnds(p) \/ Unlock(p) \/ Done(p) \/ UnlockFails(p)

Next ==
  \/ \E p \in Calls : Begin(p) \/ Step(p) \/ Grant(p) \/ GiveUp(p)
  \/ \E c \in Conns : Evict(c) \/ Die(c)
  \/ \E k \in Keys : SessionEnds(k)
  \/ Crash

Spec == Init /\ [][Next]_vars

\* Queries and hooks end (docs/operations.md: every hook has a deadline), a pass does not
\* go on for ever, the pool serves its queue, a bounded wait ends, and the server
\* notices a session that is gone.
Fairness ==
  /\ \A p \in Calls :
       /\ WF_vars(Step(p)) /\ WF_vars(Grant(p)) /\ WF_vars(GiveUp(p))
       /\ SF_vars(Write(p) /\ call'[p].pc = "release")
  /\ \A k \in Keys : WF_vars(SessionEnds(k))

FairSpec == Spec /\ Fairness

=============================================================================
