---------------------------- MODULE PgPoolProofs ----------------------------
(***************************************************************************)
(* PostgresStore's connections and locks are accounted for, for any number *)
(* of calls, operations and connections and any number of faults:          *)
(* PoolInvariant is inductive, and the safety properties follow from it.   *)
(***************************************************************************)
EXTENDS PgPoolProperties, SequenceTheorems, TLAPS

-----------------------------------------------------------------------------
(* What a step does to the private state of its call *)

LEMMA Becomes ==
  ASSUME NEW p \in Calls, NEW s \in CallState, TypeOK, Become(p, s)
  PROVE  /\ call' \in [Calls -> CallState]
         /\ call'[p] = s
         /\ \A q \in Calls : q # p => call'[q] = call[q]
  BY DEF TypeOK, Become

\* The states a call goes to.
LEMMA IdleType == Idle \in CallState
  BY DEF Idle, CallState, Steps, Kinds

LEMMA MovedType ==
  ASSUME NEW s \in CallState, NEW pc \in Steps, NEW own \in Conns \cup {NoConn},
         NEW extra \in Conns \cup {NoConn}
  PROVE  /\ [s EXCEPT !.pc = pc] \in CallState
         /\ [s EXCEPT !.pc = pc, !.own = own] \in CallState
         /\ [s EXCEPT !.pc = pc, !.extra = extra] \in CallState
  BY DEF CallState

LEMMA LeaveQueueType ==
  ASSUME NEW p \in Calls, queue \in Seq(Calls), LeaveQueue(p)
  PROVE  queue' \in Seq(Calls)
<1>1. PICK i \in DOMAIN queue :
        queue' = SubSeq(queue, 1, i - 1) \o SubSeq(queue, i + 1, Len(queue))
  BY DEF LeaveQueue
<1>2. i \in 1..Len(queue) /\ \A j \in 1..Len(queue) : queue[j] \in Calls
  OBVIOUS
<1>3. SubSeq(queue, 1, i - 1) \in Seq(Calls)
  BY <1>2, SubSeqProperties
<1>4. SubSeq(queue, i + 1, Len(queue)) \in Seq(Calls)
  BY <1>2, SubSeqProperties
<1> QED BY <1>1, <1>3, <1>4, ConcatProperties

-----------------------------------------------------------------------------
(* Connections change hands *)

\* What p has in its hands afterwards is out of the pool, and so is what the others have:
\* p takes only what is in the pool, and what p no longer has goes back or is dropped.
LEMMA HandsChange ==
  ASSUME NEW p \in Calls, NEW s \in CallState, TypeOK, ConnectionsAccounted, Become(p, s),
         \A c \in Hands(s) \ Held(p) : conn[c].state # "out",
         \A c \in Conns : conn'[c].state = "out"
                            <=> (c \in Hands(s) \/ (conn[c].state = "out" /\ c \notin Held(p)))
  PROVE  ConnectionsAccounted'
<1>1. Held(p)' = Hands(s) /\ \A q \in Calls : q # p => Held(q)' = Held(q)
  BY Becomes DEF Held
<1>2. \A q \in Calls : Held(q) \subseteq Conns
  BY DEF Held, Hands, TypeOK, CallState
<1>3. Hands(s) \subseteq Conns
  BY DEF Hands, CallState
<1>4. \A c \in Conns : conn'[c].state = "out" <=> \E q \in Calls : c \in Held(q)'
  BY <1>1 DEF ConnectionsAccounted
<1>5. \A q, r \in Calls : q # r => Held(q)' \cap Held(r)' = {}
  BY <1>1, <1>2, <1>3 DEF ConnectionsAccounted
<1> QED BY <1>4, <1>5 DEF ConnectionsAccounted

LEMMA HandsKept ==
  ASSUME NEW p \in Calls, NEW s \in CallState, TypeOK, ConnectionsAccounted, Become(p, s),
         Hands(s) = Held(p),
         \A c \in Conns : conn'[c].state = "out" <=> conn[c].state = "out"
  PROVE  ConnectionsAccounted'
<1>1. \A c \in Held(p) : c \in Conns => conn[c].state = "out"
  BY DEF ConnectionsAccounted
<1> QED BY <1>1, HandsChange

-----------------------------------------------------------------------------
(* Each step keeps the invariant *)

\* Steps that leave connections and locks as they are.
LEMMA MovesOn ==
  ASSUME NEW p \in Calls, NEW s \in CallState, PoolInvariant, Become(p, s),
         queue' \in Seq(Calls), UNCHANGED <<conn, holder, setup, faults>>,
         s.own = call[p].own, s.extra = call[p].extra,
         s.own = NoConn <=> s.pc \in {"idle", "connect", "read", "reading"},
         s.extra = NoConn <=> s.pc \notin {"reading", "rereading"},
         s.pc \in Holding <=> call[p].pc \in Holding
  PROVE  PoolInvariant'
<1>1. /\ call' \in [Calls -> CallState] /\ call'[p] = s
      /\ \A q \in Calls : q # p => call'[q] = call[q]
  BY Becomes DEF PoolInvariant
<1>2. TypeOK'
  BY <1>1 DEF PoolInvariant, TypeOK
<1>3. ConnectionsAccounted'
  BY HandsKept DEF PoolInvariant, Held, Hands
<1>4. LockBelongsToPass'
  BY <1>1 DEF PoolInvariant, LockBelongsToPass, Holding
<1>5. DroppedIsDead'
  BY DEF PoolInvariant, DroppedIsDead
<1>6. HandsFitStep'
  BY <1>1 DEF PoolInvariant, HandsFitStep
<1>7. LiveHasLock'
  BY <1>1 DEF PoolInvariant, LiveHasLock, Alive, Holding
<1> QED BY <1>2, <1>3, <1>4, <1>5, <1>6, <1>7 DEF PoolInvariant

LEMMA InvariantAfterBegin ==
  ASSUME NEW p \in Calls, PoolInvariant, Begin(p)
  PROVE  PoolInvariant'
<1>1. PICK kind \in Kinds : Wait(p, [Idle EXCEPT !.pc = "connect", !.kind = kind])
  BY DEF Begin
<1> DEFINE s == [Idle EXCEPT !.pc = "connect", !.kind = kind]
<1>2. s \in CallState /\ s.pc = "connect" /\ s.own = NoConn /\ s.extra = NoConn
  BY DEF Idle, CallState, Steps
<1>3. Become(p, s) /\ queue' \in Seq(Calls) /\ UNCHANGED <<conn, holder, setup, faults>>
  BY <1>1 DEF Begin, Wait, PoolInvariant, TypeOK
<1>4. call[p].pc = "idle" /\ call[p].own = NoConn /\ call[p].extra = NoConn
  BY DEF Begin, At, PoolInvariant, HandsFitStep
<1> HIDE DEF s
<1> QED BY <1>2, <1>3, <1>4, MovesOn DEF Holding

LEMMA InvariantAfterGiveUp ==
  ASSUME NEW p \in Calls, PoolInvariant, GiveUp(p)
  PROVE  PoolInvariant'
<1>1. queue' \in Seq(Calls) /\ UNCHANGED <<conn, holder, setup, faults>>
  BY LeaveQueueType DEF GiveUp, PoolInvariant, TypeOK
<1>2. CASE At(p, "reread")
  <2> DEFINE s == [call[p] EXCEPT !.pc = "release"]
  <2>1. call[p] \in CallState /\ call[p].own # NoConn /\ call[p].extra = NoConn
    BY <1>2 DEF At, PoolInvariant, TypeOK, HandsFitStep
  <2>2. s \in CallState /\ s.pc = "release" /\ s.own = call[p].own /\ s.extra = call[p].extra
    BY <2>1 DEF CallState, Steps
  <2>3. Become(p, s) /\ call[p].pc = "reread"
    BY <1>2 DEF GiveUp, Goto, At
  <2> HIDE DEF s
  <2> QED BY <1>1, <2>1, <2>2, <2>3, MovesOn DEF Holding
<1>3. CASE ~At(p, "reread")
  <2>1. Become(p, Idle) /\ call[p].pc \in {"connect", "read"}
    BY <1>3 DEF GiveUp, At
  <2>2. call[p].own = NoConn /\ call[p].extra = NoConn
    BY <2>1 DEF PoolInvariant, HandsFitStep
  <2>3. Idle.pc = "idle" /\ Idle.own = NoConn /\ Idle.extra = NoConn
    BY DEF Idle
  <2> QED BY <1>1, <2>1, <2>2, <2>3, IdleType, MovesOn DEF Holding
<1> QED BY <1>2, <1>3

\* The steps of a pass on its connection.
LEMMA InvariantAfterPassStep ==
  ASSUME NEW p \in Calls, PoolInvariant,
         Bookkeep(p) \/ HookEnds(p) \/ Write(p) \/ Conflict(p) \/ PassFails(p)
  PROVE  PoolInvariant'
<1>1. PICK pc \in {"pass", "hook", "write", "reread", "release"} :
        Become(p, [call[p] EXCEPT !.pc = pc])
  <2>1. CASE Bookkeep(p)
    BY <2>1 DEF Bookkeep, Goto
  <2>2. CASE HookEnds(p)
    BY <2>2 DEF HookEnds, Goto
  <2>3. CASE Write(p)
    BY <2>3 DEF Write, Goto
  <2>4. CASE Conflict(p)
    BY <2>4 DEF Conflict, Wait, Goto
  <2>5. CASE PassFails(p)
    BY <2>5 DEF PassFails, Goto
  <2> QED BY <2>1, <2>2, <2>3, <2>4, <2>5
<1>2. queue' \in Seq(Calls) /\ UNCHANGED <<conn, holder, setup, faults>>
  <2>1. queue \in Seq(Calls) /\ Append(queue, p) \in Seq(Calls)
    BY DEF PoolInvariant, TypeOK
  <2>2. queue' = queue \/ queue' = Append(queue, p)
    BY Zenon DEF Bookkeep, HookEnds, Write, Conflict, PassFails, Wait
  <2>3. UNCHANGED <<conn, holder, setup, faults>>
    BY DEF Bookkeep, HookEnds, Write, Conflict, PassFails
  <2> QED BY <2>1, <2>2, <2>3
<1>3. call[p].pc \in {"pass", "hook", "write"}
  BY DEF Bookkeep, HookEnds, Write, Conflict, PassFails, At
<1>4. call[p] \in CallState /\ call[p].own # NoConn /\ call[p].extra = NoConn
  BY <1>3 DEF PoolInvariant, TypeOK, HandsFitStep
<1> DEFINE s == [call[p] EXCEPT !.pc = pc]
<1>5. s \in CallState /\ s.pc = pc /\ s.own = call[p].own /\ s.extra = call[p].extra
  BY <1>4 DEF CallState, Steps
<1> HIDE DEF s
<1> QED BY <1>1, <1>2, <1>3, <1>4, <1>5, MovesOn DEF Holding, s

\* The pass's connection comes from the pool, or the connection of a single query.
LEMMA InvariantAfterGrant ==
  ASSUME NEW p \in Calls, PoolInvariant, Grant(p)
  PROVE  PoolInvariant'
<1>1. PICK c \in Conns :
        /\ Available(c)
        /\ conn' = [conn EXCEPT ![c] = [state |-> "out",
                                        alive |-> conn[c].state = "absent" \/ conn[c].alive]]
        /\ Become(p, IF At(p, "connect")
                     THEN [call[p] EXCEPT !.pc = "lock", !.own = c]
                     ELSE [call[p] EXCEPT !.pc = Granted[call[p].pc], !.extra = c])
  BY DEF Grant
<1> DEFINE s == IF At(p, "connect") THEN [call[p] EXCEPT !.pc = "lock", !.own = c]
                ELSE [call[p] EXCEPT !.pc = Granted[call[p].pc], !.extra = c]
<1>2. call[p] \in CallState /\ call[p].pc \in {"connect", "read", "reread"}
  BY DEF Grant, Granted, PoolInvariant, TypeOK
<1>3. /\ s \in CallState
      /\ call[p].pc = "connect" => s.pc = "lock" /\ s.own = c /\ s.extra = call[p].extra
      /\ call[p].pc = "read" => s.pc = "reading" /\ s.extra = c /\ s.own = call[p].own
      /\ call[p].pc = "reread" => s.pc = "rereading" /\ s.extra = c /\ s.own = call[p].own
  <2>1. CASE call[p].pc = "connect"
    BY <1>2, <2>1 DEF At, CallState, Steps
  <2>2. CASE call[p].pc = "read"
    <3>1. s = [call[p] EXCEPT !.pc = "reading", !.extra = c]
      BY <2>2 DEF At, Granted
    <3> HIDE DEF s
    <3> QED BY <1>2, <2>2, <3>1 DEF CallState, Steps
  <2>3. CASE call[p].pc = "reread"
    <3>1. s = [call[p] EXCEPT !.pc = "rereading", !.extra = c]
      BY <2>3 DEF At, Granted
    <3> HIDE DEF s
    <3> QED BY <1>2, <2>3, <3>1 DEF CallState, Steps
  <2> QED BY <1>2, <2>1, <2>2, <2>3
<1>4. Become(p, s)
  BY <1>1
<1> HIDE DEF s
<1>5. /\ call' \in [Calls -> CallState] /\ call'[p] = s
      /\ \A q \in Calls : q # p => call'[q] = call[q]
  BY <1>3, <1>4, Becomes DEF PoolInvariant
<1>6. /\ call[p].own = NoConn <=> call[p].pc # "reread"
      /\ call[p].extra = NoConn
  BY <1>2 DEF PoolInvariant, HandsFitStep
<1>7. conn[c].state # "out" /\ \A q \in Calls : call[q].own # c /\ call[q].extra # c
  <2>1. conn[c].state # "out"
    BY <1>1 DEF Available
  <2>2. c # NoConn
    BY ConnsAssumption
  <2> QED BY <2>1, <2>2 DEF PoolInvariant, ConnectionsAccounted, Held, Hands
<1>8. UNCHANGED <<holder, setup, faults>>
  BY DEF Grant
<1>9. /\ conn' \in [Conns -> [state : {"absent", "idle", "out"}, alive : BOOLEAN]]
      /\ conn'[c].state = "out"
      /\ \A d \in Conns : d # c => conn'[d] = conn[d]
  BY <1>1 DEF PoolInvariant, TypeOK
<1>10. TypeOK'
  <2>1. queue' \in Seq(Calls)
    BY DEF Grant, PoolInvariant, TypeOK
  <2> QED BY <1>5, <1>8, <1>9, <2>1 DEF PoolInvariant, TypeOK
<1>11. ConnectionsAccounted'
  <2>1. Hands(s) = Held(p) \cup {c}
    BY <1>2, <1>3, <1>6, ConnsAssumption DEF Hands, Held
  <2>2. \A d \in Held(p) : d \in Conns => conn[d].state = "out"
    BY DEF PoolInvariant, ConnectionsAccounted
  <2> QED BY <1>3, <1>4, <1>7, <1>9, <2>1, <2>2, HandsChange DEF PoolInvariant
<1>12. LockBelongsToPass'
  BY <1>2, <1>3, <1>5, <1>8 DEF PoolInvariant, LockBelongsToPass, Holding
<1>13. DroppedIsDead'
  BY <1>9 DEF PoolInvariant, DroppedIsDead
<1>14. HandsFitStep'
  BY <1>2, <1>3, <1>5, <1>6, <1>7, ConnsAssumption DEF PoolInvariant, HandsFitStep
<1>15. LiveHasLock'
  <2> SUFFICES ASSUME NEW q \in Calls, call'[q].pc \in Holding, conn'[call'[q].own].alive
               PROVE  holder'[KeyOf[q]] = call'[q].own
    BY DEF LiveHasLock, Alive
  <2>1. call[q].pc \in Holding /\ call'[q].own = call[q].own
    BY <1>2, <1>3, <1>5 DEF Holding
  <2>2. call[q].own \in Conns /\ call[q].own # c
    BY <1>7, <2>1 DEF PoolInvariant, HandsFitStep, TypeOK, CallState, Holding
  <2> QED BY <1>8, <1>9, <2>1, <2>2 DEF PoolInvariant, LiveHasLock, Alive
<1> QED BY <1>10, <1>11, <1>12, <1>13, <1>14, <1>15 DEF PoolInvariant

\* The pass takes its lock: nobody else has it, or the session has it already.
LEMMA InvariantAfterAcquireLock ==
  ASSUME NEW p \in Calls, PoolInvariant, AcquireLock(p)
  PROVE  PoolInvariant'
<1> DEFINE s == [call[p] EXCEPT !.pc = "pass"]
<1>1. call[p] \in CallState /\ call[p].pc = "lock"
  BY DEF AcquireLock, At, PoolInvariant, TypeOK
<1>2. call[p].own \in Conns /\ call[p].extra = NoConn
  BY <1>1 DEF PoolInvariant, HandsFitStep, CallState
<1>3. s \in CallState /\ s.pc = "pass" /\ s.own = call[p].own /\ s.extra = call[p].extra
  BY <1>1 DEF CallState, Steps
<1>4. Become(p, s) /\ UNCHANGED <<conn, queue, setup, faults>>
  BY DEF AcquireLock, Goto
<1> HIDE DEF s
<1>5. /\ call' \in [Calls -> CallState] /\ call'[p] = s
      /\ \A q \in Calls : q # p => call'[q] = call[q]
  BY <1>3, <1>4, Becomes DEF PoolInvariant
<1>6. KeyOf[p] \in Keys /\ \A q \in Calls : KeyOf[q] \in Keys
  BY KeysAssumption
<1>7. /\ holder' \in [Keys -> Conns \cup {NoConn, Orphan}]
      /\ holder'[KeyOf[p]] = call[p].own
      /\ \A k \in Keys : k # KeyOf[p] => holder'[k] = holder[k]
      /\ holder[KeyOf[p]] \in {NoConn, call[p].own}
  BY <1>2, <1>6 DEF AcquireLock, Locked, PoolInvariant, TypeOK
<1>8. TypeOK'
  BY <1>4, <1>5, <1>7 DEF PoolInvariant, TypeOK
<1>9. ConnectionsAccounted'
  BY <1>3, <1>4, HandsKept DEF PoolInvariant, Held, Hands
<1>10. LockBelongsToPass'
  BY <1>1, <1>3, <1>5, <1>7 DEF PoolInvariant, LockBelongsToPass, Holding
<1>11. DroppedIsDead'
  BY <1>4 DEF PoolInvariant, DroppedIsDead
<1>12. HandsFitStep'
  BY <1>1, <1>2, <1>3, <1>5 DEF PoolInvariant, HandsFitStep
<1>13. LiveHasLock'
  <2> SUFFICES ASSUME NEW q \in Calls, call'[q].pc \in Holding, conn'[call'[q].own].alive
               PROVE  holder'[KeyOf[q]] = call'[q].own
    BY DEF LiveHasLock, Alive
  <2>1. CASE q = p
    BY <1>3, <1>5, <1>7, <2>1
  <2>2. CASE q # p
    <3>1. holder[KeyOf[q]] = call[q].own /\ call'[q] = call[q]
      BY <1>4, <1>5, <2>2 DEF PoolInvariant, LiveHasLock, Alive
    <3>2. call[q].own \in Conns /\ call[q].own \in Held(q)
      BY <2>2, <3>1, <1>5 DEF PoolInvariant, HandsFitStep, TypeOK, CallState, Holding, Held, Hands
    <3>3. call[p].own \in Held(p) /\ Held(p) \cap Held(q) = {}
      BY <1>2, <2>2, ConnsAssumption DEF PoolInvariant, ConnectionsAccounted, Held, Hands
    <3>4. KeyOf[q] # KeyOf[p]
      BY <1>7, <3>1, <3>2, <3>3, ConnsAssumption
    <3> QED BY <1>6, <1>7, <3>1, <3>4
  <2> QED BY <2>1, <2>2
<1> QED BY <1>8, <1>9, <1>10, <1>11, <1>12, <1>13 DEF PoolInvariant

\* No lock is on a connection that is in the hands of a call for anything but a pass.
LEMMA NoLockWithoutPass ==
  ASSUME NEW p \in Calls, NEW c \in Conns, PoolInvariant, c \in Held(p),
         call[p].own = c => call[p].pc \notin Holding
  PROVE  \A k \in Keys : holder[k] # c
<1> SUFFICES ASSUME NEW k \in Keys, holder[k] = c
             PROVE  FALSE
  OBVIOUS
<1>1. PICK q \in Calls : call[q].own = c /\ call[q].pc \in Holding
  BY DEF PoolInvariant, LockBelongsToPass
<1>2. c \in Held(q)
  BY <1>1, ConnsAssumption DEF Held, Hands
<1>3. q = p
  BY <1>2 DEF PoolInvariant, ConnectionsAccounted
<1> QED BY <1>1, <1>3

\* A call lets go of the connection c: it is no longer out, and no lock is on it.
LEMMA LetsGo ==
  ASSUME NEW p \in Calls, NEW s \in CallState, NEW c \in Conns, PoolInvariant, Become(p, s),
         queue' \in Seq(Calls), faults' \in Nat, UNCHANGED setup,
         c \in Held(p), Hands(s) = Held(p) \ {c},
         conn' \in [Conns -> [state : {"absent", "idle", "out"}, alive : BOOLEAN]],
         \A d \in Conns : d # c => conn'[d] = conn[d],
         conn'[c].state # "out", conn'[c].alive => conn'[c].state # "absent",
         holder' \in [Keys -> Conns \cup {NoConn, Orphan}],
         \A k \in Keys : IF holder[k] = c THEN holder'[k] \notin Conns ELSE holder'[k] = holder[k],
         s.own = NoConn <=> s.pc \in {"idle", "connect", "read", "reading"},
         s.extra = NoConn <=> s.pc \notin {"reading", "rereading"},
         s.own = s.extra => s.own = NoConn,
         s.pc \in Holding <=> (call[p].pc \in Holding /\ call[p].own # c),
         s.pc \in Holding => s.own = call[p].own
  PROVE  PoolInvariant'
<1>1. /\ call' \in [Calls -> CallState] /\ call'[p] = s
      /\ \A q \in Calls : q # p => call'[q] = call[q]
  BY Becomes DEF PoolInvariant
<1>2. TypeOK'
  BY <1>1 DEF PoolInvariant, TypeOK
<1>3. ConnectionsAccounted'
  <2>1. conn[c].state = "out" /\ \A d \in Held(p) : d \in Conns => conn[d].state = "out"
    BY DEF PoolInvariant, ConnectionsAccounted
  <2>2. \A d \in Conns : conn'[d].state = "out"
                           <=> (d \in Hands(s) \/ (conn[d].state = "out" /\ d \notin Held(p)))
    BY <2>1
  <2> QED BY <2>2, HandsChange DEF PoolInvariant
<1>4. LockBelongsToPass'
  <2> SUFFICES ASSUME NEW k \in Keys, holder'[k] \in Conns
               PROVE  \E q \in Calls : /\ call'[q].own = holder'[k] /\ KeyOf[q] = k
                                       /\ call'[q].pc \in Holding
    BY DEF LockBelongsToPass
  <2>1. holder'[k] = holder[k] /\ holder[k] # c
    OBVIOUS
  <2>2. PICK q \in Calls : call[q].own = holder[k] /\ KeyOf[q] = k /\ call[q].pc \in Holding
    BY <2>1 DEF PoolInvariant, LockBelongsToPass
  <2> QED BY <1>1, <2>1, <2>2
<1>5. DroppedIsDead'
  BY DEF PoolInvariant, DroppedIsDead
<1>6. HandsFitStep'
  BY <1>1 DEF PoolInvariant, HandsFitStep
<1>7. LiveHasLock'
  <2> SUFFICES ASSUME NEW q \in Calls, call'[q].pc \in Holding, conn'[call'[q].own].alive
               PROVE  holder'[KeyOf[q]] = call'[q].own
    BY DEF LiveHasLock, Alive
  <2>1. call[q].pc \in Holding /\ call'[q].own = call[q].own
    BY <1>1
  <2>2. call[q].own \in Conns
    BY <2>1 DEF PoolInvariant, HandsFitStep, TypeOK, CallState, Holding
  <2>3. call[q].own # c
    <3>1. CASE q = p
      BY <1>1, <3>1
    <3>2. CASE q # p
      BY <2>2, <3>2, ConnsAssumption DEF PoolInvariant, ConnectionsAccounted, Held, Hands
    <3> QED BY <3>1, <3>2
  <2>4. holder[KeyOf[q]] = call[q].own /\ KeyOf[q] \in Keys
    BY <2>1, <2>2, <2>3, KeysAssumption DEF PoolInvariant, LiveHasLock, Alive
  <2> QED BY <2>1, <2>3, <2>4
<1> QED BY <1>2, <1>3, <1>4, <1>5, <1>6, <1>7 DEF PoolInvariant

\* What the two ways out of a call's hands do to the connection.
LEMMA GivenBack ==
  ASSUME NEW c \in Conns, TypeOK, DroppedIsDead, conn[c].state = "out", GiveBack(c)
  PROVE  /\ conn' \in [Conns -> [state : {"absent", "idle", "out"}, alive : BOOLEAN]]
         /\ \A d \in Conns : d # c => conn'[d] = conn[d]
         /\ conn'[c].state # "out" /\ conn'[c].state # "absent"
  BY DEF TypeOK, GiveBack

LEMMA Destroyed ==
  ASSUME NEW c \in Conns, TypeOK, Destroy(c)
  PROVE  /\ conn' \in [Conns -> [state : {"absent", "idle", "out"}, alive : BOOLEAN]]
         /\ \A d \in Conns : d # c => conn'[d] = conn[d]
         /\ conn'[c].state # "out" /\ ~conn'[c].alive
         /\ holder' \in [Keys -> Conns \cup {NoConn, Orphan}]
         /\ \A k \in Keys :
              IF holder[k] = c THEN holder'[k] \notin Conns ELSE holder'[k] = holder[k]
  BY ConnsAssumption DEF TypeOK, Destroy, Absent

\* A call that leaves with nothing in its hands.
LEMMA Leaves ==
  ASSUME NEW p \in Calls, PoolInvariant, Become(p, Idle), UNCHANGED <<queue, setup>>,
         faults' \in Nat, call[p].own \in Conns, call[p].extra = NoConn,
         \/ GiveBack(call[p].own) /\ UNCHANGED holder /\ call[p].pc \notin Holding
         \/ Destroy(call[p].own)
  PROVE  PoolInvariant'
<1> DEFINE c == call[p].own
<1>1. Idle.pc = "idle" /\ Idle.own = NoConn /\ Idle.extra = NoConn /\ Idle.pc \notin Holding
  BY DEF Idle, Holding
<1>2. c \in Held(p) /\ Hands(Idle) = Held(p) \ {c}
  BY <1>1, ConnsAssumption DEF Held, Hands
<1>3. conn[c].state = "out" /\ queue' \in Seq(Calls)
  BY <1>2 DEF PoolInvariant, ConnectionsAccounted, TypeOK
<1>4. CASE GiveBack(c) /\ UNCHANGED holder /\ call[p].pc \notin Holding
  <2>1. \A k \in Keys : holder[k] # c /\ holder'[k] = holder[k]
    BY <1>2, <1>4, NoLockWithoutPass
  <2>2. holder' \in [Keys -> Conns \cup {NoConn, Orphan}]
    BY <1>4 DEF PoolInvariant, TypeOK
  <2>3. /\ conn' \in [Conns -> [state : {"absent", "idle", "out"}, alive : BOOLEAN]]
        /\ \A d \in Conns : d # c => conn'[d] = conn[d]
        /\ conn'[c].state # "out" /\ conn'[c].state # "absent"
    BY <1>3, <1>4, GivenBack DEF PoolInvariant
  <2> HIDE DEF c
  <2> QED BY <1>1, <1>2, <1>3, <1>4, <2>1, <2>2, <2>3, IdleType, LetsGo DEF c
<1>5. CASE Destroy(c)
  <2>1. /\ conn' \in [Conns -> [state : {"absent", "idle", "out"}, alive : BOOLEAN]]
        /\ \A d \in Conns : d # c => conn'[d] = conn[d]
        /\ conn'[c].state # "out" /\ ~conn'[c].alive
        /\ holder' \in [Keys -> Conns \cup {NoConn, Orphan}]
        /\ \A k \in Keys :
             IF holder[k] = c THEN holder'[k] \notin Conns ELSE holder'[k] = holder[k]
    BY <1>5, Destroyed DEF PoolInvariant
  <2> HIDE DEF c
  <2> QED BY <1>1, <1>2, <1>3, <2>1, IdleType, LetsGo DEF c
<1> QED BY <1>4, <1>5

LEMMA InvariantAfterLockFails ==
  ASSUME NEW p \in Calls, PoolInvariant, LockFails(p)
  PROVE  PoolInvariant'
<1>1. call[p].own \in Conns /\ call[p].extra = NoConn /\ faults' \in Nat
  BY DEF LockFails, At, PoolInvariant, TypeOK, CallState, HandsFitStep
<1> QED BY <1>1, Leaves DEF LockFails

LEMMA InvariantAfterDone ==
  ASSUME NEW p \in Calls, PoolInvariant, Done(p)
  PROVE  PoolInvariant'
<1>1. call[p].own \in Conns /\ call[p].extra = NoConn /\ faults' \in Nat
  BY DEF Done, At, PoolInvariant, TypeOK, CallState, HandsFitStep
<1>2. call[p].pc \notin Holding
  BY DEF Done, At, Holding
<1> QED BY <1>1, <1>2, Leaves DEF Done

LEMMA InvariantAfterUnlockFails ==
  ASSUME NEW p \in Calls, PoolInvariant, UnlockFails(p)
  PROVE  PoolInvariant'
<1>1. call[p].own \in Conns /\ call[p].extra = NoConn
  BY DEF UnlockFails, At, PoolInvariant, TypeOK, CallState, HandsFitStep
<1>2. faults' \in Nat
  BY DEF UnlockFails, PoolInvariant, TypeOK
<1> QED BY <1>1, <1>2, Leaves DEF UnlockFails

LEMMA InvariantAfterLoseLock ==
  ASSUME NEW p \in Calls, PoolInvariant, LoseLock(p)
  PROVE  PoolInvariant'
<1>1. /\ call[p] \in CallState /\ call[p].own \in Conns /\ call[p].extra = NoConn
      /\ call[p].pc = "lock"
  BY DEF LoseLock, At, PoolInvariant, TypeOK, CallState, HandsFitStep
<1>2. /\ GiveBack(call[p].own) /\ UNCHANGED <<holder, setup, faults>> /\ faults' \in Nat
      /\ call[p].pc \notin Holding
  BY <1>1 DEF LoseLock, PoolInvariant, TypeOK, Holding
<1>3. CASE call[p].kind = "run"
  <2> DEFINE c == call[p].own
             s == [call[p] EXCEPT !.pc = "read", !.own = NoConn]
  <2>1. /\ s \in CallState /\ s.pc = "read" /\ s.own = NoConn /\ s.extra = NoConn
        /\ s.pc \notin Holding
    BY <1>1 DEF CallState, Steps, Holding
  <2>2. Become(p, s) /\ queue' = Append(queue, p)
    BY <1>3 DEF LoseLock, Wait
  <2> HIDE DEF s
  <2>3. queue' \in Seq(Calls)
    BY <2>2 DEF PoolInvariant, TypeOK
  <2>4. c \in Held(p) /\ Hands(s) = Held(p) \ {c}
    BY <1>1, <2>1, ConnsAssumption DEF Held, Hands
  <2>5. conn[c].state = "out"
    BY <1>1, <2>4 DEF PoolInvariant, ConnectionsAccounted
  <2>6. /\ conn' \in [Conns -> [state : {"absent", "idle", "out"}, alive : BOOLEAN]]
        /\ \A d \in Conns : d # c => conn'[d] = conn[d]
        /\ conn'[c].state # "out" /\ conn'[c].state # "absent"
    BY <1>1, <1>2, <2>5, GivenBack DEF PoolInvariant
  <2>7. \A k \in Keys : holder[k] # c /\ holder'[k] = holder[k]
    BY <1>1, <1>2, <2>4, NoLockWithoutPass
  <2>8. holder' \in [Keys -> Conns \cup {NoConn, Orphan}] /\ c \in Conns
    BY <1>1, <1>2 DEF PoolInvariant, TypeOK
  <2> HIDE DEF c
  <2> QED BY <1>2, <2>1, <2>2, <2>3, <2>4, <2>6, <2>7, <2>8, LetsGo
<1>4. CASE call[p].kind # "run"
  BY <1>1, <1>2, <1>4, Leaves DEF LoseLock
<1> QED BY <1>3, <1>4

\* A query through the pool is over: of a call that has nothing else, or of a pass.
LEMMA InvariantAfterReadEnds ==
  ASSUME NEW p \in Calls, PoolInvariant, ReadEnds(p)
  PROVE  PoolInvariant'
<1> DEFINE c == call[p].extra
           s == IF At(p, "reading")
                THEN Idle ELSE [call[p] EXCEPT !.pc = "release", !.extra = NoConn]
<1>1. call[p] \in CallState /\ call[p].pc \in {"reading", "rereading"}
  BY DEF ReadEnds, PoolInvariant, TypeOK
<1>2. /\ c \in Conns /\ call[p].own # c
      /\ call[p].own = NoConn <=> call[p].pc = "reading"
  BY <1>1, ConnsAssumption DEF PoolInvariant, HandsFitStep, CallState
<1>3. /\ s \in CallState /\ s.own = call[p].own /\ s.extra = NoConn
      /\ s.pc = IF call[p].pc = "reading" THEN "idle" ELSE "release"
  <2>1. CASE call[p].pc = "reading"
    BY <1>2, <2>1, IdleType DEF At, Idle
  <2>2. CASE call[p].pc = "rereading"
    BY <1>1, <2>2 DEF At, CallState, Steps
  <2> QED BY <1>1, <2>1, <2>2
<1>4. Become(p, s) /\ UNCHANGED <<queue, setup, faults>>
  BY DEF ReadEnds
<1> HIDE DEF s
<1>5. c \in Held(p) /\ Hands(s) = Held(p) \ {c}
  BY <1>2, <1>3, ConnsAssumption DEF Held, Hands
<1>6. conn[c].state = "out" /\ queue' \in Seq(Calls) /\ faults' \in Nat
  BY <1>2, <1>4, <1>5 DEF PoolInvariant, ConnectionsAccounted, TypeOK
<1>7. \A k \in Keys : holder[k] # c
  BY <1>2, <1>5, NoLockWithoutPass
<1>8. /\ conn' \in [Conns -> [state : {"absent", "idle", "out"}, alive : BOOLEAN]]
      /\ \A d \in Conns : d # c => conn'[d] = conn[d]
      /\ conn'[c].state # "out" /\ (conn'[c].alive => conn'[c].state # "absent")
      /\ holder' \in [Keys -> Conns \cup {NoConn, Orphan}]
      /\ \A k \in Keys : holder'[k] = holder[k]
  <2>1. CASE conn[c].alive
    <3>1. GiveBack(c) /\ UNCHANGED holder
      BY <2>1 DEF ReadEnds
    <3>2. holder' \in [Keys -> Conns \cup {NoConn, Orphan}]
      BY <3>1 DEF PoolInvariant, TypeOK
    <3> HIDE DEF c
    <3> QED BY <1>2, <1>6, <3>1, <3>2, GivenBack DEF PoolInvariant
  <2>2. CASE ~conn[c].alive
    <3>1. Destroy(c)
      BY <2>2 DEF ReadEnds
    <3> HIDE DEF c
    <3> QED BY <1>2, <1>7, <3>1, Destroyed DEF PoolInvariant
  <2> QED BY <2>1, <2>2
<1>9. /\ s.own = NoConn <=> s.pc \in {"idle", "connect", "read", "reading"}
      /\ s.pc \in Holding <=> call[p].pc \in Holding
  BY <1>1, <1>2, <1>3 DEF Holding
<1> HIDE DEF c
<1> QED BY <1>2, <1>3, <1>4, <1>5, <1>6, <1>7, <1>8, <1>9, LetsGo

LEMMA InvariantAfterUnlock ==
  ASSUME NEW p \in Calls, PoolInvariant, Unlock(p)
  PROVE  PoolInvariant'
<1> DEFINE s == [call[p] EXCEPT !.pc = "done"]
<1>1. /\ call[p] \in CallState /\ call[p].pc = "release"
      /\ call[p].own \in Conns /\ call[p].extra = NoConn
  BY DEF Unlock, At, PoolInvariant, TypeOK, CallState, HandsFitStep
<1>2. s \in CallState /\ s.pc = "done" /\ s.own = call[p].own /\ s.extra = call[p].extra
  BY <1>1 DEF CallState, Steps
<1>3. Become(p, s) /\ UNCHANGED <<conn, queue, setup, faults>>
  BY DEF Unlock, Goto
<1> HIDE DEF s
<1>4. /\ call' \in [Calls -> CallState] /\ call'[p] = s
      /\ \A q \in Calls : q # p => call'[q] = call[q]
  BY <1>2, <1>3, Becomes DEF PoolInvariant
<1>5. KeyOf[p] \in Keys /\ \A q \in Calls : KeyOf[q] \in Keys
  BY KeysAssumption
<1>6. /\ holder' \in [Keys -> Conns \cup {NoConn, Orphan}]
      /\ holder'[KeyOf[p]] # call[p].own
      /\ holder'[KeyOf[p]] \in {NoConn, holder[KeyOf[p]]}
      /\ holder[KeyOf[p]] # call[p].own => holder'[KeyOf[p]] = holder[KeyOf[p]]
      /\ \A k \in Keys : k # KeyOf[p] => holder'[k] = holder[k]
  BY <1>1, <1>5, ConnsAssumption DEF Unlock, PoolInvariant, TypeOK
<1>7. \A q \in Calls : q # p => call[q].own # call[p].own
  BY <1>1, ConnsAssumption DEF PoolInvariant, ConnectionsAccounted, Held, Hands
<1>8. \A k \in Keys : holder[k] = call[p].own => k = KeyOf[p]
  BY <1>1, <1>7 DEF PoolInvariant, LockBelongsToPass
<1>9. TypeOK'
  BY <1>3, <1>4, <1>6 DEF PoolInvariant, TypeOK
<1>10. ConnectionsAccounted'
  BY <1>2, <1>3, HandsKept DEF PoolInvariant, Held, Hands
<1>11. LockBelongsToPass'
  <2> SUFFICES ASSUME NEW k \in Keys, holder'[k] \in Conns
               PROVE  \E q \in Calls : /\ call'[q].own = holder'[k] /\ KeyOf[q] = k
                                       /\ call'[q].pc \in Holding
    BY DEF LockBelongsToPass
  <2>1. holder'[k] = holder[k] /\ holder[k] # call[p].own
    BY <1>6, <1>8, ConnsAssumption
  <2>2. PICK q \in Calls : call[q].own = holder[k] /\ KeyOf[q] = k /\ call[q].pc \in Holding
    BY <2>1 DEF PoolInvariant, LockBelongsToPass
  <2> QED BY <1>4, <2>1, <2>2
<1>12. DroppedIsDead'
  BY <1>3 DEF PoolInvariant, DroppedIsDead
<1>13. HandsFitStep'
  BY <1>1, <1>2, <1>4 DEF PoolInvariant, HandsFitStep
<1>14. LiveHasLock'
  <2> SUFFICES ASSUME NEW q \in Calls, call'[q].pc \in Holding, conn'[call'[q].own].alive
               PROVE  holder'[KeyOf[q]] = call'[q].own
    BY DEF LiveHasLock, Alive
  <2>1. q # p /\ call'[q] = call[q]
    BY <1>2, <1>4 DEF Holding
  <2>2. holder[KeyOf[q]] = call[q].own
    BY <1>3, <2>1 DEF PoolInvariant, LiveHasLock, Alive
  <2> QED BY <1>5, <1>6, <1>7, <2>1, <2>2
<1> QED BY <1>9, <1>10, <1>11, <1>12, <1>13, <1>14 DEF PoolInvariant

\* What happens to connections and sessions while the calls stand still.
LEMMA InvariantAfterEvict ==
  ASSUME NEW c \in Conns, PoolInvariant, Evict(c)
  PROVE  PoolInvariant'
<1>1. /\ conn[c].state = "idle" /\ ~conn[c].alive
      /\ UNCHANGED <<holder, queue, call, setup, faults>>
  BY DEF Evict
<1>2. /\ conn' \in [Conns -> [state : {"absent", "idle", "out"}, alive : BOOLEAN]]
      /\ conn'[c].state = "absent" /\ ~conn'[c].alive
      /\ \A d \in Conns : d # c => conn'[d] = conn[d]
  BY DEF Evict, Absent, PoolInvariant, TypeOK
<1>3. \A d \in Conns : /\ conn'[d].state = "out" <=> conn[d].state = "out"
                       /\ conn'[d].alive <=> conn[d].alive
  BY <1>1, <1>2
<1>4. \A p \in Calls : Held(p)' = Held(p)
  BY <1>1 DEF Held
<1>5. TypeOK' /\ DroppedIsDead' /\ HandsFitStep' /\ LockBelongsToPass'
  <2>1. TypeOK'
    BY <1>1, <1>2 DEF PoolInvariant, TypeOK
  <2>2. DroppedIsDead'
    BY <1>1, <1>2 DEF PoolInvariant, DroppedIsDead
  <2>3. HandsFitStep' /\ LockBelongsToPass'
    BY <1>1 DEF PoolInvariant, HandsFitStep, LockBelongsToPass
  <2> QED BY <2>1, <2>2, <2>3
<1>6. ConnectionsAccounted'
  BY <1>3, <1>4 DEF PoolInvariant, ConnectionsAccounted
<1>7. LiveHasLock'
  <2>1. \A p \in Calls : call[p].pc \in Holding => call[p].own \in Conns
    BY DEF PoolInvariant, HandsFitStep, TypeOK, CallState, Holding
  <2> QED BY <1>1, <1>3, <2>1 DEF PoolInvariant, LiveHasLock, Alive
<1> QED BY <1>5, <1>6, <1>7 DEF PoolInvariant

LEMMA InvariantAfterDie ==
  ASSUME NEW c \in Conns, PoolInvariant, Die(c)
  PROVE  PoolInvariant'
<1>1. UNCHANGED <<queue, call, setup>> /\ faults' \in Nat
  BY DEF Die, Fault, PoolInvariant, TypeOK
<1>2. /\ conn' \in [Conns -> [state : {"absent", "idle", "out"}, alive : BOOLEAN]]
      /\ conn'[c].state = conn[c].state /\ ~conn'[c].alive
      /\ \A d \in Conns : d # c => conn'[d] = conn[d]
  BY DEF Die, PoolInvariant, TypeOK
<1>3. /\ holder' \in [Keys -> Conns \cup {NoConn, Orphan}]
      /\ \A k \in Keys : IF holder[k] = c THEN holder'[k] \notin Conns ELSE holder'[k] = holder[k]
  BY ConnsAssumption DEF Die, PoolInvariant, TypeOK
<1>4. \A p \in Calls : Held(p)' = Held(p)
  BY <1>1 DEF Held
<1>5. TypeOK'
  BY <1>1, <1>2, <1>3 DEF PoolInvariant, TypeOK
<1>6. DroppedIsDead' /\ HandsFitStep' /\ LockBelongsToPass'
  BY <1>1, <1>2, <1>3 DEF PoolInvariant, DroppedIsDead, HandsFitStep, LockBelongsToPass
<1>7. ConnectionsAccounted'
  BY <1>2, <1>4 DEF PoolInvariant, ConnectionsAccounted
<1>8. LiveHasLock'
  <2> SUFFICES ASSUME NEW p \in Calls, call[p].pc \in Holding, conn'[call[p].own].alive
               PROVE  holder'[KeyOf[p]] = call[p].own
    BY <1>1 DEF LiveHasLock, Alive
  <2>1. call[p].own \in Conns /\ KeyOf[p] \in Keys
    BY KeysAssumption DEF PoolInvariant, HandsFitStep, TypeOK, CallState, Holding
  <2>2. call[p].own # c /\ conn[call[p].own].alive
    BY <1>2, <2>1
  <2>3. holder[KeyOf[p]] = call[p].own
    BY <2>2 DEF PoolInvariant, LiveHasLock, Alive
  <2> QED BY <1>3, <2>1, <2>2, <2>3
<1> QED BY <1>5, <1>6, <1>7, <1>8 DEF PoolInvariant

LEMMA InvariantAfterSessionEnds ==
  ASSUME NEW k \in Keys, PoolInvariant, SessionEnds(k)
  PROVE  PoolInvariant'
<1>1. UNCHANGED <<conn, queue, call, setup, faults>>
  BY DEF SessionEnds
<1>2. /\ holder' \in [Keys -> Conns \cup {NoConn, Orphan}]
      /\ holder[k] = Orphan /\ holder'[k] = NoConn
      /\ \A l \in Keys : l # k => holder'[l] = holder[l]
  BY DEF SessionEnds, PoolInvariant, TypeOK
<1>3. \A p \in Calls : Held(p)' = Held(p)
  BY <1>1 DEF Held
<1>4. TypeOK' /\ DroppedIsDead' /\ HandsFitStep'
  BY <1>1, <1>2 DEF PoolInvariant, TypeOK, DroppedIsDead, HandsFitStep
<1>5. ConnectionsAccounted'
  BY <1>1, <1>3 DEF PoolInvariant, ConnectionsAccounted
<1>6. LockBelongsToPass'
  BY <1>1, <1>2, ConnsAssumption DEF PoolInvariant, LockBelongsToPass
<1>7. LiveHasLock'
  <2> SUFFICES ASSUME NEW p \in Calls, call[p].pc \in Holding, conn[call[p].own].alive
               PROVE  holder'[KeyOf[p]] = call[p].own
    BY <1>1 DEF LiveHasLock, Alive
  <2>1. call[p].own \in Conns /\ KeyOf[p] \in Keys
    BY KeysAssumption DEF PoolInvariant, HandsFitStep, TypeOK, CallState, Holding
  <2>2. holder[KeyOf[p]] = call[p].own
    BY DEF PoolInvariant, LiveHasLock, Alive
  <2> QED BY <1>2, <2>1, <2>2, ConnsAssumption
<1> QED BY <1>4, <1>5, <1>6, <1>7 DEF PoolInvariant

\* Every call is idle, and every connection is dropped.
LEMMA InvariantAtStart ==
  ASSUME conn' = [c \in Conns |-> Absent], queue' = << >>, call' = [p \in Calls |-> Idle],
         holder' \in [Keys -> {NoConn, Orphan}], setup' \in Setups, faults' \in Nat
  PROVE  PoolInvariant'
<1>1. \A p \in Calls : call'[p].pc = "idle" /\ call'[p].own = NoConn /\ call'[p].extra = NoConn
  BY DEF Idle
<1>2. \A c \in Conns : conn'[c].state = "absent" /\ conn'[c].alive = FALSE
  BY DEF Absent
<1>3. TypeOK'
  BY IdleType DEF TypeOK, Absent
<1>4. ConnectionsAccounted'
  BY <1>1, <1>2, ConnsAssumption DEF ConnectionsAccounted, Held, Hands
<1>5. LockBelongsToPass'
  BY ConnsAssumption DEF LockBelongsToPass
<1>6. DroppedIsDead' /\ HandsFitStep'
  BY <1>1, <1>2 DEF DroppedIsDead, HandsFitStep
<1>7. LiveHasLock'
  BY <1>1 DEF LiveHasLock, Holding
<1> QED BY <1>3, <1>4, <1>5, <1>6, <1>7 DEF PoolInvariant

LEMMA InvariantAfterCrash ==
  ASSUME PoolInvariant, Crash
  PROVE  PoolInvariant'
<1>1. holder' \in [Keys -> {NoConn, Orphan}] /\ setup' \in Setups /\ faults' \in Nat
  BY DEF Crash, Fault, PoolInvariant, TypeOK
<1> QED BY <1>1, InvariantAtStart DEF Crash

LEMMA InvariantInit == Init => PoolInvariant
<1> SUFFICES ASSUME Init PROVE PoolInvariant
  OBVIOUS
<1>1. \A p \in Calls : call[p].pc = "idle" /\ call[p].own = NoConn /\ call[p].extra = NoConn
  BY DEF Init, Idle
<1>2. \A c \in Conns : conn[c].state = "absent" /\ conn[c].alive = FALSE
  BY DEF Init, Absent
<1>3. TypeOK
  BY IdleType DEF Init, TypeOK, Absent
<1>4. ConnectionsAccounted
  BY <1>1, <1>2, ConnsAssumption DEF ConnectionsAccounted, Held, Hands
<1>5. LockBelongsToPass
  BY ConnsAssumption DEF Init, LockBelongsToPass
<1>6. DroppedIsDead /\ HandsFitStep
  BY <1>1, <1>2 DEF DroppedIsDead, HandsFitStep
<1>7. LiveHasLock
  BY <1>1 DEF LiveHasLock, Holding
<1> QED BY <1>3, <1>4, <1>5, <1>6, <1>7 DEF PoolInvariant

LEMMA InvariantStep == PoolInvariant /\ [Next]_vars => PoolInvariant'
<1> SUFFICES ASSUME PoolInvariant, [Next]_vars
             PROVE  PoolInvariant'
  OBVIOUS
<1>1. ASSUME NEW p \in Calls, Begin(p) \/ Grant(p) \/ GiveUp(p)
      PROVE  PoolInvariant'
  BY <1>1, InvariantAfterBegin, InvariantAfterGrant, InvariantAfterGiveUp
<1>2. ASSUME NEW p \in Calls, Step(p)
      PROVE  PoolInvariant'
  <2>1. CASE AcquireLock(p) \/ LoseLock(p) \/ LockFails(p)
    BY <2>1, InvariantAfterAcquireLock, InvariantAfterLoseLock, InvariantAfterLockFails
  <2>2. CASE Bookkeep(p) \/ HookEnds(p) \/ Write(p) \/ Conflict(p) \/ PassFails(p)
    BY <2>2, InvariantAfterPassStep
  <2>3. CASE ReadEnds(p) \/ Unlock(p) \/ Done(p) \/ UnlockFails(p)
    BY <2>3, InvariantAfterReadEnds, InvariantAfterUnlock, InvariantAfterDone,
       InvariantAfterUnlockFails
  <2> QED BY <1>2, <2>1, <2>2, <2>3 DEF Step
<1>3. ASSUME NEW c \in Conns, Evict(c) \/ Die(c)
      PROVE  PoolInvariant'
  BY <1>3, InvariantAfterEvict, InvariantAfterDie
<1>4. ASSUME NEW k \in Keys, SessionEnds(k)
      PROVE  PoolInvariant'
  BY <1>4, InvariantAfterSessionEnds
<1>5. CASE Crash
  BY <1>5, InvariantAfterCrash
<1>6. CASE UNCHANGED vars
  BY <1>6 DEF vars, PoolInvariant, TypeOK, ConnectionsAccounted, LockBelongsToPass,
     DroppedIsDead, HandsFitStep, LiveHasLock, Held, Alive
<1> QED BY <1>1, <1>2, <1>3, <1>4, <1>5, <1>6 DEF Next

-----------------------------------------------------------------------------
(* The theorems *)

\* PoolInvariant holds for any calls, operations, connections and number of faults.
THEOREM PoolInvariantHolds == Spec => []PoolInvariant
  BY InvariantInit, InvariantStep, PTL DEF Spec

\* No connection is lost on any path out of a call (tryAcquireLock's, release's, the
\* finally clauses of the passes), and no two calls ever share one.
THEOREM EveryConnectionAccounted == Spec => []ConnectionsAccounted
<1>1. PoolInvariant => ConnectionsAccounted
  BY DEF PoolInvariant
<1> QED BY <1>1, PoolInvariantHolds, PTL

\* No lock outlives its pass on a connection of the pool, however release() ends.
THEOREM NoLockOutlivesItsPass == Spec => []LockBelongsToPass
<1>1. PoolInvariant => LockBelongsToPass
  BY DEF PoolInvariant
<1> QED BY <1>1, PoolInvariantHolds, PTL

\* Of two passes on one operation, one has lost its session: the advisory lock excludes,
\* although one session may take it twice and connections are shared and dropped.
THEOREM LivePassesExclude == Spec => []PassesExclude
<1>1. PoolInvariant => PassesExclude
  <2> SUFFICES ASSUME PoolInvariant, NEW p \in Calls, NEW q \in Calls, p # q,
                      KeyOf[p] = KeyOf[q], call[p].pc \in Holding, call[q].pc \in Holding,
                      Alive(p), Alive(q)
               PROVE  FALSE
    BY DEF PassesExclude
  <2>1. call[p].own = call[q].own
    BY DEF PoolInvariant, LiveHasLock
  <2>2. call[p].own # NoConn
    BY DEF PoolInvariant, HandsFitStep, Holding
  <2> QED BY <2>1, <2>2 DEF PoolInvariant, ConnectionsAccounted, Held, Hands
<1> QED BY <1>1, PoolInvariantHolds, PTL

=============================================================================
