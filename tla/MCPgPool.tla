------------------------------ MODULE MCPgPool ------------------------------
(***************************************************************************)
(* Instances of PgPool for TLC: three callers, two of one operation, and a *)
(* pool of two connections.                                                *)
(***************************************************************************)
EXTENDS PgPoolProperties, TLC

CONSTANTS p1, p2, p3, k1, k2

TwoOperations == p1 :> k1 @@ p2 :> k1 @@ p3 :> k2

\* node-postgres sets no connectionTimeoutMillis, and neither does postgres-pool.test.ts;
\* docs/operations.md does.
AnySetup == [tools : BOOLEAN, timeout : BOOLEAN]
DefaultPoolWithTools == {[tools |-> TRUE, timeout |-> FALSE]}

=============================================================================
