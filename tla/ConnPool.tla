------------------------------ MODULE ConnPool ------------------------------
(***************************************************************************)
(* The pool of shared/database/connection.go, of which each process has    *)
(* one: a transaction holds a connection, and three handlers use           *)
(* database.DB inside of one, which asks the pool for another and waits    *)
(* for it without a limit.                                                 *)
(***************************************************************************)
EXTENDS Naturals, FiniteSets

CONSTANTS
    Handlers,   \* requests, each of which may come again
    Pool        \* SetMaxOpenConns: 10

ASSUME PoolAssumption == Pool \in Nat \ {0} /\ IsFiniteSet(Handlers)

VARIABLES
    handler,    \* what each request does
    held        \* how many connections it holds

poolVars == <<handler, held>>

\* plain: one statement or one transaction.
\* Create of a bookmark and Logout: one statement on database.DB inside of the
\* transaction.  Update of lastread: a transaction, then a statement.
PoolKinds == {"plain", "create", "logout", "lastread"}

\* Variant with a bug: lastread looks its row up on a connection of its own.
NestedWithLookup(kind) == IF kind = "lastread" THEN 3 ELSE IF kind = "plain" THEN 0 ELSE 1

Nested(kind) == IF kind = "lastread" THEN 2 ELSE IF kind = "plain" THEN 0 ELSE 1

PoolTypeOK ==
    /\ handler \in [Handlers -> [pc : {"idle", "begin", "outer", "inner"}, kind : PoolKinds, left : 0..2]]
    /\ held \in [Handlers -> 0..2]

PoolInit ==
    /\ handler = [h \in Handlers |-> [pc |-> "idle", kind |-> "plain", left |-> 0]]
    /\ held = [h \in Handlers |-> 0]

-----------------------------------------------------------------------------
\* Connections that the handlers hold.
InUse == Cardinality({h \in Handlers : held[h] > 0}) + Cardinality({h \in Handlers : held[h] > 1})

At(h, pc) == handler[h].pc = pc

Enter(h) ==
    /\ At(h, "idle")
    /\ \E kind \in PoolKinds :
         handler' = [handler EXCEPT ![h] = [pc |-> "begin", kind |-> kind, left |-> Nested(kind)]]
    /\ UNCHANGED held

\* Variant with a bug: a connection that is put back is given out twice.
FreeOneMore == InUse <= Pool

Free == InUse < Pool

\* A statement or a BEGIN gets a connection of the pool, or waits.
Begin(h) ==
    /\ At(h, "begin") /\ Free
    /\ handler' = [handler EXCEPT ![h].pc = "outer"]
    /\ held' = [held EXCEPT ![h] = 1]

\* ... so does a statement on database.DB inside of the transaction.
AcquireInner(h) ==
    /\ At(h, "outer") /\ handler[h].left > 0 /\ Free
    /\ handler' = [handler EXCEPT ![h].pc = "inner", ![h].left = @ - 1]
    /\ held' = [held EXCEPT ![h] = 2]

\* The inner statement ends; after an error nothing more is asked for.
ReleaseInner(h) ==
    /\ At(h, "inner")
    /\ \E left \in {0, handler[h].left} :
         handler' = [handler EXCEPT ![h].pc = "outer", ![h].left = left]
    /\ held' = [held EXCEPT ![h] = 1]

\* Variant with a bug: a failed transaction is not rolled back.
HeldAfterRollbackMissing(h) == IF handler[h].kind = "plain" THEN 0 ELSE 1

HeldAfter(h) == 0

\* Commit or Rollback returns the connection.
Finish(h) ==
    /\ At(h, "outer") /\ handler[h].left = 0
    /\ handler' = [handler EXCEPT ![h] = [pc |-> "idle", kind |-> "plain", left |-> 0]]
    /\ held' = [held EXCEPT ![h] = HeldAfter(h)]

Acquire(h) == Begin(h) \/ AcquireInner(h)

Release(h) == ReleaseInner(h) \/ Finish(h)

PoolNext == \E h \in Handlers : Enter(h) \/ Acquire(h) \/ Release(h)

\* Statements end, and the pool gives a free connection to any that waits:
\* nobody is passed over for ever.
PoolFairness == \A h \in Handlers : SF_poolVars(Acquire(h)) /\ WF_poolVars(Release(h))

PoolSpec == PoolInit /\ [][PoolNext]_poolVars /\ PoolFairness

-----------------------------------------------------------------------------
\* A handler that waits for a connection while it holds one.
WaitsWithOne == {h \in Handlers : At(h, "outer") /\ handler[h].left > 0}

\* A handler under way that can take its next step: a statement or transaction
\* of its own ends, or the connection it asks for is free.
CanGoOn(h) ==
    \/ At(h, "inner")
    \/ At(h, "outer") /\ handler[h].left = 0
    \/ Free /\ ~At(h, "idle")

\* Requests are under way, and none of them is ever answered.
Stuck == (\E h \in Handlers : ~At(h, "idle")) /\ ~\E h \in Handlers : CanGoOn(h)

\* Requests block each other for ever only when every connection of the pool
\* is held by a handler that asks for a second one: no request that needs one
\* connection at a time is among the holders, and no connection was lost with a
\* request that failed.  (More requests may be waiting for their first one.)
StuckOnlyWhenAllNested == Stuck => Cardinality(WaitsWithOne) = Pool

\* The requests that need a second connection.
NestedUnderWay == {h \in Handlers : ~At(h, "idle") /\ handler[h].kind # "plain"}

\* As long as fewer of those are under way than the pool has connections,
\* every request is answered.
PoolAnswers ==
    [](Cardinality(NestedUnderWay) < Pool) =>
      \A h \in Handlers : ~At(h, "idle") ~> At(h, "idle")
=============================================================================
