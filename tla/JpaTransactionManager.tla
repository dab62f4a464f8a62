----------------------- MODULE JpaTransactionManager -----------------------
(***************************************************************************)
(* The transaction manager that acme.framework.controllers.Abstract-       *)
(* Controller calls (Spring's PlatformTransactionManager over JPA), as far *)
(* as the controller can tell.  It is not part of the repository: every    *)
(* definition here is external, modelled from how the controller uses it.  *)
(*                                                                         *)
(* getTransaction uses the default definition, so it joins a transaction   *)
(* that is open on the calling thread, and otherwise takes a connection    *)
(* from the pool and binds a new transaction to that thread.  Completing   *)
(* the status of a new transaction ends it in the database and unbinds     *)
(* whatever is bound to the thread that makes the call, which need not be  *)
(* the thread that began it.                                               *)
(***************************************************************************)
EXTENDS Naturals, FiniteSets

CONSTANTS
  Threads,    \* the servlet container's worker threads
  Tx,         \* the transaction statuses that getTransaction can return
  NoTx,       \* the null status, and the absence of a bound transaction
  PoolSize    \* the connections that the data source hands out

VARIABLES
  st,            \* st[x]: the state of status x
  joins,         \* joins[x]: the transaction x joined, NoTx if it began its own
  bound,         \* bound[t]: the transaction bound to thread t
  rollbackOnly   \* the transactions that may only be rolled back

\* "stranded": the status is completed, but nobody ended its transaction.
TxStates == {"none", "active", "committed", "rolledback", "stranded"}

TMTypeOK ==
  /\ st \in [Tx -> TxStates]
  /\ joins \in [Tx -> Tx \union {NoTx}]
  /\ bound \in [Threads -> Tx \union {NoTx}]
  /\ rollbackOnly \subseteq Tx

TMInit ==
  /\ st = [x \in Tx |-> "none"]
  /\ joins = [x \in Tx |-> NoTx]
  /\ bound = [t \in Threads |-> NoTx]
  /\ rollbackOnly = {}

\* A status that has been obtained and not been completed.
Open(x) == x # NoTx /\ st[x] = "active"

(***************************************************************************)
(* A transaction that some status began, is still running in the database, *)
(* or has been made durable.                                               *)
(***************************************************************************)
Running(x) == Open(x) /\ joins[x] = NoTx
Durable(x) == x # NoTx /\ st[x] = "committed" /\ joins[x] = NoTx
HoldsConnection(x) == st[x] \in {"active", "stranded"} /\ joins[x] = NoTx

ConnectionFree == Cardinality({x \in Tx : HoldsConnection(x)}) < PoolSize

-----------------------------------------------------------------------------
(***************************************************************************)
(* getTransaction on thread t, returning status x.                         *)
(***************************************************************************)
Begin(t, x) ==
  /\ st' = [st EXCEPT ![x] = "active"]
  /\ UNCHANGED rollbackOnly
  /\ \/ /\ Running(bound[t])
        /\ joins' = [joins EXCEPT ![x] = bound[t]]
        /\ UNCHANGED bound
     \/ /\ bound[t] = NoTx
        /\ ConnectionFree
        /\ bound' = [bound EXCEPT ![t] = x]
        /\ UNCHANGED joins

(***************************************************************************)
(* getTransaction throws: the database cannot be reached, no connection    *)
(* was returned to the pool in time, or the transaction still bound to the *)
(* thread has been completed, and its entity manager closed, by another.   *)
(***************************************************************************)
BeginFails(t) ==
  /\ ~Running(bound[t])
  /\ UNCHANGED <<st, joins, bound, rollbackOnly>>

\* What completing status x on thread t leaves behind.
Complete(t, x, outcome) ==
  /\ st' = [st EXCEPT ![x] = outcome]
  /\ bound' = IF joins[x] = NoTx THEN [bound EXCEPT ![t] = NoTx] ELSE bound
  /\ UNCHANGED joins

\* Whether the transaction behind status x has been marked rollback-only.
Doomed(x) == x \in rollbackOnly \/ joins[x] \in rollbackOnly

(***************************************************************************)
(* commit(x) on thread t returns; committing a status that joined another  *)
(* transaction changes nothing in the database.                            *)
(***************************************************************************)
Commit(t, x) ==
  /\ Open(x) /\ ~Doomed(x)
  /\ Complete(t, x, "committed")
  /\ UNCHANGED rollbackOnly

(***************************************************************************)
(* commit(x) throws: x is null or already completed, its transaction was   *)
(* marked rollback-only, or the database refuses the flush (a stale        *)
(* version, a duplicate key, a lost connection).                           *)
(***************************************************************************)
CommitFails(t, x) ==
  \/ /\ ~Open(x)
     /\ UNCHANGED <<st, joins, bound, rollbackOnly>>
  \/ /\ Open(x)
     /\ joins[x] = NoTx \/ Doomed(x)
     /\ Complete(t, x, "rolledback")
     /\ UNCHANGED rollbackOnly

(***************************************************************************)
(* rollback(x) on thread t returns, or throws.  A joined status can only   *)
(* mark the transaction it joined.  On a thread with nothing bound there   *)
(* is no synchronization to notify: the call throws before the database is *)
(* told, and the transaction is stranded.                                  *)
(***************************************************************************)
Rollback(t, x) ==
  /\ Open(x)
  /\ joins[x] = NoTx => bound[t] # NoTx
  /\ Complete(t, x, "rolledback")
  /\ rollbackOnly' = rollbackOnly \union ({joins[x]} \ {NoTx})

RollbackFails(t, x) ==
  \/ /\ ~Open(x)
     /\ UNCHANGED <<st, joins, bound, rollbackOnly>>
  \/ /\ Open(x) /\ joins[x] = NoTx
     /\ Complete(t, x, IF bound[t] = NoTx THEN "stranded" ELSE "rolledback")
     /\ UNCHANGED rollbackOnly

(***************************************************************************)
(* A runtime exception leaves a @Transactional method on thread t.         *)
(***************************************************************************)
MarkRollbackOnly(t) ==
  /\ rollbackOnly' = rollbackOnly \union {x \in {bound[t]} : Running(x)}
  /\ UNCHANGED <<st, joins, bound>>

(***************************************************************************)
(* The process dies: the database rolls back what was not committed.       *)
(***************************************************************************)
LoseConnections ==
  /\ st' = [x \in Tx |-> IF st[x] \in {"active", "stranded"}
                         THEN "rolledback" ELSE st[x]]
  /\ bound' = [t \in Threads |-> NoTx]
  /\ rollbackOnly' = {}
  /\ UNCHANGED joins

=============================================================================
