------------------------------- MODULE SqlStore -------------------------------
(***************************************************************************)
(* The pgx-backed stores of src/database/postgres/postgres.go and          *)
(* src/database/cockroach/store.go (the two share every method but        *)
(* MonitorAndAdjustPool) over a pgxpool of fixed size.                     *)
(*                                                                         *)
(* Each request goroutine runs one unit of work in one of the shapes the  *)
(* methods' comments describe:                                             *)
(*   "plain"  Exec(ctx)                                                    *)
(*   "acq"    WithAcquire; Exec; Release                                   *)
(*   "tx"     TransactionContext; Exec; Commit or Rollback                 *)
(*   "acqtx"  WithAcquire; TransactionContext; Exec; Commit or Rollback;   *)
(*            Release                                                      *)
(*   "query"  Query (or QueryRow); read the rows; rows.Close (or Scan)     *)
(* A connection is a model value; the database is reduced to the set of  *)
(* goroutines whose statement has been committed.                          *)
(***************************************************************************)
EXTENDS Naturals, FiniteSets

CONSTANTS
    Conns,        \* the pool's connections (pgxpool MaxConns of them)
    G,            \* request goroutines
    Programs,     \* the shapes of unit of work a goroutine may run
    InitMaxOpen,  \* the values db.Config.MaxOpenConns may start at
    MaxOpenBound, \* bound on db.Config.MaxOpenConns for the monitor
    None          \* model value: no connection

ASSUME Programs \subseteq {"plain", "acq", "tx", "acqtx", "query"}

VARIABLES
    prog,      \* the unit of work of each goroutine
    gpc,       \* its next step
    ctxConn,   \* the connection WithAcquire put in its context, or None
    ctxTx,     \* the connection of the transaction in its context, or None
    txFromPool,\* whether that transaction acquired its own connection
    execConn,  \* the connection db.Pool.Exec is using for it, or None
    holder,    \* holder[c]: the goroutine holding connection c, or None
    committed, \* goroutines whose statement is durable
    outcome,   \* "none" | "commit" | "rollback": how its transaction ended
    maxOpen,   \* db.Config.MaxOpenConns
    pool       \* "open" | "closing" (db.Close() waits in Pool.Close) | "closed"

vars == <<prog, gpc, ctxConn, ctxTx, txFromPool, execConn, holder, committed,
          outcome, maxOpen, pool>>

Idle == {c \in Conns : holder[c] = None}

\* The first step of each shape.
Start(p) == CASE p \in {"acq", "acqtx"} -> "acquire"
              [] p = "tx"             -> "begin"
              [] p = "query"          -> "query"
              [] OTHER                -> "exec"

Init ==
    /\ prog \in [G -> Programs]
    /\ gpc = [g \in G |-> Start(prog[g])]
    /\ ctxConn = [g \in G |-> None]
    /\ ctxTx = [g \in G |-> None]
    /\ txFromPool = [g \in G |-> FALSE]
    /\ execConn = [g \in G |-> None]
    /\ holder = [c \in Conns |-> None]
    /\ committed = {}
    /\ outcome = [g \in G |-> "none"]
    /\ maxOpen \in InitMaxOpen
    /\ pool = "open"

\* pgxpool's Acquire, and so Begin, Exec and Query on the pool, return an
\* error once Close has been called (puddle.ErrClosedPool).
Rejects == pool # "open"

(* A call on the closed pool returns its error and the caller goes on at  *)
(* `next`; nothing is acquired.                                            *)
Fails(g, next) ==
    /\ Rejects
    /\ gpc' = [gpc EXCEPT ![g] = next]
    /\ UNCHANGED <<prog, ctxConn, ctxTx, txFromPool, execConn, holder, committed,
                   outcome, maxOpen, pool>>

(* WithAcquire: db.Pool.Acquire blocks until a connection is idle; on a    *)
(* closed pool it returns nil, err and the caller gives up its work.       *)
WithAcquire(g) ==
    /\ gpc[g] = "acquire"
    /\ \/ /\ ~Rejects
          /\ \E c \in Idle :
               /\ holder' = [holder EXCEPT ![c] = g]
               /\ ctxConn' = [ctxConn EXCEPT ![g] = c]
          /\ gpc' = [gpc EXCEPT ![g] = IF prog[g] = "acqtx" THEN "begin" ELSE "exec"]
          /\ UNCHANGED <<prog, ctxTx, txFromPool, execConn, committed, outcome, maxOpen, pool>>
       \/ Fails(g, "done")

(* Conn: the context's transaction, else its acquired connection, else    *)
(* db.Pool (None).                                                         *)
Conn(g) == IF ctxTx[g] # None THEN ctxTx[g] ELSE ctxConn[g]

(* Mutant: Conn looks only for a transaction in the context, so Begin      *)
(* always acquires a fresh connection from the pool.                       *)
TransactionContextIgnoresConn(g) ==
    /\ gpc[g] = "begin"
    /\ ~Rejects
    /\ \E c \in Idle :
         /\ holder' = [holder EXCEPT ![c] = g]
         /\ ctxTx' = [ctxTx EXCEPT ![g] = c]
         /\ txFromPool' = [txFromPool EXCEPT ![g] = TRUE]
    /\ gpc' = [gpc EXCEPT ![g] = "exec"]
    /\ UNCHANGED <<prog, ctxConn, execConn, committed, outcome, maxOpen, pool>>

(* TransactionContext: db.Conn(ctx).Begin(ctx).  Conn returns the acquired *)
(* connection when the context has one, else the pool, whose Begin         *)
(* acquires a connection that the transaction holds until it ends.  An    *)
(* acquired connection stays usable after Close; the pool's Begin fails    *)
(* and TransactionContext returns nil, err.                                *)
TransactionContext(g) ==
    /\ gpc[g] = "begin"
    /\ \/ /\ Conn(g) # None
          /\ ctxTx' = [ctxTx EXCEPT ![g] = Conn(g)]
          /\ gpc' = [gpc EXCEPT ![g] = "exec"]
          /\ UNCHANGED <<prog, ctxConn, execConn, committed, outcome, maxOpen, pool,
                         holder, txFromPool>>
       \/ /\ Conn(g) = None
          /\ \/ /\ ~Rejects
                /\ \E c \in Idle :
                     /\ holder' = [holder EXCEPT ![c] = g]
                     /\ ctxTx' = [ctxTx EXCEPT ![g] = c]
                     /\ txFromPool' = [txFromPool EXCEPT ![g] = TRUE]
                /\ gpc' = [gpc EXCEPT ![g] = "exec"]
                /\ UNCHANGED <<prog, ctxConn, execConn, committed, outcome, maxOpen, pool>>
             \/ Fails(g, "done")

(* Mutant: a WithAcquire unit returns after its Exec without Release.    *)
AfterExecNoRelease(p) == CASE p = "plain" -> "done"
                           [] p = "acq"   -> "done"
                           [] OTHER       -> "end"

(* Where a unit of work goes after its Exec.                               *)
AfterExec(p) == CASE p = "plain" -> "done"
                  [] p = "acq"   -> "release"
                  [] OTHER       -> "end"

(* Exec: db.Pool.Exec, whatever the context holds.  The pool acquires a    *)
(* connection, blocking until one is idle ...  On a closed pool Exec logs  *)
(* and returns dbx.Errors(err), even when the context holds a live         *)
(* connection or transaction, and the caller goes on with its unit.        *)
ExecAcquire(g) ==
    /\ gpc[g] = "exec"
    /\ \/ /\ ~Rejects
          /\ \E c \in Idle :
               /\ holder' = [holder EXCEPT ![c] = g]
               /\ execConn' = [execConn EXCEPT ![g] = c]
          /\ gpc' = [gpc EXCEPT ![g] = "running"]
          /\ UNCHANGED <<prog, ctxConn, ctxTx, txFromPool, committed, outcome, maxOpen, pool>>
       \/ Fails(g, AfterExec(prog[g]))

(* ... runs the statement in autocommit mode and releases the connection. *)
ExecFinish(g) ==
    /\ gpc[g] = "running"
    /\ committed' = committed \cup {g}
    /\ holder' = [holder EXCEPT ![execConn[g]] = None]
    /\ execConn' = [execConn EXCEPT ![g] = None]
    /\ gpc' = [gpc EXCEPT ![g] = AfterExec(prog[g])]
    /\ UNCHANGED <<prog, ctxConn, ctxTx, txFromPool, outcome, maxOpen, pool>>

(* Query / QueryRow: db.Pool.Query acquires a connection, blocking until   *)
(* one is idle, and hands it to the returned rows; on a closed pool Query *)
(* returns nil, dbx.Errors(err) (QueryRow's Row reports it on Scan).       *)
QueryAcquire(g) ==
    /\ gpc[g] = "query"
    /\ \/ /\ ~Rejects
          /\ \E c \in Idle :
               /\ holder' = [holder EXCEPT ![c] = g]
               /\ execConn' = [execConn EXCEPT ![g] = c]
          /\ gpc' = [gpc EXCEPT ![g] = "rows"]
          /\ UNCHANGED <<prog, ctxConn, ctxTx, txFromPool, committed, outcome, maxOpen, pool>>
       \/ Fails(g, "done")

(* The caller's rows.Close (or Row.Scan) gives the connection back.        *)
RowsClose(g) ==
    /\ gpc[g] = "rows"
    /\ holder' = [holder EXCEPT ![execConn[g]] = None]
    /\ execConn' = [execConn EXCEPT ![g] = None]
    /\ gpc' = [gpc EXCEPT ![g] = "done"]
    /\ UNCHANGED <<prog, ctxConn, ctxTx, txFromPool, committed, outcome, maxOpen, pool>>

(* Mutant: a transaction begun on the pool keeps its connection after     *)
(* Commit or Rollback.                                                     *)
EndTransactionKeepsConn(g) ==
    /\ gpc[g] = "end"
    /\ \E o \in {"commit", "rollback"} : outcome' = [outcome EXCEPT ![g] = o]
    /\ ctxTx' = [ctxTx EXCEPT ![g] = None]
    /\ txFromPool' = [txFromPool EXCEPT ![g] = FALSE]
    /\ gpc' = [gpc EXCEPT ![g] = IF prog[g] = "acqtx" THEN "release" ELSE "done"]
    /\ UNCHANGED <<prog, ctxConn, execConn, committed, maxOpen, holder, pool>>

(* Commit or Rollback: the transaction in the context ends; one begun on  *)
(* the pool gives its connection back.                                    *)
EndTransaction(g) ==
    /\ gpc[g] = "end"
    /\ \E o \in {"commit", "rollback"} : outcome' = [outcome EXCEPT ![g] = o]
    /\ holder' = IF txFromPool[g] THEN [holder EXCEPT ![ctxTx[g]] = None] ELSE holder
    /\ ctxTx' = [ctxTx EXCEPT ![g] = None]
    /\ txFromPool' = [txFromPool EXCEPT ![g] = FALSE]
    /\ gpc' = [gpc EXCEPT ![g] = IF prog[g] = "acqtx" THEN "release" ELSE "done"]
    /\ UNCHANGED <<prog, ctxConn, execConn, committed, maxOpen, pool>>

(* Release: the connection WithAcquire put in the context goes back.      *)
Release(g) ==
    /\ gpc[g] = "release"
    /\ holder' = [holder EXCEPT ![ctxConn[g]] = None]
    /\ ctxConn' = [ctxConn EXCEPT ![g] = None]
    /\ gpc' = [gpc EXCEPT ![g] = "done"]
    /\ UNCHANGED <<prog, ctxTx, txFromPool, execConn, committed, outcome, maxOpen, pool>>

(* Mutant: the decrease branch without its `MaxOpenConns > 10` floor.      *)
MonitorNoFloor ==
    /\ LET active == Cardinality(Conns \ Idle)
       IN \/ /\ 5 * active > 4 * maxOpen
             /\ maxOpen + 5 <= MaxOpenBound
             /\ maxOpen' = maxOpen + 5
          \/ /\ ~(5 * active > 4 * maxOpen)
             /\ 5 * active < maxOpen
             /\ maxOpen' = maxOpen - 5
    /\ UNCHANGED <<prog, gpc, ctxConn, ctxTx, txFromPool, execConn, holder,
                   committed, outcome, pool>>

(* One tick of MonitorAndAdjustPool (cockroach): compare the acquired     *)
(* connections with 80% and 20% of db.Config.MaxOpenConns and move it by  *)
(* 5.  The new value goes to a copy of the pool's config, so the pool     *)
(* itself keeps its size.                                                  *)
Monitor ==
    /\ LET active == Cardinality(Conns \ Idle)
       IN \/ /\ 5 * active > 4 * maxOpen
             /\ maxOpen + 5 <= MaxOpenBound
             /\ maxOpen' = maxOpen + 5
          \/ /\ ~(5 * active > 4 * maxOpen)
             /\ 5 * active < maxOpen /\ maxOpen > 10
             /\ maxOpen' = maxOpen - 5
    /\ UNCHANGED <<prog, gpc, ctxConn, ctxTx, txFromPool, execConn, holder,
                   committed, outcome, pool>>

(* db.Close() (either store): db.Pool.Close() closes the pool to new      *)
(* acquires at once, then waits ...                                        *)
CloseStart ==
    /\ pool = "open"
    /\ pool' = "closing"
    /\ UNCHANGED <<prog, gpc, ctxConn, ctxTx, txFromPool, execConn, holder,
                   committed, outcome, maxOpen>>

(* ... until every acquired connection is back, and db.Close() logs and   *)
(* returns.                                                                *)
CloseReturn ==
    /\ pool = "closing"
    /\ Idle = Conns
    /\ pool' = "closed"
    /\ UNCHANGED <<prog, gpc, ctxConn, ctxTx, txFromPool, execConn, holder,
                   committed, outcome, maxOpen>>

(* Every unit of work has finished.                                        *)
Finished ==
    /\ \A g \in G : gpc[g] = "done"
    /\ UNCHANGED vars

Next ==
    \/ \E g \in G :
         \/ WithAcquire(g) \/ TransactionContext(g) \/ ExecAcquire(g)
         \/ ExecFinish(g) \/ EndTransaction(g) \/ Release(g)
         \/ QueryAcquire(g) \/ RowsClose(g)
    \/ Monitor
    \/ CloseStart \/ CloseReturn
    \/ Finished

(* The runtime runs every runnable goroutine; pgxpool hands an idle       *)
(* connection to a waiting Acquire, and Pool.Close returns once the last   *)
(* connection is back.  Whoever calls db.Close() may never call it.        *)
Fairness ==
    /\ WF_vars(CloseReturn)
    /\ \A g \in G :
          /\ WF_vars(WithAcquire(g)) /\ WF_vars(TransactionContext(g))
          /\ WF_vars(ExecAcquire(g)) /\ WF_vars(ExecFinish(g))
          /\ WF_vars(EndTransaction(g)) /\ WF_vars(Release(g))
          /\ WF_vars(QueryAcquire(g)) /\ WF_vars(RowsClose(g))

Spec == Init /\ [][Next]_vars /\ Fairness

-----------------------------------------------------------------------------
TypeOK ==
    /\ prog \in [G -> Programs]
    /\ gpc \in [G -> {"acquire", "begin", "exec", "running", "end", "release",
                         "query", "rows", "done"}]
    /\ ctxConn \in [G -> Conns \cup {None}]
    /\ ctxTx \in [G -> Conns \cup {None}]
    /\ txFromPool \in [G -> BOOLEAN]
    /\ execConn \in [G -> Conns \cup {None}]
    /\ holder \in [Conns -> G \cup {None}]
    /\ committed \subseteq G
    /\ outcome \in [G -> {"none", "commit", "rollback"}]
    /\ maxOpen \in Nat
    /\ pool \in {"open", "closing", "closed"}

\* The connections a goroutine's context and its running Exec or open rows
\* account for.
Accounted(g) ==
    ({ctxConn[g], execConn[g]} \cup (IF txFromPool[g] THEN {ctxTx[g]} ELSE {}))
      \ {None}

(* Every connection out of the pool is accounted for by exactly one       *)
(* goroutine's context or running Exec, and is given back: WithAcquire/   *)
(* Release, a pool-begun transaction's Commit/Rollback and Exec neither   *)
(* leak a connection nor hand one to two goroutines.                       *)
ConnectionsAccountedFor ==
    \A c \in Conns, g \in G : holder[c] = g <=> c \in Accounted(g)

(* With more pool connections than request goroutines, every unit of work *)
(* finishes: no goroutine waits forever in Acquire, Begin or Exec.         *)
AllRequestsComplete ==
    <>(\A g \in G : gpc[g] = "done")

(* db.Close() returns.  Once Pool.Close has been called, every unit of    *)
(* work gives back what it holds, on its success path and on each error    *)
(* path the closed pool forces on it (WithAcquire, Begin, Exec and Query   *)
(* failing while the context may still hold a connection or a transaction),*)
(* so Close stops waiting and a graceful-shutdown operation that calls it  *)
(* ends without the force-exit timer.                                      *)
CloseReturns ==
    pool = "closing" ~> pool = "closed"

(* A statement executed with a transaction's context and rolled back      *)
(* leaves no trace in the database (TransactionContext's comment: the     *)
(* changes take effect once db.Commit(ctx) is called).                     *)
RollbackUndoesWrites ==
    \A g \in G : outcome[g] = "rollback" => g \notin committed
=============================================================================
