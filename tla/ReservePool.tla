----------------------------- MODULE ReservePool -----------------------------
(***************************************************************************)
(* The database connections a reserve needs.                               *)
(*                                                                         *)
(* reserve (server/src/usage/service.ts:15-36) runs in db.transaction,     *)
(* which checks one client out of the pool until the commit; inside it,    *)
(* readSubscription (68-81) queries `db`, not `tx`, and so checks out a    *)
(* second one.  The pool (server/src/db/client.ts:9-15) is built without   *)
(* `max` and without connectionTimeoutMillis: it has a fixed number of     *)
(* clients and a caller waits for one as long as it takes.                 *)
(***************************************************************************)
EXTENDS Naturals, Sequences, FiniteSets

CONSTANTS Reserves,   \* requests that have come to reserve
          Readers,    \* requests that run one statement outside a transaction
          PoolSize    \* clients of the pool (pg's default: 10)

ASSUME RequestsAssumption == /\ IsFiniteSet(Reserves) /\ IsFiniteSet(Readers)
                             /\ Reserves \cap Readers = {}
ASSUME PoolAssumption     == PoolSize \in Nat \ {0}

VARIABLES phase,   \* where each request is
          queue    \* the pool's pending callers, first come first served

vars == <<phase, queue>>

Requests == Reserves \cup Readers

\* "wantTx" and "wantRead" wait in the queue; a reserve holds its transaction's
\* client from "inTx" to "readDone".
Phases  == {"start", "wantTx", "inTx", "wantRead", "reading", "readDone", "done"}
Waiting == {"wantTx", "wantRead"}
InTransaction(r) == r \in Reserves /\ phase[r] \in {"inTx", "wantRead", "reading", "readDone"}

TxClients   == {r \in Reserves : InTransaction(r)}
ReadClients == {r \in Requests : phase[r] = "reading"}
InUse == Cardinality(TxClients) + Cardinality(ReadClients)

Init == phase = [r \in Requests |-> "start"] /\ queue = <<>>

-----------------------------------------------------------------------------

\* Pool.connect: a client at once, or a place in the queue.
CheckOut(r, want, got) ==
    IF InUse < PoolSize
    THEN phase' = [phase EXCEPT ![r] = got] /\ UNCHANGED queue
    ELSE phase' = [phase EXCEPT ![r] = want] /\ queue' = Append(queue, r)

Granted(p) == IF p = "wantTx" THEN "inTx" ELSE "reading"

\* Pool.release: r goes on without one client; the first caller in the queue,
\* if any, gets it.
HandOver(r, to) ==
    IF queue = <<>>
    THEN phase' = [phase EXCEPT ![r] = to] /\ UNCHANGED queue
    ELSE LET next == Head(queue) IN
         /\ queue' = Tail(queue)
         /\ phase' = [phase EXCEPT ![r] = to, ![next] = Granted(@)]

-----------------------------------------------------------------------------
Begin(r) == r \in Reserves /\ phase[r] = "start" /\ CheckOut(r, "wantTx", "inTx")

\* After the INSERT, or at once for a request outside a transaction.
ReadSubscription(r) ==
    /\ phase[r] = IF r \in Reserves THEN "inTx" ELSE "start"
    /\ CheckOut(r, "wantRead", "reading")

FinishRead(r) ==
    /\ phase[r] = "reading"
    /\ HandOver(r, IF r \in Reserves THEN "readDone" ELSE "done")

\* The conditional UPDATE, then COMMIT.
Commit(r) == phase[r] = "readDone" /\ HandOver(r, "done")

Step(r) == Begin(r) \/ ReadSubscription(r) \/ FinishRead(r) \/ Commit(r)

Next == \E r \in Requests : Step(r)

Spec == Init /\ [][Next]_vars

\* The event loop resumes whoever has a client.
FairSpec == Spec /\ \A r \in Requests : WF_vars(Step(r))

-----------------------------------------------------------------------------
TypeOK == phase \in [Requests -> Phases] /\ queue \in Seq(Requests)

\* The pool never lends more clients than it has.
NeverOversubscribed == InUse <= PoolSize

\* A caller only waits while every client is out (service.ts:16, 27).
WaitsOnlyWhenExhausted == queue # <<>> => InUse = PoolSize

\* Somebody waits for a client and nobody who has one can go on.
Gridlock == /\ queue # <<>>
            /\ \A r \in Requests : phase[r] \in {"start", "done"} \cup Waiting

\* With fewer reserves in flight than clients there is always one left for the
\* nested read: no gridlock.
NoGridlock == ~Gridlock

\* "Returns true if the ask is allowed, false if the free limit is reached"
\* (service.ts:13): it returns.
ReserveReturns == \A r \in Reserves : phase[r] # "start" ~> phase[r] = "done"
=============================================================================
