-------------------------- MODULE RequestGateProofs --------------------------
(***************************************************************************)
(* RequestGate and the pool it uses, for every size of the windows, of     *)
(* their limits and of the pool, and any number of requests.               *)
(***************************************************************************)
EXTENDS RequestGate, FiniteSetTheorems, TLAPS

(***************************************************************************)
(* The pool.                                                               *)
(***************************************************************************)
(* Only a reserve opens a transaction.                                      *)
PhaseFacts == \A r \in Readers : phase[r] \in {"start", "wantRead", "reading", "done"}

(* The queue holds each waiting request once.                               *)
QueueFacts ==
    /\ \A i \in 1..Len(queue) : phase[queue[i]] \in Waiting
    /\ \A i, j \in 1..Len(queue) : queue[i] = queue[j] => i = j

IInv == TypeOK /\ PhaseFacts /\ QueueFacts /\ NeverOversubscribed /\ WaitsOnlyWhenExhausted

-----------------------------------------------------------------------------
LEMMA ClientsFinite ==
  /\ IsFiniteSet(TxClients) /\ IsFiniteSet(ReadClients)
  /\ Cardinality(TxClients) \in Nat /\ Cardinality(ReadClients) \in Nat
  /\ Cardinality(TxClients) <= Cardinality(Reserves) /\ Cardinality(Reserves) \in Nat
  <1>1. TxClients \in SUBSET Reserves /\ ReadClients \in SUBSET Requests
    BY DEF TxClients, ReadClients
  <1>2. IsFiniteSet(Requests)
    BY RequestsAssumption, FS_Union DEF Requests
  <1> QED BY <1>1, <1>2, RequestsAssumption, FS_Subset, FS_CardinalityType

\* One element of a finite set is replaced by another.
LEMMA Swap ==
  ASSUME NEW S, IsFiniteSet(S), NEW x \in S, NEW y, y \notin S
  PROVE  Cardinality((S \ {x}) \cup {y}) = Cardinality(S)
  <1>1. IsFiniteSet(S \ {x}) /\ Cardinality(S \ {x}) = Cardinality(S) - 1
    BY FS_RemoveElement
  <1>2. Cardinality((S \ {x}) \cup {y}) = Cardinality(S \ {x}) + 1
    BY <1>1, FS_AddElement
  <1> QED BY <1>1, <1>2, FS_CardinalityType

-----------------------------------------------------------------------------
\* Checking a client out keeps the pool's bookkeeping right.
LEMMA CheckOutKeeps ==
  ASSUME IInv, NEW r \in Requests, Begin(r) \/ ReadSubscription(r)
  PROVE  IInv'
  <1> USE PoolAssumption, RequestsAssumption, ClientsFinite DEF IInv
  <1>0. TypeOK /\ phase \in [Requests -> Phases] /\ queue \in Seq(Requests)
    BY DEF TypeOK
  <1>1. phase[r] \notin Waiting /\ \A i \in 1..Len(queue) : queue[i] # r
    BY DEF Begin, ReadSubscription, QueueFacts, Waiting
  <1>2. CASE InUse < PoolSize
    <2>1. queue = <<>> /\ UNCHANGED queue
      BY <1>2 DEF WaitsOnlyWhenExhausted, InUse, Begin, ReadSubscription, CheckOut
    <2>2. CASE Begin(r)
      <3>1. phase' = [phase EXCEPT ![r] = "inTx"] /\ r \in Reserves /\ phase[r] = "start"
        BY <1>2, <2>2 DEF Begin, CheckOut
      <3>2. TxClients' = TxClients \cup {r} /\ r \notin TxClients /\ ReadClients' = ReadClients
        BY <1>0, <3>1 DEF TxClients, ReadClients, InTransaction, Requests
      <3>3. InUse' = InUse + 1
        <4>1. Cardinality(TxClients') = Cardinality(TxClients) + 1
          BY <3>2, FS_AddElement
        <4> QED BY <3>2, <4>1 DEF InUse
      <3>4. TypeOK' /\ PhaseFacts' /\ QueueFacts'
        BY <1>0, <2>1, <3>1 DEF TypeOK, PhaseFacts, QueueFacts, Phases, Requests
      <3> QED BY <1>2, <2>1, <3>3, <3>4 DEF NeverOversubscribed, WaitsOnlyWhenExhausted, InUse
    <2>3. CASE ReadSubscription(r)
      <3>1. /\ phase' = [phase EXCEPT ![r] = "reading"]
            /\ phase[r] = IF r \in Reserves THEN "inTx" ELSE "start"
        BY <1>2, <2>3 DEF ReadSubscription, CheckOut
      <3>2. ReadClients' = ReadClients \cup {r} /\ r \notin ReadClients
        BY <1>0, <3>1 DEF ReadClients, Requests
      <3>3. TxClients' = TxClients
        BY <1>0, <3>1 DEF TxClients, InTransaction, Requests
      <3>4. InUse' = InUse + 1
        <4>1. Cardinality(ReadClients') = Cardinality(ReadClients) + 1
          BY <3>2, FS_AddElement
        <4> QED BY <3>3, <4>1 DEF InUse
      <3>5. TypeOK' /\ PhaseFacts' /\ QueueFacts'
        BY <1>0, <2>1, <3>1 DEF TypeOK, PhaseFacts, QueueFacts, Phases, Requests
      <3> QED BY <1>2, <2>1, <3>4, <3>5 DEF NeverOversubscribed, WaitsOnlyWhenExhausted, InUse
    <2> QED BY <2>2, <2>3
  <1>3. CASE ~(InUse < PoolSize)
    <2>1. PICK want \in Waiting : /\ phase' = [phase EXCEPT ![r] = want]
                                  /\ queue' = Append(queue, r)
                                  /\ r \in Readers => want = "wantRead"
                                  /\ want = "wantTx" => phase[r] = "start"
                                  /\ want = "wantRead" =>
                                       phase[r] = IF r \in Reserves THEN "inTx" ELSE "start"
      BY <1>3 DEF Begin, ReadSubscription, CheckOut, Waiting
    <2>2. TxClients' = TxClients /\ ReadClients' = ReadClients
      BY <1>0, <2>1 DEF TxClients, ReadClients, InTransaction, Requests, Waiting
    <2>3. InUse' = InUse
      BY <2>2 DEF InUse
    <2>4. TypeOK' /\ PhaseFacts'
      BY <1>0, <2>1 DEF TypeOK, PhaseFacts, Phases, Requests, Waiting
    <2>5. QueueFacts'
      <3>1. Len(queue') = Len(queue) + 1 /\ Len(queue) \in Nat
        BY <1>0, <2>1
      <3>2. \A i \in 1..Len(queue') : queue'[i] = IF i <= Len(queue) THEN queue[i] ELSE r
        BY <1>0, <2>1
      <3>3. \A i \in 1..Len(queue) : phase'[queue[i]] = phase[queue[i]]
        BY <1>0, <1>1, <2>1
      <3>4. phase'[r] \in Waiting
        BY <1>0, <2>1
      <3> QED BY <1>1, <3>1, <3>2, <3>3, <3>4 DEF QueueFacts
    <2> QED BY <1>3, <2>3, <2>4, <2>5 DEF NeverOversubscribed, WaitsOnlyWhenExhausted, InUse
  <1> QED BY <1>2, <1>3

\* A client that comes back goes to the first caller, or back to the pool.
LEMMA HandOverKeeps ==
  ASSUME IInv, NEW r \in Requests, FinishRead(r) \/ Commit(r)
  PROVE  IInv'
  <1> USE PoolAssumption, RequestsAssumption, ClientsFinite DEF IInv
  <1>0. TypeOK /\ phase \in [Requests -> Phases] /\ queue \in Seq(Requests)
    BY DEF TypeOK
  <1>1. PICK to \in {"readDone", "done"} :
          /\ HandOver(r, to)
          /\ \/ phase[r] = "reading" /\ to = (IF r \in Reserves THEN "readDone" ELSE "done")
             \/ phase[r] = "readDone" /\ to = "done"
    BY DEF FinishRead, Commit
  <1>2. phase[r] = "readDone" => r \in Reserves
    BY DEF PhaseFacts, Requests
  <1>3. CASE queue = <<>>
    <2>1. phase' = [phase EXCEPT ![r] = to] /\ UNCHANGED queue
      BY <1>1, <1>3 DEF HandOver
    <2>2. \/ TxClients' = TxClients /\ ReadClients' = ReadClients \ {r} /\ r \in ReadClients
          \/ TxClients' = TxClients \ {r} /\ r \in TxClients /\ ReadClients' = ReadClients
      BY <1>0, <1>1, <1>2, <2>1 DEF TxClients, ReadClients, InTransaction, Requests
    <2>3. InUse' = InUse - 1
      BY <2>2, FS_RemoveElement DEF InUse
    <2>4. TypeOK' /\ PhaseFacts' /\ QueueFacts'
      BY <1>0, <1>1, <1>2, <1>3, <2>1 DEF TypeOK, PhaseFacts, QueueFacts, Phases, Requests
    <2> QED BY <1>3, <2>1, <2>3, <2>4 DEF NeverOversubscribed, WaitsOnlyWhenExhausted, InUse
  <1>4. CASE queue # <<>>
    <2> DEFINE n == Head(queue)
    <2>0. Len(queue) \in Nat \ {0} /\ n = queue[1] /\ n \in Requests
      BY <1>0, <1>4
    <2>1. phase[n] \in Waiting /\ n # r
      BY <1>1, <2>0 DEF QueueFacts, Waiting
    <2>2. queue' = Tail(queue) /\ phase' = [phase EXCEPT ![r] = to, ![n] = Granted(phase[n])]
      BY <1>0, <1>1, <1>4, <2>0, <2>1 DEF HandOver
    <2>3. /\ phase'[r] = to /\ phase'[n] = Granted(phase[n])
          /\ \A q \in Requests \ {r, n} : phase'[q] = phase[q]
      BY <1>0, <2>0, <2>1, <2>2
    <2>4. phase[n] = "wantTx" => n \in Reserves
      BY <2>0 DEF PhaseFacts, Requests
    <2>5. /\ phase[r] = "reading" => TxClients \ {n} = TxClients' \ {n}
                                     /\ r \in ReadClients /\ r \notin ReadClients'
          /\ phase[r] = "readDone" => r \in TxClients /\ r \notin TxClients'
                                      /\ r \notin ReadClients /\ r \notin ReadClients'
      BY <1>0, <1>1, <1>2, <2>0, <2>1, <2>3
      DEF TxClients, ReadClients, InTransaction, Requests
    <2>6. /\ phase[n] = "wantTx" => n \notin TxClients /\ n \in TxClients'
                                    /\ n \notin ReadClients /\ n \notin ReadClients'
          /\ phase[n] = "wantRead" => (n \in TxClients <=> n \in TxClients')
                                      /\ n \notin ReadClients /\ n \in ReadClients'
      BY <1>0, <2>0, <2>1, <2>3, <2>4
      DEF TxClients, ReadClients, InTransaction, Requests, Granted
    <2>7. /\ TxClients \ {r, n} = TxClients' \ {r, n}
          /\ ReadClients \ {r, n} = ReadClients' \ {r, n}
      BY <2>3 DEF TxClients, ReadClients, InTransaction, Requests
    <2>8. InUse' = InUse
      <3>1. CASE phase[r] = "reading" /\ phase[n] = "wantTx"
        <4>1. TxClients' = TxClients \cup {n} /\ ReadClients' = ReadClients \ {r}
          BY <2>5, <2>6, <2>7, <3>1
        <4>2. Cardinality(TxClients') = Cardinality(TxClients) + 1
          BY <2>6, <3>1, <4>1, FS_AddElement
        <4>3. Cardinality(ReadClients') = Cardinality(ReadClients) - 1
          BY <2>5, <3>1, <4>1, FS_RemoveElement
        <4> QED BY <4>2, <4>3 DEF InUse
      <3>2. CASE phase[r] = "reading" /\ phase[n] = "wantRead"
        <4>1. TxClients' = TxClients /\ ReadClients' = (ReadClients \ {r}) \cup {n}
          BY <2>5, <2>6, <2>7, <3>2
        <4> QED BY <2>5, <2>6, <3>2, <4>1, Swap DEF InUse
      <3>3. CASE phase[r] = "readDone" /\ phase[n] = "wantTx"
        <4>1. TxClients' = (TxClients \ {r}) \cup {n} /\ ReadClients' = ReadClients
          BY <2>5, <2>6, <2>7, <3>3
        <4> QED BY <2>5, <2>6, <3>3, <4>1, Swap DEF InUse
      <3>4. CASE phase[r] = "readDone" /\ phase[n] = "wantRead"
        <4>1. TxClients' = TxClients \ {r} /\ ReadClients' = ReadClients \cup {n}
          BY <2>5, <2>6, <2>7, <3>4
        <4>2. Cardinality(TxClients') = Cardinality(TxClients) - 1
          BY <2>5, <3>4, <4>1, FS_RemoveElement
        <4>3. Cardinality(ReadClients') = Cardinality(ReadClients) + 1
          BY <2>6, <3>4, <4>1, FS_AddElement
        <4> QED BY <4>2, <4>3 DEF InUse
      <3> QED BY <1>1, <2>1, <3>1, <3>2, <3>3, <3>4 DEF Waiting
    <2>9. TypeOK' /\ PhaseFacts'
      <3>1. phase' \in [Requests -> Phases]
        BY <1>0, <1>1, <2>0, <2>1, <2>2 DEF Phases, Waiting, Granted
      <3>2. queue' \in Seq(Requests)
        BY <1>0, <1>4, <2>2
      <3>3. PhaseFacts'
        <4> SUFFICES ASSUME NEW q \in Readers
                     PROVE  phase'[q] \in {"start", "wantRead", "reading", "done"}
          BY DEF PhaseFacts
        <4>1. CASE q = r
          BY <1>1, <1>2, <2>3, <4>1
        <4>2. CASE q = n
          BY <2>1, <2>3, <2>4, <4>2 DEF Waiting, Granted
        <4>3. CASE q \notin {r, n}
          BY <2>3, <4>3 DEF PhaseFacts, Requests
        <4> QED BY <4>1, <4>2, <4>3
      <3> QED BY <3>1, <3>2, <3>3 DEF TypeOK
    <2>10. QueueFacts'
      <3>1. Len(queue') = Len(queue) - 1
        BY <1>0, <1>4, <2>2
      <3>2. \A i \in 1..Len(queue') : queue'[i] = queue[i + 1] /\ i + 1 \in 1..Len(queue)
        BY <1>0, <1>4, <2>0, <2>2, <3>1
      <3>3. \A i \in 1..Len(queue') : queue'[i] # n /\ queue'[i] # r /\ queue'[i] \in Requests
        BY SMTT(30), <1>0, <1>1, <2>0, <3>2 DEF QueueFacts, Waiting
      <3>4. \A i \in 1..Len(queue') : phase'[queue'[i]] \in Waiting
        BY <2>3, <3>2, <3>3 DEF QueueFacts
      <3>5. \A i, j \in 1..Len(queue') : queue'[i] = queue'[j] => i = j
        <4> SUFFICES ASSUME NEW i \in 1..Len(queue'), NEW j \in 1..Len(queue'),
                            queue'[i] = queue'[j]
                     PROVE  i = j
          OBVIOUS
        <4>1. i + 1 = j + 1
          BY <3>2 DEF QueueFacts
        <4>2. i \in Int /\ j \in Int
          BY <1>0, <2>0, <3>1
        <4> QED BY <4>1, <4>2
      <3> QED BY <3>4, <3>5 DEF QueueFacts
    <2> QED BY <1>4, <2>8, <2>9, <2>10 DEF NeverOversubscribed, WaitsOnlyWhenExhausted, InUse
  <1> QED BY <1>3, <1>4

-----------------------------------------------------------------------------
THEOREM Inductive == Spec => []IInv
  <1>1. Init => IInv
    <2> SUFFICES ASSUME Init PROVE IInv
      OBVIOUS
    <2>1. TxClients = {} /\ ReadClients = {}
      BY DEF Init, TxClients, ReadClients, InTransaction, Requests
    <2> QED BY <2>1, FS_EmptySet, PoolAssumption
            DEF Init, IInv, TypeOK, PhaseFacts, QueueFacts, NeverOversubscribed,
                WaitsOnlyWhenExhausted, InUse, Phases, Requests
  <1>2. IInv /\ [Next]_vars => IInv'
    <2>1. ASSUME IInv, UNCHANGED vars PROVE IInv'
      BY <2>1 DEF vars, IInv, TypeOK, PhaseFacts, QueueFacts, NeverOversubscribed,
                  WaitsOnlyWhenExhausted, InUse, TxClients, ReadClients, InTransaction
    <2> QED BY <2>1, CheckOutKeeps, HandOverKeeps DEF Next, Step
  <1> QED BY <1>1, <1>2, PTL DEF Spec

\* The pool lends no more clients than it has.
THEOREM PoolIsNeverOversubscribed == Spec => []NeverOversubscribed
  BY Inductive, PTL DEF IInv

\* While fewer reserves are in flight than the pool has clients, they cannot
\* wait on each other: the nested read always finds a client, or one that will
\* come back.
THEOREM FewReservesNeverGridlock ==
  ASSUME Cardinality(Reserves) < PoolSize PROVE Spec => []NoGridlock
  <1>1. IInv => NoGridlock
    <2> SUFFICES ASSUME IInv, Gridlock PROVE FALSE
      BY DEF NoGridlock
    <2>1. InUse = PoolSize
      BY DEF IInv, WaitsOnlyWhenExhausted, Gridlock
    <2>2. ReadClients = {}
      BY DEF Gridlock, ReadClients, Waiting
    <2>3. InUse <= Cardinality(Reserves)
      BY <2>2, ClientsFinite, FS_EmptySet DEF InUse
    <2> QED BY <2>1, <2>3, ClientsFinite, PoolAssumption
  <1> QED BY <1>1, Inductive, PTL

(***************************************************************************)
(* The windows.                                                            *)
(***************************************************************************)

(* What the argument needs to know of types.                                *)
WindowTypes ==
    /\ now \in Nat /\ now <= MaxNow
    /\ at \in [Reserves -> {"idle", "keys", "credits", "route"} \cup Kinds \cup Ended]
    /\ stamp \in [Reserves -> Nat]
    /\ hits \in [Kinds -> [Windows -> Nat]]
    /\ through \in [Kinds -> Nat] /\ unseen \in [Kinds -> Nat]

Row(k) == hits[k][WindowOf(k, now)]

(* The row of an open window counts every call it let through but those     *)
(* whose statement failed: the sweep takes closed windows only.             *)
RowsCountCalls == \A k \in Kinds : through[k] <= Row(k) + unseen[k]

WInv == WindowTypes /\ RowsCountCalls /\ AllowanceIsKept

-----------------------------------------------------------------------------
LEMMA Division ==
  ASSUME NEW n \in Nat, NEW l \in Nat \ {0}
  PROVE  /\ n \div l \in Nat /\ n \div l <= n
         /\ ~((n \div l) + 1) * l <= n
  <1>1. n \div l \in Nat
    BY SMT
  <1>2. n \div l <= n
    BY Z3
  <1>3. ~((n \div l) + 1) * l <= n
    BY Z3
  <1> QED BY <1>1, <1>2, <1>3

LEMMA KindsAreTimed == \A k \in Kinds : Length(k) \in Nat \ {0} /\ Limit(k) \in Nat \ {0}
  BY TimesAssumption DEF Kinds, Length, Limit

LEMMA OpenWindow ==
  ASSUME WindowTypes, NEW k \in Kinds
  PROVE  /\ WindowOf(k, now) \in Windows /\ ~Closed(k, WindowOf(k, now))
         /\ Row(k) \in Nat /\ through[k] \in Nat /\ unseen[k] \in Nat /\ Limit(k) \in Nat
  <1>1. WindowOf(k, now) \in Nat /\ WindowOf(k, now) <= now /\ ~Closed(k, WindowOf(k, now))
    BY KindsAreTimed, Division DEF WindowTypes, WindowOf, Closed
  <1>2. WindowOf(k, now) \in Windows
    BY <1>1, TimesAssumption DEF WindowTypes, Windows
  <1> QED BY <1>1, <1>2, KindsAreTimed DEF WindowTypes, Row

\* A step that neither counts nor sweeps leaves the windows as they were.
LEMMA WindowsUntouched ==
  ASSUME WInv, WindowTypes', UNCHANGED <<now, hits, through, unseen>>
  PROVE  WInv'
  BY DEF WInv, RowsCountCalls, Row, AllowanceIsKept

\* A window that has just been opened has let nobody through.
LEMMA TickingKeeps ==
  ASSUME WInv, Tick
  PROVE  WInv'
  <1>1. /\ now' = now + 1 /\ now < MaxNow /\ UNCHANGED <<at, stamp, hits>>
        /\ through' = StillOpen(through) /\ unseen' = StillOpen(unseen)
    BY DEF Tick
  <1>2. WindowTypes /\ MaxNow \in Nat
    BY TimesAssumption DEF WInv
  <1>3. WindowTypes'
    <2>1. now' \in Nat /\ now' <= MaxNow
      BY <1>1, <1>2 DEF WindowTypes
    <2>2. through' \in [Kinds -> Nat] /\ unseen' \in [Kinds -> Nat]
      BY <1>1, <1>2 DEF WindowTypes, StillOpen
    <2> QED BY <1>1, <1>2, <2>1, <2>2 DEF WindowTypes
  <1>4. ASSUME NEW k \in Kinds
        PROVE  through'[k] <= Row(k)' + unseen'[k] /\ through'[k] <= Limit(k) + unseen'[k]
    <2>1. Row(k)' \in Nat /\ Limit(k) \in Nat
      <3>1. WindowOf(k, now') \in Nat /\ WindowOf(k, now') <= now'
        BY <1>3, KindsAreTimed, Division DEF WindowTypes, WindowOf
      <3>2. WindowOf(k, now') \in Windows
        BY <1>2, <1>3, <3>1 DEF WindowTypes, Windows
      <3>3. Row(k)' = hits'[k][WindowOf(k, now')]
        BY DEF Row, WindowOf
      <3> QED BY <1>3, <3>2, <3>3, KindsAreTimed DEF WindowTypes
    <2>2. CASE WindowOf(k, now') = WindowOf(k, now)
      BY <1>1, <2>2 DEF StillOpen, Row, WInv, RowsCountCalls, AllowanceIsKept
    <2>3. CASE WindowOf(k, now') # WindowOf(k, now)
      <3>1. through'[k] = 0 /\ unseen'[k] = 0
        BY <1>1, <2>3 DEF StillOpen
      <3> QED BY <2>1, <3>1
    <2> QED BY <2>2, <2>3
  <1> QED BY <1>3, <1>4 DEF WInv, RowsCountCalls, AllowanceIsKept

-----------------------------------------------------------------------------
\* A call is let through by its place, one more than the row held, or because its
\* statement failed, which is noted; the row loses nothing by either.
LEMMA CountingKeeps ==
  ASSUME WInv, NEW q \in Reserves, Counted(q) \/ CountFails(q)
  PROVE  WInv'
  <1> DEFINE k == at[q]
             w == WindowOf(k, stamp[q])
             n == hits[k][w] + 1
             lets == w = WindowOf(k, now)
             more(c) == [c EXCEPT ![k] = c[k] + 1]
  <1>1. /\ k \in Kinds
        /\ at' = [at EXCEPT ![q] = Then(k)] \/ at' = [at EXCEPT ![q] = OverLimit(k)]
        /\ stamp' = [stamp EXCEPT ![q] = 0]
        /\ now' = now
    BY DEF Counted, CountFails
  <1>2. WindowTypes
    BY DEF WInv
  <1>3. \/ hits' = [hits EXCEPT ![k][w] = n] /\ through' = through /\ unseen' = unseen
        \/ hits' = [hits EXCEPT ![k][w] = n] /\ lets /\ Within(k, n)
             /\ through' = more(through) /\ unseen' = unseen
        \/ hits' \in {hits, [hits EXCEPT ![k][w] = n]} /\ through' = through /\ unseen' = unseen
        \/ hits' \in {hits, [hits EXCEPT ![k][w] = n]}
             /\ lets /\ through' = more(through) /\ unseen' = more(unseen)
    BY DEF Counted, CountFails, WithCall
  <1>4. /\ w \in Windows => n \in Nat
        /\ hits' \in [Kinds -> [Windows -> Nat]]
    <2>1. w \in Windows => n \in Nat
      BY <1>1, <1>2 DEF WindowTypes
    <2>2. hits[k] \in [Windows -> Nat]
      BY <1>1, <1>2 DEF WindowTypes
    <2> HIDE DEF w, n, lets, more
    <2>3. [hits[k] EXCEPT ![w] = n] \in [Windows -> Nat]
      BY <2>1, <2>2
    <2>4. hits' = hits \/ hits' = [hits EXCEPT ![k] = [hits[k] EXCEPT ![w] = n]]
      BY <1>3
    <2> QED BY <1>1, <1>2, <2>4, <2>3 DEF WindowTypes
  <1>5. WindowTypes'
    <2>1. Then(k) \in {"burst", "daily", "route"} /\ OverLimit(k) \in {"overBurst", "overDaily"}
      BY DEF Then, Order, OverLimit
    <2>2. at' \in [Reserves -> {"idle", "keys", "credits", "route"} \cup Kinds \cup Ended]
      BY <1>1, <1>2, <2>1 DEF WindowTypes, Kinds, Ended, Refused
    <2>3. more(through) \in [Kinds -> Nat] /\ more(unseen) \in [Kinds -> Nat]
      BY <1>1, <1>2 DEF WindowTypes
    <2>4. through' \in [Kinds -> Nat] /\ unseen' \in [Kinds -> Nat]
      <3> HIDE DEF w, n, lets, more
      <3> QED BY <1>2, <1>3, <2>3 DEF WindowTypes
    <2>5. stamp' \in [Reserves -> Nat]
      BY <1>1, <1>2 DEF WindowTypes
    <2> QED BY <1>1, <1>2, <1>4, <2>2, <2>4, <2>5 DEF WindowTypes
  <1>6. ASSUME NEW j \in Kinds
        PROVE  through'[j] <= Row(j)' + unseen'[j] /\ through'[j] <= Limit(j) + unseen'[j]
    <2>1. /\ through[j] <= Row(j) + unseen[j] /\ through[j] <= Limit(j) + unseen[j]
      BY DEF WInv, RowsCountCalls, AllowanceIsKept
    <2>2. /\ WindowOf(j, now) \in Windows
          /\ Row(j) \in Nat /\ through[j] \in Nat /\ unseen[j] \in Nat /\ Limit(j) \in Nat
      BY <1>2, OpenWindow
    <2>3. Row(j)' = hits'[j][WindowOf(j, now)]
      BY <1>1 DEF Row
    <2>4. /\ hits' = hits => Row(j)' = Row(j)
          /\ hits' = [hits EXCEPT ![k][w] = n] =>
                Row(j)' = IF j = k /\ lets THEN Row(j) + 1 ELSE Row(j)
      BY <1>1, <1>2, <2>2, <2>3 DEF Row, WindowTypes
    <2>5. /\ more(through)[j] = IF j = k THEN through[j] + 1 ELSE through[j]
          /\ more(unseen)[j] = IF j = k THEN unseen[j] + 1 ELSE unseen[j]
      BY <1>1, <1>2 DEF WindowTypes
    <2>6. lets /\ Within(k, n) => Row(k) + 1 <= Limit(k)
      BY DEF Within, Row
    <2> HIDE DEF lets, more, n, w
    <2>7. Row(j)' \in {Row(j), Row(j) + 1}
      BY <1>3, <2>4
    <2>8. CASE j # k \/ (through' = through /\ unseen' = unseen)
      <3>1. through'[j] = through[j] /\ unseen'[j] = unseen[j]
        BY <1>3, <2>5, <2>8
      <3> QED BY <2>1, <2>2, <2>7, <3>1
    <2>9. CASE j = k /\ through' = more(through) /\ unseen' = more(unseen)
      <3>1. through'[j] = through[j] + 1 /\ unseen'[j] = unseen[j] + 1
        BY <2>5, <2>9
      <3> QED BY <2>1, <2>2, <2>7, <3>1
    <2>10. CASE j = k /\ hits' = [hits EXCEPT ![k][w] = n] /\ lets /\ Within(k, n)
                 /\ through' = more(through) /\ unseen' = unseen
      <3>1. through'[j] = through[j] + 1 /\ unseen'[j] = unseen[j] /\ Row(j)' = Row(j) + 1
        BY <2>4, <2>5, <2>10
      <3>2. Row(j) + 1 <= Limit(j)
        BY <2>6, <2>10
      <3> QED BY <2>1, <2>2, <3>1, <3>2
    <2> QED BY <1>3, <2>8, <2>9, <2>10
  <1> QED BY <1>5, <1>6 DEF WInv, RowsCountCalls, AllowanceIsKept

\* The sweep empties rows of closed windows.
LEMMA SweepingKeeps ==
  ASSUME WInv, NEW q \in Reserves, SweepRuns(q)
  PROVE  WInv'
  <1>1. /\ hits' = [k \in Kinds |-> [w \in Windows |-> IF Closed(k, w) THEN 0 ELSE hits[k][w]]]
        /\ UNCHANGED <<at, stamp, through, unseen, now>>
    BY DEF SweepRuns
  <1>2. WindowTypes'
    BY <1>1 DEF WInv, WindowTypes
  <1>3. ASSUME NEW k \in Kinds PROVE Row(k)' = Row(k)
    BY <1>1, OpenWindow DEF WInv, Row
  <1> QED BY <1>1, <1>2, <1>3 DEF WInv, RowsCountCalls, AllowanceIsKept

-----------------------------------------------------------------------------
(* The windows start empty.                                                 *)
THEOREM WindowsBegin == GateInit => WInv
  <1> SUFFICES ASSUME GateInit PROVE WInv
    OBVIOUS
  <1>1. WindowTypes
    BY TimesAssumption DEF GateInit, WindowTypes
  <1>2. \A k \in Kinds : through[k] = 0 /\ unseen[k] = 0
    BY DEF GateInit
  <1>3. RowsCountCalls /\ AllowanceIsKept
    BY <1>1, <1>2, OpenWindow DEF RowsCountCalls, AllowanceIsKept
  <1> QED BY <1>1, <1>3 DEF WInv

(* Every step keeps the allowances, with their rows.                        *)
THEOREM WindowsStep == WInv /\ [GateNext]_gateVars => WInv'
  <1> SUFFICES ASSUME WInv, [GateNext]_gateVars PROVE WInv'
    OBVIOUS
  <1> DEFINE Still == /\ UNCHANGED <<now, hits, through, unseen>>
                      /\ at' \in [Reserves -> {"idle", "keys", "credits", "route"} \cup Kinds \cup Ended]
                      /\ stamp' \in [Reserves -> Nat]
  <1>1. Still => WInv'
    BY WindowsUntouched DEF WInv, WindowTypes
  <1>t. /\ now \in Nat /\ now <= MaxNow
        /\ at \in [Reserves -> {"idle", "keys", "credits", "route"} \cup Kinds \cup Ended]
        /\ stamp \in [Reserves -> Nat]
    BY DEF WInv, WindowTypes
  <1>2. ASSUME NEW q \in Reserves, Arrive(q) PROVE Still
    BY <1>2, <1>t DEF Arrive, Refresh, windowVars, Kinds, Ended, Refused
  <1>3. ASSUME Rotate PROVE Still
    BY <1>3, <1>t DEF Rotate, windowVars
  <1>5. ASSUME KeysAreRead PROVE Still
    BY <1>5, <1>t DEF KeysAreRead, windowVars
  <1>6. ASSUME KeysArrive PROVE Still
    BY <1>6, <1>t DEF KeysArrive, windowVars, Ended, Refused
  <1>7. ASSUME KeysFail PROVE Still
    BY <1>7, <1>t DEF KeysFail, windowVars, Ended, Refused
  <1>8. ASSUME NEW q \in Reserves, Issue(q) PROVE Still
    BY <1>8, <1>t DEF Issue, windowVars
  <1>9. ASSUME NEW q \in Reserves, RequireCredits(q) PROVE Still
    BY <1>9, <1>t DEF RequireCredits, Order, windowVars, Kinds, Ended, Refused
  <1>11. ASSUME NEW q \in Reserves, Route(q) PROVE Still
    BY <1>11, <1>t DEF Route, windowVars, Ended
  <1>12. ASSUME NEW q \in Reserves, SweepBegins(q) PROVE Still
    BY <1>12, <1>t DEF SweepBegins, windowVars
  <1>13. CASE UNCHANGED gateVars
    BY <1>13, <1>t, <1>1 DEF gateVars, windowVars
  <1> QED
    BY <1>1, <1>2, <1>3, <1>5, <1>6, <1>7, <1>8, <1>9, <1>11, <1>12, <1>13,
       TickingKeeps, CountingKeeps, SweepingKeeps DEF GateNext, Surroundings, Keys, Serve, Sweep

(* However requests, sweeps, failures and ticks interleave, and wherever a  *)
(* window's edge falls between a call's statement and its answer, a window  *)
(* lets through no more than its maximum while it is open, and one call     *)
(* for each of its statements that failed.                                  *)
THEOREM AllowancesHold == GateSpec => []AllowanceIsKept
  <1>1. WInv => AllowanceIsKept
    BY DEF WInv
  <1> QED BY WindowsBegin, WindowsStep, <1>1, PTL DEF GateSpec

-----------------------------------------------------------------------------
(* A reload in flight was issued by some request.                           *)
LoadIsOwned == inflight = NoLoad \/ inflight.by \in Reserves

LEMMA LoadsAreOwned == GateSpec => []LoadIsOwned
  <1>1. GateInit => LoadIsOwned
    BY DEF GateInit, LoadIsOwned
  <1>2. LoadIsOwned /\ [GateNext]_gateVars => LoadIsOwned'
    <2> SUFFICES ASSUME LoadIsOwned, [GateNext]_gateVars PROVE LoadIsOwned'
      OBVIOUS
    <2>1. ASSUME NEW q \in Reserves, Arrive(q) PROVE LoadIsOwned'
      BY <2>1 DEF Arrive, Refresh, LoadIsOwned
    <2>2. ASSUME KeysAreRead PROVE LoadIsOwned'
      BY <2>2 DEF KeysAreRead, LoadIsOwned
    <2>3. ASSUME KeysArrive \/ KeysFail PROVE LoadIsOwned'
      BY <2>3 DEF KeysArrive, KeysFail, LoadIsOwned
    <2>4. ASSUME Rotate \/ Tick PROVE LoadIsOwned'
      BY <2>4 DEF Rotate, Tick, keyVars, LoadIsOwned
    <2>5. ASSUME NEW q \in Reserves,
                 Issue(q) \/ RequireCredits(q) \/ Counted(q) \/ CountFails(q) \/ Route(q) \/ Sweep(q)
          PROVE  LoadIsOwned'
      BY <2>5 DEF Issue, RequireCredits, Counted, CountFails, Route, Sweep, SweepBegins, SweepRuns,
                  keyVars, LoadIsOwned
    <2>6. ASSUME UNCHANGED gateVars PROVE LoadIsOwned'
      BY <2>6 DEF gateVars, keyVars, LoadIsOwned
    <2> QED
      BY <2>1, <2>2, <2>3, <2>4, <2>5, <2>6 DEF GateNext, Surroundings, Keys, Serve
  <1> QED BY <1>1, <1>2, PTL DEF GateSpec

(* Every statement of the gate goes through the pool: whatever holds of     *)
(* ReservePool above holds of the pool under the whole gate.               *)
THEOREM GateUsesThePool == GateSpec => Spec
  <1>1. GateInit => Init
    BY DEF GateInit
  <1>2. LoadIsOwned /\ [GateNext]_gateVars => [Next]_vars
    <2> SUFFICES ASSUME LoadIsOwned, [GateNext]_gateVars
                 PROVE  (\E r \in Requests : Step(r)) \/ UNCHANGED vars
      BY DEF Next
    <2>0. \A q \in Reserves, s \in Statements : <<q, s>> \in Requests
      BY ReadersAssumption DEF Requests
    <2>1. ASSUME NEW q \in Reserves, NEW s \in Statements,
                 ReadSubscription(<<q, s>>) \/ FinishRead(<<q, s>>)
          PROVE  \E r \in Requests : Step(r)
      BY <2>0, <2>1 DEF Step
    <2>2. ASSUME NEW q \in Reserves, Arrive(q) PROVE UNCHANGED vars \/ ReadSubscription(<<q, "keys">>)
      BY <2>2 DEF Arrive, Refresh, poolVars
    <2>3. ASSUME Rotate \/ Tick \/ KeysAreRead PROVE UNCHANGED vars
      BY <2>3 DEF Rotate, Tick, KeysAreRead, poolVars
    <2>4. ASSUME KeysArrive \/ KeysFail 
          PROVE  FinishRead(<<inflight.by, "keys">>) /\ inflight.by \in Reserves
      BY <2>4 DEF KeysArrive, KeysFail, LoadIsOwned, NoLoad
    <2>5. ASSUME NEW q \in Reserves, Issue(q) PROVE ReadSubscription(<<q, at[q]>>) /\ at[q] \in Statements
      BY <2>5 DEF Issue, Kinds, Statements
    <2>6. ASSUME NEW q \in Reserves, RequireCredits(q) PROVE UNCHANGED vars
      BY <2>6 DEF RequireCredits, poolVars
    <2>7. ASSUME NEW q \in Reserves, Counted(q) \/ CountFails(q)
          PROVE  FinishRead(<<q, at[q]>>) /\ at[q] \in Statements
      BY <2>7 DEF Counted, CountFails, Kinds, Statements
    <2>8. ASSUME NEW q \in Reserves, Route(q) PROVE Step(q) /\ q \in Requests
      BY <2>8 DEF Route, Requests
    <2>9. ASSUME NEW q \in Reserves, Sweep(q)
          PROVE  ReadSubscription(<<q, "sweep">>) \/ FinishRead(<<q, "sweep">>)
      BY <2>9 DEF Sweep, SweepBegins, SweepRuns
    <2>10. ASSUME UNCHANGED gateVars PROVE UNCHANGED vars
      BY <2>10 DEF gateVars, poolVars
    <2> QED
      BY <2>1, <2>2, <2>3, <2>4, <2>5, <2>6, <2>7, <2>8, <2>9, <2>10
         DEF GateNext, Surroundings, Keys, Serve, Statements
  <1> QED BY <1>1, <1>2, LoadsAreOwned, PTL DEF GateSpec, Spec
-----------------------------------------------------------------------------
(***************************************************************************)
(* The keys.                                                               *)
(***************************************************************************)
KeyTypes ==
    /\ issuedAt \in Seq(Nat) /\ Len(issuedAt) <= MaxKeys
    /\ \A k \in Issued : issuedAt[k] <= now
    /\ kid \in [Reserves -> Nat] /\ \A q \in Reserves : kid[q] \in Issued \cup {Foreign}
    /\ loadedAt \in Nat /\ loadedAt <= now
    /\ inflight = NoLoad \/ inflight \in [by : Reserves, read : SUBSET Nat]

(* A reload in flight is its first caller's statement, no more than a tick  *)
(* old; the keys it has missed were added after it was issued.              *)
LoadIsFresh ==
    inflight # NoLoad =>
        LET q == inflight.by IN
        /\ at[q] = "keys" /\ phase[<<q, "keys">>] \in {"wantRead", "reading"}
        /\ stamp[q] <= now /\ now <= stamp[q] + 1
        /\ inflight.read # NoSet => \A k \in Issued \ inflight.read : issuedAt[k] >= stamp[q]

(* A key the cached set has missed was added at most a tick before the set  *)
(* was loaded.                                                              *)
SetIsFresh == known # NoSet => \A k \in Issued \ known : loadedAt <= issuedAt[k] + 1

KInv == KeyTypes /\ LoadIsFresh /\ SetIsFresh

\* Another request's step never takes a client away from a statement, it can only
\* hand it one.
LEMMA StatementsGoOn ==
  ASSUME IInv, NEW r \in Requests, Step(r), NEW x \in Readers, x # r,
         phase[x] \in {"wantRead", "reading"}
  PROVE  phase'[x] \in {"wantRead", "reading"}
  <1>1. phase \in [Requests -> Phases] /\ queue \in Seq(Requests) /\ x \in Requests
    BY DEF IInv, TypeOK, Requests
  <1>2. CASE Begin(r) \/ ReadSubscription(r)
    BY <1>1, <1>2 DEF Begin, ReadSubscription, CheckOut
  <1>3. CASE FinishRead(r) \/ Commit(r)
    <2>1. PICK to : HandOver(r, to)
      BY <1>3 DEF FinishRead, Commit
    <2>2. CASE queue = <<>>
      BY <1>1, <2>1, <2>2 DEF HandOver
    <2>3. CASE queue # <<>>
      <3>1. Head(queue) \in Requests /\ phase[Head(queue)] \in Waiting
        BY <1>1, <2>3 DEF IInv, QueueFacts
      <3>2. x # Head(queue) => phase'[x] = phase[x]
        BY <1>1, <2>1, <2>3, <3>1 DEF HandOver
      <3>3. x = Head(queue) => phase'[x] = "reading"
        <4>1. x = Head(queue) => phase[x] = "wantRead"
          BY <3>1 DEF Waiting
        <4>2. Head(queue) # r => phase'[Head(queue)] \in {"inTx", "reading"}
          BY <1>1, <2>1, <2>3, <3>1 DEF HandOver, Granted
        <4>3. x = Head(queue) => phase'[x] = Granted("wantRead")
          <5>1. SUFFICES ASSUME x = Head(queue) PROVE phase'[x] = Granted("wantRead")
            OBVIOUS
          <5>2. phase' = [phase EXCEPT ![r] = to, ![x] = Granted("wantRead")]
            BY <1>1, <2>1, <2>3, <4>1, <5>1 DEF HandOver
          <5> QED BY <1>1, <5>2
        <4> QED BY <4>3 DEF Granted
      <3> QED BY <3>2, <3>3
    <2> QED BY <2>2, <2>3
  <1> QED BY <1>2, <1>3 DEF Step

\* What a load in flight needs of a step that is not its own: its clock, its stamp and
\* its statement.
LEMMA LoadGoesOn ==
  ASSUME KInv, WindowTypes, inflight # NoLoad,
         UNCHANGED <<now, issuedAt, inflight>>,
         at'[inflight.by] = at[inflight.by], stamp'[inflight.by] = stamp[inflight.by],
         phase'[<<inflight.by, "keys">>] \in {"wantRead", "reading"}
  PROVE  LoadIsFresh'
  BY DEF KInv, LoadIsFresh, Issued

\* A request arrives: it knows its key, is turned away, or waits for a load.
LEMMA ArrivalKeepsKeys ==
  ASSUME KInv, WindowTypes, IInv, NEW q \in Reserves, Arrive(q)
  PROVE  KInv'
  <1>1. <<q, "keys">> \in Readers /\ q \notin Readers
    BY ReadersAssumption, RequestsAssumption DEF Statements
  <1>2. PICK k \in Issued \cup {Foreign} : kid' = [kid EXCEPT ![q] = IF k \in known THEN Foreign ELSE k]
    BY DEF Arrive
  <1>3. UNCHANGED <<issuedAt, known, loadedAt, now>> /\ at[q] = "idle"
        /\ \/ UNCHANGED <<poolVars, inflight, stamp>>
           \/ Refresh(q) /\ at' = [at EXCEPT ![q] = "keys"]
        /\ \/ at' = [at EXCEPT ![q] = "credits"] \/ at' = [at EXCEPT ![q] = "unknownKey"]
           \/ at' = [at EXCEPT ![q] = "keys"]
    <2>1. UNCHANGED <<issuedAt, known, loadedAt, now>> /\ at[q] = "idle"
      BY DEF Arrive
    <2>2. \/ UNCHANGED <<poolVars, inflight, stamp>>
             /\ (at' = [at EXCEPT ![q] = "credits"] \/ at' = [at EXCEPT ![q] = "unknownKey"])
          \/ Refresh(q) /\ at' = [at EXCEPT ![q] = "keys"]
      BY DEF Arrive
    <2> QED BY <2>1, <2>2
  <1>4. KeyTypes'
    <2>1. Issued \subseteq Nat /\ Foreign \in Nat
      BY TimesAssumption, SMTT(30) DEF KInv, KeyTypes, Issued, Foreign
    <2>2. kid' \in [Reserves -> Nat] /\ \A p \in Reserves : kid'[p] \in Issued \cup {Foreign}
      BY <1>2, <2>1 DEF KInv, KeyTypes
    <2>3. inflight' = NoLoad \/ inflight' \in [by : Reserves, read : SUBSET Nat]
      BY <1>3 DEF Refresh, NoSet, KInv, KeyTypes
    <2> QED BY <1>3, <2>2, <2>3 DEF KInv, KeyTypes, Issued
  <1>5. LoadIsFresh'
    <2>1. CASE inflight # NoLoad
      <3>1. UNCHANGED <<poolVars, inflight, stamp>>
        BY <1>3, <2>1 DEF Refresh, Joins
      <3>2. inflight.by # q /\ phase'[<<inflight.by, "keys">>] \in {"wantRead", "reading"}
        BY <1>3, <2>1, <3>1 DEF KInv, LoadIsFresh, poolVars, vars
      <3>3. at'[inflight.by] = at[inflight.by]
        <4>1. inflight.by \in Reserves
          BY <2>1 DEF KInv, KeyTypes
        <4> QED BY <1>3, <3>2, <4>1 DEF WindowTypes
      <3> QED BY <1>3, <2>1, <3>1, <3>2, <3>3, LoadGoesOn
    <2>2. CASE inflight = NoLoad /\ Refresh(q) /\ at' = [at EXCEPT ![q] = "keys"]
      <3>1. /\ inflight' = [by |-> q, read |-> NoSet] /\ stamp' = [stamp EXCEPT ![q] = now]
            /\ ReadSubscription(<<q, "keys">>)
        BY <2>2 DEF Refresh, Joins
      <3>2. phase'[<<q, "keys">>] \in {"wantRead", "reading"}
        BY <1>1, <3>1 DEF ReadSubscription, CheckOut, IInv, TypeOK, Requests
      <3>3. at'[q] = "keys" /\ stamp'[q] = now /\ inflight'.by = q /\ inflight'.read = NoSet
        BY <2>2, <3>1 DEF WindowTypes
      <3> QED BY <1>3, <3>2, <3>3 DEF LoadIsFresh, WindowTypes
    <2>3. CASE inflight = NoLoad /\ UNCHANGED <<poolVars, inflight, stamp>>
      BY <2>3 DEF LoadIsFresh, NoLoad
    <2> QED BY <1>3, <2>1, <2>2, <2>3
  <1>6. SetIsFresh'
    BY <1>3 DEF KInv, SetIsFresh, Issued
  <1> QED BY <1>4, <1>5, <1>6 DEF KInv

\* The load reads the table, and then answers or fails.
LEMMA LoadingKeepsKeys ==
  ASSUME KInv, WindowTypes, KeysAreRead \/ KeysArrive \/ KeysFail
  PROVE  KInv'
  <1>1. Issued \subseteq Nat /\ Issued' = Issued /\ Foreign \in Nat /\ now' = now
        /\ UNCHANGED issuedAt
    <2>1. UNCHANGED issuedAt /\ now' = now
      BY DEF KeysAreRead, KeysArrive, KeysFail
    <2>2. Issued \subseteq Nat
      BY DEF KInv, KeyTypes, Issued
    <2> QED BY <2>1, <2>2, TimesAssumption DEF Issued, Foreign
  <1>2. CASE KeysAreRead
    <2>1. inflight' = [inflight EXCEPT !.read = Issued] /\ inflight # NoLoad
          /\ UNCHANGED <<poolVars, at, kid, stamp, known, loadedAt>>
      BY <1>2 DEF KeysAreRead
    <2>2. inflight \in [by : Reserves, read : SUBSET Nat]
      BY <2>1 DEF KInv, KeyTypes
    <2>3. inflight'.by = inflight.by /\ inflight'.read = Issued
          /\ inflight' \in [by : Reserves, read : SUBSET Nat]
      BY <1>1, <2>1, <2>2
    <2>4. KeyTypes' /\ SetIsFresh'
      BY <1>1, <2>1, <2>3 DEF KInv, KeyTypes, SetIsFresh
    <2>5. LoadIsFresh'
      BY <1>1, <2>1, <2>3 DEF KInv, LoadIsFresh, poolVars, vars
    <2> QED BY <2>4, <2>5 DEF KInv
  <1>3. CASE KeysArrive
    <2>1. /\ inflight.read # NoSet
          /\ known' = inflight.read /\ loadedAt' = now /\ inflight' = NoLoad
          /\ kid' = [q \in Reserves |-> IF at'[q] = "credits" THEN Foreign ELSE kid[q]]
      BY <1>3 DEF KeysArrive
    <2>2. inflight # NoLoad
      BY <2>1 DEF NoLoad
    <2>3. KeyTypes'
      BY <1>1, <2>1 DEF KInv, KeyTypes, WindowTypes
    <2>4. \A k \in Issued \ inflight.read : now <= issuedAt[k] + 1
      <3>1. inflight.by \in Reserves
        BY <2>2 DEF KInv, KeyTypes
      <3>2. stamp[inflight.by] \in Nat /\ \A k \in Issued : issuedAt[k] \in Nat
        BY <3>1 DEF WindowTypes, KInv, KeyTypes, Issued
      <3> QED BY <2>1, <2>2, <3>2 DEF KInv, LoadIsFresh, WindowTypes
    <2>5. SetIsFresh' /\ LoadIsFresh'
      BY <1>1, <2>1, <2>4 DEF SetIsFresh, LoadIsFresh, NoLoad
    <2> QED BY <2>3, <2>5 DEF KInv
  <1>4. CASE KeysFail
    <2>1. UNCHANGED <<kid, known, loadedAt>> /\ inflight' = NoLoad
      BY <1>4 DEF KeysFail
    <2> QED BY <1>1, <2>1 DEF KInv, KeyTypes, LoadIsFresh, SetIsFresh, NoLoad
  <1> QED BY <1>2, <1>3, <1>4

\* The sign-in library adds a key; a tick passes, which no load outlives.
LEMMA TimeKeepsKeys ==
  ASSUME KInv, WindowTypes, Rotate \/ Tick
  PROVE  KInv'
  <1>1. /\ issuedAt \in Seq(Nat) /\ Len(issuedAt) \in Nat /\ Issued = 1..Len(issuedAt)
        /\ now \in Nat /\ MaxKeys \in Nat
    BY TimesAssumption DEF KInv, KeyTypes, WindowTypes, Issued
  <1>2. CASE Rotate
    <2>1. /\ Len(issuedAt) < MaxKeys /\ issuedAt' = Append(issuedAt, now)
          /\ UNCHANGED <<poolVars, at, kid, stamp, known, loadedAt, inflight, now>>
      BY <1>2 DEF Rotate
    <2>2. /\ issuedAt' \in Seq(Nat) /\ Len(issuedAt') = Len(issuedAt) + 1
          /\ Issued' = 1..(Len(issuedAt) + 1)
      BY <1>1, <2>1 DEF Issued
    <2>3. \A k \in Issued' : \/ k \in Issued /\ issuedAt'[k] = issuedAt[k]
                             \/ k \notin Issued /\ issuedAt'[k] = now
      BY <1>1, <2>1, <2>2
    <2>4. Issued \subseteq Issued' /\ issuedAt \in [Issued -> Nat]
      BY <1>1, <2>2 DEF Issued
    <2>5. KeyTypes'
      BY <1>1, <2>1, <2>2, <2>3, <2>4 DEF KInv, KeyTypes
    <2>6. LoadIsFresh'
      <3>1. SUFFICES ASSUME inflight # NoLoad PROVE LoadIsFresh'
        BY <2>1 DEF LoadIsFresh
      <3>2. inflight.by \in Reserves
        BY <3>1 DEF KInv, KeyTypes
      <3> QED BY <2>1, <2>3, <3>1, <3>2 DEF KInv, LoadIsFresh, poolVars, vars
    <2>7. SetIsFresh'
      <3>1. SUFFICES ASSUME known # NoSet, NEW k \in Issued', k \notin known
                     PROVE  loadedAt <= issuedAt'[k] + 1
        BY <2>1 DEF SetIsFresh, NoSet
      <3>2. loadedAt \in Nat /\ loadedAt <= now
        BY DEF KInv, KeyTypes
      <3>3. CASE k \in Issued /\ issuedAt'[k] = issuedAt[k]
        BY <3>1, <3>3 DEF KInv, SetIsFresh
      <3>4. CASE issuedAt'[k] = now
        BY <1>1, <3>2, <3>4
      <3> QED BY <2>3, <3>3, <3>4
    <2> QED BY <2>5, <2>6, <2>7 DEF KInv
  <1>3. CASE Tick
    <2>1. /\ Prompt /\ now' = now + 1
          /\ UNCHANGED <<poolVars, at, kid, stamp, keyVars>>
      BY <1>3 DEF Tick
    <2>2. UNCHANGED <<issuedAt, known, loadedAt, inflight>> /\ Issued' = Issued
      BY <2>1 DEF keyVars, Issued
    <2>3. KeyTypes'
      BY <1>1, <2>1, <2>2 DEF KInv, KeyTypes, Issued
    <2>4. LoadIsFresh'
      <3>1. SUFFICES ASSUME inflight # NoLoad PROVE LoadIsFresh'
        BY <2>2 DEF LoadIsFresh
      <3>2. inflight.by \in Reserves /\ "keys" \in Statements \ {"sweep"}
        BY <3>1 DEF KInv, KeyTypes, Statements
      <3>3. stamp[inflight.by] = now
        BY <2>1, <3>1, <3>2 DEF KInv, LoadIsFresh, Prompt
      <3> QED BY <1>1, <2>1, <2>2, <3>1, <3>3 DEF KInv, LoadIsFresh, poolVars, vars
    <2>5. SetIsFresh'
      BY <2>2 DEF KInv, SetIsFresh
    <2> QED BY <2>3, <2>4, <2>5 DEF KInv
  <1> QED BY <1>2, <1>3

\* Whatever a request does past its key, and the sweep, leaves the keys alone.
LEMMA ServiceKeepsKeys ==
  ASSUME KInv, WindowTypes, IInv, NEW q \in Reserves,
         Issue(q) \/ RequireCredits(q) \/ Counted(q) \/ CountFails(q) \/ Route(q) \/ Sweep(q)
  PROVE  KInv'
  <1>1. UNCHANGED <<kid, issuedAt, known, loadedAt, inflight, now>> /\ Issued' = Issued
    BY DEF Issue, RequireCredits, Counted, CountFails, Route, Sweep, SweepBegins, SweepRuns,
           keyVars, Issued
  <1>2. KeyTypes' /\ SetIsFresh'
    BY <1>1 DEF KInv, KeyTypes, SetIsFresh
  <1>3. LoadIsFresh'
    <2>1. SUFFICES ASSUME inflight # NoLoad PROVE LoadIsFresh'
      BY <1>1 DEF LoadIsFresh
    <2> DEFINE by == inflight.by
    <2>2. by \in Reserves /\ at[by] = "keys" /\ phase[<<by, "keys">>] \in {"wantRead", "reading"}
      BY <2>1 DEF KInv, KeyTypes, LoadIsFresh
    <2>3. <<by, "keys">> \in Readers /\ \A p \in Reserves : p # <<by, "keys">>
      BY <2>2, ReadersAssumption, RequestsAssumption DEF Statements
    <2>4. at'[by] = at[by] /\ stamp'[by] = stamp[by]
      BY <2>2 DEF Issue, RequireCredits, Counted, CountFails, Route, Sweep, SweepBegins,
                  SweepRuns, Kinds, WindowTypes
    <2>5. \/ UNCHANGED poolVars
          \/ \E r \in Requests : Step(r) /\ r # <<by, "keys">>
      <3>1. \A s \in {"burst", "daily", "sweep"} :
               <<q, s>> \in Requests /\ <<q, s>> # <<by, "keys">>
        BY ReadersAssumption DEF Requests, Statements
      <3>2. CASE Issue(q) \/ Counted(q) \/ CountFails(q)
        <4>1. at[q] \in {"burst", "daily"}
              /\ (ReadSubscription(<<q, at[q]>>) \/ FinishRead(<<q, at[q]>>))
          BY <3>2 DEF Issue, Counted, CountFails, Kinds
        <4> QED BY <3>1, <4>1 DEF Step
      <3>3. CASE RequireCredits(q)
        BY <3>3 DEF RequireCredits
      <3>4. CASE Route(q)
        BY <2>3, <3>4 DEF Route, Requests
      <3>5. CASE Sweep(q)
        BY <3>1, <3>5 DEF Sweep, SweepBegins, SweepRuns, Step
      <3> QED BY <3>2, <3>3, <3>4, <3>5
    <2>6. phase'[<<by, "keys">>] \in {"wantRead", "reading"}
      <3> HIDE DEF by
      <3> QED BY <2>2, <2>3, <2>5, StatementsGoOn DEF poolVars, vars
    <2> QED BY <1>1, <2>1, <2>4, <2>6, LoadGoesOn
  <1> QED BY <1>2, <1>3 DEF KInv

-----------------------------------------------------------------------------
THEOREM KeysBegin == GateInit => KInv
  <1> SUFFICES ASSUME GateInit PROVE KInv
    OBVIOUS
  <1>1. issuedAt = <<0>> /\ Issued = {1} /\ inflight = NoLoad /\ known = NoSet
        /\ loadedAt = 0 /\ now = 0 /\ kid = [q \in Reserves |-> Foreign]
    BY DEF GateInit, Issued
  <1> QED BY <1>1, TimesAssumption DEF KInv, KeyTypes, LoadIsFresh, SetIsFresh, Foreign

(* Every step keeps the loads and the cached set as fresh as KInv says.     *)
THEOREM KeysStep == KInv /\ WInv /\ IInv /\ [GateNext]_gateVars => KInv'
  <1> SUFFICES ASSUME KInv, WInv, IInv, [GateNext]_gateVars PROVE KInv'
    OBVIOUS
  <1>0. WindowTypes
    BY DEF WInv
  <1>1. ASSUME UNCHANGED gateVars PROVE KInv'
    BY <1>1 DEF gateVars, keyVars, poolVars, vars, KInv, KeyTypes, LoadIsFresh, SetIsFresh, Issued
  <1> QED
    BY <1>0, <1>1, ArrivalKeepsKeys, LoadingKeepsKeys, TimeKeepsKeys, ServiceKeepsKeys
    DEF GateNext, Surroundings, Keys, Serve

(* A token of a new key is turned away only until a cooldown after the last *)
(* load that could have missed it, which ended at most a tick after the key *)
(* was added: whatever requests share a load, however it races a rotation.  *)
THEOREM RotationAlwaysHeals == GateSpec => RotationHeals
  <1> DEFINE Heals == \A q \in Reserves :
                        /\ at[q] # "unknownKey" /\ at'[q] = "unknownKey"
                        /\ kid'[q] # Foreign
                        => now < issuedAt[kid'[q]] + 1 + Cooldown
  <1>1. KInv /\ WInv /\ [GateNext]_gateVars => [Heals]_gateVars
    <2> SUFFICES ASSUME KInv, WInv, GateNext, NEW q \in Reserves,
                        at[q] # "unknownKey", at'[q] = "unknownKey", kid'[q] # Foreign
                 PROVE  now < issuedAt[kid'[q]] + 1 + Cooldown
      OBVIOUS
    <2>1. /\ WindowTypes /\ now \in Nat /\ loadedAt \in Nat /\ Cooldown \in Nat \ {0}
          /\ \A k \in Issued : issuedAt[k] \in Nat
      BY TimesAssumption, SMTT(30) DEF WInv, WindowTypes, KInv, KeyTypes, Issued
    <2>2. ASSUME NEW p \in Reserves, Arrive(p)
          PROVE  now < issuedAt[kid'[q]] + 1 + Cooldown
      <3>1. PICK k \in Issued \cup {Foreign} :
              /\ kid' = [kid EXCEPT ![p] = IF k \in known THEN Foreign ELSE k]
              /\ \/ at' = [at EXCEPT ![p] = "credits"] \/ at' = [at EXCEPT ![p] = "keys"]
                 \/ known # NoSet /\ k \notin known /\ ~ReloadDue
        BY <2>2 DEF Arrive
      <3>2. \E a : at' = [at EXCEPT ![p] = a]
        BY <2>2 DEF Arrive
      <3>3. q = p
        BY <3>2, <2>1 DEF WindowTypes
      <3>4. known # NoSet /\ k \notin known /\ ~ReloadDue
        BY <2>1, <3>1, <3>3 DEF WindowTypes
      <3>5. kid'[q] = k /\ k \in Issued
        BY <3>1, <3>3, <3>4 DEF KInv, KeyTypes
      <3>6. loadedAt <= issuedAt[k] + 1 /\ now - loadedAt < Cooldown
        BY <2>1, <3>4, <3>5 DEF KInv, SetIsFresh, ReloadDue
      <3> QED BY <2>1, <3>5, <3>6
    <2>3. ASSUME KeysArrive
          PROVE  now < issuedAt[kid'[q]] + 1 + Cooldown
      <3>1. /\ inflight.read # NoSet /\ known' = inflight.read
            /\ at' = [p \in Reserves |->
                        IF p \notin Sharing THEN at[p]
                        ELSE IF kid[p] \in known' THEN "credits" ELSE "unknownKey"]
            /\ kid' = [p \in Reserves |-> IF at'[p] = "credits" THEN Foreign ELSE kid[p]]
        BY <2>3 DEF KeysArrive
      <3>2. kid'[q] = kid[q] /\ kid[q] \in Issued /\ kid[q] \notin inflight.read
        BY <3>1 DEF KInv, KeyTypes
      <3>3. inflight # NoLoad /\ inflight.by \in Reserves
        BY <3>1 DEF NoLoad, KInv, KeyTypes
      <3>4. stamp[inflight.by] <= issuedAt[kid[q]] /\ now <= stamp[inflight.by] + 1
        BY <3>1, <3>2, <3>3 DEF KInv, LoadIsFresh
      <3>5. stamp[inflight.by] \in Nat
        BY <2>1, <3>3 DEF WindowTypes
      <3> QED BY <2>1, <3>2, <3>4, <3>5
    <2>4. ASSUME KeysAreRead \/ Rotate \/ Tick
          PROVE  FALSE
      BY <2>4 DEF KeysAreRead, Rotate, Tick
    <2>5. ASSUME KeysFail
          PROVE  FALSE
      BY <2>5 DEF KeysFail
    <2>6. ASSUME NEW p \in Reserves,
                 Issue(p) \/ RequireCredits(p) \/ Counted(p) \/ CountFails(p) \/ Route(p) \/ Sweep(p)
          PROVE  FALSE
      <3>1. \/ at' = at
            \/ \E a \in {"burst", "daily", "route", "noCredit", "overBurst", "overDaily", "done"} :
                 at' = [at EXCEPT ![p] = a]
        BY <2>6 DEF Issue, RequireCredits, Counted, CountFails, Route, Sweep, SweepBegins,
                    SweepRuns, Order, Then, OverLimit
      <3> QED BY <2>1, <3>1 DEF WindowTypes
    <2> QED BY <2>2, <2>3, <2>4, <2>5, <2>6 DEF GateNext, Surroundings, Keys, Serve
  <1>2. KInv /\ WInv /\ IInv /\ [GateNext]_gateVars => KInv'
    BY KeysStep
  <1>3. WInv /\ [GateNext]_gateVars => WInv'
    BY WindowsStep
  <1>4. GateSpec => []IInv
    BY GateUsesThePool, Inductive, PTL
  <1> QED BY <1>1, <1>2, <1>3, <1>4, KeysBegin, WindowsBegin, PTL DEF GateSpec, RotationHeals

-----------------------------------------------------------------------------
(* The statements of the gate and the reserves behind it share one pool     *)
(* without gridlock, while fewer requests come to their reserve than the    *)
(* pool has clients.                                                        *)
THEOREM GateNeverGridlocks ==
  ASSUME Cardinality(Reserves) < PoolSize PROVE GateSpec => []NoGridlock
  BY GateUsesThePool, FewReservesNeverGridlock, PTL
================================================================================
