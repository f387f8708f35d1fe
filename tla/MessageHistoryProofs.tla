------------------------- MODULE MessageHistoryProofs -------------------------
(***************************************************************************)
(* What the rows, the dead letters and the counts say of the deliveries    *)
(* that took place, and what the state collector's query makes of the      *)
(* rows and the counts, for every value of the constants.                  *)
(***************************************************************************)
EXTENDS MessageStoreRefinementProofs, StateCollector, WellFoundedInduction

Deliveries(m) == {l \in leases : l.message = m}

\* Counting needs a finite history.
HistoryInv ==
  /\ IsFiniteSet(leases)
  /\ AttemptsCountDeliveries
  /\ DeadLetterAfterLastLease

LEMMA NewUndelivered ==
  ASSUME DeliveryInv, NEW m \in Messages, fate[m] = "new"
  PROVE  Deliveries(m) = {} /\ Cardinality(Deliveries(m)) = 0
<1>1. Deliveries(m) = {}
      BY DEF Deliveries, DeliveryInv, LeaseHistory
<1> QED BY <1>1, FS_EmptySet

\* Steps that deliver nothing: rows stay, go or are new, and a dead letter
\* keeps the count of the row it was made from.
LEMMA QuietHistory ==
  ASSUME HistoryInv, UNCHANGED leases,
         \A m \in Messages : row'[m] # None =>
           \/ row'[m] = row[m]
           \/ row'[m].delivery_attempts = 0 /\ Cardinality(Deliveries(m)) = 0,
         \A m \in Messages : dlq'[m] # None =>
           \/ dlq'[m] = dlq[m]
           \/ /\ row[m] # None
              /\ dlq'[m].delivery_attempts = row[m].delivery_attempts
              /\ \A l \in Deliveries(m) : l.until <= dlq'[m].dead_lettered_at
  PROVE  HistoryInv'
<1>1. AttemptsCountDeliveries'
      <2> SUFFICES ASSUME NEW m \in Messages
                   PROVE  /\ row'[m] # None =>
                               row'[m].delivery_attempts = Cardinality(Deliveries(m))
                          /\ dlq'[m] # None =>
                               dlq'[m].delivery_attempts = Cardinality(Deliveries(m))
          BY DEF AttemptsCountDeliveries, Deliveries
      <2> QED BY DEF HistoryInv, AttemptsCountDeliveries, Deliveries
<1>2. DeadLetterAfterLastLease'
      BY DEF HistoryInv, DeadLetterAfterLastLease, Deliveries
<1> QED BY <1>1, <1>2 DEF HistoryInv

LEMMA DequeueKeepsHistory ==
  ASSUME DeliveryInv, ClaimInv, HistoryInv, NEW c \in Callers, CommitDequeue(c)
  PROVE  HistoryInv'
<1> DEFINE t == txn[c]
           S == t.removed
<1>1. /\ TypeOK /\ t \in Transaction /\ Shape(t) /\ ClaimHolds(t)
      /\ t.op = "dequeue" /\ t.ts \in Nat /\ S \in SUBSET Messages
      BY DEF CommitDequeue, Running, DeliveryInv, LockInv, TypeOK, TransactionShape,
             ClaimsHold, Transaction
<1>2. \A m \in Held(t) : m \in Messages => row[m] # None /\ row[m] \in Row
      BY <1>1 DEF DeliveryInv, LockInv, RowLocks, TypeOK
<1>3. \A m \in S : m \in Held(t)
      BY DEF Held
<1>4. dlq' = [m \in Messages |-> IF m \in S THEN DeadLetter(row[m], t.ts) ELSE dlq[m]]
      BY DEF CommitDequeue
<1>5. \A m \in Messages : dlq'[m] # None =>
           \/ dlq'[m] = dlq[m]
           \/ /\ row[m] # None
              /\ dlq'[m].delivery_attempts = row[m].delivery_attempts
              /\ \A l \in Deliveries(m) : l.until <= dlq'[m].dead_lettered_at
      <2> SUFFICES ASSUME NEW m \in S
                   PROVE  /\ row[m] # None
                          /\ dlq'[m].delivery_attempts = row[m].delivery_attempts
                          /\ \A l \in Deliveries(m) : l.until <= dlq'[m].dead_lettered_at
          BY <1>4
      <2>1. m \in Messages /\ row[m] # None /\ row[m].available_after \in Nat
            BY <1>1, <1>2, <1>3 DEF Row
      <2>2. dlq'[m] = DeadLetter(row[m], t.ts)
            BY <1>4, <2>1
      <2>3. /\ dlq'[m].delivery_attempts = row[m].delivery_attempts
            /\ dlq'[m].dead_lettered_at = t.ts
            BY <2>2 DEF DeadLetter
      <2>4. row[m].state = "IN_FLIGHT" /\ row[m].available_after <= t.ts
            BY <1>1 DEF ClaimHolds
      <2>5. \A l \in Deliveries(m) : l.until \in Nat /\ l.until <= row[m].available_after
            BY <1>1, <2>1 DEF Deliveries, DeliveryInv, LeaseHistory, TypeOK, Lease
      <2> QED BY <1>1, <2>1, <2>3, <2>4, <2>5
<1>6. CASE t.image = None
      <2>1. /\ row' = [m \in Messages |-> IF m \in S THEN None ELSE row[m]]
            /\ UNCHANGED leases
            BY <1>6 DEF CommitDequeue
      <2> QED BY <1>5, <2>1, QuietHistory
<1>7. CASE t.image # None
      <2>0. PICK n \in Messages : n = t.message
            BY <1>1, <1>7 DEF Shape
      <2> DEFINE lease == [message |-> n, receipt |-> t.receipt,
                            from |-> t.image.last_delivered_at,
                            until |-> t.image.available_after]
      <2>1. /\ row' = [m \in Messages |-> IF m \in S THEN None
                                          ELSE IF m = n THEN t.image ELSE row[m]]
            /\ leases' = leases \cup {lease}
            BY <1>7, <2>0 DEF CommitDequeue
      <2>2. n \notin S /\ n \in Held(t)
            BY <1>1, <1>7, <2>0 DEF Shape, Held
      <2>3. row[n] # None /\ dlq[n] = None
            BY <1>2, <2>2 DEF DeliveryInv, LockInv, FatesMatchTables
      <2>4. t.image.delivery_attempts = row[n].delivery_attempts + 1
            <3>1. PICK timeout \in Timeouts :
                    t.image = LeasedRow(row[n], t.receipt, t.ts, timeout)
                  BY <1>1, <1>7, <2>0 DEF ClaimHolds
            <3> QED BY <3>1 DEF LeasedRow
      <2>5. lease \notin leases
            BY <1>1 DEF ClaimInv, FreshReceipts
      <2>6. lease.message = n
            OBVIOUS
      <2> HIDE DEF lease
      <2>7. IsFiniteSet(leases')
            BY <2>1, FS_AddElement DEF HistoryInv
      <2>8. \A m \in Messages \ {n} : Deliveries(m)' = Deliveries(m)
            BY <2>1, <2>6 DEF Deliveries
      <2>9. Cardinality(Deliveries(n)') = Cardinality(Deliveries(n)) + 1
            <3>1. Deliveries(n)' = Deliveries(n) \cup {lease} /\ lease \notin Deliveries(n)
                  BY <2>1, <2>5, <2>6 DEF Deliveries
            <3>2. IsFiniteSet(Deliveries(n))
                  BY FS_Subset DEF HistoryInv, Deliveries
            <3> QED BY <3>1, <3>2, FS_AddElement
      <2>10. \A m \in Messages : m # n => row'[m] = None \/ row'[m] = row[m]
            BY <2>1
      <2>11. row'[n] = t.image /\ dlq'[n] = None
            BY <1>4, <2>1, <2>2, <2>3
      <2>12. AttemptsCountDeliveries'
            <3> SUFFICES ASSUME NEW m \in Messages
                         PROVE  /\ row'[m] # None =>
                                     row'[m].delivery_attempts = Cardinality(Deliveries(m)')
                                /\ dlq'[m] # None =>
                                     dlq'[m].delivery_attempts = Cardinality(Deliveries(m)')
                BY DEF AttemptsCountDeliveries, Deliveries
            <3>1. /\ row[m] # None => row[m].delivery_attempts = Cardinality(Deliveries(m))
                  /\ dlq[m] # None => dlq[m].delivery_attempts = Cardinality(Deliveries(m))
                  BY DEF HistoryInv, AttemptsCountDeliveries, Deliveries
            <3>2. CASE m = n
                  BY <2>3, <2>4, <2>9, <2>11, <3>1, <3>2
            <3>3. CASE m # n
                  BY <1>5, <2>8, <2>10, <3>1, <3>3
            <3> QED BY <3>2, <3>3
      <2>13. DeadLetterAfterLastLease'
            <3> SUFFICES ASSUME NEW m \in Messages, dlq'[m] # None,
                                NEW l \in leases', l.message = m
                         PROVE  l.until <= dlq'[m].dead_lettered_at
                BY DEF DeadLetterAfterLastLease
            <3>1. m # n
                  BY <2>11
            <3>2. l \in leases /\ l \in Deliveries(m)
                  BY <2>1, <2>6, <3>1 DEF Deliveries
            <3> QED BY <1>5, <3>2 DEF HistoryInv, DeadLetterAfterLastLease
      <2> QED BY <2>7, <2>12, <2>13 DEF HistoryInv
<1> QED BY <1>6, <1>7

LEMMA HistoryInvStep == DeliveryInv /\ ClaimInv /\ HistoryInv /\ [Next]_vars => HistoryInv'
<1> SUFFICES ASSUME DeliveryInv, ClaimInv, HistoryInv, [Next]_vars PROVE HistoryInv'
    OBVIOUS
<1>1. ASSUME UNCHANGED <<row, dlq, leases>> PROVE HistoryInv'
      BY <1>1, QuietHistory
<1>2. ASSUME NEW c \in Callers, CommitEnqueue(c) PROVE HistoryInv'
      <2> DEFINE t == txn[c]
      <2>1. /\ row' = [row EXCEPT ![t.message] = t.image] /\ UNCHANGED <<dlq, leases>>
            /\ t.op = "enqueue" /\ t.claimed
            BY <1>2 DEF CommitEnqueue, Running
      <2>2. t.message \in Messages /\ fate[t.message] = "new"
            BY <2>1 DEF DeliveryInv, LockInv, TransactionShape, Shape, RowLocks
      <2>3. t.image.delivery_attempts = 0
            BY <2>1 DEF ClaimInv, ClaimsSaw, ClaimSaw
      <2>4. Cardinality(Deliveries(t.message)) = 0
            BY <2>2, NewUndelivered
      <2>5. \A m \in Messages : row'[m] = IF m = t.message THEN t.image ELSE row[m]
            BY <2>1 DEF DeliveryInv, LockInv, TypeOK
      <2> QED BY <2>1, <2>3, <2>4, <2>5, QuietHistory
<1>3. ASSUME NEW c \in Callers, NEW op, NEW end, CommitDelete(c, op, end) PROVE HistoryInv'
      BY <1>3, QuietHistory DEF CommitDelete
<1>4. CASE PurgeDeadLetters
      <2>1. /\ UNCHANGED <<row, leases>>
            /\ \A m \in Messages : dlq'[m] # None => dlq'[m] = dlq[m]
            BY <1>4 DEF PurgeDeadLetters
      <2> QED BY <2>1, QuietHistory
<1>5. ASSUME NEW c \in Clients, ClientStep(c) PROVE HistoryInv'
      <2> c \in Callers
          BY DEF Callers
      <2>1. CASE CommitEnqueue(c) \/ CommitDequeue(c) \/ CommitAcknowledge(c)
            BY <1>2, <1>3, <2>1, DequeueKeepsHistory DEF CommitAcknowledge
      <2>2. CASE ~(CommitEnqueue(c) \/ CommitDequeue(c) \/ CommitAcknowledge(c))
            BY <1>1, <1>5, <2>2
            DEF ClientStep, BeginEnqueue, InsertMessage, BeginDequeue, DequeueNotFound,
                ClaimDequeue, BeginAcknowledge, ClaimAcknowledge, Begin, Claim
      <2> QED BY <2>1, <2>2
<1>6. ASSUME NEW c \in Cleaners, CleanerStep(c) PROVE HistoryInv'
      <2> c \in Callers
          BY DEF Callers
      <2> QED BY <1>1, <1>3, <1>6
              DEF CleanerStep, BeginExpire, ClaimExpire, CommitExpire, Begin, Claim
<1>7. ASSUME \/ \E q \in Queues : CreateQueue(q) \/ UpdateQueue(q)
             \/ \E c \in Callers : Abort(c)
             \/ Tick \/ UNCHANGED vars
      PROVE  HistoryInv'
      BY <1>1, <1>7 DEF CreateQueue, UpdateQueue, Abort, Tick, vars
<1> QED BY <1>4, <1>5, <1>6, <1>7 DEF Next

LEMMA HistoryInvInit == Init => HistoryInv
<1> SUFFICES ASSUME Init PROVE HistoryInv
    OBVIOUS
<1>1. IsFiniteSet(leases)
      BY FS_EmptySet DEF Init
<1> QED BY <1>1 DEF Init, HistoryInv, AttemptsCountDeliveries, DeadLetterAfterLastLease

LEMMA HistoryInvariant == Spec => []HistoryInv
BY HistoryInvInit, HistoryInvStep, DeliveryInvariant, ClaimsRemembered, PTL DEF Spec

\* The attempt counter is the number of deliveries that committed, in the row
\* and in the dead letter made from it.
THEOREM AttemptsAreDeliveries == Spec => []AttemptsCountDeliveries
<1>1. HistoryInv => AttemptsCountDeliveries
      BY DEF HistoryInv
<1> QED BY <1>1, HistoryInvariant, PTL

\* A message is dead-lettered only after every consumer it was given to has
\* had its whole visibility timeout.
THEOREM NoEarlyDeadLetter == Spec => []DeadLetterAfterLastLease
<1>1. HistoryInv => DeadLetterAfterLastLease
      BY DEF HistoryInv
<1> QED BY <1>1, HistoryInvariant, PTL

-----------------------------------------------------------------------------
(* The trigger's counts.                                                   *)

Members(k) == {m \in Messages : row[m] # None /\ SlotOf(m, row[m]) = k}

LEMMA CountMembers == RollupExact <=> \A k \in Slot : rollup[k] = Cardinality(Members(k))
BY DEF RollupExact, Members

LEMMA FiniteMembers == \A k : IsFiniteSet(Members(k)) /\ Cardinality(Members(k)) \in Nat
<1> SUFFICES ASSUME NEW k PROVE IsFiniteSet(Members(k)) /\ Cardinality(Members(k)) \in Nat
    OBVIOUS
<1>1. Members(k) \in SUBSET Messages
      BY DEF Members
<1> QED BY <1>1, MessageSubsets

\* The DELETE branch takes every removed row from the slot it was counted in.
LEMMA DeleteCounts ==
  ASSUME RollupExact, NEW S \in SUBSET Messages, \A m \in S : row[m] # None
  PROVE  \A k \in Slot : AfterDelete(rollup, S)[k] = Cardinality(Members(k) \ S)
<1> SUFFICES ASSUME NEW k \in Slot
             PROVE  AfterDelete(rollup, S)[k] = Cardinality(Members(k) \ S)
    OBVIOUS
<1>1. {m \in S : SlotOf(m, row[m]) = k} = Members(k) \cap S
      BY DEF Members
<1>2. AfterDelete(rollup, S)[k] = Cardinality(Members(k)) - Cardinality(Members(k) \cap S)
      BY <1>1, CountMembers DEF AfterDelete
<1> QED BY <1>2, FiniteMembers, FS_Difference

LEMMA EnqueueCounts ==
  ASSUME LockInv, RollupExact, NEW c \in Callers, CommitEnqueue(c)
  PROVE  RollupExact'
<1>1. PICK n : n = txn[c].message
      OBVIOUS
<1>2. PICK image : image = txn[c].image
      OBVIOUS
<1>3. /\ row' = [row EXCEPT ![n] = image]
      /\ rollup' = AfterInsert(rollup, n, image)
      /\ txn[c].op = "enqueue" /\ txn[c].claimed
      BY <1>1, <1>2 DEF CommitEnqueue, Running
<1>4. n \in Messages /\ image # None /\ image \in Row /\ row[n] = None
      BY <1>1, <1>2, <1>3 DEF LockInv, TransactionShape, Shape, TypeOK, Transaction, RowLocks,
                              FatesMatchTables
<1>5. PICK new \in Slot : new = SlotOf(n, image)
      BY <1>4, SlotType
<1>6. rollup' = [rollup EXCEPT ![new] = @ + 1]
      BY <1>3, <1>5 DEF AfterInsert
<1>7. \A m \in Messages : row'[m] = IF m = n THEN image ELSE row[m]
      BY <1>3, <1>4 DEF LockInv, TypeOK
<1>8. ASSUME NEW k \in Slot PROVE rollup'[k] = Cardinality(Members(k)')
      <2>1. n \notin Members(k)
            BY <1>4 DEF Members
      <2>2. CASE k = new
            <3>1. Members(k)' = Members(k) \cup {n}
                  BY <1>4, <1>5, <1>7, <2>2 DEF Members, SlotOf
            <3>2. rollup'[k] = rollup[k] + 1
                  BY <1>6, <2>2 DEF LockInv, TypeOK
            <3> QED BY <2>1, <3>1, <3>2, FiniteMembers, FS_AddElement, CountMembers
      <2>3. CASE k # new
            <3>1. Members(k)' = Members(k)
                  BY <1>4, <1>5, <1>7, <2>3 DEF Members, SlotOf
            <3>2. rollup'[k] = rollup[k]
                  BY <1>6, <2>3 DEF LockInv, TypeOK
            <3> QED BY <3>1, <3>2, CountMembers
      <2> QED BY <2>2, <2>3
<1> QED BY <1>8 DEF RollupExact, Members

LEMMA RemoveCounts ==
  ASSUME RollupExact, NEW S \in SUBSET Messages, \A m \in S : row[m] # None,
         row' = [m \in Messages |-> IF m \in S THEN None ELSE row[m]],
         rollup' = AfterDelete(rollup, S)
  PROVE  RollupExact'
<1> SUFFICES ASSUME NEW k \in Slot PROVE rollup'[k] = Cardinality(Members(k)')
    BY DEF RollupExact, Members
<1>1. Members(k)' = Members(k) \ S
      BY DEF Members, SlotOf
<1> QED BY <1>1, DeleteCounts

\* The UPDATE branch moves the delivered row from one slot to the other, or
\* leaves it where it is.
LEMMA DeliverCounts ==
  ASSUME DeliveryInv, RollupExact, NEW c \in Callers, CommitDequeue(c), txn[c].image # None
  PROVE  RollupExact'
<1>1. PICK n : n = txn[c].message
      OBVIOUS
<1>2. PICK image : image = txn[c].image
      OBVIOUS
<1>3. PICK S : S = txn[c].removed
      OBVIOUS
<1>4. /\ row' = [m \in Messages |-> IF m \in S THEN None ELSE IF m = n THEN image ELSE row[m]]
      /\ rollup' = AfterUpdate(AfterDelete(rollup, S), n, image)
      /\ txn[c].op = "dequeue"
      BY <1>1, <1>2, <1>3 DEF CommitDequeue, Running
<1>5. /\ n \in Messages /\ n \notin S /\ S \in SUBSET Messages
      /\ image # None /\ image \in Row
      /\ \E timeout \in Timeouts : image = LeasedRow(row[n], txn[c].receipt, txn[c].ts, timeout)
      BY <1>1, <1>2, <1>3, <1>4
      DEF DeliveryInv, LockInv, TransactionShape, Shape, TypeOK, Transaction, ClaimsHold, ClaimHolds
<1>6. row[n] # None /\ \A m \in S : row[m] # None
      BY <1>1, <1>2, <1>3, <1>4, <1>5 DEF DeliveryInv, LockInv, RowLocks, Held
<1>7. /\ row[n] \in Row
      /\ image.queue_id = row[n].queue_id /\ image.priority = row[n].priority
      BY <1>5, <1>6 DEF DeliveryInv, LockInv, TypeOK, LeasedRow
<1>8. PICK old \in Slot : old = SlotOf(n, row[n])
      BY <1>5, <1>7, SlotType
<1>9. PICK new \in Slot : new = SlotOf(n, image)
      BY <1>5, SlotType
<1>10. old = new <=> image.state = row[n].state
      BY <1>7, <1>8, <1>9 DEF SlotOf
<1>11. PICK counts : counts = AfterDelete(rollup, S)
      OBVIOUS
<1>12. /\ counts \in [Slot -> Int]
       /\ \A k \in Slot : counts[k] = Cardinality(Members(k) \ S)
      BY <1>5, <1>6, <1>11, DeleteCounts, AfterDeleteType DEF DeliveryInv, LockInv, TypeOK
<1>13. rollup' = IF old = new THEN counts
                 ELSE [counts EXCEPT ![old] = @ - 1, ![new] = @ + 1]
      BY <1>4, <1>8, <1>9, <1>10, <1>11 DEF AfterUpdate
<1>14. \A m \in Messages : row'[m] = IF m \in S THEN None ELSE IF m = n THEN image ELSE row[m]
      BY <1>4
<1>15. ASSUME NEW k \in Slot PROVE rollup'[k] = Cardinality(Members(k)')
      <2> DEFINE rest == Members(k) \ S
      <2>1. IsFiniteSet(rest) /\ Cardinality(rest) \in Nat
            <3>1. rest \in SUBSET Messages
                  BY DEF Members
            <3> QED BY <3>1, MessageSubsets
      <2>2. n \in rest <=> k = old
            BY <1>5, <1>6, <1>8 DEF Members
      <2>3. Members(k)' = IF k = new THEN rest \cup {n} ELSE rest \ {n}
            <3>1. \A m \in Messages \ {n} : m \in Members(k)' <=> m \in rest
                  BY <1>14 DEF Members, SlotOf
            <3>2. n \in Members(k)' <=> k = new
                  BY <1>5, <1>9, <1>14 DEF Members, SlotOf
            <3>3. Members(k)' \subseteq Messages /\ rest \subseteq Messages
                  BY DEF Members
            <3> HIDE DEF rest
            <3> QED BY <1>5, <3>1, <3>2, <3>3
      <2>4. counts[k] = Cardinality(rest)
            BY <1>12
      <2>5. Cardinality(Members(k)') = counts[k] + (IF k = new THEN 1 ELSE 0)
                                                 - (IF k = old THEN 1 ELSE 0)
            <3> HIDE DEF rest
            <3>1. CASE k = new
                  <4>1. Cardinality(rest \cup {n}) = IF n \in rest THEN Cardinality(rest)
                                                     ELSE Cardinality(rest) + 1
                        BY <2>1, FS_AddElement
                  <4> QED BY <2>1, <2>2, <2>3, <2>4, <3>1, <4>1
            <3>2. CASE k # new
                  <4>1. Cardinality(rest \ {n}) = IF n \in rest THEN Cardinality(rest) - 1
                                                  ELSE Cardinality(rest)
                        BY <2>1, FS_RemoveElement
                  <4> QED BY <2>1, <2>2, <2>3, <2>4, <3>2, <4>1
            <3> QED BY <3>1, <3>2
      <2>6. rollup'[k] = counts[k] + (IF k = new THEN 1 ELSE 0) - (IF k = old THEN 1 ELSE 0)
            <3>1. CASE old = new
                  BY <1>12, <1>13, <3>1
            <3>2. CASE old # new
                  BY <1>12, <1>13, <3>2
            <3> QED BY <3>1, <3>2
      <2> QED BY <2>5, <2>6
<1> QED BY <1>15 DEF RollupExact, Members

LEMMA RollupStep == DeliveryInv /\ RollupExact /\ [Next]_vars => RollupExact'
<1> SUFFICES ASSUME DeliveryInv, RollupExact, [Next]_vars PROVE RollupExact'
    OBVIOUS
<1>t. /\ LockInv
      /\ \A c \in Callers : /\ txn[c].removed \in SUBSET Messages
                            /\ txn[c].op # "enqueue" => \A m \in txn[c].removed : row[m] # None
      BY DEF DeliveryInv, LockInv, TypeOK, Transaction, RowLocks, Held
<1>1. ASSUME UNCHANGED <<row, rollup>> PROVE RollupExact'
      BY <1>1 DEF RollupExact, SlotOf
<1>2. ASSUME NEW c \in Callers, NEW op \in {"acknowledge", "expire"}, NEW end,
             CommitDelete(c, op, end)
      PROVE  RollupExact'
      BY <1>t, <1>2, RemoveCounts DEF CommitDelete, Running
<1>3. ASSUME NEW c \in Callers, CommitDequeue(c) PROVE RollupExact'
      <2>1. CASE txn[c].image = None
            BY <1>t, <1>3, <2>1, RemoveCounts DEF CommitDequeue, Running
      <2>2. CASE txn[c].image # None
            BY <1>3, <2>2, DeliverCounts
      <2> QED BY <2>1, <2>2
<1>4. ASSUME NEW c \in Clients, ClientStep(c) PROVE RollupExact'
      <2> c \in Callers
          BY DEF Callers
      <2>1. CASE CommitEnqueue(c) \/ CommitDequeue(c) \/ CommitAcknowledge(c)
            BY <1>t, <1>2, <1>3, <2>1, EnqueueCounts DEF CommitAcknowledge
      <2>2. CASE ~(CommitEnqueue(c) \/ CommitDequeue(c) \/ CommitAcknowledge(c))
            BY <1>1, <1>4, <2>2
            DEF ClientStep, BeginEnqueue, InsertMessage, BeginDequeue, DequeueNotFound,
                ClaimDequeue, BeginAcknowledge, ClaimAcknowledge, Begin, Claim
      <2> QED BY <2>1, <2>2
<1>5. ASSUME NEW c \in Cleaners, CleanerStep(c) PROVE RollupExact'
      <2> c \in Callers
          BY DEF Callers
      <2> QED BY <1>1, <1>2, <1>5
              DEF CleanerStep, BeginExpire, ClaimExpire, CommitExpire, Begin, Claim
<1>6. ASSUME \/ \E q \in Queues : CreateQueue(q) \/ UpdateQueue(q)
             \/ \E c \in Callers : Abort(c)
             \/ PurgeDeadLetters \/ Tick \/ UNCHANGED vars
      PROVE  RollupExact'
      BY <1>1, <1>6 DEF CreateQueue, UpdateQueue, Abort, PurgeDeadLetters, Tick, vars
<1> QED BY <1>4, <1>5, <1>6 DEF Next

LEMMA RollupInit == Init => RollupExact
<1> SUFFICES ASSUME Init, NEW k \in Slot PROVE rollup[k] = Cardinality(Members(k))
    BY CountMembers
<1>1. Members(k) = {} /\ rollup[k] = 0
      BY DEF Init, Members
<1> QED BY <1>1, FS_EmptySet

\* The counts the triggers keep are the numbers of rows, so that the CHECK on
\* them never fails the statement of a message.
THEOREM CountsAreExact == Spec => []RollupExact
BY RollupInit, RollupStep, DeliveryInvariant, PTL DEF Spec

-----------------------------------------------------------------------------
(* Acknowledgement.                                                        *)

LEMMA AcknowledgedStep ==
  ASSUME DeliveryInv, Next, NEW m \in Messages, fate[m] = "live", fate'[m] = "acknowledged"
  PROVE  \E c \in Clients, l \in leases :
           /\ Running(c, "acknowledge", TRUE)
           /\ l.message = m /\ l.receipt = txn[c].receipt /\ txn[c].ts < l.until
           /\ \A k \in leases : k.message = m => k.from <= l.from
<1>1. PICK c \in Clients : CommitAcknowledge(c)
      BY DEF Next, ClientStep, CleanerStep, CreateQueue, UpdateQueue, BeginEnqueue, InsertMessage,
             CommitEnqueue, BeginDequeue, DequeueNotFound, ClaimDequeue, CommitDequeue,
             BeginAcknowledge, ClaimAcknowledge, BeginExpire, ClaimExpire, CommitExpire,
             CommitDelete, Begin, Claim, Abort, PurgeDeadLetters, Tick, DeliveryInv, LockInv, TypeOK
<1>2. c \in Callers
      BY DEF Callers
<1> DEFINE t == txn[c]
           l == [message |-> m, receipt |-> row[m].receipt_handle,
                 from |-> row[m].last_delivered_at, until |-> row[m].available_after]
<1>3. Running(c, "acknowledge", TRUE) /\ t.op = "acknowledge" /\ m \in t.removed
      BY <1>1 DEF CommitAcknowledge, CommitDelete, Running
<1>4. /\ t \in Transaction /\ Shape(t) /\ ClaimHolds(t)
      /\ row[m] # None /\ row[m] \in Row
      BY <1>2 DEF DeliveryInv, LockInv, TypeOK, TransactionShape, ClaimsHold, FatesMatchTables
<1>5. row[m].receipt_handle = t.receipt /\ row[m].available_after > t.ts
      BY <1>3, <1>4 DEF ClaimHolds
<1>6. row[m].state = "IN_FLIGHT"
      BY <1>3, <1>4, <1>5, NoneAssumption DEF DeliveryInv, StoredRows, RowAllowed, Shape
<1>7. l \in leases
      BY <1>4, <1>6 DEF DeliveryInv, LeaseHistory
<1>8. /\ l.message = m /\ l.receipt = t.receipt /\ t.ts < l.until
      /\ l.until = row[m].available_after
      BY <1>4, <1>5 DEF Transaction, Row
<1> HIDE DEF l
<1>9. \A k \in leases : k.message = m => k.from <= l.from
      <2> SUFFICES ASSUME NEW k \in leases, k.message = m PROVE k.from <= l.from
          OBVIOUS
      <2>1. k \in Lease /\ l \in Lease
            BY <1>7 DEF DeliveryInv, LockInv, TypeOK
      <2>2. k.from \in Nat /\ k.until \in Nat /\ l.from \in Nat /\ l.until \in Nat
            BY <2>1 DEF Lease
      <2>3. k.from < k.until /\ l.from < l.until /\ k.until <= l.until
            BY <1>4, <1>7, <1>8 DEF DeliveryInv, LeaseHistory
      <2>4. k = l \/ k.until <= l.from \/ l.until <= k.from
            BY <1>7, <1>8 DEF DeliveryInv, LeaseHistory, LeasesNeverOverlap
      <2> QED BY <2>2, <2>3, <2>4
<1> QED BY <1>3, <1>7, <1>8, <1>9

\* Only the holder of the latest lease, asking before it elapsed, makes a
\* message leave as acknowledged.
THEOREM HolderAcknowledges == Spec => AcknowledgedByHolder
<1> DEFINE ByHolder ==
      \A m \in Messages : fate[m] = "live" /\ fate'[m] = "acknowledged" =>
       \E c \in Clients, l \in leases :
         /\ Running(c, "acknowledge", TRUE)
         /\ l.message = m /\ l.receipt = txn[c].receipt /\ txn[c].ts < l.until
         /\ \A k \in leases : k.message = m => k.from <= l.from
<1>1. DeliveryInv /\ [Next]_vars => [ByHolder]_vars
      BY AcknowledgedStep
<1> QED BY <1>1, DeliveryInvariant, PTL DEF Spec, AcknowledgedByHolder

-----------------------------------------------------------------------------
(* The state collector's query.                                            *)

LEMMA MinimalSubset ==
  ASSUME NEW S, IsFiniteSet(S), NEW F \in SUBSET (SUBSET S), F # {}
  PROVE  \E T \in F : \A U \in F : U \subseteq T => U = T
<1>1. IsWellFoundedOn(StrictSubsetOrdering(S), SUBSET S)
      BY FS_StrictSubsetOrderingWellFounded, FS_FiniteSubsetsOfFinite
<1>2. PICK T \in F : \A U \in F : <<U, T>> \notin StrictSubsetOrdering(S)
      <2> HIDE DEF StrictSubsetOrdering
      <2> QED BY <1>1, WFMin
<1> QED BY <1>2 DEF StrictSubsetOrdering

\* The sum of f over S, as MapThenSumSet defines it.
SumOver(f, S) ==
  LET First(s) == CHOOSE x \in s : TRUE
      iter == CHOOSE h : h = [s \in SUBSET S |->
                IF s = {} THEN 0 ELSE f[First(s)] + h[s \ {First(s)}]]
  IN  iter[S]

\* g gives the subsets of S what the sums of f over them would be.
BuiltLikeSum(g, f, S) ==
  /\ g \in [SUBSET S -> Int]
  /\ g[{}] = 0
  /\ \A T \in SUBSET S : \A x \in T : g[T] = f[x] + g[T \ {x}]

LEMMA SumIs ==
  ASSUME NEW S, IsFiniteSet(S), NEW f, NEW g, BuiltLikeSum(g, f, S)
  PROVE  SumOver(f, S) = g[S]
<1> DEFINE First(s) == CHOOSE x \in s : TRUE
           Step(h) == [s \in SUBSET S |-> IF s = {} THEN 0 ELSE f[First(s)] + h[s \ {First(s)}]]
           iter == CHOOSE h : h = Step(h)
           F == {s \in SUBSET S : iter[s] # g[s]}
<1>1. SumOver(f, S) = iter[S]
      BY DEF SumOver
<1>2. \A s \in SUBSET S : g[s] = IF s = {} THEN 0 ELSE f[First(s)] + g[s \ {First(s)}]
      BY DEF BuiltLikeSum
<1>3. g = Step(g)
      BY <1>2 DEF BuiltLikeSum
<1>4. iter = Step(iter)
      <2> HIDE DEF Step
      <2> QED BY <1>3
<1> HIDE DEF iter
<1>5. \A s \in SUBSET S : iter[s] = IF s = {} THEN 0 ELSE f[First(s)] + iter[s \ {First(s)}]
      BY <1>4
<1>6. ASSUME F # {} PROVE FALSE
      <2>0. F \in SUBSET (SUBSET S)
            OBVIOUS
      <2>1. PICK T \in F : \A U \in F : U \subseteq T => U = T
            <3> HIDE DEF F
            <3> QED BY <1>6, <2>0, MinimalSubset
      <2>2. T # {}
            BY <1>2, <1>5
      <2>3. First(T) \in T /\ T \ {First(T)} \notin F /\ T \ {First(T)} \in SUBSET S
            BY <2>1, <2>2
      <2> QED BY <1>2, <1>5, <2>2, <2>3
<1> QED BY <1>1, <1>6


\* The sum over the shards counts the rows of all shards.
LEMMA PhysicalCounts ==
  ASSUME RollupExact, NEW q \in Queues, NEW p \in Priorities, NEW s \in States
  PROVE  Physical(q, p, s) = Cardinality(InState(q, p, s))
<1>0. PICK count : count = [sh \in Shards |->
                              rollup[[queue_id |-> q, priority |-> p, shard |-> sh, state |-> s]]]
      OBVIOUS
<1> DEFINE In(T) == {m \in InState(q, p, s) : ShardOf[m] \in T}
<1>1. PICK g : g = [T \in SUBSET Shards |-> Cardinality(In(T))]
      OBVIOUS
<1>2. \A T : In(T) \in SUBSET Messages /\ IsFiniteSet(In(T)) /\ Cardinality(In(T)) \in Nat
      <2> SUFFICES ASSUME NEW T
                   PROVE  In(T) \in SUBSET Messages /\ IsFiniteSet(In(T)) /\ Cardinality(In(T)) \in Nat
          OBVIOUS
      <2>1. In(T) \in SUBSET Messages
            BY DEF InState
      <2> QED BY <2>1, MessageSubsets
<1>3. g \in [SUBSET Shards -> Int]
      <2> HIDE DEF In
      <2> QED BY <1>1, <1>2
<1>4. g[{}] = 0
      BY <1>1, FS_EmptySet
<1>5. ASSUME NEW T \in SUBSET Shards, NEW x \in T
      PROVE  g[T] = count[x] + g[T \ {x}]
      <2>1. In({x}) = Members([queue_id |-> q, priority |-> p, shard |-> x, state |-> s])
            BY IdentityAssumption DEF InState, Members, SlotOf
      <2>2. count[x] = Cardinality(In({x}))
            <3>1. [queue_id |-> q, priority |-> p, shard |-> x, state |-> s] \in Slot
                  BY DEF Slot
            <3> QED BY <1>0, <2>1, <3>1, CountMembers
      <2>3. In(T) \ In({x}) = In(T \ {x}) /\ In(T) \cap In({x}) = In({x})
            OBVIOUS
      <2>4. Cardinality(In(T \ {x})) = Cardinality(In(T)) - Cardinality(In({x}))
            <3> HIDE DEF In
            <3> QED BY <1>2, <2>3, FS_Difference
      <2>5. g[T] = Cardinality(In(T)) /\ g[T \ {x}] = Cardinality(In(T \ {x}))
            BY <1>1
      <2> HIDE DEF In
      <2> QED BY <1>2, <2>2, <2>4, <2>5
<1>6. Physical(q, p, s) = SumOver(count, Shards)
      BY <1>0 DEF Physical, MapThenSumSet, MapThenFoldSet, SumOver
<1>7. SumOver(count, Shards) = g[Shards]
      <2>1. BuiltLikeSum(g, count, Shards)
            BY <1>3, <1>4, <1>5 DEF BuiltLikeSum
      <2> QED BY <2>1, SumIs, ShardsAssumption
<1>8. In(Shards) = InState(q, p, s)
      BY IdentityAssumption DEF InState
<1> QED BY <1>1, <1>6, <1>7, <1>8


\* What the gauges rest on: the rows passed the CHECKs of their table.
LEMMA StoredRow ==
  ASSUME DeliveryInv, NEW q \in Queues, settings[q] # None,
         NEW p, NEW s, NEW m \in InState(q, p, s)
  PROVE  /\ m \in Messages /\ row[m] # None
         /\ row[m].queue_id = q /\ row[m].priority = p /\ row[m].state = s
         /\ {row[m].expires_at, row[m].enqueued_at, row[m].available_after} \subseteq Nat
         /\ s = "READY" => /\ row[m].delivery_attempts < settings[q].max_delivery_attempts
                           /\ row[m].receipt_handle \notin Handles
         /\ s = "IN_FLIGHT" => row[m].receipt_handle \in Handles
         /\ row[m].delivery_attempts \in Nat /\ settings[q].max_delivery_attempts \in Nat
<1>1. m \in Messages /\ row[m] # None /\ row[m].queue_id = q /\ row[m].priority = p /\ row[m].state = s
      BY DEF InState
<1>2. row[m] \in Row /\ RowAllowed(row[m])
      BY <1>1 DEF DeliveryInv, LockInv, TypeOK, StoredRows
<1>3. settings[q] \in Settings
      BY DEF DeliveryInv, LockInv, TypeOK
<1>4. settings[q].max_delivery_attempts \in Nat \ {0}
      BY <1>3, SettingsAssumption DEF Settings
<1>5. /\ {row[m].expires_at, row[m].enqueued_at, row[m].available_after} \subseteq Nat
      /\ row[m].delivery_attempts \in Nat /\ row[m].receipt_handle \in Handles \cup {None}
      BY <1>2 DEF Row
<1>6. s = "READY" => row[m].delivery_attempts = 0 /\ row[m].receipt_handle = None
      BY <1>1, <1>2 DEF RowAllowed
<1>7. s = "IN_FLIGHT" => row[m].receipt_handle # None
      BY <1>1, <1>2 DEF RowAllowed
<1>8. None \notin Handles
      BY NoneAssumption
<1> QED BY <1>1, <1>4, <1>5, <1>6, <1>7, <1>8

LEMMA OldestIsAge ==
  ASSUME NEW S \in SUBSET Messages, \A m \in S : row[m].enqueued_at \in Nat, NEW ts
  PROVE  IsAge(OldestAge(S, ts), S, ts)
<1>1. CASE S = {}
      BY <1>1 DEF OldestAge, IsAge
<1>2. CASE S # {}
      <2> DEFINE E == {row[m].enqueued_at : m \in S}
      <2>1. E \subseteq Nat /\ E # {}
            BY <1>2
      <2>2. PICK e \in E : \A n \in E : <<n, e>> \notin OpToRel(<, Nat)
            <3> HIDE DEF E
            <3> QED BY <2>1, NatLessThanWellFounded, WFMin
      <2>3. \A n \in E : e <= n
            <3>1. \A n \in E : n \in Nat
                  BY <2>1
            <3> HIDE DEF E
            <3>2. \A n \in E : ~ (n < e)
                  BY <3>1, <2>2 DEF OpToRel
            <3> QED BY <3>1, <3>2
      <2>4. Min(E) \in E /\ \A n \in E : Min(E) <= n
            <3> HIDE DEF E
            <3> QED BY <2>3 DEF Min
      <2>5. PICK m \in S : Min(E) = row[m].enqueued_at
            BY <2>4
      <2>6. \A n \in S : row[n].enqueued_at >= row[m].enqueued_at
            BY <2>4, <2>5
      <2>7. OldestAge(S, ts) = ts - row[m].enqueued_at
            BY <1>2, <2>5 DEF OldestAge
      <2> QED BY <2>6, <2>7 DEF IsAge
<1> QED BY <1>1, <1>2

LEMMA GaugesAgree ==
  ASSUME DeliveryInv, RollupExact,
         NEW q \in Queues, settings[q] # None, NEW p \in Priorities, NEW ts \in 0 .. now
  PROVE  /\ CollectedReady(q, p, ts) = Cardinality(Waiting(q, p, ts))
         /\ CollectedInFlight(q, p, ts) = Cardinality(OnLease(q, p, ts))
         /\ IsAge(OldestReadyAge(q, p, ts), Waiting(q, p, ts), ts)
         /\ IsAge(OldestInFlightAge(q, p, ts), OnLease(q, p, ts), ts)
<1> DEFINE ready == InState(q, p, "READY")
           flying == InState(q, p, "IN_FLIGHT")
<1>1. ts \in Nat
      BY DEF DeliveryInv, LockInv, TypeOK
<1>2. /\ ready \in SUBSET Messages /\ flying \in SUBSET Messages /\ ready \cap flying = {}
      /\ ExpiredReady(q, p, ts) \in SUBSET ready /\ FreshReady(q, p, ts) = ready \ ExpiredReady(q, p, ts)
      /\ TimedOut(q, p, ts) \in SUBSET flying /\ Leased(q, p, ts) = flying \ TimedOut(q, p, ts)
      /\ Retryable(q, p, ts) \in SUBSET flying
      <2>1. ready \in SUBSET Messages /\ flying \in SUBSET Messages /\ ready \cap flying = {}
            BY DEF InState
      <2>2. \A m \in ready : row[m].expires_at \in Nat
            BY StoredRow
      <2>3. \A m \in flying : row[m].available_after \in Nat
            BY StoredRow
      <2>4. /\ ExpiredReady(q, p, ts) \in SUBSET ready /\ TimedOut(q, p, ts) \in SUBSET flying
            /\ Retryable(q, p, ts) \in SUBSET flying
            BY DEF ExpiredReady, TimedOut, Retryable
      <2>5. FreshReady(q, p, ts) = ready \ ExpiredReady(q, p, ts)
            BY <1>1, <2>2 DEF FreshReady, ExpiredReady
      <2>6. Leased(q, p, ts) = flying \ TimedOut(q, p, ts)
            BY <1>1, <2>3 DEF Leased, TimedOut
      <2> QED BY <2>1, <2>4, <2>5, <2>6
<1>3. Waiting(q, p, ts) = FreshReady(q, p, ts) \cup Retryable(q, p, ts)
      <2>1. ASSUME NEW m \in Waiting(q, p, ts)
            PROVE  m \in FreshReady(q, p, ts) \cup Retryable(q, p, ts)
            <3>1. /\ m \in Messages /\ row[m] # None /\ row[m].priority = p /\ Deliverable(m, q, ts)
                  BY DEF Waiting, OfPriority
            <3>2. row[m].state \in States
                  BY <3>1 DEF DeliveryInv, LockInv, TypeOK, Row
            <3>3. m \in ready \/ m \in flying
                  BY <3>1, <3>2 DEF InState, Deliverable, States
            <3>4. m \in ready => m \in FreshReady(q, p, ts)
                  BY <3>1 DEF FreshReady, Deliverable
            <3>5. m \in flying => m \in Retryable(q, p, ts)
                  BY <3>1 DEF Retryable, TimedOut, Deliverable, InState
            <3> QED BY <3>3, <3>4, <3>5
      <2>2. ASSUME NEW m \in FreshReady(q, p, ts) PROVE m \in Waiting(q, p, ts)
            <3>1. m \in ready /\ row[m].expires_at > ts
                  BY DEF FreshReady
            <3>2. /\ m \in Messages /\ row[m] # None /\ row[m].priority = p /\ row[m].queue_id = q
                  /\ row[m].state = "READY" /\ row[m].delivery_attempts < settings[q].max_delivery_attempts
                  BY <3>1, StoredRow
            <3> QED BY <3>1, <3>2 DEF Waiting, OfPriority, Deliverable
      <2>3. ASSUME NEW m \in Retryable(q, p, ts) PROVE m \in Waiting(q, p, ts)
            BY DEF Retryable, TimedOut, InState, Waiting, OfPriority, Deliverable
      <2> QED BY <2>1, <2>2, <2>3
<1>4. OnLease(q, p, ts) = Leased(q, p, ts)
      <2>1. ASSUME NEW m \in OnLease(q, p, ts) PROVE m \in Leased(q, p, ts)
            <3>1. PICK h \in Handles : Acknowledgeable(m, q, h, ts)
                  BY DEF OnLease
            <3>2. m \in Messages /\ row[m] # None /\ row[m].priority = p /\ row[m].queue_id = q
                  /\ row[m].receipt_handle \in Handles /\ row[m].available_after > ts
                  BY <3>1 DEF OnLease, OfPriority, Acknowledgeable
            <3>3. row[m].state \in States
                  BY <3>2 DEF DeliveryInv, LockInv, TypeOK, Row
            <3>4. m \in ready \/ m \in flying
                  BY <3>2, <3>3 DEF InState, States
            <3>5. m \notin ready
                  BY <3>2, StoredRow
            <3> QED BY <3>2, <3>4, <3>5 DEF Leased
      <2>2. ASSUME NEW m \in Leased(q, p, ts) PROVE m \in OnLease(q, p, ts)
            <3>1. m \in flying /\ row[m].available_after > ts
                  BY DEF Leased
            <3>2. m \in Messages /\ row[m] # None /\ row[m].priority = p /\ row[m].queue_id = q
                  /\ row[m].receipt_handle \in Handles
                  BY <3>1, StoredRow
            <3> QED BY <3>1, <3>2 DEF OnLease, OfPriority, Acknowledgeable
      <2> QED BY <2>1, <2>2
<1> HIDE DEF ready, flying
<1>5. ASSUME NEW S \in SUBSET Messages
      PROVE  IsFiniteSet(S) /\ Cardinality(S) \in Nat
      BY MessageSubsets
<1>6. ASSUME NEW S \in SUBSET Messages, NEW T \in SUBSET S
      PROVE  Cardinality(S \ T) = Cardinality(S) - Cardinality(T)
      <2>1. S \cap T = T /\ IsFiniteSet(S)
            BY <1>5
      <2> QED BY <2>1, FS_Difference
<1>7. Physical(q, p, "READY") = Cardinality(ready) /\ Physical(q, p, "IN_FLIGHT") = Cardinality(flying)
      BY PhysicalCounts DEF States, ready, flying
<1>8. CollectedReady(q, p, ts) = Cardinality(Waiting(q, p, ts))
      <2>1. PICK fresh, retry, expired : /\ fresh = FreshReady(q, p, ts) /\ retry = Retryable(q, p, ts)
                                         /\ expired = ExpiredReady(q, p, ts)
            OBVIOUS
      <2>2. /\ fresh \in SUBSET Messages /\ retry \in SUBSET Messages /\ expired \in SUBSET Messages
            /\ fresh \cap retry = {} /\ fresh = ready \ expired /\ expired \in SUBSET ready
            BY <1>2, <2>1
      <2>3. Cardinality(fresh \cup retry) = Cardinality(fresh) + Cardinality(retry)
            <3>1. IsFiniteSet(fresh) /\ IsFiniteSet(retry)
                  BY <1>5, <2>2
            <3>2. Cardinality(fresh \cup retry) = Cardinality(fresh) + Cardinality(retry) - Cardinality({})
                  BY <2>2, <3>1, FS_Union
            <3> QED BY <1>5, <2>2, <3>2, FS_EmptySet
      <2>4. Cardinality(fresh) = Cardinality(ready) - Cardinality(expired)
            BY <1>2, <1>6, <2>2
      <2>5. CollectedReady(q, p, ts) = Cardinality(ready) - Cardinality(expired) + Cardinality(retry)
            BY <1>7, <2>1 DEF CollectedReady
      <2> QED BY <1>3, <2>1, <2>3, <2>4, <2>5
<1>9. CollectedInFlight(q, p, ts) = Cardinality(OnLease(q, p, ts))
      BY <1>2, <1>4, <1>6, <1>7 DEF CollectedInFlight
<1>10. IsAge(OldestReadyAge(q, p, ts), Waiting(q, p, ts), ts)
      <2>1. \A m \in Waiting(q, p, ts) : m \in Messages /\ row[m].enqueued_at \in Nat
            BY <1>2, <1>3, StoredRow DEF ready, flying
      <2> QED BY <1>3, <2>1, OldestIsAge DEF OldestReadyAge
<1>11. IsAge(OldestInFlightAge(q, p, ts), OnLease(q, p, ts), ts)
      <2>1. \A m \in OnLease(q, p, ts) : m \in Messages /\ row[m].enqueued_at \in Nat
            BY <1>2, <1>4, StoredRow DEF flying
      <2> QED BY <1>4, <2>1, OldestIsAge DEF OldestInFlightAge
<1> QED BY <1>8, <1>9, <1>10, <1>11

\* Whatever has been delivered, retried and expired, the collector's gauges are
\* the messages that a dequeue with its timestamp could be given and those that
\* a consumer could acknowledge, and its ages those of the oldest of them: the
\* query of the metrics and the candidates of dequeue and acknowledge agree.
THEOREM CollectorMatchesDequeue == Spec => []GaugesMatchDequeue
<1>1. DeliveryInv /\ RollupExact => GaugesMatchDequeue
      BY GaugesAgree DEF GaugesMatchDequeue
<1> QED BY <1>1, DeliveryInvariant, CountsAreExact, PTL
=============================================================================
