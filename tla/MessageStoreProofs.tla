------------------------- MODULE MessageStoreProofs -------------------------
(***************************************************************************)
(* Theorems about MessageStore, for every value of its constants.          *)
(***************************************************************************)
EXTENDS MessageStoreInvariant, FiniteSetTheorems, TLAPS

-----------------------------------------------------------------------------
(* Types of what the operators build. *)

LEMMA IdleType == Idle \in Transaction
BY DEF Idle, Started, Transaction

LEMMA NewRowType ==
  ASSUME NEW q \in Queues, NEW p \in Priorities, NEW order \in Nat, NEW ts \in Nat,
         NEW ttl \in Lifetimes
  PROVE  NewRow(q, p, order, ts, ttl) \in Row
BY SettingsAssumption DEF NewRow, Row, States

LEMMA LeasedRowType ==
  ASSUME NEW r \in Row, NEW h \in Handles, NEW ts \in Nat, NEW timeout \in Timeouts
  PROVE  /\ LeasedRow(r, h, ts, timeout) \in Row
         /\ LeasedRow(r, h, ts, timeout).last_delivered_at = ts
         /\ LeasedRow(r, h, ts, timeout).available_after = ts + timeout
BY SettingsAssumption DEF LeasedRow, Row, States

LEMMA DeadLetterType ==
  ASSUME NEW r \in Row, NEW ts \in Nat
  PROVE  DeadLetter(r, ts) \in DeadRow
BY DEF DeadLetter, DeadRow, Row

LEMMA SlotType ==
  ASSUME NEW m \in Messages, NEW r \in Row
  PROVE  SlotOf(m, r) \in Slot
BY IdentityAssumption DEF SlotOf, Slot, Row

LEMMA MessageSubsets ==
  ASSUME NEW S \in SUBSET Messages
  PROVE  IsFiniteSet(S) /\ Cardinality(S) \in Nat
BY IdentityAssumption, FS_Subset, FS_CardinalityType

LEMMA AfterDeleteType ==
  ASSUME NEW counts \in [Slot -> Int], NEW S \in SUBSET Messages
  PROVE  AfterDelete(counts, S) \in [Slot -> Int]
<1> SUFFICES ASSUME NEW k \in Slot
             PROVE  counts[k] - Cardinality({m \in S : SlotOf(m, row[m]) = k}) \in Int
    BY DEF AfterDelete
<1> {m \in S : SlotOf(m, row[m]) = k} \in SUBSET Messages
    OBVIOUS
<1> QED BY MessageSubsets

LEMMA AfterInsertType ==
  ASSUME NEW counts \in [Slot -> Int], NEW m \in Messages, NEW r \in Row
  PROVE  AfterInsert(counts, m, r) \in [Slot -> Int]
BY SlotType DEF AfterInsert

LEMMA AfterUpdateType ==
  ASSUME NEW counts \in [Slot -> Int], NEW m \in Messages, NEW r \in Row, row[m] \in Row
  PROVE  AfterUpdate(counts, m, r) \in [Slot -> Int]
BY SlotType DEF AfterUpdate

-----------------------------------------------------------------------------
(* LockInv.  A step either changes one transaction and no table, or ends   *)
(* one transaction and changes the rows it holds: one lemma for each.      *)

LEMMA TransactionStep ==
  ASSUME LockInv, NEW c \in Callers, NEW t \in Transaction,
         txn' = [txn EXCEPT ![c] = t],
         UNCHANGED <<now, settings, row, dlq, rollup, leases, fate>>,
         nextOrder' \in Nat,
         Shape(t),
         \A d \in Callers \ {c} : Held(t) \cap Held(txn[d]) = {},
         t.op # "enqueue" => \A m \in Held(t) : row[m] # None,
         t.op = "enqueue" => /\ fate[t.message] = "new"
                             /\ \A d \in Callers \ {c} :
                                  txn[d].op = "enqueue" => txn[d].message # t.message
  PROVE  LockInv'
<1>1. /\ txn' \in [Callers -> Transaction]
      /\ txn'[c] = t
      /\ \A d \in Callers \ {c} : txn'[d] = txn[d]
      BY DEF LockInv, TypeOK
<1>2. TypeOK'
      BY <1>1 DEF LockInv, TypeOK
<1>3. TransactionShape'
      <2> SUFFICES ASSUME NEW d \in Callers PROVE Shape(txn[d])'
          BY DEF TransactionShape
      <2>1. Shape(txn'[d])
            BY <1>1 DEF LockInv, TransactionShape
      <2> QED BY <2>1 DEF Shape
<1>4. RowLocks'
      <2>1. \A d, e \in Callers : d # e => Held(txn'[d]) \cap Held(txn'[e]) = {}
            BY <1>1 DEF LockInv, RowLocks
      <2>2. \A d \in Callers : txn'[d].op # "enqueue" => \A m \in Held(txn'[d]) : row'[m] # None
            BY <1>1 DEF LockInv, RowLocks
      <2>3. \A d \in Callers : txn'[d].op = "enqueue" => fate'[txn'[d].message] = "new"
            BY <1>1 DEF LockInv, RowLocks
      <2>4. \A d, e \in Callers : d # e /\ txn'[d].op = "enqueue" /\ txn'[e].op = "enqueue"
                                    => txn'[d].message # txn'[e].message
            BY <1>1 DEF LockInv, RowLocks
      <2> QED BY <2>1, <2>2, <2>3, <2>4 DEF RowLocks, Held
<1>5. FatesMatchTables'
      BY DEF LockInv, FatesMatchTables
<1> QED BY <1>2, <1>3, <1>4, <1>5 DEF LockInv

LEMMA CommitStep ==
  ASSUME LockInv, NEW c \in Callers,
         txn' = [txn EXCEPT ![c] = Idle],
         UNCHANGED <<now, settings, nextOrder>>,
         row' \in [Messages -> Row \cup {None}],
         dlq' \in [Messages -> DeadRow \cup {None}],
         fate' \in [Messages -> Fates],
         rollup' \in [Slot -> Int],
         leases' \in SUBSET Lease,
         \A m \in Messages \ Held(txn[c]) : row'[m] = row[m] /\ fate'[m] = fate[m],
         FatesMatchTables'
  PROVE  LockInv'
<1>1. /\ txn' \in [Callers -> Transaction]
      /\ txn'[c] = Idle
      /\ \A d \in Callers \ {c} : txn'[d] = txn[d]
      BY IdleType DEF LockInv, TypeOK
<1>2. /\ Shape(Idle)
      /\ Held(Idle) = {}
      /\ Idle.op = "idle"
      BY DEF Shape, Held, Idle, Started
<1>3. TypeOK'
      BY <1>1 DEF LockInv, TypeOK
<1>4. TransactionShape'
      <2> SUFFICES ASSUME NEW d \in Callers PROVE Shape(txn[d])'
          BY DEF TransactionShape
      <2>1. Shape(txn'[d])
            BY <1>1, <1>2 DEF LockInv, TransactionShape
      <2> QED BY <2>1 DEF Shape
<1>5. RowLocks'
      <2>1. \A d, e \in Callers : d # e => Held(txn'[d]) \cap Held(txn'[e]) = {}
            BY <1>1, <1>2 DEF LockInv, RowLocks
      <2>2. ASSUME NEW d \in Callers, txn'[d].op # "enqueue", NEW m \in Held(txn'[d])
            PROVE  row'[m] # None
            <3>1. d # c /\ m \in Held(txn[d])
                  BY <2>2, <1>1, <1>2
            <3>2. m \in Messages
                  <4>1. Shape(txn[d]) /\ txn[d] \in Transaction
                        BY DEF LockInv, TypeOK, TransactionShape
                  <4>2. txn[d].op = "dequeue" \/ txn[d].image = None
                        BY <4>1, <2>2, <1>1, <3>1, <1>2
                        DEF Shape, Transaction, Idle, Started
                  <4> QED BY <3>1, <4>1, <4>2 DEF Shape, Held, Transaction
            <3>3. m \notin Held(txn[c])
                  BY <3>1 DEF LockInv, RowLocks
            <3> QED BY <1>1, <2>2, <3>1, <3>2, <3>3 DEF LockInv, RowLocks
      <2>3. ASSUME NEW d \in Callers, txn'[d].op = "enqueue"
            PROVE  fate'[txn'[d].message] = "new"
            <3>1. d # c /\ txn[d].op = "enqueue" /\ txn'[d] = txn[d]
                  BY <2>3, <1>1, <1>2
            <3>2. txn[d].message \in Messages /\ fate[txn[d].message] = "new"
                  BY <3>1 DEF LockInv, RowLocks, TransactionShape, Shape
            <3>3. txn[d].message \notin Held(txn[c])
                  <4>1. CASE txn[c].op = "enqueue"
                        BY <4>1, <3>1 DEF LockInv, RowLocks, TransactionShape, Shape, Held
                  <4>2. CASE txn[c].op # "enqueue"
                        BY <4>2, <3>2 DEF LockInv, RowLocks, FatesMatchTables
                  <4> QED BY <4>1, <4>2
            <3> QED BY <3>1, <3>2, <3>3
      <2>4. \A d, e \in Callers : d # e /\ txn'[d].op = "enqueue" /\ txn'[e].op = "enqueue"
                                    => txn'[d].message # txn'[e].message
            BY <1>1, <1>2 DEF LockInv, RowLocks
      <2> QED BY <2>1, <2>2, <2>3, <2>4 DEF RowLocks, Held
<1> QED BY <1>3, <1>4, <1>5 DEF LockInv

LEMMA StartedType ==
  ASSUME NEW op \in {"enqueue", "dequeue", "acknowledge", "expire"}, NEW ts \in Nat,
         NEW q \in Queues \cup {None}, NEW m \in Messages \cup {None},
         NEW h \in Handles \cup {None}
  PROVE  /\ Started(op, ts, q, m, h) \in Transaction
         /\ Held(Started(op, ts, q, m, h)) = {}
         /\ op = "enqueue" /\ q \in Queues /\ m \in Messages
              => Shape(Started(op, ts, q, m, h))
         /\ op = "dequeue" /\ q \in Queues /\ h \in Handles
              => Shape(Started(op, ts, q, m, h))
         /\ op = "acknowledge" /\ m \in Messages /\ h \in Handles
              => Shape(Started(op, ts, q, m, h))
         /\ op = "expire" => Shape(Started(op, ts, q, m, h))
BY DEF Started, Transaction, Held, Shape

\* The message of an enqueue that has not committed is held by nobody else.
LEMMA HeldElsewhere ==
  ASSUME LockInv, NEW c \in Callers, txn[c].op = "enqueue", txn[c].message \in Messages
  PROVE  \A d \in Callers \ {c} : txn[c].message \notin Held(txn[d])
<1> SUFFICES ASSUME NEW d \in Callers \ {c} PROVE txn[c].message \notin Held(txn[d])
    OBVIOUS
<1>1. fate[txn[c].message] = "new" /\ row[txn[c].message] = None
      BY DEF LockInv, RowLocks, FatesMatchTables
<1>2. CASE txn[d].op = "enqueue"
      BY <1>2 DEF LockInv, RowLocks, TransactionShape, Shape, Held
<1>3. CASE txn[d].op # "enqueue"
      BY <1>1, <1>3 DEF LockInv, RowLocks
<1> QED BY <1>2, <1>3

LEMMA BatchSubset ==
  ASSUME NEW S, NEW key, NEW n, NEW B \in Batches(S, key, n)
  PROVE  B \in SUBSET S
BY DEF Batches

\* Rows that FOR UPDATE SKIP LOCKED returns are in the table and no other
\* transaction's.
LEMMA UnlockedRows ==
  ASSUME NEW c \in Callers, NEW S \in SUBSET Unlocked(c)
  PROVE  /\ S \in SUBSET Messages
         /\ \A m \in S : row[m] # None
         /\ \A d \in Callers \ {c} : S \cap Held(txn[d]) = {}
BY DEF Unlocked

LEMMA BeginPreserves ==
  ASSUME LockInv, NEW c \in Callers, NEW op \in {"enqueue", "dequeue", "acknowledge", "expire"},
         NEW q \in Queues \cup {None}, NEW m \in Messages \cup {None},
         NEW h \in Handles \cup {None},
         Begin(c, op, q, m, h),
         Shape(Started(op, now, q, m, h)),
         op = "enqueue" => /\ fate[m] = "new"
                           /\ \A d \in Callers : txn[d].op = "enqueue" => txn[d].message # m
  PROVE  LockInv'
<1> DEFINE t == Started(op, now, q, m, h)
<1>1. now \in Nat /\ nextOrder \in Nat
      BY DEF LockInv, TypeOK
<1>2. t \in Transaction /\ Held(t) = {}
      BY <1>1, StartedType
<1>3. t.op = op /\ t.message = m
      BY DEF Started
<1>4. /\ txn' = [txn EXCEPT ![c] = t]
      /\ UNCHANGED <<now, settings, row, dlq, rollup, leases, fate>>
      /\ nextOrder' \in Nat
      BY <1>1 DEF Begin
<1> HIDE DEF t
<1> QED BY <1>2, <1>3, <1>4, TransactionStep DEF t

LEMMA ClaimPreserves ==
  ASSUME LockInv, NEW c \in Callers, NEW removed \in SUBSET Messages,
         NEW m \in Messages \cup {None}, NEW image \in Row \cup {None},
         Claim(c, removed, m, image),
         nextOrder' \in Nat,
         Shape(Claimed(txn[c], removed, m, image)),
         \A d \in Callers \ {c} : removed \cap Held(txn[d]) = {},
         image # None => \A d \in Callers \ {c} : m \notin Held(txn[d]),
         txn[c].op # "enqueue" => /\ \A x \in removed : row[x] # None
                                  /\ image # None => row[m] # None,
         txn[c].op = "enqueue" => m = txn[c].message
  PROVE  LockInv'
<1> DEFINE t == Claimed(txn[c], removed, m, image)
<1>1. txn[c] \in Transaction
      BY DEF LockInv, TypeOK
<1>2. /\ t \in Transaction
      /\ image = None => Held(t) = removed
      /\ image # None => Held(t) = removed \cup {m}
      /\ t.op = txn[c].op
      /\ t.message = m
      BY <1>1 DEF Claimed, Transaction, Held
<1>3. /\ txn' = [txn EXCEPT ![c] = t]
      /\ UNCHANGED <<now, settings, row, dlq, rollup, leases, fate>>
      BY DEF Claim
<1> HIDE DEF t
<1>4. \A d \in Callers \ {c} : Held(t) \cap Held(txn[d]) = {}
      BY <1>2
<1>5. t.op # "enqueue" => \A x \in Held(t) : row[x] # None
      BY <1>2
<1>6. t.op = "enqueue" => /\ fate[t.message] = "new"
                          /\ \A d \in Callers \ {c} :
                               txn[d].op = "enqueue" => txn[d].message # t.message
      BY <1>2 DEF LockInv, RowLocks
<1>7. Shape(t)
      BY DEF t
<1> QED BY <1>2, <1>3, <1>4, <1>5, <1>6, <1>7, TransactionStep

-----------------------------------------------------------------------------
(* One lemma per kind of transaction: its steps preserve LockInv. *)

LEMMA EnqueuePreserves ==
  ASSUME LockInv, NEW c \in Clients,
         \/ \E q \in Queues, m \in Messages : BeginEnqueue(c, q, m)
         \/ InsertMessage(c)
         \/ CommitEnqueue(c)
  PROVE  LockInv'
<1> c \in Callers
    BY DEF Callers
<1> DEFINE t == txn[c]
<1>t. t \in Transaction /\ Shape(t)
      BY DEF LockInv, TypeOK, TransactionShape
<1>1. CASE \E q \in Queues, m \in Messages : BeginEnqueue(c, q, m)
      <2> PICK q \in Queues, m \in Messages : BeginEnqueue(c, q, m)
          BY <1>1
      <2>1. now \in Nat
            BY DEF LockInv, TypeOK
      <2>2. Shape(Started("enqueue", now, q, m, None))
            BY <2>1, StartedType
      <2> QED BY <2>2, BeginPreserves DEF BeginEnqueue
<1>2. CASE InsertMessage(c)
      <2>1. PICK p \in Priorities, ttl \in Lifetimes :
              Claim(c, {}, t.message, NewRow(t.queue, p, nextOrder, t.ts, ttl))
            BY <1>2 DEF InsertMessage
      <2> DEFINE image == NewRow(t.queue, p, nextOrder, t.ts, ttl)
      <2>2. /\ t.op = "enqueue" /\ t.claimed = FALSE
            /\ nextOrder' = nextOrder + 1
            BY <1>2 DEF InsertMessage, Running
      <2>3. /\ t.queue \in Queues /\ t.message \in Messages
            /\ t.ts \in Nat /\ nextOrder \in Nat
            BY <1>t, <2>2 DEF Shape, Transaction, LockInv, TypeOK
      <2>4. image \in Row /\ image # None
            BY <2>3, NewRowType, NoneAssumption
      <2>4a. image.state = "READY"
            BY DEF NewRow
      <2> HIDE DEF image
      <2>5. Shape(Claimed(t, {}, t.message, image))
            BY <2>2, <2>3, <2>4, <2>4a DEF Shape, Claimed
      <2>6. \A d \in Callers \ {c} : t.message \notin Held(txn[d])
            BY <1>t, <2>2, <2>3, HeldElsewhere
      <2> QED BY <2>1, <2>2, <2>3, <2>4, <2>5, <2>6, ClaimPreserves DEF image
<1>3. CASE CommitEnqueue(c)
      <2> DEFINE m == t.message
      <2>1. /\ t.op = "enqueue" /\ t.claimed = TRUE
            /\ row' = [row EXCEPT ![m] = t.image]
            /\ rollup' = AfterInsert(rollup, m, t.image)
            /\ fate' = [fate EXCEPT ![m] = "live"]
            /\ txn' = [txn EXCEPT ![c] = Idle]
            /\ UNCHANGED <<now, settings, dlq, nextOrder, leases>>
            BY <1>3 DEF CommitEnqueue, Running
      <2>2. m \in Messages /\ t.image \in Row /\ t.image # None /\ Held(t) = {m}
            BY <1>t, <2>1 DEF Shape, Transaction, Held
      <2>3. /\ row' \in [Messages -> Row \cup {None}]
            /\ dlq' \in [Messages -> DeadRow \cup {None}]
            /\ fate' \in [Messages -> Fates]
            /\ leases' \in SUBSET Lease
            BY <2>1, <2>2 DEF LockInv, TypeOK, Fates
      <2>4. rollup' \in [Slot -> Int]
            BY <2>1, <2>2, AfterInsertType DEF LockInv, TypeOK
      <2>5. \A x \in Messages \ Held(t) : row'[x] = row[x] /\ fate'[x] = fate[x]
            BY <2>1, <2>2 DEF LockInv, TypeOK
      <2>6. FatesMatchTables'
            <3>1. fate[m] = "new"
                  BY <2>1 DEF LockInv, RowLocks
            <3>2. row'[m] # None /\ fate'[m] = "live" /\ dlq'[m] = None
                  BY <2>1, <2>2, <3>1 DEF LockInv, TypeOK, FatesMatchTables
            <3> QED BY <2>1, <2>2, <2>5, <3>2 DEF LockInv, FatesMatchTables
      <2> QED BY <2>1, <2>3, <2>4, <2>5, <2>6, CommitStep
<1> QED BY <1>1, <1>2, <1>3

LEMMA CommitRemoves ==
  ASSUME LockInv, NEW c \in Callers, NEW S \in SUBSET Messages, S \subseteq Held(txn[c]),
         txn[c].op # "enqueue", NEW end \in {"acknowledged", "expired"},
         row' = [m \in Messages |-> IF m \in S THEN None ELSE row[m]],
         fate' = [m \in Messages |-> IF m \in S THEN end ELSE fate[m]],
         rollup' = AfterDelete(rollup, S),
         txn' = [txn EXCEPT ![c] = Idle],
         UNCHANGED <<now, settings, dlq, nextOrder, leases>>
  PROVE  LockInv'
<1>1. /\ row' \in [Messages -> Row \cup {None}]
      /\ dlq' \in [Messages -> DeadRow \cup {None}]
      /\ fate' \in [Messages -> Fates]
      /\ leases' \in SUBSET Lease
      BY DEF LockInv, TypeOK, Fates
<1>2. rollup' \in [Slot -> Int]
      BY AfterDeleteType DEF LockInv, TypeOK
<1>3. \A x \in Messages \ Held(txn[c]) : row'[x] = row[x] /\ fate'[x] = fate[x]
      OBVIOUS
<1>4. \A m \in S : row[m] # None
      BY DEF LockInv, RowLocks
<1>5. FatesMatchTables'
      BY <1>4 DEF LockInv, FatesMatchTables
<1> QED BY <1>1, <1>2, <1>3, <1>5, CommitStep

LEMMA DequeuePreserves ==
  ASSUME LockInv, NEW c \in Clients,
         \/ \E q \in Queues, h \in Handles : BeginDequeue(c, q, h)
         \/ ClaimDequeue(c)
         \/ CommitDequeue(c)
  PROVE  LockInv'
<1> c \in Callers
    BY DEF Callers
<1> DEFINE t == txn[c]
<1>t. t \in Transaction /\ Shape(t)
      BY DEF LockInv, TypeOK, TransactionShape
<1>1. CASE \E q \in Queues, h \in Handles : BeginDequeue(c, q, h)
      <2> PICK q \in Queues, h \in Handles : BeginDequeue(c, q, h)
          BY <1>1
      <2>1. now \in Nat
            BY DEF LockInv, TypeOK
      <2>2. Shape(Started("dequeue", now, q, None, h))
            BY <2>1, StartedType
      <2> QED BY <2>2, BeginPreserves DEF BeginDequeue
<1>2. CASE ClaimDequeue(c)
      <2> DEFINE exhausted == {m \in Unlocked(c) : Exhausted(m, t.queue, t.ts)}
                 deliverable == {m \in Unlocked(c) : Deliverable(m, t.queue, t.ts)}
                 availableAfter == [m \in exhausted |-> row[m].available_after]
                 image(m) == LeasedRow(row[m], t.receipt, t.ts,
                                       settings[t.queue].visibility_timeout)
      <2>1. /\ t.op = "dequeue" /\ t.claimed = FALSE
            /\ settings[t.queue] # None
            /\ nextOrder' = nextOrder
            BY <1>2 DEF ClaimDequeue, Running
      <2>2. PICK dead \in Batches(exhausted, availableAfter, DeadLetterBatch) :
              \/ Claim(c, dead, None, None)
              \/ \E m \in Foremost(deliverable) : Claim(c, dead, m, image(m))
            BY <1>2 DEF ClaimDequeue
      <2>3. dead \in SUBSET exhausted /\ dead \in SUBSET Unlocked(c)
            BY BatchSubset
      <2>4. /\ dead \in SUBSET Messages
            /\ \A m \in dead : row[m] # None
            /\ \A d \in Callers \ {c} : dead \cap Held(txn[d]) = {}
            BY <2>3, UnlockedRows
      <2>5. /\ nextOrder' \in Nat
            /\ t.queue \in Queues /\ t.receipt \in Handles /\ t.ts \in Nat
            BY <1>t, <2>1 DEF LockInv, TypeOK, Shape, Transaction
      <2>6. CASE Claim(c, dead, None, None)
            <3>1. Shape(Claimed(t, dead, None, None))
                  BY <2>1, <2>5 DEF Shape, Claimed
            <3> QED BY <2>1, <2>4, <2>5, <2>6, <3>1, ClaimPreserves
      <2>7. ASSUME NEW m \in Foremost(deliverable), Claim(c, dead, m, image(m))
            PROVE  LockInv'
            <3>1. m \in deliverable
                  BY DEF Foremost
            <3>2. /\ m \in Messages /\ row[m] # None
                  /\ \A d \in Callers \ {c} : m \notin Held(txn[d])
                  BY <3>1 DEF Unlocked
            <3>3. m \notin dead
                  <4>1. settings[t.queue] \in Settings /\ row[m] \in Row
                        BY <2>1, <2>5, <3>2 DEF LockInv, TypeOK
                  <4>2. /\ settings[t.queue].max_delivery_attempts \in Nat
                        /\ row[m].delivery_attempts \in Nat
                        BY <4>1, SettingsAssumption DEF Settings, Row
                  <4> QED BY <2>3, <3>1, <4>2 DEF Deliverable, Exhausted
            <3>4. image(m) \in Row /\ image(m) # None
                  <4>1. settings[t.queue].visibility_timeout \in Timeouts
                        BY <2>1, <2>5 DEF LockInv, TypeOK, Settings
                  <4>2. row[m] \in Row
                        BY <3>2 DEF LockInv, TypeOK
                  <4> QED BY <4>1, <4>2, <2>5, LeasedRowType, NoneAssumption
            <3>a. image(m).state = "IN_FLIGHT"
                  BY DEF LeasedRow
            <3> HIDE DEF image
            <3>5. Shape(Claimed(t, dead, m, image(m)))
                  BY <2>1, <2>5, <3>2, <3>3, <3>a DEF Shape, Claimed
            <3> QED BY <2>1, <2>4, <2>5, <2>7, <3>2, <3>4, <3>5, ClaimPreserves
      <2> QED BY <2>2, <2>6, <2>7
<1>3. CASE CommitDequeue(c)
      <2>1. /\ t.op = "dequeue" /\ t.claimed = TRUE
            /\ dlq' = [m \in Messages |-> IF m \in t.removed THEN DeadLetter(row[m], t.ts) ELSE dlq[m]]
            /\ fate' = [m \in Messages |-> IF m \in t.removed THEN "dead" ELSE fate[m]]
            /\ txn' = [txn EXCEPT ![c] = Idle]
            /\ UNCHANGED <<now, settings, nextOrder>>
            BY <1>3 DEF CommitDequeue, Running
      <2>2. /\ t.removed \in SUBSET Messages
            /\ t.ts \in Nat
            /\ t.receipt \in Handles
            /\ t.image \in Row \cup {None}
            /\ t.image # None => t.message \in Messages \ t.removed
            BY <1>t, <2>1 DEF Transaction, Shape
      <2>3. /\ t.removed \subseteq Held(t)
            /\ t.image # None => t.message \in Held(t)
            BY DEF Held
      <2>4. \A m \in Held(t) : row[m] # None
            BY <2>1 DEF LockInv, RowLocks
      <2>5. \A m \in t.removed : row[m] \in Row /\ DeadLetter(row[m], t.ts) \in DeadRow
            <3> TAKE m \in t.removed
            <3>1. row[m] \in Row
                  BY <2>2, <2>3, <2>4 DEF LockInv, TypeOK
            <3> QED BY <2>2, <3>1, DeadLetterType
      <2>6. /\ dlq' \in [Messages -> DeadRow \cup {None}]
            /\ fate' \in [Messages -> Fates]
            BY <2>1, <2>2, <2>5 DEF LockInv, TypeOK, Fates
      <2>7. AfterDelete(rollup, t.removed) \in [Slot -> Int]
            BY <2>2, AfterDeleteType DEF LockInv, TypeOK
      <2>8. CASE /\ t.image = None
                 /\ row' = [m \in Messages |-> IF m \in t.removed THEN None ELSE row[m]]
                 /\ rollup' = AfterDelete(rollup, t.removed)
                 /\ UNCHANGED leases
            <3>1. row' \in [Messages -> Row \cup {None}] /\ leases' \in SUBSET Lease
                  BY <2>8 DEF LockInv, TypeOK
            <3>2. \A m \in Messages \ Held(t) : row'[m] = row[m] /\ fate'[m] = fate[m]
                  BY <2>1, <2>2, <2>3, <2>8
            <3>3. FatesMatchTables'
                  BY <2>1, <2>2, <2>3, <2>4, <2>5, <2>8, NoneAssumption DEF LockInv, FatesMatchTables
            <3> QED BY <2>1, <2>6, <2>7, <2>8, <3>1, <3>2, <3>3, CommitStep
      <2>9. CASE /\ t.image # None
                 /\ row' = [m \in Messages |-> IF m \in t.removed THEN None
                                               ELSE IF m = t.message THEN t.image ELSE row[m]]
                 /\ rollup' = AfterUpdate(AfterDelete(rollup, t.removed), t.message, t.image)
                 /\ leases' = leases \cup {[message |-> t.message, receipt |-> t.receipt,
                                            from |-> t.image.last_delivered_at,
                                            until |-> t.image.available_after]}
                 /\ RowAllowed(t.image)
            <3>1. /\ t.message \in Messages \ t.removed /\ t.image \in Row
                  /\ row[t.message] # None /\ row[t.message] \in Row
                  BY <2>2, <2>3, <2>4, <2>9 DEF LockInv, TypeOK
            <3>2. row' \in [Messages -> Row \cup {None}]
                  BY <2>9, <3>1 DEF LockInv, TypeOK
            <3>3. leases' \in SUBSET Lease
                  <4>1. t.image.last_delivered_at # None
                        BY <1>t, <2>1, <2>9 DEF RowAllowed, Shape
                  <4>2. t.image.last_delivered_at \in Nat /\ t.image.available_after \in Nat
                        BY <3>1, <4>1 DEF Row
                  <4> QED BY <2>2, <2>9, <3>1, <4>2 DEF LockInv, TypeOK, Lease
            <3>4. rollup' \in [Slot -> Int]
                  BY <2>7, <2>9, <3>1, AfterUpdateType
            <3>5. \A m \in Messages \ Held(t) : row'[m] = row[m] /\ fate'[m] = fate[m]
                  BY <2>1, <2>2, <2>3, <2>9
            <3>6. FatesMatchTables'
                  BY <2>1, <2>2, <2>3, <2>4, <2>5, <2>9, <3>1, NoneAssumption
                  DEF LockInv, FatesMatchTables
            <3> QED BY <2>1, <2>6, <3>2, <3>3, <3>4, <3>5, <3>6, CommitStep
      <2> QED BY <1>3, <2>8, <2>9 DEF CommitDequeue
<1> QED BY <1>1, <1>2, <1>3

LEMMA AcknowledgePreserves ==
  ASSUME LockInv, NEW c \in Clients,
         \/ \E q \in Queues, m \in Messages, h \in Handles : BeginAcknowledge(c, q, m, h)
         \/ ClaimAcknowledge(c)
         \/ CommitAcknowledge(c)
  PROVE  LockInv'
<1> c \in Callers
    BY DEF Callers
<1> DEFINE t == txn[c]
<1>t. t \in Transaction /\ Shape(t)
      BY DEF LockInv, TypeOK, TransactionShape
<1>1. CASE \E q \in Queues, m \in Messages, h \in Handles : BeginAcknowledge(c, q, m, h)
      <2> PICK q \in Queues, m \in Messages, h \in Handles : BeginAcknowledge(c, q, m, h)
          BY <1>1
      <2>1. now \in Nat
            BY DEF LockInv, TypeOK
      <2>2. Shape(Started("acknowledge", now, q, m, h))
            BY <2>1, StartedType
      <2> QED BY <2>2, BeginPreserves DEF BeginAcknowledge
<1>2. CASE ClaimAcknowledge(c)
      <2> DEFINE matches == Acknowledgeable(t.message, t.queue, t.receipt, t.ts)
                 removed == IF matches THEN {t.message} ELSE {}
      <2>1. /\ t.op = "acknowledge" /\ t.claimed = FALSE
            /\ matches => t.message \in Unlocked(c)
            /\ Claim(c, removed, t.message, None)
            /\ nextOrder' = nextOrder
            BY <1>2 DEF ClaimAcknowledge, Running
      <2>2. t.message \in Messages /\ t.receipt \in Handles
            BY <1>t, <2>1 DEF Shape
      <2>3. /\ removed \in SUBSET Messages
            /\ removed \subseteq {t.message}
            /\ removed \in SUBSET Unlocked(c)
            BY <2>1, <2>2
      <2> HIDE DEF removed, matches
      <2>4. /\ \A m \in removed : row[m] # None
            /\ \A d \in Callers \ {c} : removed \cap Held(txn[d]) = {}
            BY <2>3, UnlockedRows
      <2>5. Shape(Claimed(t, removed, t.message, None))
            BY <2>1, <2>2, <2>3 DEF Shape, Claimed
      <2>6. nextOrder' \in Nat
            BY <2>1 DEF LockInv, TypeOK
      <2> QED BY <2>1, <2>2, <2>3, <2>4, <2>5, <2>6, ClaimPreserves
<1>3. CASE CommitAcknowledge(c)
      <2>1. t.removed \in SUBSET Messages /\ t.removed \subseteq Held(t)
            BY <1>t DEF Transaction, Held
      <2> QED BY <1>3, <2>1, CommitRemoves DEF CommitAcknowledge, CommitDelete, Running
<1> QED BY <1>1, <1>2, <1>3

LEMMA ExpirePreserves ==
  ASSUME LockInv, NEW c \in Cleaners, CleanerStep(c)
  PROVE  LockInv'
<1> c \in Callers
    BY DEF Callers
<1> DEFINE t == txn[c]
<1>t. t \in Transaction /\ Shape(t)
      BY DEF LockInv, TypeOK, TransactionShape
<1>1. CASE BeginExpire(c)
      <2>1. now \in Nat
            BY DEF LockInv, TypeOK
      <2>2. Shape(Started("expire", now, None, None, None))
            BY <2>1, StartedType
      <2> QED BY <1>1, <2>2, BeginPreserves DEF BeginExpire
<1>2. CASE ClaimExpire(c)
      <2> DEFINE expired == {m \in Unlocked(c) : Expirable(m, t.ts)}
                 expiresAt == [m \in expired |-> row[m].expires_at]
      <2>1. /\ t.op = "expire" /\ t.claimed = FALSE
            /\ nextOrder' = nextOrder
            BY <1>2 DEF ClaimExpire, Running
      <2>2. PICK B \in Batches(expired, expiresAt, CleanerBatch) : Claim(c, B, None, None)
            BY <1>2 DEF ClaimExpire
      <2>3. B \in SUBSET Unlocked(c)
            BY BatchSubset
      <2>4. /\ B \in SUBSET Messages
            /\ \A m \in B : row[m] # None
            /\ \A d \in Callers \ {c} : B \cap Held(txn[d]) = {}
            BY <2>3, UnlockedRows
      <2>5. Shape(Claimed(t, B, None, None))
            BY <2>1 DEF Shape, Claimed
      <2>6. nextOrder' \in Nat
            BY <2>1 DEF LockInv, TypeOK
      <2> QED BY <2>1, <2>2, <2>4, <2>5, <2>6, ClaimPreserves
<1>3. CASE CommitExpire(c)
      <2>1. t.removed \in SUBSET Messages /\ t.removed \subseteq Held(t)
            BY <1>t DEF Transaction, Held
      <2> QED BY <1>3, <2>1, CommitRemoves DEF CommitExpire, CommitDelete, Running
<1> QED BY <1>1, <1>2, <1>3 DEF CleanerStep

\* Rolling back, and a dequeue from a queue that does not exist.
LEMMA EndPreserves ==
  ASSUME LockInv, NEW c \in Callers, Abort(c) \/ DequeueNotFound(c)
  PROVE  LockInv'
<1>1. /\ txn' = [txn EXCEPT ![c] = Idle]
      /\ UNCHANGED <<now, settings, row, dlq, rollup, nextOrder, leases, fate>>
      BY DEF Abort, DequeueNotFound
<1>2. /\ Shape(Idle)
      /\ Held(Idle) = {}
      /\ Idle.op = "idle"
      BY DEF Shape, Held, Idle, Started
<1>3. nextOrder' \in Nat
      BY <1>1 DEF LockInv, TypeOK
<1> QED BY <1>1, <1>2, <1>3, IdleType, TransactionStep

\* The steps that no transaction takes.
LEMMA TablePreserves ==
  ASSUME LockInv,
         \/ \E q \in Queues : CreateQueue(q) \/ UpdateQueue(q)
         \/ PurgeDeadLetters
         \/ Tick
         \/ UNCHANGED vars
  PROVE  LockInv'
<1>1. CASE \E q \in Queues : CreateQueue(q) \/ UpdateQueue(q)
      <2>1. PICK q \in Queues, s \in Settings : settings' = [settings EXCEPT ![q] = s]
            BY <1>1 DEF CreateQueue, UpdateQueue
      <2>2. UNCHANGED <<now, row, dlq, rollup, nextOrder, txn, leases, fate>>
            BY <1>1 DEF CreateQueue, UpdateQueue
      <2>3. TypeOK'
            BY <2>1, <2>2 DEF LockInv, TypeOK
      <2> QED BY <2>2, <2>3 DEF LockInv, TransactionShape, Shape, RowLocks, Held, FatesMatchTables
<1>2. CASE PurgeDeadLetters
      <2>1. PICK B \in SUBSET {m \in Messages : dlq[m] # None} :
              /\ dlq' = [m \in Messages |-> IF m \in B THEN None ELSE dlq[m]]
              /\ fate' = [m \in Messages |-> IF m \in B THEN "purged" ELSE fate[m]]
            <3> DEFINE old == {m \in Messages : dlq[m] # None /\ dlq[m].dead_lettered_at <= now - Retention}
                       deadLetteredAt == [m \in old |-> dlq[m].dead_lettered_at]
            <3>1. PICK B \in Batches(old, deadLetteredAt, PurgeBatch) :
                    /\ dlq' = [m \in Messages |-> IF m \in B THEN None ELSE dlq[m]]
                    /\ fate' = [m \in Messages |-> IF m \in B THEN "purged" ELSE fate[m]]
                  BY <1>2 DEF PurgeDeadLetters
            <3>2. B \in SUBSET old
                  BY BatchSubset
            <3> QED BY <3>1, <3>2
      <2>2. UNCHANGED <<now, settings, row, rollup, nextOrder, txn, leases>>
            BY <1>2 DEF PurgeDeadLetters
      <2>3. TypeOK'
            BY <2>1, <2>2 DEF LockInv, TypeOK, Fates
      <2>4. FatesMatchTables'
            BY <2>1, <2>2 DEF LockInv, FatesMatchTables
      <2>5. RowLocks'
            <3>1. \A m \in Messages : fate[m] = "new" => fate'[m] = "new"
                  BY <2>1 DEF LockInv, FatesMatchTables
            <3> QED BY <2>2, <3>1
                    DEF LockInv, RowLocks, Held, TransactionShape, Shape
      <2> QED BY <2>2, <2>3, <2>4, <2>5 DEF LockInv, TransactionShape, Shape
<1>3. CASE Tick
      <2>1. TypeOK'
            BY <1>3 DEF Tick, LockInv, TypeOK
      <2> QED BY <1>3, <2>1
              DEF Tick, LockInv, TransactionShape, Shape, RowLocks, Held, FatesMatchTables
<1>4. CASE UNCHANGED vars
      <2>1. UNCHANGED <<now, settings, row, dlq, rollup, nextOrder, txn, leases, fate>>
            BY <1>4 DEF vars
      <2>2. TypeOK'
            BY <2>1 DEF LockInv, TypeOK
      <2> QED BY <2>1, <2>2
              DEF LockInv, TransactionShape, Shape, RowLocks, Held, FatesMatchTables
<1> QED BY <1>1, <1>2, <1>3, <1>4

LEMMA LockInvInit == Init => LockInv
<1> SUFFICES ASSUME Init PROVE LockInv
    OBVIOUS
<1>1. /\ Shape(Idle)
      /\ Held(Idle) = {}
      /\ Idle.op = "idle"
      BY DEF Shape, Held, Idle, Started
<1>2. \A c \in Callers : txn[c] = Idle
      BY DEF Init
<1>3. TypeOK
      BY IdleType DEF Init, TypeOK, Fates
<1>4. FatesMatchTables
      BY DEF Init, FatesMatchTables
<1> QED BY <1>1, <1>2, <1>3, <1>4 DEF LockInv, TransactionShape, RowLocks

LEMMA LockInvStep == LockInv /\ [Next]_vars => LockInv'
<1> SUFFICES ASSUME LockInv, [Next]_vars PROVE LockInv'
    OBVIOUS
<1>1. ASSUME NEW c \in Clients, ClientStep(c) PROVE LockInv'
      <2> c \in Callers
          BY DEF Callers
      <2> QED BY <1>1, EnqueuePreserves, DequeuePreserves, AcknowledgePreserves, EndPreserves
              DEF ClientStep
<1> QED BY <1>1, ExpirePreserves, EndPreserves, TablePreserves DEF Next

\* Whatever the interleaving, the variables keep their types and no row is
\* ever held by two transactions.
THEOREM LocksExclusive == Spec => []LockInv
BY LockInvInit, LockInvStep, PTL DEF Spec

\* Type correctness, which follows only with the locks: a dead letter is well
\* formed because the row it is made of is still there at the commit.
THEOREM TypeCorrect == Spec => []TypeOK
<1>1. LockInv => TypeOK
      BY DEF LockInv
<1> QED BY <1>1, LocksExclusive, PTL

\* No message is ever in two places, and none that was acknowledged, expired
\* or purged comes back, whichever transactions commit after.
THEOREM NoResurrection == Spec => []FatesMatchTables
<1>1. LockInv => FatesMatchTables
      BY DEF LockInv
<1> QED BY <1>1, LocksExclusive, PTL
-----------------------------------------------------------------------------
(* DeliveryInv, from LockInv.  Only the transaction that holds a row       *)
(* changes it, so what the others' claims saw stays true.                  *)

LEMMA QuietStep ==
  ASSUME DeliveryInv, LockInv', NEW c \in Callers, NEW t,
         txn' = [txn EXCEPT ![c] = t],
         UNCHANGED <<now, row, leases, fate>>,
         ClaimHolds(t)
  PROVE  DeliveryInv'
<1>1. /\ txn'[c] = t
      /\ \A d \in Callers \ {c} : txn'[d] = txn[d]
      BY DEF DeliveryInv, LockInv, TypeOK
<1>2. ClaimsHold'
      <2> SUFFICES ASSUME NEW d \in Callers PROVE ClaimHolds(txn[d])'
          BY DEF ClaimsHold
      <2>1. ClaimHolds(txn'[d])
            BY <1>1 DEF DeliveryInv, ClaimsHold
      <2> QED BY <2>1 DEF ClaimHolds
<1>3. StoredRows'
      BY DEF DeliveryInv, StoredRows
<1>4. LeaseHistory'
      BY DEF DeliveryInv, LeaseHistory, LeasesNeverOverlap
<1>5. RunningLeases'
      BY DEF DeliveryInv, RunningLeases
<1> QED BY <1>2, <1>3, <1>4, <1>5 DEF DeliveryInv

LEMMA IdleClaim == now \in Nat => ClaimHolds(Idle)
BY DEF ClaimHolds, Idle, Started

LEMMA CommitKeepsClaims ==
  ASSUME DeliveryInv, NEW c \in Callers,
         txn' = [txn EXCEPT ![c] = Idle],
         UNCHANGED now,
         \A m \in Messages \ Held(txn[c]) : row'[m] = row[m]
  PROVE  ClaimsHold'
<1> SUFFICES ASSUME NEW d \in Callers PROVE ClaimHolds(txn[d])'
    BY DEF ClaimsHold
<1>1. now \in Nat /\ txn \in [Callers -> Transaction]
      BY DEF DeliveryInv, LockInv, TypeOK
<1>2. CASE d = c
      <2>1. txn'[d] = Idle
            BY <1>1, <1>2
      <2> QED BY <1>1, <2>1 DEF ClaimHolds, Idle, Started
<1>3. CASE d # c
      <2> DEFINE t == txn[d]
      <2>1. txn'[d] = t /\ t \in Transaction
            BY <1>1, <1>3
      <2>2. ClaimHolds(t) /\ Shape(t)
            BY DEF DeliveryInv, LockInv, TransactionShape, ClaimsHold
      <2>3. Held(t) \cap Held(txn[c]) = {}
            BY <1>3 DEF DeliveryInv, LockInv, RowLocks
      <2>4. \A m \in t.removed : row'[m] = row[m]
            BY <2>1, <2>3 DEF Held, Transaction
      <2>5. t.op = "dequeue" /\ t.image # None => row'[t.message] = row[t.message]
            BY <2>2, <2>3 DEF Held, Shape
      <2> HIDE DEF t
      <2>6. /\ t.ts <= now'
            /\ t.op \in {"dequeue", "expire"} =>
                 \A m \in t.removed : row'[m].state = "READY" \/ row'[m].available_after <= t.ts
            /\ t.op = "dequeue" => \A m \in t.removed : row'[m].state = "IN_FLIGHT"
            /\ t.op = "acknowledge" =>
                 \A m \in t.removed : /\ row'[m].receipt_handle = t.receipt
                                      /\ row'[m].available_after > t.ts
            BY <2>2, <2>4 DEF ClaimHolds
      <2>7. t.op = "dequeue" /\ t.image # None =>
              /\ row'[t.message].state = "READY" \/ row'[t.message].available_after <= t.ts
              /\ \E timeout \in Timeouts :
                   t.image = LeasedRow(row'[t.message], t.receipt, t.ts, timeout)
            BY <2>2, <2>5 DEF ClaimHolds
      <2> QED BY <2>1, <2>6, <2>7 DEF ClaimHolds
<1> QED BY <1>2, <1>3

\* A commit that only deletes rows: each was acknowledged, or had no running
\* lease.
LEMMA RemoveStep ==
  ASSUME DeliveryInv, LockInv', NEW c \in Callers, NEW S \in SUBSET Messages,
         S \subseteq Held(txn[c]),
         txn' = [txn EXCEPT ![c] = Idle],
         UNCHANGED <<now, leases>>,
         row' = [m \in Messages |-> IF m \in S THEN None ELSE row[m]],
         \A m \in Messages \ S : fate'[m] = fate[m],
         \A m \in S : fate[m] = "live" /\ fate'[m] # "new",
         \A m \in S : \/ fate'[m] = "acknowledged"
                      \/ row[m].state = "READY"
                      \/ row[m].available_after <= now
  PROVE  DeliveryInv'
<1>0. /\ TypeOK
      /\ \A l \in leases : /\ l.message \in Messages
                           /\ l.from \in Nat /\ l.until \in Nat
      BY DEF DeliveryInv, LockInv, TypeOK, Lease
<1>1. ClaimsHold'
      BY CommitKeepsClaims
<1>2. StoredRows'
      BY DEF DeliveryInv, StoredRows
<1>3. LeaseHistory'
      <2>1. \A l \in leases : l.from < l.until /\ fate'[l.message] # "new"
            BY <1>0 DEF DeliveryInv, LeaseHistory
      <2>2. \A l \in leases : row'[l.message] # None =>
              /\ row'[l.message].state = "IN_FLIGHT"
              /\ l.until <= row'[l.message].available_after
            BY <1>0 DEF DeliveryInv, LeaseHistory
      <2>3. \A m \in Messages : row'[m] # None /\ row'[m].state = "IN_FLIGHT" =>
              [message |-> m, receipt |-> row'[m].receipt_handle,
               from |-> row'[m].last_delivered_at, until |-> row'[m].available_after] \in leases
            BY DEF DeliveryInv, LeaseHistory
      <2>4. LeasesNeverOverlap'
            BY DEF DeliveryInv, LeaseHistory, LeasesNeverOverlap
      <2> QED BY <2>1, <2>2, <2>3, <2>4 DEF LeaseHistory
<1>4. RunningLeases'
      <2> SUFFICES ASSUME NEW l \in leases, l.until > now, row'[l.message] = None
                   PROVE  fate'[l.message] = "acknowledged"
          BY DEF RunningLeases
      <2>1. CASE l.message \in S
            <3>1. row[l.message] # None /\ row[l.message] \in Row
                  BY <1>0, <2>1 DEF DeliveryInv, LockInv, FatesMatchTables, TypeOK
            <3>2. row[l.message].state # "READY" /\ l.until <= row[l.message].available_after
                  BY <3>1 DEF DeliveryInv, LeaseHistory
            <3>3. now \in Nat /\ row[l.message].available_after \in Nat
                  BY <1>0, <3>1 DEF TypeOK, Row
            <3> QED BY <1>0, <2>1, <3>2, <3>3
      <2>2. CASE l.message \notin S
            BY <1>0, <2>2 DEF DeliveryInv, RunningLeases
      <2> QED BY <2>1, <2>2
<1> QED BY <1>1, <1>2, <1>3, <1>4 DEF DeliveryInv

\* A commit that delivers a message: the new lease begins where every earlier
\* one of the message has ended.
LEMMA DeliverStep ==
  ASSUME DeliveryInv, LockInv', NEW c \in Callers, CommitDequeue(c), txn[c].image # None
  PROVE  DeliveryInv'
<1> DEFINE t == txn[c]
           m == t.message
           S == t.removed
           lease == [message |-> m, receipt |-> t.receipt,
                     from |-> t.image.last_delivered_at, until |-> t.image.available_after]
<1>1. /\ t.op = "dequeue" /\ t.claimed = TRUE
      /\ RowAllowed(t.image)
      /\ row' = [x \in Messages |-> IF x \in S THEN None ELSE IF x = m THEN t.image ELSE row[x]]
      /\ fate' = [x \in Messages |-> IF x \in S THEN "dead" ELSE fate[x]]
      /\ leases' = leases \cup {lease}
      /\ txn' = [txn EXCEPT ![c] = Idle]
      /\ now' = now
      BY DEF CommitDequeue, Running
<1>2. /\ TypeOK /\ TypeOK'
      /\ t \in Transaction /\ Shape(t) /\ ClaimHolds(t)
      /\ now \in Nat /\ t.ts \in Nat /\ t.ts <= now
      BY DEF DeliveryInv, LockInv, TypeOK, TransactionShape, ClaimsHold, ClaimHolds, Transaction
<1>3. m \in Messages /\ m \notin S /\ S \in SUBSET Messages /\ m \in Held(t) /\ S \subseteq Held(t)
      BY <1>1, <1>2 DEF Shape, Transaction, Held
<1>4. \A x \in Held(t) : row[x] # None /\ x \in Messages => row[x] \in Row
      BY <1>2 DEF TypeOK
<1>4a. \A x \in Held(t) : row[x] # None
      BY <1>1 DEF DeliveryInv, LockInv, RowLocks
<1>5. row[m] \in Row /\ fate[m] = "live"
      BY <1>3, <1>4, <1>4a DEF DeliveryInv, LockInv, FatesMatchTables
<1>6. PICK timeout \in Timeouts : t.image = LeasedRow(row[m], t.receipt, t.ts, timeout)
      BY <1>1, <1>2 DEF ClaimHolds
<1>7. /\ t.image.state = "IN_FLIGHT"
      /\ t.image.receipt_handle = t.receipt
      /\ t.image.last_delivered_at = t.ts
      /\ t.image.available_after = t.ts + timeout
      BY <1>6 DEF LeasedRow
<1>8. timeout \in Nat /\ timeout > 0
      BY SettingsAssumption
<1>9. /\ lease.message = m /\ lease.from = t.ts /\ lease.until = t.ts + timeout
      /\ lease.receipt = t.receipt
      BY <1>7
<1>10. \A l \in leases : l.message \in Messages /\ l.from \in Nat /\ l.until \in Nat
      BY <1>2 DEF TypeOK, Lease
<1>11. \A l \in leases : l.message = m => l.until <= t.ts
      <2> SUFFICES ASSUME NEW l \in leases, l.message = m PROVE l.until <= t.ts
          OBVIOUS
      <2>1. row[m].state = "IN_FLIGHT" /\ l.until <= row[m].available_after
            BY <1>3, <1>4a DEF DeliveryInv, LeaseHistory
      <2>2. row[m].available_after <= t.ts
            BY <1>1, <1>2, <2>1 DEF ClaimHolds
      <2>3. row[m].available_after \in Nat
            BY <1>5 DEF Row
      <2> QED BY <1>2, <1>10, <2>1, <2>2, <2>3
<1>12. ClaimsHold'
      BY <1>1, <1>3, CommitKeepsClaims
<1>13. StoredRows'
      BY <1>1, <1>2, <1>7 DEF DeliveryInv, StoredRows
<1> HIDE DEF lease
<1>14. LeaseHistory'
      <2>1. \A l \in leases' : l.from < l.until /\ fate'[l.message] # "new"
            BY <1>1, <1>2, <1>3, <1>5, <1>8, <1>9, <1>10 DEF DeliveryInv, LeaseHistory
      <2>2. \A l \in leases' : row'[l.message] # None =>
              /\ row'[l.message].state = "IN_FLIGHT"
              /\ l.until <= row'[l.message].available_after
            <3> SUFFICES ASSUME NEW l \in leases', row'[l.message] # None
                         PROVE  /\ row'[l.message].state = "IN_FLIGHT"
                                /\ l.until <= row'[l.message].available_after
                OBVIOUS
            <3>1. CASE l.message = m
                  <4>1. row'[m] = t.image
                        BY <1>1, <1>3
                  <4>2. l.until <= t.ts + timeout
                        BY <1>1, <1>2, <1>8, <1>9, <1>10, <1>11, <3>1
                  <4> QED BY <1>7, <3>1, <4>1, <4>2
            <3>2. CASE l.message # m
                  <4>1. l \in leases /\ l.message \in Messages
                        BY <1>1, <1>9, <1>10, <3>2
                  <4>2. row'[l.message] = row[l.message]
                        BY <1>1, <3>2, <4>1
                  <4> QED BY <4>1, <4>2 DEF DeliveryInv, LeaseHistory
            <3> QED BY <3>1, <3>2
      <2>3. \A x \in Messages : row'[x] # None /\ row'[x].state = "IN_FLIGHT" =>
              [message |-> x, receipt |-> row'[x].receipt_handle,
               from |-> row'[x].last_delivered_at, until |-> row'[x].available_after] \in leases'
            <3> SUFFICES ASSUME NEW x \in Messages, row'[x] # None, row'[x].state = "IN_FLIGHT"
                         PROVE  [message |-> x, receipt |-> row'[x].receipt_handle,
                                 from |-> row'[x].last_delivered_at,
                                 until |-> row'[x].available_after] \in leases'
                OBVIOUS
            <3>1. CASE x = m
                  <4>1. row'[m] = t.image
                        BY <1>1, <1>3
                  <4> QED BY <1>1, <1>7, <3>1, <4>1 DEF lease
            <3>2. CASE x # m
                  BY <1>1, <3>2 DEF DeliveryInv, LeaseHistory
            <3> QED BY <3>1, <3>2
      <2>4. LeasesNeverOverlap'
            BY <1>1, <1>9, <1>11 DEF DeliveryInv, LeaseHistory, LeasesNeverOverlap
      <2> QED BY <2>1, <2>2, <2>3, <2>4 DEF LeaseHistory
<1>15. RunningLeases'
      <2> SUFFICES ASSUME NEW l \in leases', l.until > now, row'[l.message] = None
                   PROVE  fate'[l.message] = "acknowledged"
          BY <1>1 DEF RunningLeases
      <2>1. l \in leases /\ l.message \in Messages
            BY <1>1, <1>3, <1>9, <1>10
      <2>2. CASE l.message \in S
            <3>1. row[l.message] # None /\ row[l.message] \in Row
                  BY <1>3, <1>4, <1>4a, <2>1, <2>2
            <3>2. row[l.message].state = "IN_FLIGHT" /\ l.until <= row[l.message].available_after
                  BY <2>1, <3>1 DEF DeliveryInv, LeaseHistory
            <3>3. row[l.message].available_after <= t.ts
                  BY <1>1, <1>2, <2>2, <3>2 DEF ClaimHolds
            <3>4. row[l.message].available_after \in Nat
                  BY <3>1 DEF Row
            <3> QED BY <1>2, <1>10, <2>1, <3>2, <3>3, <3>4
      <2>3. CASE l.message \notin S
            <3>1. l.message # m
                  BY <1>1, <1>3
            <3>2. row[l.message] = None
                  BY <1>1, <2>1, <2>3, <3>1
            <3> QED BY <1>1, <2>1, <2>3, <3>2 DEF DeliveryInv, RunningLeases
      <2> QED BY <2>2, <2>3
<1> QED BY <1>12, <1>13, <1>14, <1>15 DEF DeliveryInv

\* Before its claim a transaction has seen no row.
LEMMA UnclaimedHolds ==
  ASSUME NEW op, NEW ts \in Nat, ts <= now, NEW q, NEW m, NEW h
  PROVE  ClaimHolds(Started(op, ts, q, m, h))
BY DEF ClaimHolds, Started

LEMMA BeginDelivers ==
  ASSUME DeliveryInv, LockInv', NEW c \in Callers, NEW op, NEW q, NEW m, NEW h,
         Begin(c, op, q, m, h)
  PROVE  DeliveryInv'
<1>1. now \in Nat /\ now <= now
      BY DEF DeliveryInv, LockInv, TypeOK
<1>2. ClaimHolds(Started(op, now, q, m, h))
      BY <1>1, UnclaimedHolds
<1> QED BY <1>2, QuietStep DEF Begin

LEMMA EndDelivers ==
  ASSUME DeliveryInv, LockInv', NEW c \in Callers, Abort(c) \/ DequeueNotFound(c)
  PROVE  DeliveryInv'
<1>1. now \in Nat
      BY DEF DeliveryInv, LockInv, TypeOK
<1>2. /\ txn' = [txn EXCEPT ![c] = Idle]
      /\ UNCHANGED <<now, row, leases, fate>>
      BY DEF Abort, DequeueNotFound
<1> QED BY <1>1, <1>2, IdleClaim, QuietStep

LEMMA EnqueueDelivers ==
  ASSUME DeliveryInv, LockInv', NEW c \in Clients,
         \/ \E q \in Queues, m \in Messages : BeginEnqueue(c, q, m)
         \/ InsertMessage(c)
         \/ CommitEnqueue(c)
  PROVE  DeliveryInv'
<1> c \in Callers
    BY DEF Callers
<1> DEFINE t == txn[c]
<1>t. t \in Transaction /\ Shape(t) /\ t.ts <= now /\ ClaimHolds(t)
      BY DEF DeliveryInv, LockInv, TypeOK, TransactionShape, ClaimsHold, ClaimHolds
<1>1. CASE \E q \in Queues, m \in Messages : BeginEnqueue(c, q, m)
      <2> PICK q \in Queues, m \in Messages : Begin(c, "enqueue", q, m, None)
          BY <1>1 DEF BeginEnqueue
      <2> QED BY BeginDelivers
<1>2. CASE InsertMessage(c)
      <2>1. PICK p \in Priorities, ttl \in Lifetimes :
              Claim(c, {}, t.message, NewRow(t.queue, p, nextOrder, t.ts, ttl))
            BY <1>2 DEF InsertMessage
      <2> DEFINE u == Claimed(t, {}, t.message, NewRow(t.queue, p, nextOrder, t.ts, ttl))
      <2>2. t.op = "enqueue"
            BY <1>2 DEF InsertMessage, Running
      <2>3. ClaimHolds(u)
            BY <1>t, <2>2 DEF ClaimHolds, Claimed
      <2> QED BY <2>1, <2>3, QuietStep DEF Claim
<1>3. CASE CommitEnqueue(c)
      <2> DEFINE m == t.message
      <2>1. /\ t.op = "enqueue" /\ t.claimed = TRUE
            /\ RowAllowed(t.image)
            /\ row' = [row EXCEPT ![m] = t.image]
            /\ fate' = [fate EXCEPT ![m] = "live"]
            /\ txn' = [txn EXCEPT ![c] = Idle]
            /\ UNCHANGED <<now, leases>>
            BY <1>3 DEF CommitEnqueue, Running
      <2>2. /\ m \in Messages /\ t.image \in Row /\ t.image # None /\ Held(t) = {m}
            /\ t.image.state = "READY"
            BY <1>t, <2>1 DEF Shape, Transaction, Held
      <2>3. /\ row \in [Messages -> Row \cup {None}]
            /\ fate \in [Messages -> Fates]
            /\ \A l \in leases : l.message \in Messages
            BY DEF DeliveryInv, LockInv, TypeOK, Lease
      <2>4. fate[m] = "new"
            BY <2>1 DEF DeliveryInv, LockInv, RowLocks
      <2>5. \A l \in leases : l.message # m
            BY <2>4 DEF DeliveryInv, LeaseHistory
      <2>6. /\ row'[m] = t.image
            /\ \A x \in Messages \ {m} : row'[x] = row[x] /\ fate'[x] = fate[x]
            BY <2>1, <2>2, <2>3
      <2>7. ClaimsHold'
            BY <2>1, <2>2, <2>6, CommitKeepsClaims
      <2>8. StoredRows'
            BY <2>1, <2>2, <2>6 DEF DeliveryInv, StoredRows
      <2>9. LeaseHistory'
            <3>1. \A l \in leases : l.from < l.until /\ fate'[l.message] # "new"
                  BY <2>3, <2>5, <2>6 DEF DeliveryInv, LeaseHistory
            <3>2. \A l \in leases : row'[l.message] # None =>
                    /\ row'[l.message].state = "IN_FLIGHT"
                    /\ l.until <= row'[l.message].available_after
                  BY <2>3, <2>5, <2>6 DEF DeliveryInv, LeaseHistory
            <3>3. \A x \in Messages : row'[x] # None /\ row'[x].state = "IN_FLIGHT" =>
                    [message |-> x, receipt |-> row'[x].receipt_handle,
                     from |-> row'[x].last_delivered_at,
                     until |-> row'[x].available_after] \in leases
                  BY <2>2, <2>6 DEF DeliveryInv, LeaseHistory
            <3>4. LeasesNeverOverlap'
                  BY <2>1 DEF DeliveryInv, LeaseHistory, LeasesNeverOverlap
            <3> QED BY <2>1, <3>1, <3>2, <3>3, <3>4 DEF LeaseHistory
      <2>10. RunningLeases'
             BY <2>1, <2>3, <2>5, <2>6 DEF DeliveryInv, RunningLeases
      <2> QED BY <2>7, <2>8, <2>9, <2>10 DEF DeliveryInv
<1> QED BY <1>1, <1>2, <1>3

LEMMA DequeueDelivers ==
  ASSUME DeliveryInv, LockInv', NEW c \in Clients,
         \/ \E q \in Queues, h \in Handles : BeginDequeue(c, q, h)
         \/ ClaimDequeue(c)
         \/ CommitDequeue(c)
  PROVE  DeliveryInv'
<1> c \in Callers
    BY DEF Callers
<1> DEFINE t == txn[c]
<1>t. t \in Transaction /\ Shape(t) /\ t.ts <= now /\ ClaimHolds(t)
      BY DEF DeliveryInv, LockInv, TypeOK, TransactionShape, ClaimsHold, ClaimHolds
<1>1. CASE \E q \in Queues, h \in Handles : BeginDequeue(c, q, h)
      <2> PICK q \in Queues, h \in Handles : Begin(c, "dequeue", q, None, h)
          BY <1>1 DEF BeginDequeue
      <2> QED BY BeginDelivers
<1>2. CASE ClaimDequeue(c)
      <2> DEFINE q == t.queue
                 exhausted == {m \in Unlocked(c) : Exhausted(m, q, t.ts)}
                 deliverable == {m \in Unlocked(c) : Deliverable(m, q, t.ts)}
                 availableAfter == [m \in exhausted |-> row[m].available_after]
                 timeout == settings[q].visibility_timeout
      <2>1. t.op = "dequeue" /\ settings[q] # None
            BY <1>2 DEF ClaimDequeue, Running
      <2>2. timeout \in Timeouts
            <3>1. q \in Queues
                  BY <1>t, <2>1 DEF Shape
            <3> QED BY <2>1, <3>1 DEF DeliveryInv, LockInv, TypeOK, Settings
      <2>3. PICK dead \in Batches(exhausted, availableAfter, DeadLetterBatch) :
              \/ /\ deliverable = {}
                 /\ Claim(c, dead, None, None)
              \/ \E m \in Foremost(deliverable) :
                   Claim(c, dead, m, LeasedRow(row[m], t.receipt, t.ts, timeout))
            BY <1>2 DEF ClaimDequeue
      <2>4. \A m \in dead : row[m].state = "IN_FLIGHT" /\ row[m].available_after <= t.ts
            BY BatchSubset DEF Exhausted
      <2> HIDE DEF timeout
      <2>5. CASE Claim(c, dead, None, None)
            <3>1. ClaimHolds(Claimed(t, dead, None, None))
                  BY <1>t, <2>1, <2>4 DEF ClaimHolds, Claimed
            <3> QED BY <2>5, <3>1, QuietStep DEF Claim
      <2>6. ASSUME NEW m \in Foremost(deliverable),
                   Claim(c, dead, m, LeasedRow(row[m], t.receipt, t.ts, timeout))
            PROVE  DeliveryInv'
            <3> DEFINE image == LeasedRow(row[m], t.receipt, t.ts, timeout)
            <3>1. row[m].state = "READY" \/ row[m].available_after <= t.ts
                  BY DEF Foremost, Deliverable
            <3>2. \E s \in Timeouts : image = LeasedRow(row[m], t.receipt, t.ts, s)
                  BY <2>2
            <3> HIDE DEF image
            <3>3. ClaimHolds(Claimed(t, dead, m, image))
                  BY <1>t, <2>1, <2>4, <3>1, <3>2 DEF ClaimHolds, Claimed
            <3> QED BY <2>6, <3>3, QuietStep DEF Claim, image
      <2> QED BY <2>3, <2>5, <2>6
<1>3. CASE CommitDequeue(c)
      <2>1. CASE t.image # None
            BY <1>3, <2>1, DeliverStep
      <2>2. CASE t.image = None
            <3> DEFINE S == t.removed
            <3>1. /\ t.op = "dequeue"
                  /\ txn' = [txn EXCEPT ![c] = Idle]
                  /\ UNCHANGED <<now, leases>>
                  /\ row' = [m \in Messages |-> IF m \in S THEN None ELSE row[m]]
                  /\ fate' = [m \in Messages |-> IF m \in S THEN "dead" ELSE fate[m]]
                  BY <1>3, <2>2 DEF CommitDequeue, Running
            <3>2. S \in SUBSET Messages /\ S \subseteq Held(t)
                  BY <1>t DEF Transaction, Held
            <3>3. \A m \in S : row[m] # None /\ fate[m] = "live" /\ row[m] \in Row
                  BY <3>1, <3>2 DEF DeliveryInv, LockInv, RowLocks, FatesMatchTables, TypeOK
            <3>4. \A m \in S : row[m].state = "READY" \/ row[m].available_after <= now
                  <4>1. now \in Nat /\ t.ts \in Nat /\ \A m \in S : row[m].available_after \in Nat
                        BY <1>t, <3>3 DEF DeliveryInv, LockInv, TypeOK, Transaction, Row
                  <4> QED BY <1>t, <3>1, <4>1 DEF ClaimHolds
            <3> QED BY <3>1, <3>2, <3>3, <3>4, RemoveStep
      <2> QED BY <2>1, <2>2
<1> QED BY <1>1, <1>2, <1>3

LEMMA AcknowledgeDelivers ==
  ASSUME DeliveryInv, LockInv', NEW c \in Clients,
         \/ \E q \in Queues, m \in Messages, h \in Handles : BeginAcknowledge(c, q, m, h)
         \/ ClaimAcknowledge(c)
         \/ CommitAcknowledge(c)
  PROVE  DeliveryInv'
<1> c \in Callers
    BY DEF Callers
<1> DEFINE t == txn[c]
<1>t. t \in Transaction /\ Shape(t) /\ t.ts <= now
      BY DEF DeliveryInv, LockInv, TypeOK, TransactionShape, ClaimsHold, ClaimHolds
<1>1. CASE \E q \in Queues, m \in Messages, h \in Handles : BeginAcknowledge(c, q, m, h)
      <2> PICK q \in Queues, m \in Messages, h \in Handles : Begin(c, "acknowledge", q, m, h)
          BY <1>1 DEF BeginAcknowledge
      <2> QED BY BeginDelivers
<1>2. CASE ClaimAcknowledge(c)
      <2> DEFINE matches == Acknowledgeable(t.message, t.queue, t.receipt, t.ts)
                 removed == IF matches THEN {t.message} ELSE {}
      <2>1. t.op = "acknowledge" /\ Claim(c, removed, t.message, None)
            BY <1>2 DEF ClaimAcknowledge, Running
      <2>2. \A m \in removed : row[m].receipt_handle = t.receipt /\ row[m].available_after > t.ts
            BY DEF Acknowledgeable
      <2> HIDE DEF removed
      <2>3. ClaimHolds(Claimed(t, removed, t.message, None))
            BY <1>t, <2>1, <2>2 DEF ClaimHolds, Claimed
      <2> QED BY <2>1, <2>3, QuietStep DEF Claim
<1>3. CASE CommitAcknowledge(c)
      <2> DEFINE S == t.removed
      <2>1. /\ t.op = "acknowledge"
            /\ txn' = [txn EXCEPT ![c] = Idle]
            /\ UNCHANGED <<now, leases>>
            /\ row' = [m \in Messages |-> IF m \in S THEN None ELSE row[m]]
            /\ fate' = [m \in Messages |-> IF m \in S THEN "acknowledged" ELSE fate[m]]
            BY <1>3 DEF CommitAcknowledge, CommitDelete, Running
      <2>2. S \in SUBSET Messages /\ S \subseteq Held(t)
            BY <1>t DEF Transaction, Held
      <2>3. \A m \in S : fate[m] = "live"
            BY <2>1, <2>2 DEF DeliveryInv, LockInv, RowLocks, FatesMatchTables
      <2> QED BY <2>1, <2>2, <2>3, RemoveStep
<1> QED BY <1>1, <1>2, <1>3

LEMMA ExpireDelivers ==
  ASSUME DeliveryInv, LockInv', NEW c \in Cleaners, CleanerStep(c)
  PROVE  DeliveryInv'
<1> c \in Callers
    BY DEF Callers
<1> DEFINE t == txn[c]
<1>t. t \in Transaction /\ Shape(t) /\ t.ts <= now /\ ClaimHolds(t)
      BY DEF DeliveryInv, LockInv, TypeOK, TransactionShape, ClaimsHold, ClaimHolds
<1>1. CASE BeginExpire(c)
      BY <1>1, BeginDelivers DEF BeginExpire
<1>2. CASE ClaimExpire(c)
      <2> DEFINE expired == {m \in Unlocked(c) : Expirable(m, t.ts)}
                 expiresAt == [m \in expired |-> row[m].expires_at]
      <2>1. t.op = "expire"
            BY <1>2 DEF ClaimExpire, Running
      <2>2. PICK B \in Batches(expired, expiresAt, CleanerBatch) : Claim(c, B, None, None)
            BY <1>2 DEF ClaimExpire
      <2>3. \A m \in B : row[m].state = "READY" \/ row[m].available_after <= t.ts
            BY BatchSubset DEF Expirable
      <2>4. ClaimHolds(Claimed(t, B, None, None))
            BY <1>t, <2>1, <2>3 DEF ClaimHolds, Claimed
      <2> QED BY <2>2, <2>4, QuietStep DEF Claim
<1>3. CASE CommitExpire(c)
      <2> DEFINE S == t.removed
      <2>1. /\ t.op = "expire"
            /\ txn' = [txn EXCEPT ![c] = Idle]
            /\ UNCHANGED <<now, leases>>
            /\ row' = [m \in Messages |-> IF m \in S THEN None ELSE row[m]]
            /\ fate' = [m \in Messages |-> IF m \in S THEN "expired" ELSE fate[m]]
            BY <1>3 DEF CommitExpire, CommitDelete, Running
      <2>2. S \in SUBSET Messages /\ S \subseteq Held(t)
            BY <1>t DEF Transaction, Held
      <2>3. \A m \in S : row[m] # None /\ fate[m] = "live" /\ row[m] \in Row
            BY <2>1, <2>2 DEF DeliveryInv, LockInv, RowLocks, FatesMatchTables, TypeOK
      <2>4. \A m \in S : row[m].state = "READY" \/ row[m].available_after <= now
            <3>1. now \in Nat /\ t.ts \in Nat /\ \A m \in S : row[m].available_after \in Nat
                  BY <1>t, <2>3 DEF DeliveryInv, LockInv, TypeOK, Transaction, Row
            <3> QED BY <1>t, <2>1, <3>1 DEF ClaimHolds
      <2> QED BY <2>1, <2>2, <2>3, <2>4, RemoveStep
<1> QED BY <1>1, <1>2, <1>3 DEF CleanerStep

LEMMA TableDelivers ==
  ASSUME DeliveryInv, LockInv',
         \/ \E q \in Queues : CreateQueue(q) \/ UpdateQueue(q)
         \/ PurgeDeadLetters
         \/ Tick
         \/ UNCHANGED vars
  PROVE  DeliveryInv'
<1>1. CASE (\E q \in Queues : CreateQueue(q) \/ UpdateQueue(q)) \/ UNCHANGED vars
      <2>1. UNCHANGED <<now, row, txn, leases, fate>>
            BY <1>1 DEF CreateQueue, UpdateQueue, vars
      <2> QED BY <2>1 DEF DeliveryInv, StoredRows, ClaimsHold, ClaimHolds, LeaseHistory,
                          LeasesNeverOverlap, RunningLeases
<1>2. CASE PurgeDeadLetters
      <2>1. UNCHANGED <<now, row, txn, leases>>
            BY <1>2 DEF PurgeDeadLetters
      <2>2. /\ \A m \in Messages : fate[m] # "new" => fate'[m] # "new"
            /\ \A m \in Messages : fate[m] = "acknowledged" => fate'[m] = "acknowledged"
            <3> DEFINE old == {m \in Messages : dlq[m] # None /\ dlq[m].dead_lettered_at <= now - Retention}
                       deadLetteredAt == [m \in old |-> dlq[m].dead_lettered_at]
            <3>1. PICK B \in Batches(old, deadLetteredAt, PurgeBatch) :
                    fate' = [m \in Messages |-> IF m \in B THEN "purged" ELSE fate[m]]
                  BY <1>2 DEF PurgeDeadLetters
            <3>2. B \in SUBSET old
                  BY BatchSubset
            <3> QED BY <3>1, <3>2 DEF DeliveryInv, LockInv, FatesMatchTables
      <2>3. \A l \in leases : l.message \in Messages
            BY DEF DeliveryInv, LockInv, TypeOK, Lease
      <2>4. LeaseHistory'
            BY <2>1, <2>2, <2>3 DEF DeliveryInv, LeaseHistory, LeasesNeverOverlap
      <2>5. RunningLeases'
            BY <2>1, <2>2, <2>3 DEF DeliveryInv, RunningLeases
      <2> QED BY <2>1, <2>4, <2>5 DEF DeliveryInv, StoredRows, ClaimsHold, ClaimHolds
<1>3. CASE Tick
      <2>1. now' = now + 1 /\ UNCHANGED <<row, txn, leases, fate>>
            BY <1>3 DEF Tick
      <2>2. /\ now \in Nat
            /\ \A c \in Callers : txn[c].ts \in Nat
            /\ \A l \in leases : l.until \in Nat
            /\ \A m \in Messages : row[m] # None => row[m] \in Row
            BY DEF DeliveryInv, LockInv, TypeOK, Transaction, Lease
      <2>3. StoredRows'
            <3>1. \A m \in Messages : row[m] # None /\ row[m].state = "IN_FLIGHT" =>
                    row[m].last_delivered_at \in Nat
                  BY <2>2 DEF DeliveryInv, StoredRows, RowAllowed, Row
            <3> QED BY <2>1, <2>2, <3>1 DEF DeliveryInv, StoredRows
      <2>4. ClaimsHold'
            <3> SUFFICES ASSUME NEW c \in Callers PROVE ClaimHolds(txn[c])'
                BY DEF ClaimsHold
            <3>1. ClaimHolds(txn[c])
                  BY DEF DeliveryInv, ClaimsHold
            <3> QED BY <2>1, <2>2, <3>1 DEF ClaimHolds
      <2>5. LeaseHistory'
            BY <2>1 DEF DeliveryInv, LeaseHistory, LeasesNeverOverlap
      <2>6. RunningLeases'
            BY <2>1, <2>2 DEF DeliveryInv, RunningLeases
      <2> QED BY <2>3, <2>4, <2>5, <2>6 DEF DeliveryInv
<1> QED BY <1>1, <1>2, <1>3

LEMMA DeliveryInvInit == Init => DeliveryInv
<1> SUFFICES ASSUME Init PROVE DeliveryInv
    OBVIOUS
<1>1. \A c \in Callers : txn[c] = Idle
      BY DEF Init
<1>2. ClaimsHold
      BY <1>1, IdleClaim DEF Init, ClaimsHold
<1>3. StoredRows /\ LeaseHistory /\ RunningLeases
      BY DEF Init, StoredRows, LeaseHistory, LeasesNeverOverlap, RunningLeases
<1> QED BY <1>2, <1>3, LockInvInit DEF DeliveryInv

LEMMA DeliveryInvStep == DeliveryInv /\ [Next]_vars => DeliveryInv'
<1> SUFFICES ASSUME DeliveryInv, [Next]_vars PROVE DeliveryInv'
    OBVIOUS
<1>1. LockInv'
      BY LockInvStep DEF DeliveryInv
<1>2. ASSUME NEW c \in Clients, ClientStep(c) PROVE DeliveryInv'
      <2> c \in Callers
          BY DEF Callers
      <2> QED BY <1>1, <1>2, EnqueueDelivers, DequeueDelivers, AcknowledgeDelivers, EndDelivers
              DEF ClientStep
<1> QED BY <1>1, <1>2, ExpireDelivers, EndDelivers, TableDelivers DEF Next

\* What a statement's snapshot told it of the rows it locked is still so when it
\* commits, every stored row passed the tables' CHECKs, and a row's handle and
\* availability are those of its message's latest lease: the strengthening from
\* which the properties of leases below follow.
THEOREM DeliveryInvariant == Spec => []DeliveryInv
BY DeliveryInvInit, DeliveryInvStep, PTL DEF Spec

\* Two consumers never hold a message at the same time, however their
\* dequeues interleave and whatever their timestamps.
THEOREM LeaseExclusivity == Spec => []LeasesNeverOverlap
<1>1. DeliveryInv => LeasesNeverOverlap
      BY DEF DeliveryInv, LeaseHistory
<1> QED BY <1>1, DeliveryInvariant, PTL

\* A lease that has not elapsed is still the row's, or was acknowledged: no
\* cleaner and no other dequeue has taken the message.
THEOREM LeaseHonoured == Spec => []LiveLeaseHeld
<1>1. ASSUME DeliveryInv PROVE LiveLeaseHeld
      <2> SUFFICES ASSUME NEW l \in leases, l.until > now, fate[l.message] # "acknowledged"
                   PROVE  /\ row[l.message] # None
                          /\ row[l.message].receipt_handle = l.receipt
                          /\ row[l.message].available_after = l.until
          BY DEF LiveLeaseHeld
      <2> DEFINE r == row[l.message]
                 last == [message |-> l.message, receipt |-> r.receipt_handle,
                          from |-> r.last_delivered_at, until |-> r.available_after]
      <2>1. l \in Lease /\ now \in Nat
            BY <1>1 DEF DeliveryInv, LockInv, TypeOK
      <2>2. r # None /\ l.message \in Messages
            BY <1>1, <2>1 DEF DeliveryInv, RunningLeases, Lease
      <2>3. r.state = "IN_FLIGHT" /\ l.until <= r.available_after
            BY <1>1, <2>2 DEF DeliveryInv, LeaseHistory
      <2>4. last \in leases /\ last \in Lease
            BY <1>1, <2>2, <2>3 DEF DeliveryInv, LeaseHistory, LockInv, TypeOK
      <2>5. r.last_delivered_at <= now
            BY <1>1, <2>2, <2>3 DEF DeliveryInv, StoredRows
      <2>6. l = last
            \* Otherwise l would begin after last has ended, or the reverse:
            \* the first contradicts l.until <= last.until, the second that
            \* last has begun and l has not ended.
            <3>1. l.from < l.until /\ last.from < last.until
                  BY <1>1, <2>4 DEF DeliveryInv, LeaseHistory
            <3>2. /\ l.from \in Nat /\ l.until \in Nat
                  /\ last.from \in Nat /\ last.until \in Nat
                  BY <2>1, <2>4 DEF Lease
            <3>3. last.from <= now /\ l.until <= last.until
                  BY <2>3, <2>5
            <3>4. ~(l.until <= last.from) /\ ~(last.until <= l.from)
                  BY <2>1, <3>1, <3>2, <3>3
            <3> HIDE DEF last
            <3>5. last.message = l.message
                  BY DEF last
            <3> QED BY <1>1, <2>4, <3>4, <3>5 DEF DeliveryInv, LeaseHistory, LeasesNeverOverlap
      <2> QED BY <2>2, <2>6
<1> QED BY <1>1, DeliveryInvariant, PTL

\* The DLQ's CHECK accepts every message a dequeue claims for it: the lease
\* had elapsed at the dequeue's own timestamp, and the row cannot change
\* while it is held.
THEOREM DeadLettersAlwaysAccepted == Spec => []DeadLettersAccepted
<1>1. ASSUME DeliveryInv PROVE DeadLettersAccepted
      <2> SUFFICES ASSUME NEW c \in Callers, Running(c, "dequeue", TRUE),
                          NEW m \in txn[c].removed
                   PROVE  DeadRowAllowed(DeadLetter(row[m], txn[c].ts))
          BY DEF DeadLettersAccepted
      <2> DEFINE t == txn[c]
                 r == row[m]
      <2>1. t.op = "dequeue" /\ t \in Transaction /\ ClaimHolds(t)
            BY <1>1 DEF Running, DeliveryInv, LockInv, TypeOK, ClaimsHold
      <2>2. m \in Messages /\ m \in Held(t)
            BY <2>1 DEF Transaction, Held
      <2>3. r # None /\ r \in Row
            BY <1>1, <2>1, <2>2 DEF DeliveryInv, LockInv, RowLocks, TypeOK
      <2>4. r.state = "IN_FLIGHT" /\ r.available_after <= t.ts /\ t.ts \in Nat
            BY <2>1 DEF ClaimHolds, Transaction
      <2>5. RowAllowed(r)
            BY <1>1, <2>2, <2>3 DEF DeliveryInv, StoredRows
      <2>6. r.available_after \in Nat /\ r.last_delivered_at \in Nat \cup {None}
            BY <2>3 DEF Row
      <2> QED BY <2>4, <2>5, <2>6 DEF RowAllowed, DeadRowAllowed, DeadLetter
<1> QED BY <1>1, DeliveryInvariant, PTL
=============================================================================
