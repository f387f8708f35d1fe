--------------------- MODULE MessageStoreRefinementProofs ---------------------
(***************************************************************************)
(* MessageStore implements MessageLifecycle, for every value of the        *)
(* constants.  DeliveryInv says what a transaction's claim saw of leases;   *)
(* ClaimInv adds the queue, the lifetime, the attempt limit and the        *)
(* freshness of receipt handles.                                           *)
(***************************************************************************)
EXTENDS MessageStoreRefinement, MessageStoreProofs

-----------------------------------------------------------------------------
(* ClaimInv.                                                               *)

\* Before its claim a transaction has seen no row.
LEMMA UnclaimedSaw ==
  ASSUME NEW op, NEW ts, NEW q, NEW m, NEW h
  PROVE  ClaimSaw(Started(op, ts, q, m, h))
BY DEF ClaimSaw, Started, Held

LEMMA QuietSaw ==
  ASSUME LockInv, ClaimsSaw, NEW c \in Callers, NEW t,
         txn' = [txn EXCEPT ![c] = t],
         UNCHANGED row,
         ClaimSaw(t)
  PROVE  ClaimsSaw'
<1>1. /\ txn'[c] = t
      /\ \A d \in Callers \ {c} : txn'[d] = txn[d]
      BY DEF LockInv, TypeOK
<1> SUFFICES ASSUME NEW d \in Callers PROVE ClaimSaw(txn[d])'
    BY DEF ClaimsSaw
<1>2. ClaimSaw(txn'[d])
      BY <1>1 DEF ClaimsSaw
<1> QED BY <1>2 DEF ClaimSaw

\* A commit changes only rows that the other transactions do not hold.
LEMMA CommitKeepsSaw ==
  ASSUME LockInv, ClaimsSaw, NEW c \in Callers,
         txn' = [txn EXCEPT ![c] = Idle],
         \A m \in Messages \ Held(txn[c]) : row'[m] = row[m]
  PROVE  ClaimsSaw'
<1> SUFFICES ASSUME NEW d \in Callers PROVE ClaimSaw(txn[d])'
    BY DEF ClaimsSaw
<1>1. txn \in [Callers -> Transaction]
      BY DEF LockInv, TypeOK
<1>2. CASE d = c
      <2>1. txn'[d] = Idle
            BY <1>1, <1>2
      <2> QED BY <2>1 DEF ClaimSaw, Idle, Started, Held
<1>3. CASE d # c
      <2> DEFINE t == txn[d]
      <2>1. txn'[d] = t /\ t \in Transaction
            BY <1>1, <1>3
      <2>2. ClaimSaw(t) /\ Shape(t)
            BY DEF LockInv, TransactionShape, ClaimsSaw
      <2>3. Held(t) \cap Held(txn[c]) = {}
            BY <1>3 DEF LockInv, RowLocks
      <2>4. t.op = "dequeue" => \A m \in Held(t) : row'[m] = row[m]
            BY <2>1, <2>2, <2>3 DEF Held, Transaction, Shape
      <2>5. \A m \in t.removed : row'[m] = row[m] /\ m \in Held(t)
            BY <2>1, <2>3 DEF Held, Transaction
      <2>6. t.image # None => t.message \in Held(t)
            BY DEF Held
      <2> HIDE DEF t
      <2>7. t.op = "dequeue" /\ t.claimed =>
              /\ \A m \in Held(t) : row'[m].queue_id = t.queue /\ row'[m].expires_at > t.ts
              /\ \E limit \in AttemptLimits :
                   /\ \A m \in t.removed : row'[m].delivery_attempts >= limit
                   /\ t.image # None => row'[t.message].delivery_attempts < limit
            BY <2>2, <2>4, <2>5, <2>6 DEF ClaimSaw
      <2>8. /\ t.op = "expire" => \A m \in t.removed : row'[m].expires_at <= t.ts
            /\ t.op = "acknowledge" => \A m \in t.removed : row'[m].queue_id = t.queue
            BY <2>2, <2>5 DEF ClaimSaw
      <2> QED BY <2>1, <2>2, <2>7, <2>8 DEF ClaimSaw
<1> QED BY <1>2, <1>3

\* Steps that hand out no handle.
LEMMA QuietReceipts ==
  ASSUME LockInv, FreshReceipts, NEW c \in Callers, NEW t,
         txn' = [txn EXCEPT ![c] = t],
         t.op = "dequeue" => txn[c].op = "dequeue" /\ t.receipt = txn[c].receipt,
         UNCHANGED leases
  PROVE  FreshReceipts'
<1>1. /\ txn'[c] = t
      /\ \A d \in Callers \ {c} : txn'[d] = txn[d]
      BY DEF LockInv, TypeOK
<1> QED BY <1>1 DEF FreshReceipts

LEMMA IdleIsNoDequeue == Idle.op # "dequeue"
BY DEF Idle, Started

LEMMA EndKeepsClaimInv ==
  ASSUME LockInv, ClaimInv, NEW c \in Callers,
         txn' = [txn EXCEPT ![c] = Idle],
         \A m \in Messages \ Held(txn[c]) : row'[m] = row[m],
         UNCHANGED leases
  PROVE  ClaimInv'
BY IdleIsNoDequeue, CommitKeepsSaw, QuietReceipts DEF ClaimInv

LEMMA BeginKeepsClaimInv ==
  ASSUME LockInv, ClaimInv, NEW c \in Callers, NEW op, op # "dequeue", NEW q, NEW m, NEW h,
         Begin(c, op, q, m, h)
  PROVE  ClaimInv'
<1>1. /\ txn' = [txn EXCEPT ![c] = Started(op, now, q, m, h)]
      /\ UNCHANGED <<row, leases>>
      BY DEF Begin
<1>2. Started(op, now, q, m, h).op # "dequeue"
      BY DEF Started
<1> QED BY <1>1, <1>2, UnclaimedSaw, QuietSaw, QuietReceipts DEF ClaimInv

LEMMA ClaimKeepsClaimInv ==
  ASSUME LockInv, ClaimInv, NEW c \in Callers, NEW removed, NEW m, NEW image,
         Claim(c, removed, m, image),
         ClaimSaw(Claimed(txn[c], removed, m, image))
  PROVE  ClaimInv'
<1>1. /\ txn' = [txn EXCEPT ![c] = Claimed(txn[c], removed, m, image)]
      /\ UNCHANGED <<row, leases>>
      BY DEF Claim
<1>2. LET t == Claimed(txn[c], removed, m, image)
      IN  t.op = "dequeue" => txn[c].op = "dequeue" /\ t.receipt = txn[c].receipt
      BY DEF Claimed
<1> QED BY <1>1, <1>2, QuietSaw, QuietReceipts DEF ClaimInv

LEMMA EnqueueKeepsClaimInv ==
  ASSUME LockInv, ClaimInv, NEW c \in Callers,
         \/ \E q \in Queues, m \in Messages : BeginEnqueue(c, q, m)
         \/ InsertMessage(c)
         \/ CommitEnqueue(c)
  PROVE  ClaimInv'
<1>t. txn[c] \in Transaction /\ Shape(txn[c])
      BY DEF LockInv, TypeOK, TransactionShape
<1>1. CASE \E q \in Queues, m \in Messages : BeginEnqueue(c, q, m)
      BY <1>1, BeginKeepsClaimInv DEF BeginEnqueue
<1>2. CASE InsertMessage(c)
      <2> DEFINE t == txn[c]
      <2>1. t.op = "enqueue"
            BY <1>2 DEF InsertMessage, Running
      <2>2. PICK p \in Priorities, ttl \in Lifetimes :
              Claim(c, {}, t.message, NewRow(t.queue, p, nextOrder, t.ts, ttl))
            BY <1>2 DEF InsertMessage
      <2>3. ClaimSaw(Claimed(t, {}, t.message, NewRow(t.queue, p, nextOrder, t.ts, ttl)))
            BY <2>1 DEF ClaimSaw, Claimed, NewRow
      <2> QED BY <2>2, <2>3, ClaimKeepsClaimInv
<1>3. CASE CommitEnqueue(c)
      <2>1. /\ txn' = [txn EXCEPT ![c] = Idle]
            /\ row' = [row EXCEPT ![txn[c].message] = txn[c].image]
            /\ leases' = leases
            /\ txn[c].op = "enqueue" /\ txn[c].claimed
            BY <1>3 DEF CommitEnqueue, Running
      <2>2. txn[c].message \in Held(txn[c])
            BY <1>t, <2>1 DEF Shape, Held
      <2>3. \A m \in Messages \ Held(txn[c]) : row'[m] = row[m]
            BY <2>1, <2>2 DEF LockInv, TypeOK
      <2> QED BY <2>1, <2>3, EndKeepsClaimInv
<1> QED BY <1>1, <1>2, <1>3

LEMMA DequeueKeepsClaimInv ==
  ASSUME LockInv, ClaimInv, NEW c \in Callers,
         \/ \E q \in Queues, h \in Handles : BeginDequeue(c, q, h)
         \/ ClaimDequeue(c)
         \/ CommitDequeue(c)
  PROVE  ClaimInv'
<1> DEFINE t == txn[c]
<1>t. /\ t \in Transaction /\ Shape(t)
      /\ txn \in [Callers -> Transaction]
      BY DEF LockInv, TypeOK, TransactionShape
<1>1. CASE \E q \in Queues, h \in Handles : BeginDequeue(c, q, h)
      <2>1. PICK q \in Queues, h \in Handles : BeginDequeue(c, q, h)
            BY <1>1
      <2> DEFINE u == Started("dequeue", now, q, None, h)
      <2>2. /\ txn' = [txn EXCEPT ![c] = u]
            /\ UNCHANGED <<row, leases>>
            /\ \A l \in leases : l.receipt # h
            /\ \A d \in Callers : txn[d].receipt # h
            BY <2>1 DEF BeginDequeue, Begin
      <2>3. ClaimSaw(u)
            BY UnclaimedSaw
      <2>4. u.receipt = h
            BY DEF Started
      <2> HIDE DEF u
      <2>5. ClaimsSaw'
            BY <2>2, <2>3, QuietSaw DEF ClaimInv
      <2>6. /\ txn'[c] = u
            /\ \A d \in Callers \ {c} : txn'[d] = txn[d]
            BY <1>t, <2>2
      <2>7. FreshReceipts'
            BY <2>2, <2>4, <2>6 DEF ClaimInv, FreshReceipts
      <2> QED BY <2>5, <2>7 DEF ClaimInv
<1>2. CASE ClaimDequeue(c)
      <2> DEFINE q == t.queue
                 exhausted == {m \in Unlocked(c) : Exhausted(m, q, t.ts)}
                 deliverable == {m \in Unlocked(c) : Deliverable(m, q, t.ts)}
                 availableAfter == [m \in exhausted |-> row[m].available_after]
                 timeout == settings[q].visibility_timeout
                 limit == settings[q].max_delivery_attempts
      <2>1. t.op = "dequeue" /\ settings[q] # None
            BY <1>2 DEF ClaimDequeue, Running
      <2>2. limit \in AttemptLimits
            <3>1. q \in Queues
                  BY <1>t, <2>1 DEF Shape
            <3> QED BY <2>1, <3>1 DEF LockInv, TypeOK, Settings
      <2>3. PICK dead \in Batches(exhausted, availableAfter, DeadLetterBatch) :
              \/ /\ deliverable = {}
                 /\ Claim(c, dead, None, None)
              \/ \E m \in Foremost(deliverable) :
                   Claim(c, dead, m, LeasedRow(row[m], t.receipt, t.ts, timeout))
            BY <1>2 DEF ClaimDequeue
      <2>4. \A m \in dead : /\ row[m].queue_id = q /\ row[m].expires_at > t.ts
                            /\ row[m].delivery_attempts >= limit
            BY BatchSubset DEF Exhausted
      <2>5. CASE Claim(c, dead, None, None)
            <3>1. ClaimSaw(Claimed(t, dead, None, None))
                  BY <2>1, <2>2, <2>4 DEF ClaimSaw, Claimed, Held
            <3> QED BY <2>5, <3>1, ClaimKeepsClaimInv
      <2>6. ASSUME NEW m \in Foremost(deliverable),
                   Claim(c, dead, m, LeasedRow(row[m], t.receipt, t.ts, timeout))
            PROVE  ClaimInv'
            <3> DEFINE image == LeasedRow(row[m], t.receipt, t.ts, timeout)
            <3>1. /\ row[m].queue_id = q /\ row[m].expires_at > t.ts
                  /\ row[m].delivery_attempts < limit
                  BY DEF Foremost, Deliverable
            <3> HIDE DEF image, limit
            <3>2. ClaimSaw(Claimed(t, dead, m, image))
                  BY <2>1, <2>2, <2>4, <3>1 DEF ClaimSaw, Claimed, Held
            <3> QED BY <2>6, <3>2, ClaimKeepsClaimInv DEF image
      <2> QED BY <2>3, <2>5, <2>6
<1>3. CASE CommitDequeue(c)
      <2>1. /\ t.op = "dequeue" /\ txn' = [txn EXCEPT ![c] = Idle]
            /\ \/ /\ t.image = None
                  /\ row' = [m \in Messages |-> IF m \in t.removed THEN None ELSE row[m]]
                  /\ leases' = leases
               \/ /\ t.image # None
                  /\ row' = [m \in Messages |-> IF m \in t.removed THEN None
                                                ELSE IF m = t.message THEN t.image ELSE row[m]]
                  /\ leases' = leases \cup {[message |-> t.message, receipt |-> t.receipt,
                                             from |-> t.image.last_delivered_at,
                                             until |-> t.image.available_after]}
            BY <1>3 DEF CommitDequeue, Running
      <2>2. \A m \in Messages \ Held(t) : row'[m] = row[m]
            BY <2>1 DEF Held
      <2>3. ClaimsSaw'
            BY <2>1, <2>2, CommitKeepsSaw DEF ClaimInv
      <2>4. FreshReceipts'
            <3> SUFFICES ASSUME NEW d \in Callers, txn'[d].op = "dequeue"
                         PROVE  /\ \A l \in leases' : l.receipt # txn'[d].receipt
                                /\ \A e \in Callers \ {d} :
                                     txn'[e].op = "dequeue" => txn'[e].receipt # txn'[d].receipt
                BY DEF FreshReceipts
            <3>1. d # c /\ \A e \in Callers \ {c} : txn'[e] = txn[e]
                  BY <1>t, <2>1, IdleIsNoDequeue
            <3>2. \A l \in leases : l.receipt # txn[d].receipt
                  BY <3>1 DEF ClaimInv, FreshReceipts
            <3>3. txn[d].receipt # t.receipt
                  BY <2>1, <3>1 DEF ClaimInv, FreshReceipts
            <3>4. \A l \in leases' : l.receipt # txn'[d].receipt
                  BY <2>1, <3>1, <3>2, <3>3
            <3>5. \A e \in Callers \ {d} :
                    txn'[e].op = "dequeue" => txn'[e].receipt # txn'[d].receipt
                  <4>1. txn'[c].op # "dequeue"
                        BY <1>t, <2>1, IdleIsNoDequeue
                  <4> QED BY <3>1, <4>1 DEF ClaimInv, FreshReceipts
            <3> QED BY <3>4, <3>5
      <2> QED BY <2>3, <2>4 DEF ClaimInv
<1> QED BY <1>1, <1>2, <1>3

LEMMA DeleteKeepsClaimInv ==
  ASSUME LockInv, ClaimInv, NEW c \in Callers, NEW op, NEW end, CommitDelete(c, op, end)
  PROVE  ClaimInv'
<1>1. /\ txn' = [txn EXCEPT ![c] = Idle]
      /\ \A m \in Messages \ Held(txn[c]) : row'[m] = row[m]
      /\ UNCHANGED leases
      BY DEF CommitDelete, Held
<1> QED BY <1>1, EndKeepsClaimInv

LEMMA AcknowledgeKeepsClaimInv ==
  ASSUME LockInv, ClaimInv, NEW c \in Callers,
         \/ \E q \in Queues, m \in Messages, h \in Handles : BeginAcknowledge(c, q, m, h)
         \/ ClaimAcknowledge(c)
         \/ CommitAcknowledge(c)
  PROVE  ClaimInv'
<1>1. CASE \E q \in Queues, m \in Messages, h \in Handles : BeginAcknowledge(c, q, m, h)
      BY <1>1, BeginKeepsClaimInv DEF BeginAcknowledge
<1>2. CASE ClaimAcknowledge(c)
      <2> DEFINE t == txn[c]
                 removed == IF Acknowledgeable(t.message, t.queue, t.receipt, t.ts)
                            THEN {t.message} ELSE {}
      <2>1. t.op = "acknowledge" /\ Claim(c, removed, t.message, None)
            BY <1>2 DEF ClaimAcknowledge, Running
      <2>2. \A m \in removed : row[m].queue_id = t.queue
            BY DEF Acknowledgeable
      <2> HIDE DEF removed
      <2>3. ClaimSaw(Claimed(t, removed, t.message, None))
            BY <2>1, <2>2 DEF ClaimSaw, Claimed
      <2> QED BY <2>1, <2>3, ClaimKeepsClaimInv
<1>3. CASE CommitAcknowledge(c)
      BY <1>3, DeleteKeepsClaimInv DEF CommitAcknowledge
<1> QED BY <1>1, <1>2, <1>3

LEMMA ExpireKeepsClaimInv ==
  ASSUME LockInv, ClaimInv, NEW c \in Callers, CleanerStep(c)
  PROVE  ClaimInv'
<1>1. CASE BeginExpire(c)
      BY <1>1, BeginKeepsClaimInv DEF BeginExpire
<1>2. CASE ClaimExpire(c)
      <2> DEFINE t == txn[c]
                 expired == {m \in Unlocked(c) : Expirable(m, t.ts)}
                 expiresAt == [m \in expired |-> row[m].expires_at]
      <2>1. t.op = "expire"
            BY <1>2 DEF ClaimExpire, Running
      <2>2. PICK B \in Batches(expired, expiresAt, CleanerBatch) : Claim(c, B, None, None)
            BY <1>2 DEF ClaimExpire
      <2>3. \A m \in B : row[m].expires_at <= t.ts
            BY BatchSubset DEF Expirable
      <2>4. ClaimSaw(Claimed(t, B, None, None))
            BY <2>1, <2>3 DEF ClaimSaw, Claimed
      <2> QED BY <2>2, <2>4, ClaimKeepsClaimInv
<1>3. CASE CommitExpire(c)
      BY <1>3, DeleteKeepsClaimInv DEF CommitExpire
<1> QED BY <1>1, <1>2, <1>3 DEF CleanerStep

LEMMA ClaimInvStep == LockInv /\ ClaimInv /\ [Next]_vars => ClaimInv'
<1> SUFFICES ASSUME LockInv, ClaimInv, [Next]_vars PROVE ClaimInv'
    OBVIOUS
<1>1. ASSUME NEW c \in Callers, Abort(c) \/ DequeueNotFound(c) PROVE ClaimInv'
      <2>1. txn' = [txn EXCEPT ![c] = Idle] /\ UNCHANGED <<row, leases>>
            BY <1>1 DEF Abort, DequeueNotFound
      <2> QED BY <2>1, EndKeepsClaimInv
<1>2. ASSUME NEW c \in Clients, ClientStep(c) PROVE ClaimInv'
      <2> c \in Callers
          BY DEF Callers
      <2> QED BY <1>1, <1>2, EnqueueKeepsClaimInv, DequeueKeepsClaimInv, AcknowledgeKeepsClaimInv
              DEF ClientStep
<1>3. ASSUME NEW c \in Cleaners, CleanerStep(c) PROVE ClaimInv'
      BY <1>3, ExpireKeepsClaimInv DEF Callers
<1>4. ASSUME UNCHANGED <<row, txn, leases>> PROVE ClaimInv'
      BY <1>4 DEF ClaimInv, ClaimsSaw, ClaimSaw, FreshReceipts
<1>5. ASSUME \/ \E q \in Queues : CreateQueue(q) \/ UpdateQueue(q)
             \/ PurgeDeadLetters \/ Tick \/ UNCHANGED vars
      PROVE  ClaimInv'
      BY <1>4, <1>5 DEF CreateQueue, UpdateQueue, PurgeDeadLetters, Tick, vars
<1> QED BY <1>1, <1>2, <1>3, <1>5 DEF Next

LEMMA ClaimInvInit == Init => ClaimInv
<1> SUFFICES ASSUME Init PROVE ClaimInv
    OBVIOUS
<1>1. \A c \in Callers : txn[c] = Idle
      BY DEF Init
<1>2. ClaimsSaw
      BY <1>1, UnclaimedSaw DEF ClaimsSaw, Idle
<1> QED BY <1>1, <1>2, IdleIsNoDequeue DEF ClaimInv, FreshReceipts

\* What a dequeue, an acknowledgement or a cleaner saw of the rows it locked
\* is still so when it commits, and no handle is given out twice.
THEOREM ClaimsRemembered == Spec => []ClaimInv
<1>1. DeliveryInv => LockInv
      BY DEF DeliveryInv
<1> QED BY <1>1, ClaimInvInit, ClaimInvStep, DeliveryInvariant, PTL DEF Spec

-----------------------------------------------------------------------------
(* The refinement mapping, one lemma per part of the abstract state that a *)
(* step changes.                                                           *)

Unseen == UNCHANGED <<now, fate, HomeMap, ExpiryMap, LeaseMap, TriesMap, HandlesSpent>>

LEMMA TablesUnseen ==
  ASSUME UNCHANGED <<now, row, dlq, leases, fate>>
  PROVE  Unseen
BY DEF Unseen, HomeMap, ExpiryMap, LeaseMap, TriesMap, HandlesSpent, Stored

LEMMA IdleCall == CallOf(Idle) = Lifecycle!NoCall
BY DEF CallOf, Idle, Started, Lifecycle!NoCall

\* A transaction that ends, on whatever tables, takes its call with it.
LEMMA EndAnswers ==
  ASSUME LockInv, NEW c \in Callers, txn' = [txn EXCEPT ![c] = Idle], UNCHANGED now
  PROVE  /\ CallMap' = [CallMap EXCEPT ![c] = Lifecycle!NoCall]
         /\ Lifecycle!Answer(c, txn[c].op)
<1>1. CallMap' = [CallMap EXCEPT ![c] = CallOf(Idle)]
      BY DEF CallMap, LockInv, TypeOK
<1>2. CallMap[c].op = txn[c].op
      BY DEF CallMap, CallOf
<1> QED BY <1>1, <1>2, IdleCall DEF Lifecycle!Answer

LEMMA EndWithoutEffect ==
  ASSUME LockInv, NEW c \in Callers, txn' = [txn EXCEPT ![c] = Idle],
         UNCHANGED <<now, row, dlq, leases, fate>>
  PROVE  Lifecycle!LifecycleNext
<1>1. Lifecycle!NoEffect(c)
      BY EndAnswers, TablesUnseen DEF Unseen, Lifecycle!NoEffect
<1> QED BY <1>1 DEF Lifecycle!LifecycleNext, Lifecycle!Answering

\* A claim and an insert are not seen from outside.
LEMMA ClaimUnseen ==
  ASSUME LockInv, NEW c \in Callers, NEW removed, NEW m, NEW image,
         Claim(c, removed, m, image),
         UNCHANGED dlq,
         txn[c].op \in {"enqueue", "acknowledge"} => m = txn[c].message
  PROVE  UNCHANGED Lifecycle!lifecycleVars
<1>1. CallOf(Claimed(txn[c], removed, m, image)) = CallOf(txn[c])
      BY DEF CallOf, Claimed
<1>2. CallMap' = CallMap
      BY <1>1 DEF CallMap, Claim, LockInv, TypeOK
<1> QED BY <1>2, TablesUnseen DEF Claim, Unseen, Lifecycle!lifecycleVars

LEMMA BeginAsks ==
  ASSUME LockInv, NEW c \in Callers, NEW op, NEW q, NEW m, NEW h,
         Begin(c, op, q, m, h),
         op \notin {"enqueue", "acknowledge"} => m = None
  PROVE  CallMap[c] = Lifecycle!NoCall /\ Lifecycle!Ask(c, op, q, m, h)
<1>1. CallMap[c] = Lifecycle!NoCall
      BY IdleCall DEF Begin, CallMap
<1>2. CallOf(Started(op, now, q, m, h)) =
        [op |-> op, ts |-> now, queue |-> q, message |-> m, receipt |-> h]
      BY DEF CallOf, Started
<1>3. CallMap' = [CallMap EXCEPT ![c] = CallOf(Started(op, now, q, m, h))]
      BY DEF Begin, CallMap, LockInv, TypeOK
<1>4. UNCHANGED <<now, row, dlq, leases, fate>>
      BY DEF Begin
<1> QED BY <1>1, <1>2, <1>3, <1>4, TablesUnseen DEF Unseen, Lifecycle!Ask

\* Rows deleted together leave the queue together.
LEMMA RowsLeave ==
  ASSUME LockInv, NEW S \in SUBSET Messages, NEW end,
         \A m \in S : row[m] # None,
         row' = [m \in Messages |-> IF m \in S THEN None ELSE row[m]],
         fate' = [m \in Messages |-> IF m \in S THEN end ELSE fate[m]]
  PROVE  /\ Lifecycle!Leave(S, end)
         /\ LeaseMap' = Lifecycle!Without(S, LeaseMap, None)
         /\ UNCHANGED dlq => TriesMap' = Lifecycle!Without(S, TriesMap, 0)
<1>1. \A m \in Messages : Stored(m)' <=> m \notin S /\ Stored(m)
      BY DEF Stored
<1>2. fate' = Lifecycle!Without(S, fate, end)
      BY DEF Lifecycle!Without
<1>3. HomeMap' = Lifecycle!Without(S, HomeMap, None)
      BY <1>1 DEF HomeMap, Lifecycle!Without
<1>4. ExpiryMap' = Lifecycle!Without(S, ExpiryMap, 0)
      BY <1>1 DEF ExpiryMap, Lifecycle!Without
<1>5. LeaseMap' = Lifecycle!Without(S, LeaseMap, None)
      BY <1>1 DEF LeaseMap, Lifecycle!Without
<1>6. ASSUME UNCHANGED dlq PROVE TriesMap' = Lifecycle!Without(S, TriesMap, 0)
      <2>1. \A m \in S : dlq[m] = None
            BY DEF LockInv, FatesMatchTables
      <2> QED BY <1>1, <1>6, <2>1 DEF TriesMap, Lifecycle!Without
<1> QED BY <1>2, <1>3, <1>4, <1>5, <1>6 DEF Lifecycle!Leave

\* The row of a held message, as the abstract state shows it.
LEMMA StoredView ==
  ASSUME DeliveryInv, NEW m \in Messages, row[m] # None
  PROVE  /\ fate[m] = "live"
         /\ row[m] \in Row
         /\ HomeMap[m] = row[m].queue_id
         /\ ExpiryMap[m] = row[m].expires_at
         /\ TriesMap[m] = row[m].delivery_attempts
         /\ row[m].state = "READY" => LeaseMap[m] = None
         /\ row[m].state = "IN_FLIGHT" =>
              /\ LeaseMap[m] = [receipt |-> row[m].receipt_handle,
                                until |-> row[m].available_after]
              /\ LeaseMap[m] # None
<1>1. fate[m] = "live" /\ row[m] \in Row
      BY DEF DeliveryInv, LockInv, FatesMatchTables, TypeOK
<1>2. row[m].state = "IN_FLIGHT" => row[m].receipt_handle \in Handles
      BY <1>1 DEF DeliveryInv, StoredRows, RowAllowed, Row
<1>3. row[m].state = "IN_FLIGHT" =>
        [receipt |-> row[m].receipt_handle, until |-> row[m].available_after] # None
      BY <1>1, <1>2, NoLeaseAssumption DEF Row
<1> QED BY <1>1, <1>3 DEF HomeMap, ExpiryMap, TriesMap, LeaseMap, Stored

-----------------------------------------------------------------------------
(* One lemma per kind of call: its steps are steps of MessageLifecycle, or *)
(* are not seen.                                                           *)

Seen == Lifecycle!LifecycleNext \/ UNCHANGED Lifecycle!lifecycleVars

LEMMA EnqueueImplements ==
  ASSUME DeliveryInv, ClaimInv, NEW c \in Callers,
         \/ \E q \in Queues, m \in Messages : BeginEnqueue(c, q, m)
         \/ InsertMessage(c)
         \/ CommitEnqueue(c)
  PROVE  Seen
<1> DEFINE t == txn[c]
<1>t. LockInv /\ TypeOK /\ t \in Transaction /\ Shape(t) /\ ClaimSaw(t)
      BY DEF DeliveryInv, LockInv, TypeOK, TransactionShape, ClaimInv, ClaimsSaw
<1>1. CASE \E q \in Queues, m \in Messages : BeginEnqueue(c, q, m)
      <2>1. PICK q \in Queues, m \in Messages :
              fate[m] = "new" /\ Begin(c, "enqueue", q, m, None)
            BY <1>1 DEF BeginEnqueue
      <2>2. CallMap[c] = Lifecycle!NoCall /\ Lifecycle!Ask(c, "enqueue", q, m, None)
            BY <1>t, <2>1, BeginAsks
      <2>3. Lifecycle!Asking(c)
            BY <2>1, <2>2 DEF Lifecycle!Asking
      <2> QED BY <2>3 DEF Seen, Lifecycle!LifecycleNext
<1>2. CASE InsertMessage(c)
      <2>1. PICK p \in Priorities, ttl \in Lifetimes :
              Claim(c, {}, t.message, NewRow(t.queue, p, nextOrder, t.ts, ttl))
            BY <1>2 DEF InsertMessage
      <2>2. UNCHANGED dlq
            BY <2>1 DEF Claim
      <2> QED BY <1>t, <2>1, <2>2, ClaimUnseen DEF Seen
<1>3. CASE CommitEnqueue(c)
      <2> DEFINE m == t.message
                 image == t.image
      <2>1. /\ t.op = "enqueue" /\ t.claimed
            /\ row' = [row EXCEPT ![m] = image]
            /\ fate' = [fate EXCEPT ![m] = "live"]
            /\ txn' = [txn EXCEPT ![c] = Idle]
            /\ UNCHANGED <<now, dlq, leases>>
            BY <1>3 DEF CommitEnqueue, Running
      <2>2. /\ m \in Messages /\ t.queue \in Queues
            /\ image # None /\ image.state = "READY"
            BY <1>t, <2>1 DEF Shape
      <2>3. PICK ttl \in Lifetimes : /\ image.queue_id = t.queue
                                     /\ image.expires_at = t.ts + ttl
                                     /\ image.delivery_attempts = 0
            BY <1>t, <2>1 DEF ClaimSaw
      <2>4. fate[m] = "new" /\ row[m] = None /\ dlq[m] = None
            BY <1>t, <2>1, <2>2 DEF LockInv, RowLocks, FatesMatchTables
      <2>5. /\ CallMap[c].message = m /\ CallMap[c].queue = t.queue /\ CallMap[c].ts = t.ts
            BY <2>1 DEF CallMap, CallOf
      <2>6. \A x \in Messages : row'[x] = IF x = m THEN image ELSE row[x]
            BY <1>t, <2>1 DEF TypeOK
      <2> HIDE DEF m, image
      <2>7. HomeMap' = [HomeMap EXCEPT ![m] = t.queue]
            BY <2>2, <2>3, <2>4, <2>6 DEF HomeMap, Stored
      <2>8. ExpiryMap' = [ExpiryMap EXCEPT ![m] = t.ts + ttl]
            BY <2>2, <2>3, <2>4, <2>6 DEF ExpiryMap, Stored
      <2>9. LeaseMap' = LeaseMap
            BY <2>2, <2>4, <2>6 DEF LeaseMap, Stored
      <2>10. TriesMap' = TriesMap
            BY <2>1, <2>2, <2>3, <2>4, <2>6 DEF TriesMap, Stored
      <2>11. HandlesSpent' = HandlesSpent
            BY <2>1 DEF HandlesSpent
      <2>12. Lifecycle!Answer(c, "enqueue")
            BY <1>t, <2>1, EndAnswers
      <2>13. Lifecycle!Enqueue(c)
            BY <2>1, <2>4, <2>5, <2>7, <2>8, <2>9, <2>10, <2>11, <2>12 DEF Lifecycle!Enqueue
      <2> QED BY <2>13 DEF Seen, Lifecycle!LifecycleNext, Lifecycle!Answering
<1> QED BY <1>1, <1>2, <1>3

\* Rows a dequeue holds are messages its asker may move.
LEMMA HeldInQueue ==
  ASSUME DeliveryInv, ClaimInv, NEW c \in Callers, Running(c, "dequeue", TRUE),
         NEW m \in Held(txn[c])
  PROVE  /\ m \in Messages /\ row[m] # None
         /\ Lifecycle!InQueue(m, txn[c].queue, txn[c].ts)
<1> DEFINE t == txn[c]
<1>1. /\ t.op = "dequeue" /\ t.claimed /\ t \in Transaction /\ Shape(t)
      /\ ClaimHolds(t) /\ ClaimSaw(t)
      BY DEF Running, DeliveryInv, LockInv, TypeOK, TransactionShape, ClaimsHold,
             ClaimInv, ClaimsSaw
<1>2. m \in Messages
      BY <1>1 DEF Held, Shape, Transaction
<1>3. row[m] # None
      BY <1>1 DEF DeliveryInv, LockInv, RowLocks
<1>4. row[m].queue_id = t.queue /\ row[m].expires_at > t.ts
      BY <1>1 DEF ClaimSaw
<1>5. row[m].state = "READY" \/ row[m].available_after <= t.ts
      BY <1>1 DEF ClaimHolds, Held
<1>6. row[m].state \in {"READY", "IN_FLIGHT"}
      BY <1>2, <1>3 DEF DeliveryInv, LockInv, TypeOK, Row, States
<1>7. Lifecycle!Free(m, t.ts)
      <2>1. CASE row[m].state = "READY"
            BY <1>2, <1>3, <2>1, StoredView DEF Lifecycle!Free
      <2>2. CASE row[m].state = "IN_FLIGHT"
            <3>1. LeaseMap[m] = [receipt |-> row[m].receipt_handle,
                                 until |-> row[m].available_after]
                  BY <1>2, <1>3, <2>2, StoredView
            <3>2. LeaseMap[m].until = row[m].available_after
                  BY <3>1
            <3> QED BY <1>5, <2>2, <3>2 DEF Lifecycle!Free
      <2> QED BY <1>6, <2>1, <2>2
<1> QED BY <1>2, <1>3, <1>4, <1>7, StoredView DEF Lifecycle!InQueue

LEMMA CommitDequeueImplements ==
  ASSUME DeliveryInv, ClaimInv, NEW c \in Callers, CommitDequeue(c)
  PROVE  Seen
<1> DEFINE t == txn[c]
           S == t.removed
<1>1. /\ LockInv /\ TypeOK /\ t \in Transaction /\ Shape(t) /\ ClaimHolds(t) /\ ClaimSaw(t)
      /\ Running(c, "dequeue", TRUE)
      BY DEF CommitDequeue, DeliveryInv, LockInv, TypeOK, TransactionShape, ClaimsHold,
             ClaimInv, ClaimsSaw
<1>2. /\ t.op = "dequeue" /\ t.claimed
      /\ S \in SUBSET Messages /\ S \subseteq Held(t)
      BY <1>1 DEF Running, Transaction, Held
<1>3. /\ dlq' = [m \in Messages |-> IF m \in S THEN DeadLetter(row[m], t.ts) ELSE dlq[m]]
      /\ fate' = [m \in Messages |-> IF m \in S THEN "dead" ELSE fate[m]]
      /\ txn' = [txn EXCEPT ![c] = Idle]
      /\ now' = now
      BY DEF CommitDequeue
<1>4. Lifecycle!Answer(c, "dequeue")
      BY <1>1, <1>2, <1>3, EndAnswers
<1>5. /\ CallMap[c].queue = t.queue /\ CallMap[c].ts = t.ts /\ CallMap[c].receipt = t.receipt
      BY <1>2 DEF CallMap, CallOf
<1>6. \A m \in Held(t) : /\ m \in Messages /\ row[m] # None
                         /\ Lifecycle!InQueue(m, t.queue, t.ts)
      BY <1>1, HeldInQueue
<1>7. \A m \in S : LeaseMap[m] # None /\ TriesMap[m] = row[m].delivery_attempts
      BY <1>1, <1>2, <1>6, StoredView DEF ClaimHolds
<1>8. PICK limit \in AttemptLimits :
        /\ \A m \in S : row[m].delivery_attempts >= limit
        /\ t.image # None => row[t.message].delivery_attempts < limit
      BY <1>1, <1>2 DEF ClaimSaw
<1>9. \A d \in S : /\ Lifecycle!InQueue(d, t.queue, t.ts)
                   /\ LeaseMap[d] # None /\ TriesMap[d] >= limit
      BY <1>2, <1>6, <1>7, <1>8
<1>10. \A m \in S : dlq'[m] # None /\ dlq'[m].delivery_attempts = row[m].delivery_attempts
      <2> SUFFICES ASSUME NEW m \in S
                   PROVE  dlq'[m] # None /\ dlq'[m].delivery_attempts = row[m].delivery_attempts
          OBVIOUS
      <2>1. dlq'[m] = DeadLetter(row[m], t.ts) /\ row[m] \in Row /\ t.ts \in Nat
            BY <1>1, <1>2, <1>3, <1>6 DEF TypeOK, Transaction
      <2>2. DeadLetter(row[m], t.ts) \in DeadRow
            BY <2>1, DeadLetterType
      <2> QED BY <2>1, <2>2, NoneAssumption DEF DeadLetter
<1>11. CASE t.image = None
      <2>1. /\ row' = [m \in Messages |-> IF m \in S THEN None ELSE row[m]]
            /\ leases' = leases
            BY <1>11 DEF CommitDequeue
      <2>2. Lifecycle!Leave(S, "dead") /\ LeaseMap' = Lifecycle!Without(S, LeaseMap, None)
            BY <1>1, <1>2, <1>3, <1>6, <2>1, RowsLeave
      <2>3. TriesMap' = TriesMap
            BY <1>3, <1>6, <1>2, <1>10, <2>1 DEF TriesMap, Stored
      <2>4. HandlesSpent' = HandlesSpent
            BY <2>1 DEF HandlesSpent
      <2>5. Lifecycle!DequeueNothing(c, S)
            BY <1>4, <1>5, <1>9, <2>2, <2>3, <2>4 DEF Lifecycle!DequeueNothing
      <2> QED BY <1>2, <2>5 DEF Seen, Lifecycle!LifecycleNext, Lifecycle!Answering
<1>12. CASE t.image # None
      <2> DEFINE m == t.message
      <2>1. /\ row' = [x \in Messages |-> IF x \in S THEN None
                                          ELSE IF x = m THEN t.image ELSE row[x]]
            /\ leases' = leases \cup {[message |-> m, receipt |-> t.receipt,
                                       from |-> t.image.last_delivered_at,
                                       until |-> t.image.available_after]}
            BY <1>12 DEF CommitDequeue
      <2>2. /\ m \in Messages \ S /\ m \in Held(t) /\ t.receipt \in Handles
            BY <1>1, <1>2, <1>12 DEF Shape, Held
      <2>3. PICK timeout \in Timeouts : t.image = LeasedRow(row[m], t.receipt, t.ts, timeout)
            BY <1>1, <1>2, <1>12 DEF ClaimHolds
      <2>4. /\ row[m] # None /\ row[m] \in Row
            /\ Lifecycle!InQueue(m, t.queue, t.ts)
            /\ TriesMap[m] = row[m].delivery_attempts /\ TriesMap[m] < limit
            BY <1>6, <1>8, <1>12, <2>2, StoredView
      <2>5. /\ t.image.state = "IN_FLIGHT" /\ t.image.receipt_handle = t.receipt
            /\ t.image.available_after = t.ts + timeout
            /\ t.image.queue_id = row[m].queue_id /\ t.image.expires_at = row[m].expires_at
            /\ t.image.delivery_attempts = row[m].delivery_attempts + 1
            BY <2>3 DEF LeasedRow
      <2>6. \A x \in Messages : row'[x] = IF x \in S THEN None
                                          ELSE IF x = m THEN t.image ELSE row[x]
            BY <2>1
      <2> HIDE DEF m
      <2>7. \A x \in Messages : Stored(x)' <=> x \notin S /\ Stored(x)
            BY <1>12, <2>2, <2>4, <2>6 DEF Stored
      <2>8. /\ HomeMap' = Lifecycle!Without(S, HomeMap, None)
            /\ ExpiryMap' = Lifecycle!Without(S, ExpiryMap, 0)
            BY <2>5, <2>6, <2>7 DEF HomeMap, ExpiryMap, Lifecycle!Without
      <2>9. Lifecycle!Leave(S, "dead")
            BY <1>3, <2>8 DEF Lifecycle!Leave, Lifecycle!Without
      <2>10. LeaseMap' = [Lifecycle!Without(S, LeaseMap, None) EXCEPT ![m] =
                            [receipt |-> t.receipt, until |-> t.ts + timeout]]
            BY <2>2, <2>4, <2>5, <2>6, <2>7 DEF LeaseMap, Lifecycle!Without, Stored
      <2>11. TriesMap' = [TriesMap EXCEPT ![m] = @ + 1]
            <3>1. \A x \in Messages \ S : dlq'[x] = dlq[x]
                  BY <1>3
            <3>2. \A x \in S : TriesMap'[x] = TriesMap[x]
                  BY <1>2, <1>6, <1>10, <2>7 DEF TriesMap, Stored
            <3>3. \A x \in Messages \ S : x # m => TriesMap'[x] = TriesMap[x]
                  BY <2>6, <2>7, <3>1 DEF TriesMap
            <3>4. TriesMap'[m] = TriesMap[m] + 1
                  BY <2>2, <2>4, <2>5, <2>6, <2>7 DEF TriesMap, Stored
            <3>5. DOMAIN TriesMap = Messages /\ TriesMap' = [x \in Messages |-> TriesMap'[x]]
                  BY DEF TriesMap
            <3>6. TriesMap = [x \in Messages |-> TriesMap[x]]
                  BY DEF TriesMap
            <3> HIDE DEF S
            <3> QED BY <1>2, <2>2, <3>2, <3>3, <3>4, <3>5, <3>6
      <2>12. HandlesSpent' = HandlesSpent \cup {t.receipt}
            <3> DEFINE new == [message |-> m, receipt |-> t.receipt,
                               from |-> t.image.last_delivered_at,
                               until |-> t.image.available_after]
            <3>1. leases' = leases \cup {new} /\ new.receipt = t.receipt
                  BY <2>1
            <3> HIDE DEF new
            <3> QED BY <3>1 DEF HandlesSpent
      <2>13. t.receipt \notin HandlesSpent
            BY <1>2 DEF HandlesSpent, ClaimInv, FreshReceipts
      <2>14. Lifecycle!Deliver(c, S, m)
            BY <1>4, <1>5, <1>9, <2>4, <2>9, <2>10, <2>11, <2>12, <2>13 DEF Lifecycle!Deliver
      <2> QED BY <1>2, <2>2, <2>14 DEF Seen, Lifecycle!LifecycleNext, Lifecycle!Answering
<1> QED BY <1>11, <1>12

LEMMA DequeueImplements ==
  ASSUME DeliveryInv, ClaimInv, NEW c \in Callers,
         \/ \E q \in Queues, h \in Handles : BeginDequeue(c, q, h)
         \/ ClaimDequeue(c)
         \/ CommitDequeue(c)
  PROVE  Seen
<1>t. LockInv
      BY DEF DeliveryInv
<1>1. CASE \E q \in Queues, h \in Handles : BeginDequeue(c, q, h)
      <2>1. PICK q \in Queues, h \in Handles :
              /\ \A l \in leases : l.receipt # h
              /\ Begin(c, "dequeue", q, None, h)
            BY <1>1 DEF BeginDequeue
      <2>2. CallMap[c] = Lifecycle!NoCall /\ Lifecycle!Ask(c, "dequeue", q, None, h)
            BY <1>t, <2>1, BeginAsks
      <2>3. h \in Handles \ HandlesSpent
            BY <2>1 DEF HandlesSpent
      <2>4. Lifecycle!Asking(c)
            BY <2>2, <2>3 DEF Lifecycle!Asking
      <2> QED BY <2>4 DEF Seen, Lifecycle!LifecycleNext
<1>2. CASE ClaimDequeue(c)
      <2>1. txn[c].op = "dequeue" /\ UNCHANGED dlq
            BY <1>2 DEF ClaimDequeue, Running, Claim
      <2>2. \E removed, m, image : Claim(c, removed, m, image)
            BY <1>2 DEF ClaimDequeue
      <2> QED BY <1>t, <2>1, <2>2, ClaimUnseen DEF Seen
<1>3. CASE CommitDequeue(c)
      BY <1>3, CommitDequeueImplements
<1> QED BY <1>1, <1>2, <1>3

LEMMA AcknowledgeImplements ==
  ASSUME DeliveryInv, ClaimInv, NEW c \in Callers,
         \/ \E q \in Queues, m \in Messages, h \in Handles : BeginAcknowledge(c, q, m, h)
         \/ ClaimAcknowledge(c)
         \/ CommitAcknowledge(c)
  PROVE  Seen
<1> DEFINE t == txn[c]
<1>t. /\ LockInv /\ TypeOK /\ t \in Transaction /\ Shape(t)
      /\ ClaimHolds(t) /\ ClaimSaw(t)
      BY DEF DeliveryInv, LockInv, TypeOK, TransactionShape, ClaimsHold, ClaimInv, ClaimsSaw
<1>1. CASE \E q \in Queues, m \in Messages, h \in Handles : BeginAcknowledge(c, q, m, h)
      <2>1. PICK q \in Queues, m \in Messages, h \in Handles :
              /\ \E l \in leases : l.receipt = h
              /\ Begin(c, "acknowledge", q, m, h)
            BY <1>1 DEF BeginAcknowledge
      <2>2. CallMap[c] = Lifecycle!NoCall /\ Lifecycle!Ask(c, "acknowledge", q, m, h)
            BY <1>t, <2>1, BeginAsks
      <2>3. h \in HandlesSpent
            BY <2>1 DEF HandlesSpent
      <2>4. Lifecycle!Asking(c)
            BY <2>2, <2>3 DEF Lifecycle!Asking
      <2> QED BY <2>4 DEF Seen, Lifecycle!LifecycleNext
<1>2. CASE ClaimAcknowledge(c)
      <2> DEFINE removed == IF Acknowledgeable(t.message, t.queue, t.receipt, t.ts)
                            THEN {t.message} ELSE {}
      <2>1. Claim(c, removed, t.message, None)
            BY <1>2 DEF ClaimAcknowledge
      <2>2. UNCHANGED dlq
            BY <2>1 DEF Claim
      <2> QED BY <1>t, <2>1, <2>2, ClaimUnseen DEF Seen
<1>3. CASE CommitAcknowledge(c)
      <2> DEFINE S == t.removed
                 m == t.message
      <2>1. /\ t.op = "acknowledge"
            /\ txn' = [txn EXCEPT ![c] = Idle]
            /\ UNCHANGED <<now, dlq, leases>>
            /\ row' = [x \in Messages |-> IF x \in S THEN None ELSE row[x]]
            /\ fate' = [x \in Messages |-> IF x \in S THEN "acknowledged" ELSE fate[x]]
            BY <1>3 DEF CommitAcknowledge, CommitDelete, Running
      <2>2. /\ m \in Messages /\ t.receipt \in Handles /\ (S = {} \/ S = {m})
            /\ S \in SUBSET Messages /\ S \subseteq Held(t)
            BY <1>t, <2>1 DEF Shape, Transaction, Held
      <2>3. CASE S = {}
            <3>1. UNCHANGED <<row, fate>>
                  BY <1>t, <2>1, <2>3 DEF TypeOK
            <3> QED BY <1>t, <2>1, <3>1, EndWithoutEffect DEF Seen
      <2>4. CASE S = {m}
            <3>1. row[m] # None
                  BY <2>1, <2>2, <2>4, <1>t DEF LockInv, RowLocks
            <3>2. /\ row[m].queue_id = t.queue /\ row[m].receipt_handle = t.receipt
                  /\ row[m].available_after > t.ts
                  BY <1>t, <2>1, <2>4 DEF ClaimHolds, ClaimSaw
            <3>3. row[m].state = "IN_FLIGHT"
                  BY <2>2, <3>1, <3>2, NoneAssumption DEF DeliveryInv, StoredRows, RowAllowed
            <3>4. /\ fate[m] = "live" /\ HomeMap[m] = t.queue /\ LeaseMap[m] # None
                  /\ LeaseMap[m] = [receipt |-> t.receipt, until |-> row[m].available_after]
                  BY <2>2, <3>1, <3>2, <3>3, StoredView
            <3>5. LeaseMap[m].receipt = t.receipt /\ LeaseMap[m].until > t.ts
                  <4>1. LeaseMap[m].until = row[m].available_after
                        BY <3>4
                  <4> QED BY <3>2, <3>4, <4>1
            <3>6. /\ CallMap[c].message = m /\ CallMap[c].queue = t.queue
                  /\ CallMap[c].ts = t.ts /\ CallMap[c].receipt = t.receipt
                  BY <2>1 DEF CallMap, CallOf
            <3>7. /\ Lifecycle!Leave({m}, "acknowledged")
                  /\ LeaseMap' = Lifecycle!Without({m}, LeaseMap, None)
                  /\ TriesMap' = Lifecycle!Without({m}, TriesMap, 0)
                  BY <1>t, <2>1, <2>2, <2>4, <3>1, RowsLeave
            <3>8. HandlesSpent' = HandlesSpent
                  BY <2>1 DEF HandlesSpent
            <3>9. Lifecycle!Answer(c, "acknowledge")
                  BY <1>t, <2>1, EndAnswers
            <3> HIDE DEF m
            <3>10. Lifecycle!Acknowledge(c)
                  BY <3>4, <3>5, <3>6, <3>7, <3>8, <3>9 DEF Lifecycle!Acknowledge
            <3> QED BY <3>10 DEF Seen, Lifecycle!LifecycleNext, Lifecycle!Answering
      <2> QED BY <2>2, <2>3, <2>4
<1> QED BY <1>1, <1>2, <1>3

LEMMA ExpireImplements ==
  ASSUME DeliveryInv, ClaimInv, NEW c \in Callers, CleanerStep(c)
  PROVE  Seen
<1> DEFINE t == txn[c]
<1>t. /\ LockInv /\ TypeOK /\ t \in Transaction /\ Shape(t)
      /\ ClaimHolds(t) /\ ClaimSaw(t)
      BY DEF DeliveryInv, LockInv, TypeOK, TransactionShape, ClaimsHold, ClaimInv, ClaimsSaw
<1>1. CASE BeginExpire(c)
      <2>1. Begin(c, "expire", None, None, None)
            BY <1>1 DEF BeginExpire
      <2>2. CallMap[c] = Lifecycle!NoCall /\ Lifecycle!Ask(c, "expire", None, None, None)
            BY <1>t, <2>1, BeginAsks
      <2>3. Lifecycle!Asking(c)
            BY <2>2 DEF Lifecycle!Asking
      <2> QED BY <2>3 DEF Seen, Lifecycle!LifecycleNext
<1>2. CASE ClaimExpire(c)
      <2>1. txn[c].op = "expire" /\ UNCHANGED dlq
            BY <1>2 DEF ClaimExpire, Running, Claim
      <2>2. \E removed : Claim(c, removed, None, None)
            BY <1>2 DEF ClaimExpire
      <2> QED BY <1>t, <2>1, <2>2, ClaimUnseen DEF Seen
<1>3. CASE CommitExpire(c)
      <2> DEFINE S == t.removed
      <2>1. /\ t.op = "expire"
            /\ txn' = [txn EXCEPT ![c] = Idle]
            /\ UNCHANGED <<now, dlq, leases>>
            /\ row' = [x \in Messages |-> IF x \in S THEN None ELSE row[x]]
            /\ fate' = [x \in Messages |-> IF x \in S THEN "expired" ELSE fate[x]]
            BY <1>3 DEF CommitExpire, CommitDelete, Running
      <2>2. S \in SUBSET Messages /\ S \subseteq Held(t)
            BY <1>t DEF Transaction, Held
      <2>3. \A m \in S : row[m] # None
            BY <1>t, <2>1, <2>2 DEF LockInv, RowLocks
      <2>4. CallMap[c].ts = t.ts
            BY DEF CallMap, CallOf
      <2>5. \A m \in S : fate[m] = "live" /\ ExpiryMap[m] <= t.ts /\ Lifecycle!Free(m, t.ts)
            <3> SUFFICES ASSUME NEW m \in S
                         PROVE  /\ fate[m] = "live" /\ ExpiryMap[m] <= t.ts
                                /\ Lifecycle!Free(m, t.ts)
                OBVIOUS
            <3>1. /\ m \in Messages /\ row[m] # None /\ row[m].expires_at <= t.ts
                  /\ row[m].state = "READY" \/ row[m].available_after <= t.ts
                  BY <1>t, <2>1, <2>2, <2>3 DEF ClaimHolds, ClaimSaw
            <3>2. row[m].state \in {"READY", "IN_FLIGHT"}
                  BY <1>t, <3>1 DEF TypeOK, Row, States
            <3>3. fate[m] = "live" /\ ExpiryMap[m] <= t.ts
                  BY <3>1, StoredView
            <3>4. CASE row[m].state = "READY"
                  BY <3>1, <3>3, <3>4, StoredView DEF Lifecycle!Free
            <3>5. CASE row[m].state = "IN_FLIGHT"
                  <4>1. LeaseMap[m] = [receipt |-> row[m].receipt_handle,
                                       until |-> row[m].available_after]
                        BY <3>1, <3>5, StoredView
                  <4>2. LeaseMap[m].until = row[m].available_after
                        BY <4>1
                  <4> QED BY <3>1, <3>3, <3>5, <4>2 DEF Lifecycle!Free
            <3> QED BY <3>2, <3>4, <3>5
      <2>6. /\ Lifecycle!Leave(S, "expired")
            /\ LeaseMap' = Lifecycle!Without(S, LeaseMap, None)
            /\ TriesMap' = Lifecycle!Without(S, TriesMap, 0)
            BY <1>t, <2>1, <2>2, <2>3, RowsLeave
      <2>7. HandlesSpent' = HandlesSpent
            BY <2>1 DEF HandlesSpent
      <2>8. Lifecycle!Answer(c, "expire")
            BY <1>t, <2>1, EndAnswers
      <2>9. Lifecycle!Expire(c, S)
            BY <2>4, <2>5, <2>6, <2>7, <2>8 DEF Lifecycle!Expire
      <2> QED BY <2>2, <2>9 DEF Seen, Lifecycle!LifecycleNext, Lifecycle!Answering
<1> QED BY <1>1, <1>2, <1>3 DEF CleanerStep

LEMMA TableImplements ==
  ASSUME DeliveryInv,
         \/ \E q \in Queues : CreateQueue(q) \/ UpdateQueue(q)
         \/ PurgeDeadLetters
         \/ Tick
         \/ UNCHANGED vars
  PROVE  Seen
<1>t. LockInv /\ TypeOK
      BY DEF DeliveryInv, LockInv
<1>1. CASE (\E q \in Queues : CreateQueue(q) \/ UpdateQueue(q)) \/ UNCHANGED vars
      <2>1. UNCHANGED <<now, row, dlq, leases, fate, txn>>
            BY <1>1 DEF CreateQueue, UpdateQueue, vars
      <2> QED BY <2>1, TablesUnseen DEF Unseen, CallMap, Seen, Lifecycle!lifecycleVars
<1>2. CASE PurgeDeadLetters
      <2> DEFINE old == {m \in Messages : dlq[m] # None /\ dlq[m].dead_lettered_at <= now - Retention}
                 deadLetteredAt == [m \in old |-> dlq[m].dead_lettered_at]
      <2>1. UNCHANGED <<now, row, txn, leases>>
            BY <1>2 DEF PurgeDeadLetters
      <2>2. PICK B \in Batches(old, deadLetteredAt, PurgeBatch) :
              /\ dlq' = [m \in Messages |-> IF m \in B THEN None ELSE dlq[m]]
              /\ fate' = [m \in Messages |-> IF m \in B THEN "purged" ELSE fate[m]]
            BY <1>2 DEF PurgeDeadLetters
      <2>3. \A m \in B : m \in Messages /\ fate[m] = "dead" /\ row[m] = None
            <3>1. B \in SUBSET old
                  BY BatchSubset
            <3> QED BY <1>t, <3>1 DEF LockInv, FatesMatchTables
      <2>4. fate' = Lifecycle!Without(B, fate, "purged")
            BY <2>2 DEF Lifecycle!Without
      <2>5. TriesMap' = Lifecycle!Without(B, TriesMap, 0)
            BY <2>1, <2>2, <2>3 DEF TriesMap, Stored, Lifecycle!Without
      <2>6. UNCHANGED <<HomeMap, ExpiryMap, LeaseMap, HandlesSpent, CallMap>>
            BY <2>1 DEF HomeMap, ExpiryMap, LeaseMap, HandlesSpent, CallMap, Stored
      <2> HIDE DEF old
      <2>7. Lifecycle!Purge(B)
            BY <2>1, <2>3, <2>4, <2>5, <2>6 DEF Lifecycle!Purge
      <2>8. B \in SUBSET Messages
            BY <2>3
      <2> QED BY <2>7, <2>8 DEF Seen, Lifecycle!LifecycleNext
<1>3. CASE Tick
      <2>1. now' > now /\ UNCHANGED <<row, dlq, leases, fate, txn>>
            BY <1>t, <1>3 DEF Tick, TypeOK
      <2>2. UNCHANGED <<fate, HomeMap, ExpiryMap, LeaseMap, TriesMap, HandlesSpent, CallMap>>
            BY <2>1 DEF HomeMap, ExpiryMap, LeaseMap, TriesMap, HandlesSpent, CallMap, Stored
      <2>3. Lifecycle!Advance
            BY <2>1, <2>2 DEF Lifecycle!Advance
      <2> QED BY <2>3 DEF Seen, Lifecycle!LifecycleNext
<1> QED BY <1>1, <1>2, <1>3

LEMMA LifecycleStarts == Init => Lifecycle!LifecycleInit
<1> SUFFICES ASSUME Init PROVE Lifecycle!LifecycleInit
    OBVIOUS
<1>1. CallMap = [c \in Callers |-> Lifecycle!NoCall]
      BY IdleCall DEF Init, CallMap
<1>2. HomeMap = [m \in Messages |-> None] /\ ExpiryMap = [m \in Messages |-> 0]
      BY DEF Init, HomeMap, ExpiryMap, Stored
<1>3. LeaseMap = [m \in Messages |-> None] /\ TriesMap = [m \in Messages |-> 0]
      BY DEF Init, LeaseMap, TriesMap, Stored
<1>4. HandlesSpent = {}
      BY DEF Init, HandlesSpent
<1> QED BY <1>1, <1>2, <1>3, <1>4 DEF Init, Lifecycle!LifecycleInit

LEMMA LifecycleSteps ==
  DeliveryInv /\ ClaimInv /\ [Next]_vars => [Lifecycle!LifecycleNext]_(Lifecycle!lifecycleVars)
<1> SUFFICES ASSUME DeliveryInv, ClaimInv, [Next]_vars PROVE Seen
    BY DEF Seen
<1>1. ASSUME NEW c \in Callers, Abort(c) \/ DequeueNotFound(c) PROVE Seen
      <2>1. txn' = [txn EXCEPT ![c] = Idle] /\ UNCHANGED <<now, row, dlq, leases, fate>>
            BY <1>1 DEF Abort, DequeueNotFound
      <2> QED BY <2>1, EndWithoutEffect DEF DeliveryInv, Seen
<1>2. ASSUME NEW c \in Clients, ClientStep(c) PROVE Seen
      <2> c \in Callers
          BY DEF Callers
      <2> QED BY <1>1, <1>2, EnqueueImplements, DequeueImplements, AcknowledgeImplements
              DEF ClientStep
<1>3. ASSUME NEW c \in Cleaners, CleanerStep(c) PROVE Seen
      BY <1>3, ExpireImplements DEF Callers
<1> QED BY <1>1, <1>2, <1>3, TableImplements DEF Next

\* Every behaviour of the tables, whatever the interleaving of statements and
\* the age of their timestamps, is one of MessageLifecycle.
THEOREM StoreImplementsLifecycle == Spec => ImplementsLifecycle
<1>1. DeliveryInv /\ ClaimInv /\ [Next]_vars
        => [Lifecycle!LifecycleNext]_(Lifecycle!lifecycleVars)
      BY LifecycleSteps
<1>2. Init => Lifecycle!LifecycleInit
      BY LifecycleStarts
<1> QED BY <1>1, <1>2, DeliveryInvariant, ClaimsRemembered, PTL
        DEF Spec, ImplementsLifecycle, Lifecycle!LifecycleSpec
=============================================================================
