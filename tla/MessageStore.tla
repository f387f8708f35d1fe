---------------------------- MODULE MessageStore ----------------------------
(***************************************************************************)
(* The message tables of retsu and every statement the program runs on     *)
(* them: enqueue, dequeue (with its dead-lettering), acknowledge, the two  *)
(* cleaners, and the triggers that keep the per-shard state counts.        *)
(*                                                                         *)
(* Each statement is one PostgreSQL transaction in READ COMMITTED, and is  *)
(* three steps here, because other transactions run between them:          *)
(*   Begin   CURRENT_TIMESTAMP is fixed;                                   *)
(*   Claim   the snapshot is taken, rows are locked and the new row images *)
(*           are computed (the Insert step, for an enqueue);               *)
(*   Commit  the images, the trigger's counts and the reply become visible *)
(*           together.                                                     *)
(* Abort ends a transaction at any point: a lost connection, a cancelled   *)
(* task, a failed statement.  A reply lost after a commit is a Commit whose *)
(* caller never acts on it.                                                *)
(***************************************************************************)
EXTENDS Integers, FiniteSets

CONSTANTS
  Queues, Messages, Priorities, Shards, Handles,
  Clients,         \* API requests that may run at once
  Cleaners,        \* expired-message cleaners, one per worker replica
  ShardOf,         \* [Messages -> Shards], from the message's UUID
  Timeouts,        \* visibility timeouts a queue may be given
  AttemptLimits,   \* max_delivery_attempts a queue may be given
  Lifetimes,       \* effective TTLs an enqueue may ask for
  MaxLifetime,     \* the tables' cap on them: 30 days
  Retention,       \* dead letter retention
  DeadLetterBatch, CleanerBatch, PurgeBatch,
  LastCall,        \* bound: no enqueue or dequeue begins after this time
  MaxTime,         \* bound: the clock stops here
  MaxOrder,        \* bound: enqueue_order values handed out
  None

ASSUME SettingsAssumption ==
  /\ Timeouts \subseteq Nat \ {0}
  /\ AttemptLimits \subseteq Nat \ {0}
  /\ MaxLifetime \in Nat /\ Lifetimes \subseteq 1 .. MaxLifetime
  /\ Retention \in Nat
  /\ Priorities \subseteq Nat

ASSUME BatchAssumption == {DeadLetterBatch, CleanerBatch, PurgeBatch} \subseteq Nat \ {0}

ASSUME BoundsAssumption == {LastCall, MaxTime, MaxOrder} \subseteq Nat

ASSUME IdentityAssumption ==
  /\ IsFiniteSet(Messages)
  /\ ShardOf \in [Messages -> Shards]
  /\ Clients \cap Cleaners = {}

VARIABLES
  now,        \* PostgreSQL's clock
  settings,   \* table queue: [Queues -> the queue's settings or None]
  row,        \* table queue_message: [Messages -> its committed row or None]
  dlq,        \* table queue_dead_letter_message
  rollup,     \* table queue_priority_state_shard, one count per slot
  nextOrder,  \* the identity sequence behind enqueue_order
  txn,        \* [Callers -> the transaction in progress]
  leases,     \* history: every delivery that committed
  fate        \* history: how far each message's life has got

vars == <<now, settings, row, dlq, rollup, nextOrder, txn, leases, fate>>

Callers == Clients \cup Cleaners
Settings == [visibility_timeout : Timeouts, max_delivery_attempts : AttemptLimits]
States == {"READY", "IN_FLIGHT"}

Row == [queue_id : Queues, priority : Priorities, enqueue_order : Nat,
        state : States, enqueued_at : Nat, expires_at : Nat,
        delivery_attempts : Nat, receipt_handle : Handles \cup {None},
        available_after : Nat, last_delivered_at : Nat \cup {None}]

DeadRow == [queue_id : Queues, enqueued_at : Nat, expires_at : Nat,
            delivery_attempts : Nat, last_delivered_at : Nat \cup {None},
            dead_lettered_at : Nat]

\* An absent row, column or field is none of the values it may have.
ASSUME NoneAssumption ==
  None \notin Messages \cup Queues \cup Handles \cup Nat \cup Settings \cup Row \cup DeadRow

Slot == [queue_id : Queues, priority : Priorities, shard : Shards, state : States]

Transaction ==
  [op : {"idle", "enqueue", "dequeue", "acknowledge", "expire"}, claimed : BOOLEAN,
   ts : Nat, queue : Queues \cup {None}, message : Messages \cup {None},
   receipt : Handles \cup {None}, removed : SUBSET Messages, image : Row \cup {None}]

Lease == [message : Messages, receipt : Handles, from : Nat, until : Nat]
Fates == {"new", "live", "acknowledged", "expired", "dead", "purged"}

Started(op, ts, q, m, h) ==
  [op |-> op, claimed |-> FALSE, ts |-> ts, queue |-> q, message |-> m, receipt |-> h,
   removed |-> {}, image |-> None]

Claimed(t, removed, m, image) ==
  [op |-> t.op, claimed |-> TRUE, ts |-> t.ts, queue |-> t.queue, message |-> m,
   receipt |-> t.receipt, removed |-> removed, image |-> image]

Idle == Started("idle", 0, None, None, None)

-----------------------------------------------------------------------------
(* The table constraints. *)

\* CHECKs state_consistency, availability_after_enqueue_or_delivery,
\* delivery_not_before_enqueue and expiration_after_enqueue of queue_message.
RowAllowed(r) ==
  /\ r.expires_at > r.enqueued_at /\ r.expires_at <= r.enqueued_at + MaxLifetime
  /\ \/ /\ r.state = "READY"
        /\ r.receipt_handle = None
        /\ r.last_delivered_at = None
        /\ r.delivery_attempts = 0
        /\ r.available_after >= r.enqueued_at
     \/ /\ r.state = "IN_FLIGHT"
        /\ r.receipt_handle # None
        /\ r.last_delivered_at # None
        /\ r.delivery_attempts > 0
        /\ r.available_after > r.last_delivered_at
        /\ r.last_delivered_at >= r.enqueued_at

\* CHECK timestamps_consistent (and NOT NULL) of queue_dead_letter_message.
DeadRowAllowed(d) ==
  /\ d.last_delivered_at # None
  /\ d.last_delivered_at >= d.enqueued_at
  /\ d.expires_at > d.enqueued_at
  /\ d.dead_lettered_at >= d.last_delivered_at

-----------------------------------------------------------------------------
(* The trigger maintain_queue_priority_state, one operator per TG_OP.  A   *)
(* slot that has no row yet counts 0.                                      *)

SlotOf(m, r) ==
  [queue_id |-> r.queue_id, priority |-> r.priority, shard |-> ShardOf[m], state |-> r.state]

AfterInsert(counts, m, r) == [counts EXCEPT ![SlotOf(m, r)] = @ + 1]

AfterDelete(counts, S) ==
  [k \in Slot |-> counts[k] - Cardinality({m \in S : SlotOf(m, row[m]) = k})]

\* Mutant: the UPDATE branch adds the new state and keeps the old one.
AfterUpdate_NoDecrement(counts, m, r) ==
  IF r.state = row[m].state THEN counts ELSE [counts EXCEPT ![SlotOf(m, r)] = @ + 1]

AfterUpdate(counts, m, r) ==
  IF r.state = row[m].state
  THEN counts
  ELSE [counts EXCEPT ![SlotOf(m, row[m])] = @ - 1, ![SlotOf(m, r)] = @ + 1]

-----------------------------------------------------------------------------
(* Row locks and the choices the statements make among the rows they may   *)
(* lock.                                                                   *)

\* The rows a claimed transaction holds locked until it ends.
Held(t) == t.removed \cup (IF t.image = None THEN {} ELSE {t.message})

\* Mutant: the candidates are read without FOR UPDATE SKIP LOCKED.
Unlocked_NoRowLocks(c) == {m \in Messages : row[m] # None}

\* The rows FOR UPDATE SKIP LOCKED does not skip.
Unlocked(c) ==
  {m \in Messages : row[m] # None /\ \A d \in Callers \ {c} : m \notin Held(txn[d])}

\* Mutant: a last delivery is taken for lost while its lease is running.
Exhausted_RunningLease(m, q, ts) ==
  /\ row[m].queue_id = q
  /\ row[m].state = "IN_FLIGHT"
  /\ row[m].expires_at > ts
  /\ row[m].delivery_attempts >= settings[q].max_delivery_attempts

\* dead_letter_candidates: elapsed leases with no attempt left.
Exhausted(m, q, ts) ==
  /\ row[m].queue_id = q
  /\ row[m].state = "IN_FLIGHT"
  /\ row[m].available_after <= ts
  /\ row[m].expires_at > ts
  /\ row[m].delivery_attempts >= settings[q].max_delivery_attempts

\* Mutant: the visibility timeout is left out of the candidate filter.
Deliverable_RunningLease(m, q, ts) ==
  /\ row[m].queue_id = q
  /\ row[m].expires_at > ts
  /\ row[m].delivery_attempts < settings[q].max_delivery_attempts

\* candidate: what a dequeue stamped ts may lease.
Deliverable(m, q, ts) ==
  /\ row[m].queue_id = q
  /\ row[m].expires_at > ts
  /\ row[m].delivery_attempts < settings[q].max_delivery_attempts
  /\ row[m].state = "READY" \/ row[m].available_after <= ts

\* Mutant: the cleaner deletes expired messages a consumer still holds.
Expirable_RunningLease(m, ts) == row[m].expires_at <= ts

\* Mutant: the cleaner forgets elapsed leases.
Expirable_ReadyOnly(m, ts) == row[m].expires_at <= ts /\ row[m].state = "READY"

\* What the expired-message cleaner may delete: never a running lease.
Expirable(m, ts) ==
  /\ row[m].expires_at <= ts
  /\ row[m].state = "READY" \/ row[m].available_after <= ts

\* ORDER BY priority DESC, enqueue_order ASC LIMIT 1
Foremost(S) ==
  {m \in S : \A n \in S :
     \/ row[m].priority > row[n].priority
     \/ row[m].priority = row[n].priority /\ row[m].enqueue_order <= row[n].enqueue_order}

\* ORDER BY key ASC, id LIMIT n: ties are broken by random UUIDs.
Batches(S, key, n) ==
  {B \in SUBSET S :
     /\ Cardinality(B) = IF Cardinality(S) < n THEN Cardinality(S) ELSE n
     /\ \A m \in B, x \in S \ B : key[m] <= key[x]}

-----------------------------------------------------------------------------
(* Queues. *)

CreateQueue(q) ==
  /\ settings[q] = None
  /\ \E s \in Settings : settings' = [settings EXCEPT ![q] = s]
  /\ UNCHANGED <<now, row, dlq, rollup, nextOrder, txn, leases, fate>>

\* A field the request leaves out keeps its value (COALESCE).
UpdateQueue(q) ==
  /\ settings[q] # None
  /\ \E s \in Settings : settings' = [settings EXCEPT ![q] = s]
  /\ UNCHANGED <<now, row, dlq, rollup, nextOrder, txn, leases, fate>>

-----------------------------------------------------------------------------
(* The steps every transaction shares. *)

Begin(c, op, q, m, h) ==
  /\ txn[c] = Idle
  /\ txn' = [txn EXCEPT ![c] = Started(op, now, q, m, h)]
  /\ UNCHANGED <<now, settings, row, dlq, rollup, nextOrder, leases, fate>>

\* Rows are locked and images computed, nothing is visible yet.
Claim(c, removed, m, image) ==
  /\ txn' = [txn EXCEPT ![c] = Claimed(txn[c], removed, m, image)]
  /\ UNCHANGED <<now, settings, row, dlq, rollup, leases, fate>>

Running(c, op, claimed) == txn[c].op = op /\ txn[c].claimed = claimed

\* The connection, the statement or the task is lost: everything rolls back.
Abort(c) ==
  /\ txn[c] # Idle
  /\ txn' = [txn EXCEPT ![c] = Idle]
  /\ UNCHANGED <<now, settings, row, dlq, rollup, nextOrder, leases, fate>>

-----------------------------------------------------------------------------
(* Enqueue. *)

\* Mutant: a client's retry enqueues under the identifier of the first try.
BeginEnqueue_ReusedId(c, q, m) ==
  /\ now <= LastCall
  /\ settings[q] # None
  /\ row[m] = None
  /\ \A d \in Callers : txn[d].op = "enqueue" => txn[d].message # m
  /\ Begin(c, "enqueue", q, m, None)

\* The message's identifier is a fresh UUID.
BeginEnqueue(c, q, m) ==
  /\ now <= LastCall
  /\ settings[q] # None
  /\ fate[m] = "new"
  /\ \A d \in Callers : txn[d].op = "enqueue" => txn[d].message # m
  /\ Begin(c, "enqueue", q, m, None)

NewRow(q, p, order, ts, ttl) ==
  [queue_id |-> q, priority |-> p, enqueue_order |-> order, state |-> "READY",
   enqueued_at |-> ts, expires_at |-> ts + ttl, delivery_attempts |-> 0,
   receipt_handle |-> None, available_after |-> ts, last_delivered_at |-> None]

InsertMessage(c) ==
  /\ Running(c, "enqueue", FALSE)
  /\ nextOrder < MaxOrder
  /\ \E p \in Priorities, ttl \in Lifetimes :
       Claim(c, {}, txn[c].message, NewRow(txn[c].queue, p, nextOrder, txn[c].ts, ttl))
  /\ nextOrder' = nextOrder + 1

CommitEnqueue(c) ==
  LET m == txn[c].message
  IN  /\ Running(c, "enqueue", TRUE)
      /\ RowAllowed(txn[c].image)
      /\ row' = [row EXCEPT ![m] = txn[c].image]
      /\ rollup' = AfterInsert(rollup, m, txn[c].image)
      /\ fate' = [fate EXCEPT ![m] = "live"]
      /\ txn' = [txn EXCEPT ![c] = Idle]
      /\ UNCHANGED <<now, settings, dlq, nextOrder, leases>>

-----------------------------------------------------------------------------
(* Dequeue. *)

\* Mutant: a consumer's handle is generated once and used for all its dequeues.
BeginDequeue_ReusedHandle(c, q, h) ==
  /\ now <= LastCall
  /\ \A d \in Callers : txn[d].receipt # h
  /\ Begin(c, "dequeue", q, None, h)

\* The receipt handle is a fresh UUID.
BeginDequeue(c, q, h) ==
  /\ now <= LastCall
  /\ \A l \in leases : l.receipt # h
  /\ \A d \in Callers : txn[d].receipt # h
  /\ Begin(c, "dequeue", q, None, h)

\* Mutant: the lease is put before the delivery instead of after it.
LeasedRow_InThePast(r, h, ts, timeout) ==
  [queue_id |-> r.queue_id, priority |-> r.priority, enqueue_order |-> r.enqueue_order,
   state |-> "IN_FLIGHT", enqueued_at |-> r.enqueued_at, expires_at |-> r.expires_at,
   delivery_attempts |-> r.delivery_attempts + 1, receipt_handle |-> h,
   available_after |-> ts - timeout, last_delivered_at |-> ts]

LeasedRow(r, h, ts, timeout) ==
  [queue_id |-> r.queue_id, priority |-> r.priority, enqueue_order |-> r.enqueue_order,
   state |-> "IN_FLIGHT", enqueued_at |-> r.enqueued_at, expires_at |-> r.expires_at,
   delivery_attempts |-> r.delivery_attempts + 1, receipt_handle |-> h,
   available_after |-> ts + timeout, last_delivered_at |-> ts]

DeadLetter(r, ts) ==
  [queue_id |-> r.queue_id, enqueued_at |-> r.enqueued_at, expires_at |-> r.expires_at,
   delivery_attempts |-> r.delivery_attempts, last_delivered_at |-> r.last_delivered_at,
   dead_lettered_at |-> ts]

\* target_queue is empty: 404, nothing else happens.
DequeueNotFound(c) ==
  /\ Running(c, "dequeue", FALSE)
  /\ settings[txn[c].queue] = None
  /\ txn' = [txn EXCEPT ![c] = Idle]
  /\ UNCHANGED <<now, settings, row, dlq, rollup, nextOrder, leases, fate>>

ClaimDequeue(c) ==
  LET q  == txn[c].queue
      ts == txn[c].ts
      exhausted == {m \in Unlocked(c) : Exhausted(m, q, ts)}
      deliverable == {m \in Unlocked(c) : Deliverable(m, q, ts)}
      availableAfter == [m \in exhausted |-> row[m].available_after]
  IN  /\ Running(c, "dequeue", FALSE)
      /\ settings[q] # None
      /\ \E dead \in Batches(exhausted, availableAfter, DeadLetterBatch) :
           \/ /\ deliverable = {}
              /\ Claim(c, dead, None, None)
           \/ \E m \in Foremost(deliverable) :
                Claim(c, dead, m, LeasedRow(row[m], txn[c].receipt, ts,
                                            settings[q].visibility_timeout))
      /\ UNCHANGED nextOrder

\* The statement succeeds as a whole: if one CHECK rejects a row, the
\* transaction can only abort.
CommitDequeue(c) ==
  LET t == txn[c]
  IN  /\ Running(c, "dequeue", TRUE)
      /\ \A m \in t.removed : DeadRowAllowed(DeadLetter(row[m], t.ts))
      /\ dlq' = [m \in Messages |-> IF m \in t.removed THEN DeadLetter(row[m], t.ts) ELSE dlq[m]]
      /\ fate' = [m \in Messages |-> IF m \in t.removed THEN "dead" ELSE fate[m]]
      /\ \/ /\ t.image = None
            /\ row' = [m \in Messages |-> IF m \in t.removed THEN None ELSE row[m]]
            /\ rollup' = AfterDelete(rollup, t.removed)
            /\ UNCHANGED leases
         \/ /\ t.image # None
            /\ RowAllowed(t.image)
            /\ row' = [m \in Messages |-> IF m \in t.removed THEN None
                                          ELSE IF m = t.message THEN t.image ELSE row[m]]
            /\ rollup' = AfterUpdate(AfterDelete(rollup, t.removed), t.message, t.image)
            /\ leases' = leases \cup {[message |-> t.message, receipt |-> t.receipt,
                                       from |-> t.image.last_delivered_at,
                                       until |-> t.image.available_after]}
      /\ txn' = [txn EXCEPT ![c] = Idle]
      /\ UNCHANGED <<now, settings, nextOrder>>

-----------------------------------------------------------------------------
(* Acknowledge and the expired-message cleaner: both only delete rows. *)

\* A client knows the handles of the deliveries that committed.
BeginAcknowledge(c, q, m, h) ==
  /\ settings[q] # None
  /\ \E l \in leases : l.receipt = h
  /\ Begin(c, "acknowledge", q, m, h)

\* Mutant: the receipt handle is not compared.
Acknowledgeable_AnyReceipt(m, q, h, ts) ==
  row[m] # None /\ row[m].queue_id = q /\ row[m].available_after > ts

Acknowledgeable(m, q, h, ts) ==
  /\ row[m] # None
  /\ row[m].queue_id = q
  /\ row[m].receipt_handle = h
  /\ row[m].available_after > ts

\* DELETE waits for the lock of a row it matches, then looks at it again.
ClaimAcknowledge(c) ==
  LET m == txn[c].message
      matches == Acknowledgeable(m, txn[c].queue, txn[c].receipt, txn[c].ts)
  IN  /\ Running(c, "acknowledge", FALSE)
      /\ matches => m \in Unlocked(c)
      /\ Claim(c, IF matches THEN {m} ELSE {}, m, None)
      /\ UNCHANGED nextOrder

BeginExpire(c) == Begin(c, "expire", None, None, None)

ClaimExpire(c) ==
  LET expired == {m \in Unlocked(c) : Expirable(m, txn[c].ts)}
      expiresAt == [m \in expired |-> row[m].expires_at]
  IN  /\ Running(c, "expire", FALSE)
      /\ \E B \in Batches(expired, expiresAt, CleanerBatch) : Claim(c, B, None, None)
      /\ UNCHANGED nextOrder

CommitDelete(c, op, end) ==
  LET S == txn[c].removed
  IN  /\ Running(c, op, TRUE)
      /\ row' = [m \in Messages |-> IF m \in S THEN None ELSE row[m]]
      /\ rollup' = AfterDelete(rollup, S)
      /\ fate' = [m \in Messages |-> IF m \in S THEN end ELSE fate[m]]
      /\ txn' = [txn EXCEPT ![c] = Idle]
      /\ UNCHANGED <<now, settings, dlq, nextOrder, leases>>

CommitAcknowledge(c) == CommitDelete(c, "acknowledge", "acknowledged")
CommitExpire(c) == CommitDelete(c, "expire", "expired")

-----------------------------------------------------------------------------
(* The dead letter cleaner and the clock. *)

\* Nothing else locks dead letters, so the statement is one step.
PurgeDeadLetters ==
  LET old == {m \in Messages : dlq[m] # None /\ dlq[m].dead_lettered_at <= now - Retention}
      deadLetteredAt == [m \in old |-> dlq[m].dead_lettered_at]
  IN  /\ old # {}
      /\ \E B \in Batches(old, deadLetteredAt, PurgeBatch) :
           /\ dlq' = [m \in Messages |-> IF m \in B THEN None ELSE dlq[m]]
           /\ fate' = [m \in Messages |-> IF m \in B THEN "purged" ELSE fate[m]]
      /\ UNCHANGED <<now, settings, row, rollup, nextOrder, txn, leases>>

Tick ==
  /\ now < MaxTime
  /\ now' = now + 1
  /\ UNCHANGED <<settings, row, dlq, rollup, nextOrder, txn, leases, fate>>

-----------------------------------------------------------------------------
Init ==
  /\ now = 0
  /\ settings = [q \in Queues |-> None]
  /\ row = [m \in Messages |-> None]
  /\ dlq = [m \in Messages |-> None]
  /\ rollup = [k \in Slot |-> 0]
  /\ nextOrder = 0
  /\ txn = [c \in Callers |-> Idle]
  /\ leases = {}
  /\ fate = [m \in Messages |-> "new"]

ClientStep(c) ==
  \/ \E q \in Queues, m \in Messages : BeginEnqueue(c, q, m)
  \/ InsertMessage(c)
  \/ CommitEnqueue(c)
  \/ \E q \in Queues, h \in Handles : BeginDequeue(c, q, h)
  \/ DequeueNotFound(c)
  \/ ClaimDequeue(c)
  \/ CommitDequeue(c)
  \/ \E q \in Queues, m \in Messages, h \in Handles : BeginAcknowledge(c, q, m, h)
  \/ ClaimAcknowledge(c)
  \/ CommitAcknowledge(c)

CleanerStep(c) == BeginExpire(c) \/ ClaimExpire(c) \/ CommitExpire(c)

Next ==
  \/ \E q \in Queues : CreateQueue(q) \/ UpdateQueue(q)
  \/ \E c \in Clients : ClientStep(c)
  \/ \E c \in Cleaners : CleanerStep(c)
  \/ \E c \in Callers : Abort(c)
  \/ PurgeDeadLetters
  \/ Tick

Spec == Init /\ [][Next]_vars

-----------------------------------------------------------------------------
(* Fairness.  A worker loop keeps starting batches until it is cancelled,  *)
(* and a request handler runs its statement to an end.  A cleaner's batch  *)
(* may be aborted any number of times, but not for ever: its claim and its *)
(* commit are strongly fair, which says that the database is not down for  *)
(* good.                                                                   *)

EndOfCall(c) ==
  \/ InsertMessage(c) \/ CommitEnqueue(c)
  \/ DequeueNotFound(c) \/ ClaimDequeue(c) \/ CommitDequeue(c)
  \/ ClaimAcknowledge(c) \/ CommitAcknowledge(c)
  \/ Abort(c)

Fairness ==
  /\ WF_vars(Tick)
  /\ WF_vars(PurgeDeadLetters)
  /\ \A c \in Clients : WF_vars(EndOfCall(c))
  /\ \A c \in Cleaners : /\ WF_vars(BeginExpire(c))
                         /\ SF_vars(ClaimExpire(c))
                         /\ SF_vars(CommitExpire(c))

FairSpec == Spec /\ Fairness

-----------------------------------------------------------------------------
(* Properties. *)

\* The variables hold what their columns and the program's types allow.
TypeOK ==
  /\ now \in Nat
  /\ settings \in [Queues -> Settings \cup {None}]
  /\ row \in [Messages -> Row \cup {None}]
  /\ dlq \in [Messages -> DeadRow \cup {None}]
  /\ rollup \in [Slot -> Int]
  /\ nextOrder \in Nat
  /\ txn \in [Callers -> Transaction]
  /\ leases \in SUBSET Lease
  /\ fate \in [Messages -> Fates]

\* Two consumers never hold the same message at the same time: whatever order
\* the transactions commit in, and although each uses the time it began at,
\* the leases of a message are disjoint intervals (dequeue's candidate).
LeasesNeverOverlap ==
  \A a, b \in leases :
    a.message = b.message /\ a # b => a.until <= b.from \/ b.until <= a.from

\* A running lease is honoured: until it elapses the row stays, under the
\* holder's handle and deadline, unless it was acknowledged.  Neither cleaner
\* nor another dequeue, one that began long ago included, takes it away.
LiveLeaseHeld ==
  \A l \in leases : l.until > now =>
    \/ fate[l.message] = "acknowledged"
    \/ /\ row[l.message] # None
       /\ row[l.message].receipt_handle = l.receipt
       /\ row[l.message].available_after = l.until

\* The DLQ's timestamp CHECK never rejects a message a dequeue is moving
\* there, which would fail that dequeue and every later one on the queue.
DeadLettersAccepted ==
  \A c \in Callers : Running(c, "dequeue", TRUE) =>
    \A m \in txn[c].removed : DeadRowAllowed(DeadLetter(row[m], txn[c].ts))

\* The attempt counter, in the live row and in the dead letter, is the number
\* of deliveries that committed: none lost to a concurrent dequeue, none
\* counted for a dequeue that rolled back.
AttemptsCountDeliveries ==
  \A m \in Messages :
    LET delivered == Cardinality({l \in leases : l.message = m})
    IN  /\ row[m] # None => row[m].delivery_attempts = delivered
        /\ dlq[m] # None => dlq[m].delivery_attempts = delivered

\* A message is dead-lettered only after each consumer it was given to has
\* had its whole visibility timeout.
DeadLetterAfterLastLease ==
  \A m \in Messages : dlq[m] # None =>
    \A l \in leases : l.message = m => l.until <= dlq[m].dead_lettered_at

\* A message is in one place at most, and once acknowledged, expired or purged
\* in none ever again: no commit brings back a row another one deleted.
FatesMatchTables ==
  \A m \in Messages : /\ (fate[m] = "live") <=> (row[m] # None)
                      /\ (fate[m] = "dead") <=> (dlq[m] # None)

\* The trigger-maintained count of every slot is the number of rows in it, so
\* it never goes negative (which would fail the message statement).
RollupExact ==
  \A k \in Slot :
    rollup[k] = Cardinality({m \in Messages : row[m] # None /\ SlotOf(m, row[m]) = k})

\* Only the consumer that holds the message's latest lease, asking before the
\* lease elapsed, makes the message leave as acknowledged.
AcknowledgedByHolder ==
  [][\A m \in Messages : fate[m] = "live" /\ fate'[m] = "acknowledged" =>
       \E c \in Clients, l \in leases :
         /\ Running(c, "acknowledge", TRUE)
         /\ l.message = m /\ l.receipt = txn[c].receipt /\ txn[c].ts < l.until
         /\ \A k \in leases : k.message = m => k.from <= l.from]_vars

\* With a cleaner running, no message stays for ever: each is acknowledged,
\* or expires, or is purged from the DLQ.
EveryMessageSettles ==
  \A m \in Messages :
    fate[m] = "live" ~> fate[m] \in {"acknowledged", "expired", "purged"}

\* The CHECK delivery_not_before_enqueue holds of the rows dequeue writes.
\* The migration says that new messages are immediately visible; a dequeue
\* that sees one committed after its own CURRENT_TIMESTAMP stamps the
\* delivery earlier than the enqueue.
NewMessagesDeliverable ==
  \A c \in Callers : Running(c, "dequeue", TRUE) /\ txn[c].image # None =>
    RowAllowed(txn[c].image)
=============================================================================
