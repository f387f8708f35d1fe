----------------------- MODULE MessageStoreInvariant -----------------------
(***************************************************************************)
(* The inductive invariant behind MessageStore's theorems.  TypeOK and the *)
(* properties of MessageStore are not inductive: a commit uses rows that   *)
(* were read at the claim, so what the claim saw has to be remembered.     *)
(***************************************************************************)
EXTENDS MessageStore

\* What each kind of transaction has filled in, before and after its claim.
Shape(t) ==
  /\ t.op = "idle" => t = Idle
  /\ ~t.claimed => t.removed = {} /\ t.image = None
  /\ t.op = "enqueue" => /\ t.queue \in Queues
                         /\ t.message \in Messages
                         /\ t.removed = {}
                         /\ t.claimed => t.image # None /\ t.image.state = "READY"
  /\ t.op = "dequeue" => /\ t.queue \in Queues
                         /\ t.receipt \in Handles
                         /\ t.image # None => /\ t.message \in Messages \ t.removed
                                              /\ t.image.state = "IN_FLIGHT"
  /\ t.op \in {"acknowledge", "expire"} => t.image = None
  /\ t.op = "acknowledge" => /\ t.message \in Messages
                             /\ t.receipt \in Handles
                             /\ t.removed \subseteq {t.message}

TransactionShape == \A c \in Callers : Shape(txn[c])

\* A row is locked by one transaction at most and stays until it ends; a
\* message being enqueued is nobody else's.
RowLocks ==
  /\ \A c, d \in Callers : c # d => Held(txn[c]) \cap Held(txn[d]) = {}
  /\ \A c \in Callers : txn[c].op # "enqueue" => \A m \in Held(txn[c]) : row[m] # None
  /\ \A c \in Callers : txn[c].op = "enqueue" => fate[txn[c].message] = "new"
  /\ \A c, d \in Callers :
       c # d /\ txn[c].op = "enqueue" /\ txn[d].op = "enqueue" => txn[c].message # txn[d].message

\* Every stored row passed the CHECKs, and none was delivered in the future.
StoredRows ==
  \A m \in Messages : row[m] # None =>
    /\ RowAllowed(row[m])
    /\ row[m].state = "IN_FLIGHT" => row[m].last_delivered_at <= now

\* What a claim saw of the rows it holds is still so when it commits.
ClaimHolds(t) ==
  /\ t.ts <= now
  /\ t.op \in {"dequeue", "expire"} =>
       \A m \in t.removed : row[m].state = "READY" \/ row[m].available_after <= t.ts
  /\ t.op = "dequeue" =>
       \A m \in t.removed : row[m].state = "IN_FLIGHT"
  /\ t.op = "dequeue" /\ t.image # None =>
       /\ row[t.message].state = "READY" \/ row[t.message].available_after <= t.ts
       /\ \E timeout \in Timeouts :
            t.image = LeasedRow(row[t.message], t.receipt, t.ts, timeout)
  /\ t.op = "acknowledge" =>
       \A m \in t.removed : /\ row[m].receipt_handle = t.receipt
                            /\ row[m].available_after > t.ts

ClaimsHold == \A c \in Callers : ClaimHolds(txn[c])

\* The stored row is the end of the message's delivery history: it carries
\* the latest lease, and every earlier one ended before that began.
LeaseHistory ==
  /\ \A l \in leases : l.from < l.until /\ fate[l.message] # "new"
  /\ \A l \in leases : row[l.message] # None =>
       /\ row[l.message].state = "IN_FLIGHT"
       /\ l.until <= row[l.message].available_after
  /\ \A m \in Messages : row[m] # None /\ row[m].state = "IN_FLIGHT" =>
       [message |-> m, receipt |-> row[m].receipt_handle,
        from |-> row[m].last_delivered_at, until |-> row[m].available_after] \in leases
  /\ LeasesNeverOverlap

\* A lease that has not elapsed is the row's own, or its message is done with.
RunningLeases ==
  \A l \in leases : l.until > now =>
    fate[l.message] = "acknowledged" \/ row[l.message] # None

\* The part that types the variables and keeps the tables, the locks and the
\* transactions in step.
LockInv == TypeOK /\ TransactionShape /\ RowLocks /\ FatesMatchTables

\* What the theorems about deliveries rest on.
DeliveryInv == LockInv /\ StoredRows /\ ClaimsHold /\ LeaseHistory /\ RunningLeases
=============================================================================
