----------------------- MODULE MessageStoreRefinement -----------------------
(***************************************************************************)
(* MessageStore implements MessageLifecycle.  A call takes effect when its *)
(* transaction commits; its claim and its insert are not seen.             *)
(***************************************************************************)
EXTENDS MessageStoreInvariant

Stored(m) == row[m] # None

\* An absent lease is no lease.
ASSUME NoLeaseAssumption == None \notin [receipt : Handles, until : Nat]

-----------------------------------------------------------------------------
(* The abstract state, as it is read off the tables and transactions.      *)

HomeMap == [m \in Messages |-> IF Stored(m) THEN row[m].queue_id ELSE None]

ExpiryMap == [m \in Messages |-> IF Stored(m) THEN row[m].expires_at ELSE 0]

LeaseMap ==
  [m \in Messages |->
     IF Stored(m) /\ row[m].state = "IN_FLIGHT"
     THEN [receipt |-> row[m].receipt_handle, until |-> row[m].available_after]
     ELSE None]

TriesMap ==
  [m \in Messages |->
     IF Stored(m) THEN row[m].delivery_attempts
     ELSE IF dlq[m] # None THEN dlq[m].delivery_attempts ELSE 0]

HandlesSpent == {l.receipt : l \in leases}

\* A dequeue's transaction knows its message only from its claim on.
CallOf(t) ==
  [op |-> t.op, ts |-> t.ts, queue |-> t.queue,
   message |-> IF t.op \in {"enqueue", "acknowledge"} THEN t.message ELSE None,
   receipt |-> t.receipt]

CallMap == [c \in Callers |-> CallOf(txn[c])]

Lifecycle == INSTANCE MessageLifecycle WITH
  stage <- fate, home <- HomeMap, expiry <- ExpiryMap, lease <- LeaseMap,
  tries <- TriesMap, spent <- HandlesSpent, call <- CallMap

-----------------------------------------------------------------------------
\* What a claim saw of the columns DeliveryInv says nothing of.
ClaimSaw(t) ==
  /\ t.op = "enqueue" /\ t.claimed =>
       \E ttl \in Lifetimes : /\ t.image.queue_id = t.queue
                              /\ t.image.expires_at = t.ts + ttl
                              /\ t.image.delivery_attempts = 0
  /\ t.op = "dequeue" /\ t.claimed =>
       /\ \A m \in Held(t) : row[m].queue_id = t.queue /\ row[m].expires_at > t.ts
       /\ \E limit \in AttemptLimits :
            /\ \A m \in t.removed : row[m].delivery_attempts >= limit
            /\ t.image # None => row[t.message].delivery_attempts < limit
  /\ t.op = "expire" => \A m \in t.removed : row[m].expires_at <= t.ts
  /\ t.op = "acknowledge" => \A m \in t.removed : row[m].queue_id = t.queue

\* A dequeue's handle is its own until it commits.
FreshReceipts ==
  \A c \in Callers : txn[c].op = "dequeue" =>
    /\ \A l \in leases : l.receipt # txn[c].receipt
    /\ \A d \in Callers \ {c} : txn[d].op = "dequeue" => txn[d].receipt # txn[c].receipt

ClaimsSaw == \A c \in Callers : ClaimSaw(txn[c])

\* Statements that others fall into and that use old timestamps are seen from
\* outside as whole operations, each at one moment between request and reply, on
\* exactly the messages of that moment: deliveries of one queue, exclusive for
\* their timeout and counted, acknowledgements by the current handle alone, no
\* removal of an active delivery, one attempt limit for all a dequeue does.
ImplementsLifecycle == Lifecycle!LifecycleSpec

\* The part of the refinement's invariant that DeliveryInv leaves out.
ClaimInv == ClaimsSaw /\ FreshReceipts
=============================================================================
