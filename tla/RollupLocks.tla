----------------------------- MODULE RollupLocks -----------------------------
(***************************************************************************)
(* How the triggers of queue_message lock the rows of                      *)
(* queue_priority_state_shard.  MessageStore takes the counts to change    *)
(* with the commit; here a statement adjusts them one row at a time, waits *)
(* for rows other statements have changed, and inserts rows that are       *)
(* missing.  Which messages a statement may touch is MessageStore's        *)
(* business: here it is any set of messages no other statement has locked. *)
(***************************************************************************)
EXTENDS Integers, FiniteSets, Sequences

CONSTANTS
  Messages, Callers,
  Slots,   \* (queue, priority, shard) triples, numbered in their key's order
  SlotOf,  \* [Messages -> Slots]
  None

ASSUME SlotsAssumption == Slots \subseteq Nat /\ IsFiniteSet(Slots)
ASSUME SlotOfAssumption == SlotOf \in [Messages -> Slots] /\ IsFiniteSet(Messages)

VARIABLES
  message,  \* [Messages -> the committed state of its row]
  count,    \* table queue_priority_state_shard: [Slots -> counts or None]
  txn       \* [Callers -> the statement each one runs]

vars == <<message, count, txn>>

States == {"READY", "IN_FLIGHT"}
Counts == [States -> Int]
Zero == [s \in States |-> 0]

\* A slot without a row is told from any counts.
ASSUME NoneAssumption == None \notin Counts

Plus(f, g) == [s \in States |-> f[s] + g[s]]

\* One run of the trigger: what it was fired for and the rows still to adjust.
Batch == [op : {"INSERT", "DELETE", "UPDATE"}, slots : SUBSET Slots]

Transaction ==
  [active : BOOLEAN, inserted : SUBSET Messages, removed : SUBSET Messages,
   leased : SUBSET Messages, batches : Seq(Batch),
   absent : BOOLEAN,               \* the UPDATE found no row for the next slot
   changed : [Slots -> Counts]]    \* uncommitted changes, Zero where there is none

Idle ==
  [active |-> FALSE, inserted |-> {}, removed |-> {}, leased |-> {}, batches |-> <<>>,
   absent |-> FALSE, changed |-> [k \in Slots |-> Zero]]

-----------------------------------------------------------------------------
(* The trigger's aggregates.                                               *)

SlotsOf(S) == {SlotOf[m] : m \in S}

Tally(S, k) ==
  [s \in States |-> Cardinality({m \in S : SlotOf[m] = k /\ message[m] = s})]

Minus(f) == [s \in States |-> - f[s]]

\* Mutant: the UPDATE branch forgets the rows' old state.
Delta_NoOldState(t, op, k) ==
  IF op = "DELETE" THEN Minus(Tally(t.removed, k))
  ELSE IF op = "INSERT" THEN [READY |-> Cardinality({m \in t.inserted : SlotOf[m] = k}), IN_FLIGHT |-> 0]
  ELSE [READY |-> 0, IN_FLIGHT |-> Tally(t.leased, k)["READY"]]

\* The adjustment of slot k by the trigger's branch op.
Delta(t, op, k) ==
  LET fresh == Cardinality({m \in t.inserted : SlotOf[m] = k})
      moved == Tally(t.leased, k)["READY"]
  IN  [INSERT |-> [READY |-> fresh, IN_FLIGHT |-> 0],
       DELETE |-> Minus(Tally(t.removed, k)),
       UPDATE |-> [READY |-> - moved, IN_FLIGHT |-> moved]][op]

\* A statement that deletes or inserts nothing fires the trigger over an empty
\* transition table, and the UPDATE branch leaves early for a renewed lease.
Fired(op, S) == IF S = {} THEN <<>> ELSE <<[op |-> op, slots |-> SlotsOf(S)]>>

Moved(S) == {m \in S : message[m] = "READY"}

-----------------------------------------------------------------------------
(* Statements.  Their message rows are locked from the start to the end.   *)

\* Mutant: the statements do not lock the message rows they read.
Free_NoRowLocks(c) == {m \in Messages : message[m] \in States}

Free(c) ==
  {m \in Messages : /\ message[m] \in States
                    /\ \A d \in Callers \ {c} : m \notin txn[d].removed \cup txn[d].leased}

Start(c, inserted, removed, leased, batches) ==
  /\ ~ txn[c].active
  /\ txn' = [txn EXCEPT ![c] =
       [active |-> TRUE, inserted |-> inserted, removed |-> removed, leased |-> leased,
        batches |-> batches, absent |-> FALSE, changed |-> [k \in Slots |-> Zero]]]
  /\ UNCHANGED <<message, count>>

EnqueueMessage(c) ==
  \E m \in Messages :
    /\ message[m] = "new"
    /\ \A d \in Callers : m \notin txn[d].inserted
    /\ Start(c, {m}, {}, {}, Fired("INSERT", {m}))

AcknowledgeMessage(c) ==
  \E m \in Free(c) :
    /\ message[m] = "IN_FLIGHT"
    /\ Start(c, {}, {m}, {}, Fired("DELETE", {m}))

ProcessExpiredMessages(c) ==
  \E S \in SUBSET Free(c) : Start(c, {}, S, {}, Fired("DELETE", S))

\* Exhausted messages are deleted and at most one is leased by one statement,
\* so the trigger runs twice, in the order in which the executor gets to the
\* end of the two parts.
DequeueMessage(c) ==
  \E dead \in SUBSET {m \in Free(c) : message[m] = "IN_FLIGHT"},
     leased \in {{}} \cup {{m} : m \in Free(c)} :
    LET deleted == Fired("DELETE", dead)
        updated == Fired("UPDATE", Moved(leased))
    IN  /\ dead \cap leased = {}
        /\ \/ Start(c, {}, dead, leased, deleted \o updated)
           \/ Start(c, {}, dead, leased, updated \o deleted)

-----------------------------------------------------------------------------
(* adjust_queue_priority_state, for the next slot of the running batch.    *)

Adjusting(c) == txn[c].active /\ txn[c].batches # <<>>

\* Mutant: the aggregate is not ordered.
NextSlots_Unordered(slots) == slots

\* ORDER BY queue_id, priority, shard
NextSlots(slots) == {k \in slots : \A j \in slots : k <= j}

Branch(c) == Head(txn[c].batches)
Next1(c) == NextSlots(Branch(c).slots)

\* c has changed (or inserted) the row of k and holds its lock.
Holds(c, k) == txn[c].changed[k] # Zero

HeldByOther(c, k) == \E d \in Callers \ {c} : Holds(d, k)

Stored(k) == IF count[k] = None THEN Zero ELSE count[k]

Adjusted(c, k) == Plus(Plus(Stored(k), txn[c].changed[k]), Delta(txn[c], Branch(c).op, k))

Decrements(c, k) == \E s \in States : Delta(txn[c], Branch(c).op, k)[s] < 0

\* The row of k is c's to change; the rest of the batch, or the next, follows.
Adjust(c, k) ==
  LET left == Branch(c).slots \ {k}
      rest == Tail(txn[c].batches)
  IN  /\ \A s \in States : Adjusted(c, k)[s] >= 0
      /\ txn' = [txn EXCEPT
           ![c].changed[k] = Plus(txn[c].changed[k], Delta(txn[c], Branch(c).op, k)),
           ![c].absent = FALSE,
           ![c].batches = IF left = {} THEN rest
                          ELSE <<[op |-> Branch(c).op, slots |-> left]>> \o rest]
      /\ UNCHANGED <<message, count>>

UpdateShard(c) ==
  /\ Adjusting(c)
  /\ \E k \in Next1(c) :
       /\ ~ txn[c].absent
       /\ Holds(c, k) \/ (count[k] # None /\ ~ HeldByOther(c, k))
       /\ Adjust(c, k)

\* No visible row, be it that another statement is inserting it.
ShardNotFound(c) ==
  /\ Adjusting(c)
  /\ \E k \in Next1(c) :
       /\ ~ txn[c].absent /\ ~ Holds(c, k) /\ count[k] = None
       /\ ~ Decrements(c, k)
  /\ txn' = [txn EXCEPT ![c].absent = TRUE]
  /\ UNCHANGED <<message, count>>

\* INSERT ... ON CONFLICT DO UPDATE waits for a row another one is inserting.
InsertShard(c) ==
  /\ Adjusting(c)
  /\ txn[c].absent
  /\ \E k \in Next1(c) : ~ HeldByOther(c, k) /\ Adjust(c, k)

\* Mutant: SET ready_count = ready_delta, in_flight_count = in_flight_delta.
Committed_Overwrite(t, k) == IF t.changed[k] = Zero THEN count[k] ELSE t.changed[k]

Committed(t, k) ==
  IF t.changed[k] = Zero THEN count[k] ELSE Plus(Stored(k), t.changed[k])

Commit(c) ==
  LET t == txn[c]
  IN  /\ t.active
      /\ t.batches = <<>>
      /\ count' = [k \in Slots |-> Committed(t, k)]
      /\ message' = [m \in Messages |->
                       IF m \in t.inserted THEN "READY"
                       ELSE IF m \in t.removed THEN "gone"
                       ELSE IF m \in t.leased THEN "IN_FLIGHT"
                       ELSE message[m]]
      /\ txn' = [txn EXCEPT ![c] = Idle]

\* The caller is gone, an adjustment raised an error, or PostgreSQL picked the
\* statement to break a deadlock.
Abort(c) ==
  /\ txn[c].active
  /\ txn' = [txn EXCEPT ![c] = Idle]
  /\ UNCHANGED <<message, count>>

Init ==
  /\ message = [m \in Messages |-> "new"]
  /\ count = [k \in Slots |-> None]
  /\ txn = [c \in Callers |-> Idle]

Next ==
  \E c \in Callers :
    \/ EnqueueMessage(c) \/ AcknowledgeMessage(c) \/ ProcessExpiredMessages(c) \/ DequeueMessage(c)
    \/ UpdateShard(c) \/ ShardNotFound(c) \/ InsertShard(c)
    \/ Commit(c) \/ Abort(c)

Spec == Init /\ [][Next]_vars

-----------------------------------------------------------------------------
(* Properties. *)

TypeOK ==
  /\ message \in [Messages -> {"new", "gone"} \cup States]
  /\ count \in [Slots -> [States -> Nat] \cup {None}]
  /\ txn \in [Callers -> Transaction]

\* c's next adjustment waits for a row that d has changed.
WaitsFor(c, d) ==
  /\ c # d
  /\ Adjusting(c)
  /\ \E k \in Next1(c) : Holds(d, k) /\ (count[k] # None \/ txn[c].absent)

Deadlocked(S) == S # {} /\ \A c \in S : \E d \in S : WaitsFor(c, d)

\* The branches that c has still to run, or has run, are of one kind.
OneBatch(c) == txn[c].removed = {} \/ Moved(txn[c].leased) = {}

\* Enqueues, acknowledgements, expiry batches of many shards and dequeues that
\* dead-letter nothing never wait for each other in a circle, whatever rows of
\* counts they share and whichever of those are still missing.
OrderedStatementsNeverDeadlock ==
  \A S \in SUBSET Callers : (\A c \in S : OneBatch(c)) => ~ Deadlocked(S)

\* The stored counts are those of the committed rows at every moment, although
\* many statements have uncommitted changes to them and to each other's slots.
CountsExact ==
  \A k \in Slots : Stored(k) = Tally(Messages, k)

\* No decrement meets a missing row or would go below zero: the two guards
\* against drift never fail a statement.
DecrementsSucceed ==
  \A c \in Callers : Adjusting(c) => \A k \in Next1(c) :
    /\ Decrements(c, k) => Holds(c, k) \/ count[k] # None
    /\ \A s \in States : Adjusted(c, k)[s] >= 0

\* The migration says that the ordered aggregate gives concurrent transactions
\* a consistent shard-lock order.  A dequeue that dead-letters locks shards in
\* two such orders, one after the other.
ConsistentShardLockOrder == \A S \in SUBSET Callers : ~ Deadlocked(S)
=============================================================================
