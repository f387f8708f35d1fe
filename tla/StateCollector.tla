--------------------------- MODULE StateCollector ---------------------------
(***************************************************************************)
(* The queue state collector's query over the message tables.  The query   *)
(* reads the trigger-maintained counts, which know nothing of elapsed      *)
(* leases and expired messages, and corrects them with counts of the rows  *)
(* that time has moved.  It changes no state: it is an expression here,    *)
(* evaluated at every state of MessageStore and at every timestamp its     *)
(* transaction may have begun with.                                        *)
(***************************************************************************)
EXTENDS MessageStore, FiniteSetsExt

ASSUME ShardsAssumption == IsFiniteSet(Shards)

\* physical_state: the sum of a queue and priority's shards.
Physical(q, p, s) ==
  LET count == [sh \in Shards |->
                  rollup[[queue_id |-> q, priority |-> p, shard |-> sh, state |-> s]]]
  IN  MapThenSumSet(LAMBDA sh : count[sh], Shards)

InState(q, p, s) ==
  {m \in Messages : /\ row[m] # None
                    /\ row[m].queue_id = q /\ row[m].priority = p /\ row[m].state = s}

ExpiredReady(q, p, ts) == {m \in InState(q, p, "READY") : row[m].expires_at <= ts}

TimedOut(q, p, ts) == {m \in InState(q, p, "IN_FLIGHT") : row[m].available_after <= ts}

Retryable(q, p, ts) ==
  {m \in TimedOut(q, p, ts) :
     /\ row[m].expires_at > ts
     /\ row[m].delivery_attempts < settings[q].max_delivery_attempts}

CollectedReady(q, p, ts) ==
  Physical(q, p, "READY") - Cardinality(ExpiredReady(q, p, ts))
                          + Cardinality(Retryable(q, p, ts))

\* Mutant: an elapsed lease that cannot be retried stays in flight.
CollectedInFlight_RetryableOnly(q, p, ts) ==
  Physical(q, p, "IN_FLIGHT") - Cardinality(Retryable(q, p, ts))

CollectedInFlight(q, p, ts) ==
  Physical(q, p, "IN_FLIGHT") - Cardinality(TimedOut(q, p, ts))

FreshReady(q, p, ts) == {m \in InState(q, p, "READY") : row[m].expires_at > ts}

Leased(q, p, ts) == {m \in InState(q, p, "IN_FLIGHT") : row[m].available_after > ts}

\* No row gives an age of 0, and so does a row as old as the timestamp.
OldestAge(S, ts) == IF S = {} THEN 0 ELSE ts - Min({row[m].enqueued_at : m \in S})

\* Mutant: messages waiting to be delivered again have no age.
OldestReadyAge_FreshOnly(q, p, ts) == OldestAge(FreshReady(q, p, ts), ts)

\* LEAST of two rows, either of which may be missing.
OldestReadyAge(q, p, ts) == OldestAge(FreshReady(q, p, ts) \cup Retryable(q, p, ts), ts)

OldestInFlightAge(q, p, ts) == OldestAge(Leased(q, p, ts), ts)

-----------------------------------------------------------------------------
(* Properties. *)

OfPriority(p) == {m \in Messages : row[m] # None /\ row[m].priority = p}
Waiting(q, p, ts) == {m \in OfPriority(p) : Deliverable(m, q, ts)}
OnLease(q, p, ts) == {m \in OfPriority(p) : \E h \in Handles : Acknowledgeable(m, q, h, ts)}

IsAge(age, S, ts) ==
  \/ S = {} /\ age = 0
  \/ \E m \in S : /\ age = ts - row[m].enqueued_at
                  /\ \A n \in S : row[n].enqueued_at >= row[m].enqueued_at

\* Two pieces of code written apart agree at every moment: the ready gauge of
\* a queue and priority counts exactly the messages a dequeue with the same
\* timestamp may be given, and the in-flight gauge exactly those whose
\* consumer may still acknowledge them.  Neither is ever negative, which the
\* collector would report as an error.  The two ages are those of the oldest
\* messages among the same ones, leased before or not, whichever branch of the
\* query finds them.
GaugesMatchDequeue ==
  \A q \in Queues, p \in Priorities, ts \in 0 .. now :
    settings[q] # None =>
      LET waiting == Waiting(q, p, ts)
          onLease == OnLease(q, p, ts)
      IN  /\ CollectedReady(q, p, ts) = Cardinality(waiting)
          /\ CollectedInFlight(q, p, ts) = Cardinality(onLease)
          /\ IsAge(OldestReadyAge(q, p, ts), waiting, ts)
          /\ IsAge(OldestInFlightAge(q, p, ts), onLease, ts)
=============================================================================
