--------------------------- MODULE MessageLifecycle ---------------------------
(***************************************************************************)
(* What the message store promises, without tables, snapshots, row locks   *)
(* or images: the life of a message as message-lifecycle.md draws it.  A   *)
(* call is asked at a time, and later takes effect, whole and in one step, *)
(* on the messages as they are at that step, or has no effect.  Whether a   *)
(* delivery was over is judged by the time of asking.                      *)
(***************************************************************************)
EXTENDS Integers

CONSTANTS Queues, Messages, Handles, Callers, Timeouts, AttemptLimits, Lifetimes, None

VARIABLES
  now,
  stage,   \* [Messages -> how far each has got: "new", "live", "dead", ...]
  home,    \* [Messages -> the queue of a live message]
  expiry,  \* [Messages -> when a live message's lifetime ends]
  lease,   \* [Messages -> the latest delivery of a live message]
  tries,   \* [Messages -> deliveries of a live or dead message]
  spent,   \* receipt handles handed out so far
  call     \* [Callers -> what each has asked and was not answered yet]

lifecycleVars == <<now, stage, home, expiry, lease, tries, spent, call>>

NoCall == [op |-> "idle", ts |-> 0, queue |-> None, message |-> None, receipt |-> None]

Ask(c, op, q, m, h) ==
  /\ call' = [call EXCEPT ![c] =
                [op |-> op, ts |-> now, queue |-> q, message |-> m, receipt |-> h]]
  /\ UNCHANGED <<now, stage, home, expiry, lease, tries, spent>>

\* What the store does for a call is over when the call is answered.
Answer(c, op) ==
  /\ call[c].op = op
  /\ call' = [call EXCEPT ![c] = NoCall]
  /\ UNCHANGED now

\* The call failed, was lost or found nothing to do.
NoEffect(c) ==
  /\ call' = [call EXCEPT ![c] = NoCall]
  /\ UNCHANGED <<now, stage, home, expiry, lease, tries, spent>>

Enqueue(c) ==
  /\ Answer(c, "enqueue")
  /\ stage[call[c].message] = "new"
  /\ stage' = [stage EXCEPT ![call[c].message] = "live"]
  /\ home' = [home EXCEPT ![call[c].message] = call[c].queue]
  /\ \E ttl \in Lifetimes : expiry' = [expiry EXCEPT ![call[c].message] = call[c].ts + ttl]
  /\ UNCHANGED <<lease, tries, spent>>

-----------------------------------------------------------------------------
\* No delivery of m was running at time ts.
Free(m, ts) == lease[m] = None \/ lease[m].until <= ts

\* m is a message a dequeue of q asked at time ts may move.
InQueue(m, q, ts) == stage[m] = "live" /\ home[m] = q /\ expiry[m] > ts /\ Free(m, ts)

Without(S, f, absent) == [m \in Messages |-> IF m \in S THEN absent ELSE f[m]]

\* The messages of S leave the queue and end in the given stage.
Leave(S, end) ==
  /\ stage' = Without(S, stage, end)
  /\ home' = Without(S, home, None)
  /\ expiry' = Without(S, expiry, 0)

\* Messages nobody acknowledged in time are put aside once they have had limit
\* deliveries, and there is nothing else to deliver.
DequeueNothing(c, D) ==
  /\ Answer(c, "dequeue")
  /\ \E limit \in AttemptLimits :
       \A m \in D : InQueue(m, call[c].queue, call[c].ts) /\ lease[m] # None /\ tries[m] >= limit
  /\ Leave(D, "dead")
  /\ lease' = Without(D, lease, None)
  /\ UNCHANGED <<tries, spent>>

\* One message of the queue, free when the caller asked and with a delivery
\* left, is the caller's alone for the queue's timeout from the asking on,
\* under a handle nobody has seen.
Deliver(c, D, m) ==
  /\ Answer(c, "dequeue")
  /\ \E limit \in AttemptLimits :
       /\ \A d \in D : InQueue(d, call[c].queue, call[c].ts) /\ lease[d] # None /\ tries[d] >= limit
       /\ InQueue(m, call[c].queue, call[c].ts) /\ tries[m] < limit
  /\ call[c].receipt \notin spent
  /\ Leave(D, "dead")
  /\ \E timeout \in Timeouts :
       lease' = [Without(D, lease, None) EXCEPT ![m] =
                   [receipt |-> call[c].receipt, until |-> call[c].ts + timeout]]
  /\ tries' = [tries EXCEPT ![m] = @ + 1]
  /\ spent' = spent \cup {call[c].receipt}

\* Only the handle of the current delivery, before it ends, removes a message.
Acknowledge(c) ==
  LET m == call[c].message
  IN  /\ Answer(c, "acknowledge")
      /\ stage[m] = "live" /\ home[m] = call[c].queue
      /\ lease[m] # None /\ lease[m].receipt = call[c].receipt /\ lease[m].until > call[c].ts
      /\ Leave({m}, "acknowledged")
      /\ lease' = Without({m}, lease, None)
      /\ tries' = Without({m}, tries, 0)
      /\ UNCHANGED spent

\* An active delivery is not removed early.
Expire(c, S) ==
  /\ Answer(c, "expire")
  /\ \A m \in S : stage[m] = "live" /\ expiry[m] <= call[c].ts /\ Free(m, call[c].ts)
  /\ Leave(S, "expired")
  /\ lease' = Without(S, lease, None)
  /\ tries' = Without(S, tries, 0)
  /\ UNCHANGED spent

Purge(S) ==
  /\ \A m \in S : stage[m] = "dead"
  /\ stage' = Without(S, stage, "purged")
  /\ tries' = Without(S, tries, 0)
  /\ UNCHANGED <<now, home, expiry, lease, spent, call>>

Advance ==
  /\ now' > now
  /\ UNCHANGED <<stage, home, expiry, lease, tries, spent, call>>

-----------------------------------------------------------------------------
LifecycleInit ==
  /\ now = 0
  /\ stage = [m \in Messages |-> "new"]
  /\ home = [m \in Messages |-> None]
  /\ expiry = [m \in Messages |-> 0]
  /\ lease = [m \in Messages |-> None]
  /\ tries = [m \in Messages |-> 0]
  /\ spent = {}
  /\ call = [c \in Callers |-> NoCall]

\* An enqueue's message is new, and a dequeue's handle is not one handed out.
Asking(c) ==
  /\ call[c] = NoCall
  /\ \/ \E q \in Queues, m \in Messages : stage[m] = "new" /\ Ask(c, "enqueue", q, m, None)
     \/ \E q \in Queues, h \in Handles \ spent : Ask(c, "dequeue", q, None, h)
     \/ \E q \in Queues, m \in Messages, h \in spent : Ask(c, "acknowledge", q, m, h)
     \/ Ask(c, "expire", None, None, None)

Answering(c) ==
  \/ NoEffect(c) \/ Enqueue(c) \/ Acknowledge(c)
  \/ \E S \in SUBSET Messages :
       \/ DequeueNothing(c, S) \/ Expire(c, S)
       \/ \E m \in Messages \ S : Deliver(c, S, m)

LifecycleNext ==
  \/ \E c \in Callers : Answering(c) \/ Asking(c)
  \/ \E S \in SUBSET Messages : Purge(S)
  \/ Advance

LifecycleSpec == LifecycleInit /\ [][LifecycleNext]_lifecycleVars
=============================================================================
