-------------------------- MODULE QueueDetailsCache --------------------------
(***************************************************************************)
(* The shared (level 2) cache of one queue's details: every lookup, create  *)
(* and update of the queue by requests of any API or worker process, each a *)
(* sequence of Redis commands and PostgreSQL statements that the others'    *)
(* fall between.  The key of a queue and its loading marker are independent *)
(* of every other queue's, so one queue is enough.                          *)
(*                                                                         *)
(* A version stands for the details: 0 is no queue at all, 1 what create    *)
(* stored, and each committed update makes the next one.  Time is counted   *)
(* in ticks, as what is left to live of the keys.                           *)
(***************************************************************************)
EXTENDS Integers, FiniteSets

CONSTANTS
  Callers,      \* requests that may be looking up or changing the queue
  DetailsTtl, MissingTtl, LoadLockTtl,
  CommandDelay, \* ticks a cache command may take (its timeout; for a write the
                \* reply of the statement that read the details included)
  LoadDelay,    \* bound: ticks a marker's holder takes to read PostgreSQL
  MaxVersion,   \* bound: versions of the queue
  None

ASSUME TtlAssumption == {DetailsTtl, MissingTtl, LoadLockTtl} \subseteq Nat \ {0}
ASSUME DelayAssumption == {CommandDelay, LoadDelay, MaxVersion} \subseteq Nat \ {0}

VARIABLES
  stored,  \* PostgreSQL: the version committed last
  entry,   \* the key queue_details:<id>: what it holds and for how long still
  marker,  \* the key of the loading marker: ticks left, 0 when absent
  call,    \* [Callers -> what each request is at]
  stale    \* history: ticks since each version was replaced

vars == <<stored, entry, marker, call, stale>>

Versions == 0 .. MaxVersion

Entry == [version : Versions, left : 1 .. DetailsTtl + MissingTtl]

ASSUME NoneAssumption == None \notin Entry \cup {0}

\* Where a request is: the Redis command or the statement it waits for.
CacheSteps == {"read", "lock", "recheck", "poll", "write"}
DatabaseSteps == {"load", "direct", "create", "update"}

\* version is what a "write" is about to store, since the ticks since the
\* request acquired the marker or received that version.
Call == [at : {"idle"} \cup CacheSteps \cup DatabaseSteps, version : Versions, since : Nat]

At(step, v, since) == [at |-> step, version |-> v, since |-> since]

\* The longest a superseded version may be served.
MaxStale == CommandDelay + IF MissingTtl < DetailsTtl THEN DetailsTtl ELSE MissingTtl

Go(c, step) == call' = [call EXCEPT ![c] = At(step, 0, 0)]

\* The request has its answer, a value or an error.
Return(c) == Go(c, "idle")

\* Mutant: the details are stored without an expiry of their own.
Ttl_KeepTtl(v) == IF entry = None THEN DetailsTtl ELSE entry.left

\* Mutant: the duration's seconds are sent as the milliseconds of PX, and back.
Ttl_WrongUnit(v) == 1000 * (IF v = 0 THEN MissingTtl ELSE DetailsTtl)

\* Found details live longer than the memory of a missing queue.
Ttl(v) == IF v = 0 THEN MissingTtl ELSE DetailsTtl

-----------------------------------------------------------------------------
(* Lookups: queue_details, and queue_name when the process does not know    *)
(* the name.                                                               *)

Lookup(c) ==
  /\ call[c].at = "idle"
  /\ Go(c, "read")
  /\ UNCHANGED <<stored, entry, marker, stale>>

\* GET: a hit is the answer; a cache error sends the request to PostgreSQL.
Get(c, step, onMiss) ==
  /\ call[c].at = step
  /\ \/ entry # None /\ Return(c)
     \/ entry = None /\ onMiss
     \/ Go(c, "direct")
  /\ UNCHANGED <<stored, entry, marker, stale>>

Read(c) == Get(c, "read", Go(c, "lock"))

\* The marker's holder looks again before it loads.
Recheck(c) == Get(c, "recheck", call' = [call EXCEPT ![c] = At("load", 0, call[c].since)])

\* Mutant: a waiter looks for the value only, and never tries for the marker.
Poll_NeverLock(c) == Get(c, "poll", Go(c, "poll"))

\* After the sleep of the retry interval.
Poll(c) == Get(c, "poll", Go(c, "lock"))

\* Mutant: SET without NX.
Absent_Ignored == TRUE

Absent == marker = 0

\* SET NX PX: one request gets the marker and the others wait.  A reply that
\* is lost sends the request to PostgreSQL and leaves the marker behind.
Acquire(c) ==
  /\ call[c].at = "lock"
  /\ Absent
  /\ marker' = LoadLockTtl
  /\ Go(c, "recheck") \/ Go(c, "direct")
  /\ UNCHANGED <<stored, entry, stale>>

Wait(c) ==
  /\ call[c].at = "lock"
  /\ (~Absent /\ Go(c, "poll")) \/ Go(c, "direct")
  /\ UNCHANGED <<stored, entry, marker, stale>>

\* The statement's snapshot; its failure is the answer, and the marker stays.
LoadSucceeds(c) ==
  /\ call[c].at = "load"
  /\ call' = [call EXCEPT ![c] = At("write", stored, 0)]
  /\ UNCHANGED <<stored, entry, marker, stale>>

LoadFails(c) ==
  /\ call[c].at = "load"
  /\ Return(c)
  /\ UNCHANGED <<stored, entry, marker, stale>>

ReadDirectly(c) ==
  /\ call[c].at = "direct"
  /\ Return(c)
  /\ UNCHANGED <<stored, entry, marker, stale>>

-----------------------------------------------------------------------------
(* Changes: PostgreSQL first, then the cache.                              *)

BeginCreate(c) ==
  /\ call[c].at = "idle"
  /\ stored = 0
  /\ Go(c, "create")
  /\ UNCHANGED <<stored, entry, marker, stale>>

BeginUpdate(c) ==
  /\ call[c].at = "idle"
  /\ Go(c, "update")
  /\ UNCHANGED <<stored, entry, marker, stale>>

\* The new details are what the statement returns.
Commit(c) ==
  /\ stored < MaxVersion
  /\ stored' = stored + 1
  /\ call' = [call EXCEPT ![c] = At("write", stored + 1, 0)]
  /\ UNCHANGED <<entry, marker, stale>>

\* Another queue has the name: no cache write.
CreateQueue(c) ==
  /\ call[c].at = "create"
  /\ \/ stored = 0 /\ Commit(c)
     \/ Return(c) /\ UNCHANGED <<stored, entry, marker, stale>>

\* There is no such queue, or the statement fails: no cache write.
UpdateQueue(c) ==
  /\ call[c].at = "update"
  /\ \/ stored # 0 /\ Commit(c)
     \/ Return(c) /\ UNCHANGED <<stored, entry, marker, stale>>

-----------------------------------------------------------------------------
\* SET PX, of a loader or of a change.  It never looks at what is there.
WriteSucceeds(c) ==
  /\ call[c].at = "write"
  /\ entry' = [version |-> call[c].version, left |-> Ttl(call[c].version)]
  /\ Return(c)
  /\ UNCHANGED <<stored, marker, stale>>

\* Logged, and the request succeeds all the same.
WriteFails(c) ==
  /\ call[c].at = "write"
  /\ Return(c)
  /\ UNCHANGED <<stored, entry, marker, stale>>

\* The request is dropped, or its process stops.
Lose(c) ==
  /\ call[c].at # "idle"
  /\ Return(c)
  /\ UNCHANGED <<stored, entry, marker, stale>>

\* The cache server evicts the details.  (The marker's two seconds are taken to
\* be too short for that; without it one more request reads PostgreSQL.)
Evict ==
  /\ entry # None
  /\ entry' = None
  /\ UNCHANGED <<stored, marker, call, stale>>

\* A tick passes.  No command outlives its timeout.
Tick ==
  /\ \A c \in Callers :
       /\ call[c].at \in CacheSteps => call[c].since < CommandDelay
       /\ call[c].at \in DatabaseSteps => call[c].since < LoadDelay
  /\ marker' = IF marker = 0 THEN 0 ELSE marker - 1
  /\ entry' = IF entry = None \/ entry.left = 1 THEN None
              ELSE [version |-> entry.version, left |-> entry.left - 1]
  /\ call' = [c \in Callers |->
                IF call[c].at = "idle" THEN call[c]
                ELSE At(call[c].at, call[c].version, call[c].since + 1)]
  /\ stale' = [v \in Versions |->
                 IF v < stored /\ stale[v] <= MaxStale THEN stale[v] + 1 ELSE stale[v]]
  /\ UNCHANGED stored

Init ==
  /\ stored = 0
  /\ entry = None
  /\ marker = 0
  /\ call = [c \in Callers |-> At("idle", 0, 0)]
  /\ stale = [v \in Versions |-> 0]

Step(c) ==
  \/ Read(c) \/ Recheck(c) \/ Poll(c) \/ Acquire(c) \/ Wait(c) \/ ReadDirectly(c)
  \/ LoadSucceeds(c) \/ LoadFails(c) \/ CreateQueue(c) \/ UpdateQueue(c)
  \/ WriteSucceeds(c) \/ WriteFails(c)

Next ==
  \/ \E c \in Callers : Lookup(c) \/ BeginCreate(c) \/ BeginUpdate(c) \/ Step(c) \/ Lose(c)
  \/ Evict
  \/ Tick

Spec == Init /\ [][Next]_vars

-----------------------------------------------------------------------------
(* Properties. *)

TypeOK ==
  /\ stored \in Versions
  /\ entry \in Entry \cup {None}
  /\ marker \in 0 .. LoadLockTtl
  /\ call \in [Callers -> Call]
  /\ stale \in [Versions -> 0 .. MaxStale + 1]

\* Whatever order two updates' writes and a slow loader's arrive in, and
\* although a stale value may replace a newer one, the details served were
\* current at most a TTL and one command ago: five minutes for settings, five
\* seconds for a queue that was missing (caching.md, Expiration and limits).
StaleAtMostTtl ==
  entry # None => stale[entry.version] <= Ttl(entry.version) - entry.left + CommandDelay

\* Two requests load at once only if the first has been at it for the whole
\* life of its marker: a miss does not send every process to PostgreSQL.
OneLoaderPerMarker ==
  \A c, d \in Callers :
    c # d /\ {call[c].at, call[d].at} \subseteq {"recheck", "load"} =>
      \/ call[c].since - call[d].since >= LoadLockTtl
      \/ call[d].since - call[c].since >= LoadLockTtl
=============================================================================
