------------------------- MODULE QueueNameCacheProofs -------------------------
(***************************************************************************)
(* Proofs about the two caches of a queue, for any requests, processes,    *)
(* times and number of versions.  The inductive invariant says how the age *)
(* of what is on its way to the cache is bounded by how long it has been on *)
(* its way, and the life left to a marker by how long its holder has it.   *)
(***************************************************************************)
EXTENDS QueueNameCache, TLAPS

Loaders == {"recheck", "load"}

\* Only versions that were replaced age.
CurrentIsFresh == \A v \in Versions : v >= stored => stale[v] = 0

\* What is about to be stored was current when the request received it.
WritesAreFresh ==
  \A c \in Callers : call[c].at = "write" => stale[call[c].version] <= call[c].since

\* No cache command outlives its timeout.
CommandsTimeOut ==
  \A c \in Callers : call[c].at \in CacheSteps => call[c].since <= CommandDelay

\* A marker lives until its holder has had it for LoadLockTtl.
MarkersLast ==
  \A c \in Callers : call[c].at \in Loaders => marker + call[c].since >= LoadLockTtl

\* Whatever is stored is at most as old as the time since it was stored and a
\* command: with what is on its way, this is inductive.
DetailsInv ==
  /\ TypeOK
  /\ CurrentIsFresh
  /\ WritesAreFresh
  /\ CommandsTimeOut
  /\ MarkersLast
  /\ OneLoaderPerMarker
  /\ StaleAtMostTtl

LEMMA Constants ==
  /\ DetailsTtl \in Nat /\ DetailsTtl >= 1
  /\ MissingTtl \in Nat /\ MissingTtl >= 1
  /\ LoadLockTtl \in Nat /\ LoadLockTtl >= 1
  /\ CommandDelay \in Nat /\ LoadDelay \in Nat /\ MaxVersion \in Nat /\ MaxVersion >= 1
  /\ MaxStale \in Nat
  /\ \A v \in Versions : Ttl(v) \in 1 .. DetailsTtl + MissingTtl /\ Ttl(v) + CommandDelay <= MaxStale
  BY TtlAssumption, DelayAssumption DEF MaxStale, Ttl, Versions

LEMMA InitDetails == Init => DetailsInv
  <1> SUFFICES ASSUME Init PROVE DetailsInv
    OBVIOUS
  <1>1. TypeOK
    BY Constants DEF Init, TypeOK, Call, At, Versions
  <1> QED
    BY <1>1 DEF Init, DetailsInv, CurrentIsFresh, WritesAreFresh, CommandsTimeOut,
       MarkersLast, OneLoaderPerMarker, StaleAtMostTtl, At, Loaders, CacheSteps

-----------------------------------------------------------------------------
\* A step of one request that stores nothing: it leaves the tables and the keys
\* alone, it may take the marker, and holds it only then or as it did before.
Moves(c) ==
  /\ UNCHANGED <<stored, entry, stale>>
  /\ \E a \in {"idle"} \cup CacheSteps \cup DatabaseSteps, v \in Versions, s \in Nat :
       /\ call' = [call EXCEPT ![c] = At(a, v, s)]
       /\ a = "write" => v = stored /\ s = 0
       /\ a \in CacheSteps => s = 0
       /\ \/ marker' = marker /\ (a \in Loaders => call[c].at \in Loaders /\ s = call[c].since)
          \/ marker = 0 /\ marker' = LoadLockTtl /\ s = 0

LEMMA StepMoves ==
  ASSUME DetailsInv, NEW c \in Callers, Lookup(c) \/ BeginCreate(c) \/ BeginUpdate(c) \/ Step(c) \/ Lose(c)
  PROVE  \/ Moves(c)
         \/ CreateQueue(c) /\ Commit(c)
         \/ UpdateQueue(c) /\ Commit(c)
         \/ WriteSucceeds(c)
  <1> USE DEF DetailsInv, TypeOK, Call, CacheSteps, DatabaseSteps, Loaders
  <1>0. 0 \in Versions /\ 0 \in Nat /\ stored \in Versions /\ call[c].since \in Nat
    BY Constants DEF Versions
  <1>1. CASE Lookup(c) \/ BeginCreate(c) \/ BeginUpdate(c) \/ Lose(c) \/ LoadFails(c)
             \/ ReadDirectly(c) \/ WriteFails(c)
    BY <1>0, <1>1 DEF Lookup, BeginCreate, BeginUpdate, Lose, LoadFails, ReadDirectly,
       WriteFails, Return, Go, Moves
  <1>2. CASE Read(c) \/ Poll(c)
    BY <1>0, <1>2 DEF Read, Poll, Get, Return, Go, Moves
  <1>3. CASE Recheck(c)
    BY <1>0, <1>3 DEF Recheck, Get, Return, Go, Moves
  <1>4. CASE Acquire(c)
    BY <1>0, <1>4 DEF Acquire, Absent, Go, Moves
  <1>5. CASE Wait(c)
    BY <1>0, <1>5 DEF Wait, Go, Moves
  <1>6. CASE LoadSucceeds(c)
    <2> DEFINE a == "write"
    <2>1. a \in CacheSteps /\ a \notin Loaders
      OBVIOUS
    <2>2. call' = [call EXCEPT ![c] = At(a, stored, 0)] /\ UNCHANGED <<stored, entry, marker, stale>>
      BY <1>6 DEF LoadSucceeds
    <2> QED
      BY ONLY <1>0, <2>1, <2>2 DEF Moves
  <1>7. CASE CreateQueue(c)
    BY <1>0, <1>7 DEF CreateQueue, Return, Go, Moves
  <1>8. CASE UpdateQueue(c)
    BY <1>0, <1>8 DEF UpdateQueue, Return, Go, Moves
  <1> QED
    BY <1>1, <1>2, <1>3, <1>4, <1>5, <1>6, <1>7, <1>8 DEF Step

LEMMA MovesKeep ==
  ASSUME DetailsInv, NEW c \in Callers, Moves(c)
  PROVE  DetailsInv'
  <1> PICK a \in {"idle"} \cup CacheSteps \cup DatabaseSteps, v \in Versions, s \in Nat :
        /\ call' = [call EXCEPT ![c] = At(a, v, s)]
        /\ a = "write" => v = stored /\ s = 0
        /\ a \in CacheSteps => s = 0
        /\ \/ marker' = marker /\ (a \in Loaders => call[c].at \in Loaders /\ s = call[c].since)
           \/ marker = 0 /\ marker' = LoadLockTtl /\ s = 0
    BY DEF Moves
  <1> UNCHANGED <<stored, entry, stale>>
    BY DEF Moves
  <1>0. /\ call \in [Callers -> Call] /\ marker \in Nat /\ stored \in Versions
        /\ call'[c] = At(a, v, s) /\ \A d \in Callers \ {c} : call'[d] = call[d]
    BY Constants DEF DetailsInv, TypeOK
  <1>1. TypeOK'
    BY Constants DEF DetailsInv, TypeOK, Call, At
  <1>2. CurrentIsFresh' /\ StaleAtMostTtl'
    BY DEF DetailsInv, CurrentIsFresh, StaleAtMostTtl
  <1>3. WritesAreFresh'
    BY <1>0 DEF DetailsInv, CurrentIsFresh, WritesAreFresh, At, Versions
  <1>4. CommandsTimeOut'
    BY <1>0, Constants DEF DetailsInv, CommandsTimeOut, At
  <1>5. MarkersLast'
    BY <1>0, Constants DEF DetailsInv, MarkersLast, At, Call
  <1>6. OneLoaderPerMarker'
    BY <1>0, Constants DEF DetailsInv, MarkersLast, OneLoaderPerMarker, At, Call, Loaders
  <1> QED
    BY <1>1, <1>2, <1>3, <1>4, <1>5, <1>6 DEF DetailsInv

\* A committed create or update: the version before it begins to age.
LEMMA CommitKeeps ==
  ASSUME DetailsInv, NEW c \in Callers, Commit(c), call[c].at \notin Loaders
  PROVE  DetailsInv'
  <1>0. /\ call \in [Callers -> Call] /\ stored \in Versions /\ stored' \in Versions
        /\ stored' = stored + 1 /\ call' = [call EXCEPT ![c] = At("write", stored + 1, 0)]
        /\ call'[c] = At("write", stored + 1, 0) /\ \A d \in Callers \ {c} : call'[d] = call[d]
        /\ UNCHANGED <<entry, marker, stale>>
    BY Constants DEF DetailsInv, TypeOK, Commit, Versions
  <1>1. TypeOK'
    BY <1>0, Constants DEF DetailsInv, TypeOK, Call, At, CacheSteps
  <1>2. CurrentIsFresh' /\ StaleAtMostTtl'
    BY <1>0 DEF DetailsInv, CurrentIsFresh, StaleAtMostTtl, Versions
  <1>3. WritesAreFresh'
    BY <1>0 DEF DetailsInv, CurrentIsFresh, WritesAreFresh, At, Versions
  <1>4. CommandsTimeOut'
    BY <1>0, Constants DEF DetailsInv, CommandsTimeOut, At
  <1>5. MarkersLast' /\ OneLoaderPerMarker'
    BY <1>0 DEF DetailsInv, MarkersLast, OneLoaderPerMarker, At, Loaders
  <1> QED
    BY <1>1, <1>2, <1>3, <1>4, <1>5 DEF DetailsInv

\* What a write stores was current a command ago.
LEMMA WriteKeeps ==
  ASSUME DetailsInv, NEW c \in Callers, WriteSucceeds(c)
  PROVE  DetailsInv'
  <1> DEFINE v == call[c].version
  <1>0. /\ call \in [Callers -> Call] /\ v \in Versions /\ call[c].since \in Nat
        /\ call'[c] = At("idle", 0, 0) /\ \A d \in Callers \ {c} : call'[d] = call[d]
        /\ call' = [call EXCEPT ![c] = At("idle", 0, 0)]
        /\ entry' = [version |-> v, left |-> Ttl(v)]
        /\ UNCHANGED <<stored, marker, stale>>
    BY DEF DetailsInv, TypeOK, WriteSucceeds, Return, Go, Call
  <1>1. TypeOK'
    BY <1>0, Constants DEF DetailsInv, TypeOK, Call, At, Entry, Versions
  <1>2. CurrentIsFresh' /\ WritesAreFresh' /\ CommandsTimeOut' /\ MarkersLast' /\ OneLoaderPerMarker'
    BY <1>0 DEF DetailsInv, CurrentIsFresh, WritesAreFresh, CommandsTimeOut, MarkersLast,
       OneLoaderPerMarker, At, Loaders, CacheSteps
  <1>3. stale[v] <= CommandDelay
    BY <1>0, Constants DEF DetailsInv, TypeOK, WritesAreFresh, CommandsTimeOut, WriteSucceeds, CacheSteps
  <1>4. StaleAtMostTtl'
    BY <1>0, <1>3, Constants DEF StaleAtMostTtl, Ttl
  <1> QED
    BY <1>1, <1>2, <1>4 DEF DetailsInv

LEMMA EvictKeeps ==
  ASSUME DetailsInv, Evict
  PROVE  DetailsInv'
  BY DEF DetailsInv, Evict, TypeOK, CurrentIsFresh, WritesAreFresh, CommandsTimeOut, MarkersLast,
     OneLoaderPerMarker, StaleAtMostTtl

LEMMA TickKeeps ==
  ASSUME DetailsInv, Tick
  PROVE  DetailsInv'
  <1>0. /\ call \in [Callers -> Call] /\ stored \in Versions /\ marker \in Nat
        /\ stale \in [Versions -> 0 .. MaxStale + 1] /\ stored' = stored
        /\ entry = None \/ entry \in Entry
    BY Constants DEF DetailsInv, TypeOK, Tick
  <1>1. ASSUME NEW c \in Callers
        PROVE  /\ call'[c] \in Call
               /\ call[c].at = "idle" => call'[c] = call[c]
               /\ call[c].at # "idle" => call'[c] = At(call[c].at, call[c].version, call[c].since + 1)
    BY <1>0 DEF Tick, Call, At
  <1>a. ASSUME NEW c \in Callers
        PROVE  /\ call'[c].at = call[c].at /\ call'[c].version = call[c].version
               /\ call[c].version \in Versions /\ call[c].since \in Nat
               /\ call[c].at # "idle" => call'[c].since = call[c].since + 1
    <2>1. call[c] \in Call
      BY <1>0
    <2>2. call[c].version \in Versions /\ call[c].since \in Nat
      BY <2>1 DEF Call
    <2>3. CASE call[c].at = "idle"
      BY <1>1, <2>2, <2>3
    <2>4. CASE call[c].at # "idle"
      <3>1. call'[c] = At(call[c].at, call[c].version, call[c].since + 1)
        BY <1>1, <2>4
      <3> QED
        BY <2>2, <3>1 DEF At
    <2> QED
      BY <2>3, <2>4
  <1>2. ASSUME NEW v \in Versions
        PROVE  /\ stale'[v] \in 0 .. MaxStale + 1
               /\ stale'[v] <= stale[v] + 1
               /\ v >= stored => stale'[v] = stale[v]
    <2>1. stale'[v] = IF v < stored /\ stale[v] <= MaxStale THEN stale[v] + 1 ELSE stale[v]
      BY DEF Tick
    <2>2. stale[v] \in 0 .. MaxStale + 1 /\ v \in Int /\ stored \in Int
      BY <1>0, Constants DEF Versions
    <2> QED
      BY <2>1, <2>2, Constants
  <1>3. \/ entry' = None
        \/ entry \in Entry /\ entry.left > 1 /\ entry' = [version |-> entry.version, left |-> entry.left - 1]
    BY <1>0, Constants DEF Tick, Entry
  <1>4. TypeOK'
    <2>1. entry' \in Entry \cup {None}
      BY <1>3, Constants DEF Entry
    <2>2. marker' \in 0 .. LoadLockTtl
      BY <1>0, Constants DEF Tick, DetailsInv, TypeOK
    <2>3. call' \in [Callers -> Call]
      BY <1>1 DEF Tick
    <2>4. stale' \in [Versions -> 0 .. MaxStale + 1]
      BY <1>2 DEF Tick
    <2> QED
      BY <1>0, <2>1, <2>2, <2>3, <2>4 DEF TypeOK
  <1>5. CurrentIsFresh'
    BY <1>0, <1>2 DEF DetailsInv, CurrentIsFresh
  <1>6. WritesAreFresh'
    <2> SUFFICES ASSUME NEW c \in Callers, call'[c].at = "write"
                 PROVE  stale'[call'[c].version] <= call'[c].since
      BY DEF WritesAreFresh
    <2>1. stale[call[c].version] <= call[c].since
      BY <1>a DEF DetailsInv, WritesAreFresh
    <2> QED
      BY <1>0, <1>a, <1>2, <2>1, Constants
  <1>7. CommandsTimeOut'
    BY <1>0, <1>1, Constants DEF DetailsInv, CommandsTimeOut, Tick, Call, At, CacheSteps
  <1>8. MarkersLast'
    BY <1>0, <1>1, Constants DEF DetailsInv, MarkersLast, Tick, Call, At, Loaders
  <1>9. OneLoaderPerMarker'
    BY <1>a, Constants DEF DetailsInv, OneLoaderPerMarker
  <1>10. StaleAtMostTtl'
    <2> SUFFICES ASSUME entry' # None
                 PROVE  stale'[entry'.version] <= Ttl(entry'.version) - entry'.left + CommandDelay
      BY DEF StaleAtMostTtl, Ttl
    <2>1. /\ entry \in Entry /\ entry # None /\ entry'.version = entry.version
          /\ entry'.left = entry.left - 1
      BY <1>3, NoneAssumption
    <2>2. stale[entry.version] <= Ttl(entry.version) - entry.left + CommandDelay
      BY <2>1 DEF DetailsInv, StaleAtMostTtl
    <2> QED
      BY <1>0, <1>2, <2>1, <2>2, Constants DEF Entry
  <1> QED
    BY <1>4, <1>5, <1>6, <1>7, <1>8, <1>9, <1>10 DEF DetailsInv

LEMMA NextKeeps == DetailsInv /\ [Next]_vars => DetailsInv'
  <1> SUFFICES ASSUME DetailsInv, [Next]_vars PROVE DetailsInv'
    OBVIOUS
  <1>1. CASE UNCHANGED vars
    BY <1>1 DEF vars, DetailsInv, TypeOK, CurrentIsFresh, WritesAreFresh, CommandsTimeOut,
       MarkersLast, OneLoaderPerMarker, StaleAtMostTtl
  <1>2. ASSUME NEW c \in Callers,
               Lookup(c) \/ BeginCreate(c) \/ BeginUpdate(c) \/ Step(c) \/ Lose(c)
        PROVE  DetailsInv'
    <2>1. CASE Moves(c)
      BY <2>1, MovesKeep
    <2>2. CASE CreateQueue(c) /\ Commit(c)
      BY <2>2, CommitKeeps DEF CreateQueue, Loaders
    <2>3. CASE UpdateQueue(c) /\ Commit(c)
      BY <2>3, CommitKeeps DEF UpdateQueue, Loaders
    <2>4. CASE WriteSucceeds(c)
      BY <2>4, WriteKeeps
    <2> QED
      BY <1>2, <2>1, <2>2, <2>3, <2>4, StepMoves
  <1> QED
    BY <1>1, <1>2, EvictKeeps, TickKeeps DEF Next

-----------------------------------------------------------------------------
\* The two caches together do what the shared one does: a name that a process
\* remembers, a load that others share or a load that is taken over sends no
\* command that one request after the other could not send.
THEOREM NamesAreLookups == CacheSpec => Spec
  <1>1. CacheInit => Init
    BY DEF CacheInit
  <1>2. [CacheNext]_cacheVars => [Next]_vars
    <2> SUFFICES ASSUME CacheNext PROVE [Next]_vars
      BY DEF cacheVars, vars
    <2>1. ASSUME NEW c \in Callers, AskDetails(c) \/ NameMiss(c) \/ BeginChange(c) \/ TakeOver(c)
          PROVE  [Next]_vars
      BY <2>1 DEF AskDetails, NameMiss, LoadName, BeginChange, TakeOver, Next
    <2>2. ASSUME NEW c \in Callers, NameHit(c)
          PROVE  [Next]_vars
      BY <2>2 DEF NameHit
    <2>3. ASSUME NEW c \in Callers, Proceed(c) \/ Finish(c)
          PROVE  [Next]_vars
      BY <2>3 DEF Proceed, Finish, Next
    <2>4. ASSUME NEW c \in Callers, Drop(c)
          PROVE  [Next]_vars
      BY <2>4 DEF Drop, Next
    <2>5. ASSUME NEW p \in Processes, EvictName(p)
          PROVE  [Next]_vars
      BY <2>5 DEF EvictName
    <2>6. ASSUME (Evict \/ Tick) /\ UNCHANGED nameVars
          PROVE  [Next]_vars
      BY <2>6 DEF Next
    <2> QED
      BY <2>1, <2>2, <2>3, <2>4, <2>5, <2>6 DEF CacheNext, CacheStep
  <1> QED
    BY <1>1, <1>2, PTL DEF CacheSpec, Spec

\* The inductive invariant holds for the composition, whose steps are the shared
\* cache's.
THEOREM DetailsInvariant == CacheSpec => []DetailsInv
  <1>1. Spec => []DetailsInv
    BY InitDetails, NextKeeps, PTL DEF Spec
  <1> QED
    BY <1>1, NamesAreLookups, PTL

\* Whatever order writes and slow loads arrive in, and although an older value
\* may replace a newer one, what the shared cache holds was current at most its
\* TTL and one command ago.
THEOREM StaleForOneTtl == CacheSpec => []StaleAtMostTtl
  BY DetailsInvariant, PTL DEF DetailsInv

\* While the holder of a marker is within the marker's life, no other request
\* of any process loads.
THEOREM OneLoads == CacheSpec => []OneLoaderPerMarker
  BY DetailsInvariant, PTL DEF DetailsInv


-----------------------------------------------------------------------------
\* What a request is at in the shared cache and what it is there for agree, and
\* no process remembers that a queue is missing.
NamesInv ==
  /\ CacheTypeOK
  /\ \A p \in Processes : name[p] # 0
  /\ NeverMisled

LEMMA InitNames == CacheInit => NamesInv
  <1> SUFFICES ASSUME CacheInit PROVE NamesInv
    OBVIOUS
  <1>1. TypeOK
    BY InitDetails DEF CacheInit, DetailsInv
  <1> QED
    BY <1>1, NoneAssumption DEF CacheInit, NamesInv, CacheTypeOK, NeverMisled

\* No answer is out of date: what the cache holds, what a loader brings and
\* what PostgreSQL says are each within a TTL and a command of the present.
LEMMA AnswersAreFresh ==
  ASSUME DetailsInv, NEW c \in Callers, NEW v \in Answers(c), Step(c), call'[c].at = "idle"
  PROVE  ~ Outdated(v)
  <1> SUFFICES ASSUME v \in Versions, v < stored, stale[v] > Ttl(v) + CommandDelay PROVE FALSE
    BY DEF Outdated
  <1>0. /\ call[c] \in Call /\ stored \in Int /\ v # Failed /\ v \in Int
        /\ stale[v] \in Nat /\ Ttl(v) \in Nat /\ CommandDelay \in Nat
    BY Constants DEF DetailsInv, TypeOK, Versions, Failed
  <1>1. CASE call[c].at \in {"read", "recheck", "poll"}
    <2>1. v = entry.version
      BY <1>1 DEF Answers
    <2>2. CASE entry = None
      <3>1. Read(c) \/ Recheck(c) \/ Poll(c)
        BY <1>1 DEF Step, Acquire, Wait, ReadDirectly, LoadSucceeds, LoadFails, CreateQueue,
           UpdateQueue, WriteSucceeds, WriteFails
      <3>2. call'[c].at # "idle"
        BY <2>2, <3>1 DEF Read, Recheck, Poll, Get, Go, At, DetailsInv, TypeOK
      <3> QED
        BY <3>2
    <2>3. CASE entry # None
      BY <1>0, <2>1, <2>3, Constants DEF DetailsInv, StaleAtMostTtl, TypeOK, Entry
    <2> QED
      BY <2>2, <2>3
  <1>2. CASE call[c].at = "write"
    BY <1>0, <1>2, Constants DEF Answers, DetailsInv, WritesAreFresh, CommandsTimeOut, CacheSteps, Call
  <1>3. CASE call[c].at = "direct"
    BY <1>0, <1>3 DEF Answers
  <1>4. CASE call[c].at \notin {"read", "recheck", "poll", "write", "direct"}
    BY <1>0, <1>4 DEF Answers
  <1> QED
    BY <1>1, <1>2, <1>3, <1>4

LEMMA NamesKept ==
  ASSUME DetailsInv, NamesInv, [CacheNext]_cacheVars, TypeOK'
  PROVE  NamesInv'
  <1> USE NoneAssumption
  <1>0. /\ name \in [Processes -> {None, 1}] /\ misled = FALSE
        /\ asks \in [Callers -> {"none", "name", "wait", "change"}]
        /\ \A p \in Processes : name[p] # 0
        /\ \A c \in Callers : ProcessOf[c] \in Processes /\ Own(c) # 0
    BY ProcessesAssumption DEF NamesInv, CacheTypeOK, NeverMisled, Own
  <1>1. CASE UNCHANGED nameVars
    BY <1>0, <1>1 DEF nameVars, NamesInv, CacheTypeOK, NeverMisled
  <1>2. ASSUME NEW c \in Callers, NameHit(c) \/ NameMiss(c) \/ BeginChange(c) \/ TakeOver(c) \/ Drop(c)
        PROVE  NamesInv'
    <2>1. UNCHANGED name /\ misled' = FALSE
      BY <1>0, <1>2 DEF NameHit, NameMiss, LoadName, BeginChange, TakeOver, Drop
    <2>2. asks' \in [Callers -> {"none", "name", "wait", "change"}]
      BY <1>0, <1>2 DEF NameHit, NameMiss, LoadName, BeginChange, TakeOver, Drop
    <2> QED
      BY <1>0, <2>1, <2>2 DEF NamesInv, CacheTypeOK, NeverMisled
  <1>3. ASSUME NEW c \in Callers, Finish(c)
        PROVE  NamesInv'
    <2>1. PICK v \in Answers(c) :
            /\ misled' = (misled \/ (asks[c] # "change" /\ Misleads(c, v)))
            /\ IF asks[c] \in {"name", "change"} THEN Keep(c, v) ELSE UNCHANGED name
      BY <1>3 DEF Finish
    <2>2. ~ Outdated(v)
      BY <1>3, AnswersAreFresh DEF Finish
    <2>3. misled' = FALSE
      BY <1>0, <2>1, <2>2 DEF Misleads
    <2>4. name' \in [Processes -> {None, 1}] /\ \A p \in Processes : name'[p] # 0
      BY <1>0, <2>1 DEF Keep, Remembered
    <2>5. asks' \in [Callers -> {"none", "name", "wait", "change"}]
      BY <1>0, <1>3 DEF Finish
    <2> QED
      BY <2>3, <2>4, <2>5 DEF NamesInv, CacheTypeOK, NeverMisled
  <1>4. ASSUME NEW p \in Processes, EvictName(p)
        PROVE  NamesInv'
    BY <1>0, <1>4 DEF EvictName, NamesInv, CacheTypeOK, NeverMisled
  <1> QED
    BY <1>1, <1>2, <1>3, <1>4 DEF CacheNext, CacheStep, AskDetails, Proceed, cacheVars

\* The names remembered and the answers given are right, given that what the
\* shared cache holds and what is on its way to it are.
THEOREM NamesInvariant == CacheSpec => []NamesInv
  <1>1. DetailsInv /\ DetailsInv' /\ NamesInv /\ [CacheNext]_cacheVars => NamesInv'
    BY NamesKept DEF DetailsInv
  <1> QED
    BY InitNames, DetailsInvariant, <1>1, PTL DEF CacheSpec

\* The types, among them that a process never remembers that a queue is missing.
THEOREM NamesTypeCorrect == CacheSpec => []CacheTypeOK
  BY NamesInvariant, PTL DEF NamesInv

\* No request of any process is answered with what was replaced more than a TTL
\* and a command ago, through whichever of the caches the answer comes.
THEOREM NobodyMisled == CacheSpec => []NeverMisled
  BY NamesInvariant, PTL DEF NamesInv
=============================================================================
