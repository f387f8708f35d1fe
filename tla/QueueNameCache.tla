---------------------------- MODULE QueueNameCache ----------------------------
(***************************************************************************)
(* The queue-name caches (level 1), one in the memory of each process, on  *)
(* top of the shared cache of QueueDetailsCache.  They have no expiry: a    *)
(* name never changes and a queue is never deleted.  An acknowledgement    *)
(* asks for the name; an enqueue asks for the details, which only the       *)
(* shared cache holds.                                                     *)
(***************************************************************************)
EXTENDS QueueDetailsCache

CONSTANTS
  Processes,
  ProcessOf, \* [Callers -> Processes], the process that serves each request
  Roles      \* bound: [Callers -> what each may be: "name", "details", "change"]

ASSUME ProcessesAssumption ==
  /\ ProcessOf \in [Callers -> Processes]
  /\ Roles \in [Callers -> SUBSET {"name", "details", "change"}]

VARIABLES
  name,   \* [Processes -> what each remembers: 1 for the name, None for nothing]
  asks,   \* [Callers -> what each request is there for]
  misled  \* history: some request was given an answer that was out of date

nameVars == <<name, asks, misled>>
cacheVars == <<vars, nameVars>>

Failed == -1

Own(c) == name[ProcessOf[c]]
Neighbours(c) == {d \in Callers : ProcessOf[d] = ProcessOf[c]}
Loading(c) == \E d \in Neighbours(c) : asks[d] = "name"

\* Version v was replaced longer ago than any cache may remember it.
Outdated(v) == v \in Versions /\ v < stored /\ stale[v] > Ttl(v) + CommandDelay

\* To a name request every version of an existing queue says the same.
Misleads(c, v) == Outdated(v) /\ (asks[c] = "name" => v = 0)

\* Mutant: that there is no such queue is remembered like a name.
Remembered_Missing(v) == v # Failed

\* NotFound and errors are handed on, and not kept.
Remembered(v) == v \notin {0, Failed}

\* A load's or a change's result in the process's memory.
Keep(c, v) ==
  name' = IF Remembered(v) THEN [name EXCEPT ![ProcessOf[c]] = IF v = 0 THEN 0 ELSE 1] ELSE name

-----------------------------------------------------------------------------
(* Requests. *)

AskDetails(c) == "details" \in Roles[c] /\ asks[c] = "none" /\ Lookup(c) /\ UNCHANGED nameVars

\* A process that knows the name answers at once.
NameHit(c) ==
  /\ "name" \in Roles[c]
  /\ call[c].at = "idle" /\ asks[c] = "none"
  /\ Own(c) # None
  /\ misled' = (misled \/ (Own(c) = 0 /\ Outdated(0)))
  /\ UNCHANGED <<vars, name, asks>>

\* The first request that misses loads the name through the shared cache.
LoadName(c) ==
  /\ Lookup(c)
  /\ asks' = [asks EXCEPT ![c] = "name"]
  /\ UNCHANGED <<name, misled>>

NameMiss(c) ==
  /\ "name" \in Roles[c]
  /\ call[c].at = "idle" /\ asks[c] = "none"
  /\ Own(c) = None
  /\ IF Loading(c)
     THEN asks' = [asks EXCEPT ![c] = "wait"] /\ UNCHANGED <<vars, name, misled>>
     ELSE LoadName(c)

BeginChange(c) ==
  /\ "change" \in Roles[c]
  /\ asks[c] = "none"
  /\ BeginCreate(c) \/ BeginUpdate(c)
  /\ asks' = [asks EXCEPT ![c] = "change"]
  /\ UNCHANGED <<name, misled>>

\* A step of the shared cache's protocol that is not the request's last.
Proceed(c) == Step(c) /\ call'[c].at # "idle" /\ UNCHANGED nameVars

\* What the shared cache's last step answers.
Answers(c) ==
  CASE call[c].at \in {"read", "recheck", "poll"} -> {entry.version}
    [] call[c].at = "write" -> {call[c].version}
    [] call[c].at = "direct" -> {stored, Failed}
    [] OTHER -> {Failed}

\* The requests that wait for this load get its result too, error or not.
Finish(c) ==
  /\ Step(c) /\ call'[c].at = "idle"
  /\ \E v \in Answers(c) :
       /\ misled' = (misled \/ (asks[c] # "change" /\ Misleads(c, v)))
       /\ IF asks[c] \in {"name", "change"} THEN Keep(c, v) ELSE UNCHANGED name
  /\ asks' = [d \in Callers |->
                IF d = c \/ (asks[c] = "name" /\ d \in Neighbours(c) /\ asks[d] = "wait")
                THEN "none" ELSE asks[d]]

\* Mutant: the requests that wait for a load that was dropped are forgotten.
TakeOver_Never(c) == FALSE

\* The load's request was dropped: one that waits looks again, and loads.
TakeOver(c) ==
  /\ asks[c] = "wait" /\ ~ Loading(c)
  /\ IF Own(c) = None
     THEN LoadName(c)
     ELSE /\ asks' = [asks EXCEPT ![c] = "none"]
          /\ misled' = (misled \/ (Own(c) = 0 /\ Outdated(0)))
          /\ UNCHANGED <<vars, name>>

\* The client goes away.
Drop(c) ==
  /\ Lose(c) \/ (asks[c] = "wait" /\ UNCHANGED vars)
  /\ asks' = [asks EXCEPT ![c] = "none"]
  /\ UNCHANGED <<name, misled>>

\* The least used names are evicted when the memory's capacity is reached.
EvictName(p) ==
  /\ name[p] # None
  /\ name' = [name EXCEPT ![p] = None]
  /\ UNCHANGED <<vars, asks, misled>>

-----------------------------------------------------------------------------
CacheInit ==
  /\ Init
  /\ name = [p \in Processes |-> None]
  /\ asks = [c \in Callers |-> "none"]
  /\ misled = FALSE

CacheStep(c) == Proceed(c) \/ Finish(c) \/ TakeOver(c)

CacheNext ==
  \/ \E c \in Callers : \/ AskDetails(c) \/ NameHit(c) \/ NameMiss(c) \/ BeginChange(c)
                        \/ CacheStep(c) \/ Drop(c)
  \/ \E p \in Processes : EvictName(p)
  \/ (Evict \/ Tick) /\ UNCHANGED nameVars

CacheSpec == CacheInit /\ [][CacheNext]_cacheVars

\* Every request that has begun goes on, and time passes.  Nothing is assumed
\* of what the cache and PostgreSQL answer.
CacheFairSpec ==
  /\ CacheSpec
  /\ WF_cacheVars(Tick /\ UNCHANGED nameVars)
  /\ \A c \in Callers : WF_cacheVars(CacheStep(c))

-----------------------------------------------------------------------------
(* Properties. *)

CacheTypeOK ==
  /\ TypeOK
  /\ name \in [Processes -> {None, 1}]
  /\ asks \in [Callers -> {"none", "name", "wait", "change"}]
  /\ misled = FALSE \/ misled = TRUE

\* Whoever asks, for the name or for the details, through whichever process
\* and in whichever order the writes, loads and evictions fall, is never
\* answered with what PostgreSQL replaced more than a TTL and a command ago:
\* a process does not remember for ever that a queue was missing, nor hand a
\* late result of a shared load to those who came after.
NeverMisled == ~ misled

\* A lookup's loop has no limit of its own; a loader that fails or is lost
\* leaves its marker behind for the others to wait out, and a load that is
\* dropped leaves those of its process that wait for it.  Still, once no further
\* request comes, each gets its answer, whatever fails.
AskingStops ==
  <>[][\A c \in Callers : asks[c] = "none" /\ call[c].at = "idle" =>
                            asks'[c] = "none" /\ call'[c].at = "idle"]_cacheVars

EveryoneAnswered ==
  AskingStops => \A c \in Callers : []<>(asks[c] = "none" /\ call[c].at = "idle")
=============================================================================
