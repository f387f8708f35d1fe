---------------------------- MODULE WorkerProcess ----------------------------
(***************************************************************************)
(* A whole worker process: its one worker and the management server under  *)
(* the supervisor, sharing a pool of database connections with the         *)
(* readiness checks the management server answers, from the start to       *)
(* ApplicationContext::shutdown.  A cleaner takes a connection per batch;  *)
(* the state metrics collector takes one per try for the leadership and,   *)
(* once it leads, keeps it: a cleaner is a worker that is never granted    *)
(* the lock.  A connection that is given up is not back at once: the       *)
(* library first finds out, over the connection itself, whether it is      *)
(* still good, or closes it.  Time passes in ticks.                        *)
(***************************************************************************)
EXTENDS WorkerSupervisor, Integers, SequencesExt

CONSTANTS
  Checks,            \* readiness requests that may be under way at once
  PoolSizes,         \* database.max_connections the process may be given
  ReadinessTimeout,  \* ticks a readiness check may take
  AcquireTimeout,    \* ticks a statement may wait for a connection
  ReturnTimeout      \* ticks a connection may be on its way back to the pool

ASSUME ProcessAssumption ==
  /\ Checks \cap Tasks = {} /\ None \notin Checks \cup Tasks
  /\ PoolSizes \subseteq Nat \ {0}
  /\ {ReadinessTimeout, AcquireTimeout, ReturnTimeout} \subseteq Nat
  /\ ReadinessTimeout < AcquireTimeout

\* Each worker process is given one worker (entrypoints/worker.rs).
ASSUME OneWorkerAssumption == \E w \in Loops : Loops = {w}

VARIABLES
  limit,   \* max_connections
  leads,   \* the collector holds the lease, and with it a connection
  line,    \* who waits for a connection, first come first served
  place,   \* [Places -> who has the pool's connection, or had it last]
  age,     \* ticks since each check, or the worker's wait, began
  pool     \* "open", "closing" after the supervisor has returned, "closed"

poolVars == <<limit, leads, line, place, age, pool>>
processVars == <<vars, poolVars>>

Users == Loops \cup Checks

\* The pool's connections.  One that its user has given up is returning.
Places == 1 .. limit
Place == [user : Users \cup {None}, returning : BOOLEAN, age : 0 .. ReturnTimeout]
Free == [user |-> None, returning |-> FALSE, age |-> 0]
InHand(p, u) == place[p].user = u /\ ~ place[p].returning

Waiting(u) == u \in ToSet(line)
Holds(u) == \E p \in Places : InHand(p, u)
Busy(c) == Waiting(c) \/ Holds(c)
Timed(u) == Waiting(u) \/ (u \in Checks /\ Holds(u))

Join(u) == line' = Append(line, u) /\ age' = [age EXCEPT ![u] = 0] /\ UNCHANGED place

\* The line without u.
Without(u) ==
  IF Waiting(u) THEN RemoveAt(line, CHOOSE i \in DOMAIN line : line[i] = u) ELSE line

\* u is done or dropped: it leaves the line, or gives its connection up.
Release(u) ==
  /\ line' = Without(u)
  /\ place' = [p \in Places |->
                 IF InHand(p, u) THEN [place[p] EXCEPT !.returning = TRUE] ELSE place[p]]
  /\ age' = [age EXCEPT ![u] = 0]

Keep == UNCHANGED <<line, place, age>>

-----------------------------------------------------------------------------
(* The worker. *)

\* Mutant: a leader's refresh runs on a connection of its own.
StartBatch_OwnConnection(w) ==
  /\ BeginBatch(w)
  /\ Join(w)
  /\ UNCHANGED <<limit, leads, pool>>

\* A leader refreshes through the connection of its lease.
StartBatch(w) ==
  /\ BeginBatch(w)
  /\ IF leads THEN Keep ELSE Join(w)
  /\ UNCHANGED <<limit, leads, pool>>

\* The batch's statement is over.  A leader keeps its connection while it rests.
FinishBatch(w) ==
  /\ Holds(w)
  /\ EndBatch(w)
  /\ \/ /\ leads /\ task'[w] = "resting"
        /\ Keep
        /\ UNCHANGED leads
     \/ /\ ~ leads \/ task'[w] # "resting"
        /\ Release(w)
        /\ leads' = FALSE
  /\ UNCHANGED <<limit, pool>>

\* Mutant: a candidate that was told of another leader keeps its connection.
BecomeLeader_Refused(w) ==
  /\ ~ leads /\ Holds(w)
  /\ EndBatch(w) /\ task'[w] = "resting"
  /\ Keep
  /\ UNCHANGED leads
  /\ UNCHANGED <<limit, pool>>

\* pg_try_advisory_lock answers true: the connection becomes the lease's.
BecomeLeader(w) ==
  /\ ~ leads /\ Holds(w)
  /\ EndBatch(w) /\ task'[w] = "resting"
  /\ Keep
  /\ leads' = TRUE
  /\ UNCHANGED <<limit, pool>>

\* No connection could be opened or none came in time: the error ends the task.
AcquireFails(w) ==
  /\ Waiting(w)
  /\ EndBatch(w) /\ task'[w] = "failed"
  /\ Release(w)
  /\ UNCHANGED <<limit, leads, pool>>

\* The batch, the lease and the wait are dropped with the task's future.
DropTask(w) ==
  /\ LeaveLoop(w) \/ Abort(w)
  /\ Release(w)
  /\ leads' = FALSE
  /\ UNCHANGED <<limit, pool>>

-----------------------------------------------------------------------------
(* The management server and its readiness checks. *)

\* Also of a request that is read during the graceful stop, or by the server's
\* threads after its task has failed or was aborted.
BeginCheck(c) ==
  /\ pool = "open"
  /\ \E s \in Servers : task[s] # "succeeded"
  /\ ~ Busy(c)
  /\ Join(c)
  /\ UNCHANGED <<vars, limit, leads, pool>>

\* 200 or 503: SELECT 1 is answered or fails, no connection can be opened, the
\* pool is closed, the time is up or the client has gone.
EndCheck(c) ==
  /\ Busy(c)
  /\ Release(c)
  /\ UNCHANGED <<vars, limit, leads, pool>>

\* Mutant: the check is not given a time limit.
Overdue_Never(c) == FALSE

Overdue(c) == Busy(c) /\ age[c] >= ReadinessTimeout

\* A graceful stop is over when no request is left.
ManagementStep ==
  /\ \E s \in Servers :
       \/ StopServer(s)
       \/ /\ EndServer(s)
          /\ task[s] = "stopping" /\ task'[s] = "succeeded" => \A c \in Checks : ~ Busy(c)
       \/ Abort(s)
  /\ UNCHANGED poolVars

-----------------------------------------------------------------------------
(* The pool. *)

\* Which of the free connections it is, nothing depends on.
Grant ==
  /\ pool = "open"
  /\ line # <<>>
  /\ \E p \in Places :
       /\ place[p] = Free /\ \A q \in 1 .. p - 1 : place[q] # Free
       /\ place' = [place EXCEPT ![p].user = Head(line)]
  /\ line' = Tail(line)
  /\ UNCHANGED <<vars, limit, leads, age, pool>>

\* The connection was good, or is closed and another can take its place.
BackInPool(p) ==
  /\ place[p].returning
  /\ place' = [place EXCEPT ![p] = Free]
  /\ UNCHANGED <<vars, limit, leads, line, age, pool>>

Late(p) == place[p].returning /\ place[p].age >= ReturnTimeout

\* Time passes unless a timer is due first.
Tick ==
  /\ pool # "closed"
  /\ \A c \in Checks : ~ Overdue(c)
  /\ \A w \in Loops : Waiting(w) => age[w] < AcquireTimeout
  /\ \A p \in Places : ~ Late(p)
  /\ age' = [u \in Users |-> IF Timed(u) /\ age[u] < AcquireTimeout THEN age[u] + 1 ELSE age[u]]
  /\ place' = [p \in Places |->
                 IF place[p].returning THEN [place[p] EXCEPT !.age = @ + 1] ELSE place[p]]
  /\ UNCHANGED <<vars, limit, leads, line, pool>>

\* context.shutdown, after serve, whatever serve returned.
Close ==
  /\ phase = "returned" /\ pool = "open"
  /\ pool' = "closing"
  /\ UNCHANGED <<vars, limit, leads, line, place, age>>

\* The pool's close waits for every connection to come back.
Closed ==
  /\ pool = "closing"
  /\ \A p \in Places : place[p] = Free
  /\ pool' = "closed"
  /\ UNCHANGED <<vars, limit, leads, line, place, age>>

ProcessInit ==
  /\ Init
  /\ limit \in PoolSizes
  /\ leads = FALSE
  /\ line = SetToSeq(Loops)
  /\ place = [p \in Places |-> Free]
  /\ age = [u \in Users |-> 0]
  /\ pool = "open"

ProcessNext ==
  \/ \E w \in Loops : \/ StartBatch(w) \/ FinishBatch(w) \/ BecomeLeader(w)
                      \/ AcquireFails(w) \/ DropTask(w)
  \/ \E c \in Checks : BeginCheck(c) \/ EndCheck(c)
  \/ ManagementStep
  \/ (SignalArrives \/ Supervise) /\ UNCHANGED poolVars
  \/ \E p \in Places : BackInPool(p)
  \/ Grant \/ Tick \/ Close \/ Closed

ProcessSpec == ProcessInit /\ [][ProcessNext]_processVars

\* The supervisor's steps, the runtime's aborts, the timers - the library's for
\* a returning connection too - and the end of the process are not put off for
\* ever.  Batches and statements may hang.
ProcessFairSpec ==
  /\ ProcessSpec
  /\ WF_processVars(Supervise /\ UNCHANGED poolVars)
  /\ \A w \in Loops : WF_processVars(Abort(w) /\ DropTask(w))
  /\ \A s \in Servers : WF_processVars(Abort(s) /\ UNCHANGED poolVars)
  /\ \A c \in Checks : WF_processVars(Overdue(c) /\ EndCheck(c))
  /\ WF_processVars(\E p \in Places : Late(p) /\ BackInPool(p))
  /\ WF_processVars(Tick)
  /\ WF_processVars(Close \/ Closed)

-----------------------------------------------------------------------------
(* Properties. *)

ProcessTypeOK ==
  /\ TypeOK
  /\ limit \in PoolSizes
  /\ leads \in BOOLEAN
  /\ line \in Seq(Users) /\ IsInjective(line)
  /\ place \in [Places -> Place]
  /\ age \in [Users -> 0 .. AcquireTimeout]
  /\ pool \in {"open", "closing", "closed"}

\* Nobody waits for a connection with another in hand: a refresh through a
\* connection of its own would wait for the pool its lease has emptied.
NoHoldAndWait == \A u \in Users : ~ (Waiting(u) /\ Holds(u))

\* When the acquire timeout of a batch strikes, no readiness check is ahead of it
\* in the line and none has a connection, however many there are, although a
\* check's statement may hang and max_connections may be 1.  Where the acquire
\* timeout is longer than a check and the return of its connection together, no
\* connection of a check is even on its way back: then it is the database that
\* gave the batch none, and readiness checks never cost a worker its batch.
ChecksNeverStarveBatch ==
  \A w \in Loops : Waiting(w) /\ age[w] = AcquireTimeout =>
    /\ Head(line) = w
    /\ \A p \in Places : place[p].user \in Checks =>
         place[p].returning /\ ReadinessTimeout + ReturnTimeout >= AcquireTimeout

\* With two connections or more, a check that finds none waits for another check
\* or for a connection on its way back, and never for the worker alone, the
\* leading collector included, which keeps one connection for good: readiness
\* says whether the process can use PostgreSQL (observability.md).
RestNeverBlocksReadiness ==
  \A c \in Checks : limit > 1 /\ Waiting(c) /\ (\A p \in Places : place[p] # Free) =>
    \E p \in Places : place[p].user \in Checks \/ place[p].returning

\* After a signal, or the end of a task, the process does exit: whatever hangs,
\* every connection is given up and comes back for the pool to close.
ProcessExits ==
  (signal # "none" \/ \E t \in Tasks : Ended(t)) ~> pool = "closed"
=============================================================================
