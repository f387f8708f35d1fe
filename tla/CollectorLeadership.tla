------------------------ MODULE CollectorLeadership ------------------------
(***************************************************************************)
(* The state metrics collectors.  Every replica tries for one PostgreSQL   *)
(* advisory lock; the one that gets it refreshes its snapshot of the queue *)
(* states through the session that owns the lock, and its gauge callbacks  *)
(* export the snapshot.  A session can end at the server long before its   *)
(* client learns of it, and the client can be gone while the server still  *)
(* thinks that the session lives.                                          *)
(***************************************************************************)
CONSTANTS
  Processes,
  Orphan,    \* the session of a process that is gone
  None

ASSUME OwnersAssumption == {Orphan, None} \cap Processes = {} /\ Orphan # None

VARIABLES
  phase,     \* [Processes -> where each replica is]
  owner,     \* the session that owns the advisory lock
  snapshot   \* [Processes -> whether the gauges have a snapshot to export]

vars == <<phase, owner, snapshot>>

Phases ==
  {"down",
   "standby",   \* waiting for the retry interval
   "trying",    \* pg_try_advisory_lock is on its way
   "withdrawn", \* cancelled with pg_try_advisory_lock still on its way
   "pooled",    \* cancelled, and the connection of the attempt is in the pool
   "elected",   \* the server granted the lock, the reply is on its way
   "leading",   \* waiting for the collection interval
   "asking",    \* the state query is on its way
   "reading",   \* the server runs the state query
   "reported",  \* the rows are on their way back
   "stopping"}  \* the collector's task has ended, the process is about to

Holding == {"elected", "leading", "asking", "reading", "reported"}

Move(p, to) == phase' = [phase EXCEPT ![p] = to]

\* Mutant: without close_on_drop the connection goes back to the pool.
DropLease_BackToPool(p) == UNCHANGED owner

\* close_on_drop: the client's end of the lease's connection closes with the
\* lease; the server may notice later.
DropLease(p) == owner' = IF owner = p THEN Orphan ELSE owner

\* The client's ends of all connections close, and the server may still run the
\* attempt that the client had sent.
Disconnect(p) ==
  \/ DropLease(p)
  \/ phase[p] \in {"trying", "withdrawn"} /\ owner = None /\ owner' = Orphan

-----------------------------------------------------------------------------
(* Standby.                                                                *)

Start(p) == phase[p] = "down" /\ Move(p, "standby") /\ UNCHANGED <<owner, snapshot>>

Try(p) == phase[p] = "standby" /\ Move(p, "trying") /\ UNCHANGED <<owner, snapshot>>

Grant(p) ==
  /\ phase[p] = "trying"
  /\ owner = None
  /\ owner' = p
  /\ Move(p, "elected")
  /\ UNCHANGED snapshot

Refuse(p) ==
  /\ phase[p] = "trying"
  /\ owner # None
  /\ Move(p, "standby")
  /\ UNCHANGED <<owner, snapshot>>

\* close_on_drop: from here the session ends with the lease.
Lead(p) == phase[p] = "elected" /\ Move(p, "leading") /\ UNCHANGED <<owner, snapshot>>

-----------------------------------------------------------------------------
(* Leader.                                                                 *)

Ask(p) == phase[p] = "leading" /\ Move(p, "asking") /\ UNCHANGED <<owner, snapshot>>

\* Mutant: the state query takes any connection of the pool.
SessionLives_AnyConnection(p) == TRUE

\* The query runs on the session that owns the lock, or not at all.
SessionLives(p) == owner = p

Read(p) ==
  /\ phase[p] = "asking"
  /\ SessionLives(p)
  /\ Move(p, "reading")
  /\ UNCHANGED <<owner, snapshot>>

Report(p) ==
  /\ phase[p] = "reading"
  /\ SessionLives(p)
  /\ Move(p, "reported")
  /\ UNCHANGED <<owner, snapshot>>

\* replace and collection_finished(true).
Replace(p) ==
  /\ phase[p] = "reported"
  /\ snapshot' = [snapshot EXCEPT ![p] = TRUE]
  /\ Move(p, "leading")
  /\ UNCHANGED owner

\* Mutant: a failed refresh is logged and the next one tried.
Fail_KeepLeading(p) ==
  /\ phase[p] \in {"asking", "reading", "reported"}
  /\ Move(p, "leading")
  /\ UNCHANGED <<owner, snapshot>>

\* A refresh that fails ends the task; the lease is dropped, the snapshot not.
Fail(p) ==
  /\ phase[p] \in {"asking", "reading", "reported"}
  /\ Move(p, "stopping")
  /\ DropLease(p)
  /\ UNCHANGED snapshot

\* An attempt for the lock that fails ends the task too, even when the server
\* has granted the lock and only the reply was lost.
FailToTry(p) ==
  /\ phase[p] \in {"trying", "elected"}
  /\ Move(p, "stopping")
  /\ Disconnect(p)
  /\ UNCHANGED snapshot

\* The worker's cancellation token, wherever the loop is.
Cancel(p) ==
  /\ phase[p] \in {"standby", "leading", "asking", "reading", "reported"}
  /\ Move(p, "stopping")
  /\ DropLease(p)
  /\ UNCHANGED snapshot

\* A future that is dropped before close_on_drop leaves its connection in the
\* pool, and the lock with it once the server has granted it, until the process
\* closes the pool.
CancelTry(p) ==
  /\ phase[p] \in {"trying", "elected"}
  /\ Move(p, IF phase[p] = "trying" THEN "withdrawn" ELSE "pooled")
  /\ UNCHANGED <<owner, snapshot>>

GrantLate(p) ==
  /\ phase[p] = "withdrawn"
  /\ owner = None
  /\ owner' = p
  /\ Move(p, "pooled")
  /\ UNCHANGED snapshot

-----------------------------------------------------------------------------
(* The process, its sessions and the server.                               *)

\* The management endpoint closes and the process exits; or it is killed.
Exit(p) ==
  /\ phase[p] # "down"
  /\ Move(p, "down")
  /\ Disconnect(p)
  /\ snapshot' = [snapshot EXCEPT ![p] = FALSE]

\* The server ends a session whose client is alive: a network failure, a
\* restart of PostgreSQL.  A query it runs ends with it.
LoseSession(p) ==
  /\ owner = p
  /\ owner' = None
  /\ phase' = [phase EXCEPT ![p] = IF @ = "reading" THEN "asking" ELSE @]
  /\ UNCHANGED snapshot

ReleaseOrphan ==
  /\ owner = Orphan
  /\ owner' = None
  /\ UNCHANGED <<phase, snapshot>>

Init ==
  /\ phase = [p \in Processes |-> "down"]
  /\ owner = None
  /\ snapshot = [p \in Processes |-> FALSE]

Work(p) ==
  \/ Start(p) \/ Try(p) \/ Grant(p) \/ GrantLate(p) \/ Refuse(p) \/ Lead(p)
  \/ Ask(p) \/ Read(p) \/ Report(p) \/ Replace(p) \/ Fail(p)

\* Mutant: the process goes on without its collector.
Stop_KeepsRunning(p) == FALSE

\* The supervisor brings a process down whose collector has ended.
Stop(p) == phase[p] \in {"withdrawn", "pooled", "stopping"} /\ Exit(p)

Next ==
  \/ \E p \in Processes : Work(p) \/ FailToTry(p) \/ Cancel(p) \/ CancelTry(p) \/ Exit(p) \/ LoseSession(p)
  \/ ReleaseOrphan

Spec == Init /\ [][Next]_vars

\* The intervals elapse, queries are answered or fail, processes that stop
\* exit and the server notices sessions whose client is gone.
FairSpec ==
  /\ Spec
  /\ WF_vars(ReleaseOrphan)
  /\ \A p \in Processes : WF_vars(Work(p)) /\ WF_vars(Stop(p))

-----------------------------------------------------------------------------
(* Properties. *)

TypeOK ==
  /\ phase \in [Processes -> Phases]
  /\ owner \in Processes \cup {Orphan, None}
  /\ snapshot \in [Processes -> BOOLEAN]

\* The lock's session ends with the lease: a process whose collector has failed,
\* or was cancelled as a leader, has no connection left that owns the lock.  A
\* connection that does is in a pool only after an attempt was cancelled before
\* close_on_drop, and then in the pool of a process that is about to exit.
LockEndsWithLease == owner \in Processes => phase[owner] \in Holding \cup {"pooled"}

\* Two replicas never run the state query at the same time, whatever sessions
\* were lost while a query or the reply to one was under way.
SoleReader ==
  \A p, q \in Processes : phase[p] = "reading" /\ phase[q] = "reading" => p = q

Exports(p) == phase[p] # "down" /\ snapshot[p]

\* A replica that has lost the lock does not export its last snapshot for
\* ever: it gets the lock no more, so it exits, or lost it while stopping.
FormerLeaderStops ==
  \A p \in Processes : Exports(p) /\ owner # p ~> ~ Exports(p)

\* Once nothing fails any more but the refreshes of a leader that has lost its
\* session, one replica gets the lock and exports the gauges, for good.
Calm ==
  <>[][\/ \E p \in Processes : Work(p) /\ (Fail(p) => owner # p)
       \/ \E p \in Processes : Stop(p)
       \/ ReleaseOrphan]_vars

FailoverCompletes == Calm => <>[](\E p \in Processes : owner = p /\ Exports(p))

\* The collector's guide says that exiting after a failed refresh prevents an
\* old leader from exporting stale gauges after another collector takes over.
\* A leader whose session is lost learns it at its next refresh only.
SingleExporter == \A p, q \in Processes : Exports(p) /\ Exports(q) => p = q
=============================================================================
