---------------------- MODULE CollectorLeadershipProofs ----------------------
(***************************************************************************)
(* CollectorLeadership for any set of replicas: one reader at a time, and  *)
(* no lock without a lease or the attempt at one.                          *)
(***************************************************************************)
EXTENDS CollectorLeadership, TLAPS

\* Only the session that owns the lock runs the state query.
ReaderOwns == \A p \in Processes : phase[p] = "reading" => owner = p

LeaderInv == TypeOK /\ LockEndsWithLease /\ ReaderOwns

-----------------------------------------------------------------------------

LEMMA InitLeaderInv == Init => LeaderInv
BY OwnersAssumption DEF Init, LeaderInv, TypeOK, LockEndsWithLease, ReaderOwns, Phases

\* A process that moves to a phase without the lock, or keeps the lock it has.
LEMMA MoveAndLeave ==
  ASSUME LeaderInv, NEW p \in Processes, NEW to \in Phases \ {"reading"}, Move(p, to),
         DropLease(p) \/ Disconnect(p),
         snapshot' \in [Processes -> BOOLEAN]
  PROVE  LeaderInv'
<1>1. phase' = [phase EXCEPT ![p] = to] /\ phase' \in [Processes -> Phases]
  BY DEF Move, LeaderInv, TypeOK
<1>2. \/ owner = p /\ owner' = Orphan
      \/ owner # p /\ owner' = owner
      \/ owner = None /\ owner' = Orphan
  BY DEF DropLease, Disconnect
<1>3. TypeOK' /\ LockEndsWithLease'
  BY <1>1, <1>2, OwnersAssumption DEF LeaderInv, TypeOK, LockEndsWithLease
<1>4. ReaderOwns'
  BY <1>1, <1>2, OwnersAssumption DEF LeaderInv, ReaderOwns, TypeOK
<1> QED
  BY <1>3, <1>4 DEF LeaderInv

\* A process whose phase does not give the lock gets it.
LEMMA MoveAndGrant ==
  ASSUME LeaderInv, NEW p \in Processes, NEW to \in {"elected", "pooled"}, Move(p, to),
         owner = None, owner' = p, UNCHANGED snapshot
  PROVE  LeaderInv'
<1>1. phase' = [phase EXCEPT ![p] = to] /\ phase' \in [Processes -> Phases]
  BY DEF Move, LeaderInv, TypeOK, Phases
<1>2. TypeOK' /\ LockEndsWithLease'
  BY <1>1 DEF LeaderInv, TypeOK, LockEndsWithLease, Holding
<1>3. ReaderOwns'
  BY <1>1, OwnersAssumption DEF LeaderInv, ReaderOwns, TypeOK
<1> QED
  BY <1>2, <1>3 DEF LeaderInv

\* The owner stays, and stays where an owner may be.
LEMMA MoveOnly ==
  ASSUME LeaderInv, NEW p \in Processes, NEW to \in Phases, Move(p, to), UNCHANGED owner,
         snapshot' \in [Processes -> BOOLEAN],
         owner = p => to \in Holding \cup {"pooled"},
         to = "reading" => owner = p
  PROVE  LeaderInv'
<1>1. phase' = [phase EXCEPT ![p] = to] /\ phase' \in [Processes -> Phases]
  BY DEF Move, LeaderInv, TypeOK
<1>2. TypeOK' /\ LockEndsWithLease'
  BY <1>1 DEF LeaderInv, TypeOK, LockEndsWithLease
<1>3. ReaderOwns'
  BY <1>1 DEF LeaderInv, ReaderOwns, TypeOK
<1> QED
  BY <1>2, <1>3 DEF LeaderInv

LEMMA StepLeaderInv == LeaderInv /\ [Next]_vars => LeaderInv'
<1> SUFFICES ASSUME LeaderInv, [Next]_vars PROVE LeaderInv'
  OBVIOUS
<1> USE DEF Phases, Holding
<1>0. /\ phase \in [Processes -> Phases]
      /\ snapshot \in [Processes -> BOOLEAN]
      /\ owner \in Processes => phase[owner] \in Holding \cup {"pooled"}
  BY DEF LeaderInv, TypeOK, LockEndsWithLease
<1>1. ASSUME NEW p \in Processes, Start(p) \/ Try(p) \/ Refuse(p) \/ Lead(p) \/ Ask(p) \/ Report(p)
      PROVE  LeaderInv'
  BY <1>0, <1>1, MoveOnly DEF Start, Try, Refuse, Lead, Ask, Report
<1>2. ASSUME NEW p \in Processes, Replace(p) PROVE LeaderInv'
  BY <1>0, <1>2, MoveOnly DEF Replace
<1>3. ASSUME NEW p \in Processes, Read(p) PROVE LeaderInv'
  BY <1>0, <1>3, MoveOnly DEF Read, SessionLives
<1>4. ASSUME NEW p \in Processes, Grant(p) \/ GrantLate(p) PROVE LeaderInv'
  BY <1>4, MoveAndGrant DEF Grant, GrantLate
<1>5. ASSUME NEW p \in Processes, Fail(p) \/ FailToTry(p) \/ Cancel(p) \/ Exit(p)
      PROVE  LeaderInv'
  BY <1>0, <1>5, MoveAndLeave DEF Fail, FailToTry, Cancel, Exit
<1>6. ASSUME NEW p \in Processes, CancelTry(p) PROVE LeaderInv'
  BY <1>0, <1>6, MoveOnly DEF CancelTry
<1>7. ASSUME NEW p \in Processes, LoseSession(p) PROVE LeaderInv'
  <2>1. phase' \in [Processes -> Phases]
    BY <1>0, <1>7 DEF LoseSession
  <2>2. TypeOK' /\ LockEndsWithLease'
    BY <2>1, <1>0, <1>7, OwnersAssumption DEF LoseSession, TypeOK, LockEndsWithLease
  <2>3. ReaderOwns'
    BY <1>0, <1>7 DEF LoseSession, LeaderInv, ReaderOwns
  <2> QED
    BY <2>2, <2>3 DEF LeaderInv
<1>8. CASE ReleaseOrphan
  BY <1>8, OwnersAssumption DEF ReleaseOrphan, LeaderInv, TypeOK, LockEndsWithLease, ReaderOwns
<1>9. CASE UNCHANGED vars
  BY <1>9 DEF vars, LeaderInv, TypeOK, LockEndsWithLease, ReaderOwns
<1> QED
  BY <1>1, <1>2, <1>3, <1>4, <1>5, <1>6, <1>7, <1>8, <1>9 DEF Next, Work

LEMMA LeaderInvariant == Spec => []LeaderInv
BY InitLeaderInv, StepLeaderInv, PTL DEF Spec

\* Of any number of replicas, two never run the state query at the same time,
\* although sessions are lost while a query runs and the lock is granted to
\* processes that have stopped waiting for it.
THEOREM OneReader == Spec => []SoleReader
<1>1. LeaderInv => SoleReader
  BY DEF LeaderInv, ReaderOwns, SoleReader
<1> QED
  BY <1>1, LeaderInvariant, PTL

\* Of any number of replicas, none that has lost its lease, by an error or by a
\* cancellation, has a connection left that owns the lock: only a leader has, or
\* a process about to exit whose attempt was cancelled.
THEOREM OwnersLead == Spec => []LockEndsWithLease
<1>1. LeaderInv => LockEndsWithLease
  BY DEF LeaderInv
<1> QED
  BY <1>1, LeaderInvariant, PTL

\* The state has the types the model gives it.
THEOREM LeadershipTypeCorrect == Spec => []TypeOK
<1>1. LeaderInv => TypeOK
  BY DEF LeaderInv
<1> QED
  BY <1>1, LeaderInvariant, PTL
=============================================================================
