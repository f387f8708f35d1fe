-------------------------- MODULE WorkerProcessProofs --------------------------
(***************************************************************************)
(* Proofs about WorkerSupervisor and WorkerProcess, for any sets of loops, *)
(* servers and checks.  First the supervisor alone: what is true of the    *)
(* tasks when serve returns, and of what it returns.  Then the whole       *)
(* process: the pool, the readiness checks and the clock add no step to    *)
(* the supervisor, so what is proved of it holds of the process; and       *)
(* nobody keeps its worker from the pool, or a check for good.             *)
(***************************************************************************)
EXTENDS WorkerProcess, FiniteSets, SequenceTheorems, FiniteSetTheorems, TLAPS

\* The supervisor has seen the end of ended tasks only, gives up waiting while
\* one is left, and returns when none is.
JoinInv ==
  /\ joined \subseteq Tasks
  /\ \A t \in joined : Ended(t)
  /\ phase = "aborting" => joined # Tasks
  /\ phase = "returned" => \A t \in Tasks : Ended(t)

\* What the supervisor remembers of the tasks whose end it has seen.
ErrorInv ==
  phase # "waiting" /\ result = "ok" =>
    /\ signal = "received"
    /\ failed \/ \A t \in joined : task[t] = "succeeded"

\* How the outcome came from the result and the drain.
OutcomeInv ==
  phase = "returned" /\ outcome = "ok" => result = "ok" /\ (failed => joined # Tasks)

SuperInv ==
  /\ task \in [Tasks -> {"working", "resting", "serving", "stopping"} \cup Ends]
  /\ phase \in {"waiting", "draining", "aborting", "returned"}
  /\ phase = "waiting" => joined = {}
  /\ JoinInv /\ ErrorInv /\ OutcomeInv

-----------------------------------------------------------------------------

LEMMA InitSuperInv == Init => SuperInv
BY DEF Init, SuperInv, JoinInv, ErrorInv, OutcomeInv, Tasks

\* A task that has not ended moves: nothing the supervisor has seen changes.
LEMMA TaskMoves ==
  ASSUME SuperInv, NEW t \in Tasks, ~ Ended(t),
         NEW state \in {"working", "resting", "serving", "stopping"} \cup Ends, Put(t, state)
  PROVE  SuperInv'
<1>1. task' = [task EXCEPT ![t] = state]
      /\ UNCHANGED <<joined, signal, cancelled, phase, result, failed, outcome>>
  BY DEF Put
<1>2. t \notin joined /\ phase # "returned"
  BY DEF SuperInv, JoinInv
<1>3. task' \in [Tasks -> {"working", "resting", "serving", "stopping"} \cup Ends]
  BY <1>1 DEF SuperInv
<1>4. \A u \in joined : task'[u] = task[u]
  BY <1>1, <1>2 DEF SuperInv, JoinInv
<1>5. JoinInv'
  BY <1>1, <1>2, <1>4 DEF SuperInv, JoinInv, Ended
<1>6. ErrorInv'
  BY <1>1, <1>4 DEF SuperInv, ErrorInv
<1> QED
  BY <1>1, <1>3, <1>5, <1>6 DEF SuperInv, OutcomeInv

LEMMA TasksStep ==
  ASSUME SuperInv,
         \/ \E w \in Loops : BeginBatch(w) \/ EndBatch(w) \/ LeaveLoop(w)
         \/ \E s \in Servers : StopServer(s) \/ EndServer(s)
         \/ \E t \in Tasks : Abort(t)
  PROVE  SuperInv'
<1> USE DEF Tasks, Ends, Ended
<1>1. ASSUME NEW w \in Loops, BeginBatch(w) \/ EndBatch(w) \/ LeaveLoop(w) PROVE SuperInv'
  BY <1>1, TaskMoves DEF BeginBatch, EndBatch, LeaveLoop
<1>2. ASSUME NEW s \in Servers, StopServer(s) \/ EndServer(s) PROVE SuperInv'
  BY <1>2, TaskMoves DEF StopServer, EndServer
<1>3. ASSUME NEW t \in Tasks, Abort(t) PROVE SuperInv'
  BY <1>3, TaskMoves DEF Abort
<1> QED
  BY <1>1, <1>2, <1>3

\* The end of the wait: by the signal, or by the first task that ends.
LEMMA SelectStep ==
  ASSUME SuperInv, SelectSignal \/ UnexpectedWorkerExit
  PROVE  SuperInv'
<1>1. CASE SelectSignal
  <2>1. /\ phase = "waiting" /\ phase' = "draining" /\ joined = {}
        /\ UNCHANGED <<task, joined, signal, failed, outcome>>
        /\ result' = IF signal = "received" THEN "ok" ELSE "error"
    BY <1>1 DEF SelectSignal, Cancel, SuperInv
  <2> QED
    BY <2>1 DEF SuperInv, JoinInv, ErrorInv, OutcomeInv, Ended
<1>2. CASE UnexpectedWorkerExit
  <2>1. PICK t \in Tasks \ joined : Ended(t) /\ joined' = joined \cup {t} /\ Cancel("error")
    BY <1>2 DEF UnexpectedWorkerExit
  <2>2. /\ phase' = "draining" /\ result' = "error"
        /\ UNCHANGED <<task, signal, failed, outcome>>
    BY <2>1 DEF Cancel
  <2> QED
    BY <2>1, <2>2 DEF SuperInv, JoinInv, ErrorInv, OutcomeInv, Ended
<1> QED
  BY <1>1, <1>2

LEMMA DrainStep ==
  ASSUME SuperInv, Drain \/ Drained \/ Timeout \/ Aborted
  PROVE  SuperInv'
<1>1. CASE Drain
  <2>1. PICK t \in Tasks \ joined :
          /\ phase = "draining" /\ Ended(t) /\ joined' = joined \cup {t}
          /\ failed' = (failed \/ task[t] # "succeeded")
          /\ UNCHANGED <<task, signal, cancelled, phase, result, outcome>>
    BY <1>1 DEF Drain
  <2>2. JoinInv'
    BY <2>1 DEF SuperInv, JoinInv, Ended
  <2>3. ErrorInv'
    <3>1. result = "ok" => signal = "received"
      BY <2>1 DEF SuperInv, ErrorInv
    <3>2. ASSUME result = "ok", ~ failed' PROVE \A u \in joined' : task[u] = "succeeded"
      <4>1. ~ failed /\ task[t] = "succeeded"
        BY <2>1, <3>2
      <4> QED
        BY <2>1, <3>2, <4>1 DEF SuperInv, ErrorInv
    <3> QED
      BY <2>1, <3>1, <3>2 DEF ErrorInv
  <2>4. OutcomeInv' /\ phase' # "waiting"
    BY <2>1 DEF OutcomeInv
  <2> QED
    BY <2>1, <2>2, <2>3, <2>4 DEF SuperInv
<1>2. CASE Drained
  BY <1>2 DEF Drained, Return, SuperInv, JoinInv, ErrorInv, OutcomeInv, Ended
<1>3. CASE Timeout
  BY <1>3 DEF Timeout, SuperInv, JoinInv, ErrorInv, OutcomeInv, Ended
<1>4. CASE Aborted
  BY <1>4 DEF Aborted, Return, SuperInv, JoinInv, ErrorInv, OutcomeInv, Ended
<1> QED
  BY <1>1, <1>2, <1>3, <1>4

LEMMA StepSuperInv == SuperInv /\ [Next]_vars => SuperInv'
<1> SUFFICES ASSUME SuperInv, [Next]_vars PROVE SuperInv'
  OBVIOUS
<1>1. CASE SignalArrives
  <2>1. phase = "waiting" \/ signal # "received" \/ signal' = signal
    BY <1>1 DEF SignalArrives
  <2>2. signal = "none" /\ UNCHANGED <<task, joined, phase, result, failed, outcome>>
    BY <1>1 DEF SignalArrives
  <2>3. phase = "waiting" \/ result # "ok"
    BY <2>2 DEF SuperInv, ErrorInv
  <2> QED
    BY <2>2, <2>3 DEF SuperInv, JoinInv, ErrorInv, OutcomeInv, Ended
<1>2. CASE UNCHANGED vars
  BY <1>2 DEF vars, SuperInv, JoinInv, ErrorInv, OutcomeInv, Ended
<1> QED
  BY <1>1, <1>2, TasksStep, SelectStep, DrainStep DEF Next, Supervise

LEMMA SuperInvariant == Spec => []SuperInv
BY InitSuperInv, StepSuperInv, PTL DEF Spec

\* Whatever hangs, fails or panics, and whether or not the drain was cut short,
\* no task is left when serve returns and its caller closes the database pool.
THEOREM NoneOutlives == Spec => []NoTaskOutlivesServe
<1>1. SuperInv => NoTaskOutlivesServe
  BY DEF SuperInv, JoinInv, NoTaskOutlivesServe
<1> QED
  BY <1>1, SuperInvariant, PTL

\* serve returns Ok only after a signal, and only if every task has succeeded or
\* the timeout cut the wait for them short.  In the second case tasks may have
\* failed, some of them before the timeout: drain's errors are given up with it.
THEOREM CleanSuccess == Spec => []SuccessIsClean
<1>1. SuperInv => SuccessIsClean
  BY DEF SuperInv, JoinInv, ErrorInv, OutcomeInv, SuccessIsClean
<1> QED
  BY <1>1, SuperInvariant, PTL

-----------------------------------------------------------------------------
(* The whole process.                                                      *)

LEMMA SupervisedStep == [ProcessNext]_processVars => [Next]_vars
<1> SUFFICES ASSUME [ProcessNext]_processVars PROVE [Next]_vars
    OBVIOUS
<1>1. ASSUME NEW w \in Loops,
             StartBatch(w) \/ FinishBatch(w) \/ BecomeLeader(w) \/ AcquireFails(w) \/ DropTask(w)
      PROVE  Next
      <2>1. BeginBatch(w) \/ EndBatch(w) \/ LeaveLoop(w) \/ Abort(w)
            BY <1>1 DEF StartBatch, FinishBatch, BecomeLeader, AcquireFails, DropTask
      <2> QED BY <2>1 DEF Next, Tasks
<1>2. CASE ManagementStep
      <2>1. PICK s \in Servers : StopServer(s) \/ EndServer(s) \/ Abort(s)
            BY <1>2 DEF ManagementStep
      <2> QED BY <2>1 DEF Next, Tasks
<1>3. CASE (SignalArrives \/ Supervise) /\ UNCHANGED poolVars
      BY <1>3 DEF Next
<1>4. ASSUME \/ \E c \in Checks : BeginCheck(c) \/ EndCheck(c)
             \/ \E p \in Places : BackInPool(p)
             \/ Grant \/ Tick \/ Close \/ Closed
             \/ UNCHANGED processVars
      PROVE  UNCHANGED vars
      BY <1>4 DEF BeginCheck, EndCheck, BackInPool, Grant, Tick, Close, Closed, processVars
<1> QED BY <1>1, <1>2, <1>3, <1>4 DEF ProcessNext

\* Readiness checks and the pool never make a task run, rest or end other than
\* as the supervisor's model says.
THEOREM ProcessIsSupervised == ProcessSpec => Spec
<1>1. ProcessInit => Init
      BY DEF ProcessInit
<1> QED BY <1>1, SupervisedStep, PTL DEF ProcessSpec, Spec

\* With the pool, the checks and the clock, too, no task is left when serve
\* has returned.
THEOREM ProcessTasksEnd == ProcessSpec => []NoTaskOutlivesServe
BY ProcessIsSupervised, NoneOutlives, PTL

\* With the pool, the checks and the clock, too, Ok means a signal and that every
\* task has succeeded or the wait for them was cut short.
THEOREM ProcessCleanSuccess == ProcessSpec => []SuccessIsClean
BY ProcessIsSupervised, CleanSuccess, PTL

-----------------------------------------------------------------------------

\* The pool is closed by the caller of serve, after it has returned.
ClosesAfterServe == pool # "open" => phase = "returned"

LEMMA CloseStep == ClosesAfterServe /\ [ProcessNext]_processVars => ClosesAfterServe'
<1> SUFFICES ASSUME ClosesAfterServe, [ProcessNext]_processVars PROVE ClosesAfterServe'
    OBVIOUS
<1>1. phase = "returned" => phase' = "returned"
      <2>1. [Next]_vars
            BY SupervisedStep
      <2> QED BY <2>1 DEF Next, vars, BeginBatch, EndBatch, LeaveLoop, StopServer, EndServer,
                          Abort, Put, SignalArrives, Supervise, SelectSignal, Cancel,
                          UnexpectedWorkerExit, Drain, Drained, Return, Timeout, Aborted
<1>2. pool' = pool \/ phase = "returned" \/ pool = "closing"
      BY DEF ProcessNext, StartBatch, FinishBatch, BecomeLeader, AcquireFails, DropTask,
             BeginCheck, EndCheck, ManagementStep, poolVars, processVars, BackInPool, Grant,
             Tick, Close, Closed
<1> QED BY <1>1, <1>2 DEF ClosesAfterServe

\* No task of the process is left when its pool begins to close, so that none
\* meets a closed pool and fails where it should have stopped.
THEOREM PoolClosesLast == ProcessSpec => [](pool # "open" => \A t \in Tasks : Ended(t))
<1>1. ProcessInit => ClosesAfterServe
      BY DEF ProcessInit, ClosesAfterServe
<1>2. ClosesAfterServe /\ NoTaskOutlivesServe => (pool # "open" => \A t \in Tasks : Ended(t))
      BY DEF ClosesAfterServe, NoTaskOutlivesServe
<1>3. ProcessSpec => []ClosesAfterServe
      BY <1>1, CloseStep, PTL DEF ProcessSpec
<1> QED BY <1>2, <1>3, ProcessTasksEnd, PTL
-----------------------------------------------------------------------------
(* The pool.                                                               *)

\* A check has been at least as long on its way as a worker that is behind it.
ChecksFirst ==
  \A w \in Loops, c \in Checks :
    /\ Waiting(w) /\ Holds(c) => age[c] >= age[w]
    /\ \A i, j \in DOMAIN line : line[i] = c /\ line[j] = w /\ i < j => age[c] >= age[w]

\* Checks are over in time, whatever hangs.
ChecksInTime == \A c \in Checks : Busy(c) => age[c] <= ReadinessTimeout

\* A check's connection that is on its way back was given up in time, and a
\* worker that waits has been behind that check and its connection since.
ReturnsInTime ==
  \A w \in Loops, p \in Places :
    Waiting(w) /\ place[p].returning /\ place[p].user \in Checks =>
      age[w] <= ReadinessTimeout + place[p].age

\* The places by themselves: one without a user is free, and nobody has two
\* connections in hand.
PlaceInv ==
  /\ place \in [Places -> Place]
  /\ \A p \in Places : place[p].user = None => place[p] = Free
  /\ \A u \in Users : \A p, q \in Places : InHand(p, u) /\ InHand(q, u) => p = q

LineInv ==
  /\ line \in Seq(Users) /\ IsInjective(line)
  /\ PlaceInv
  /\ age \in [Users -> 0 .. AcquireTimeout]
  /\ NoHoldAndWait
  /\ ChecksFirst
  /\ ChecksInTime
  /\ ReturnsInTime

\* A worker waits or works with its connection; one that rests has one only if
\* it leads.
WorkerInv ==
  \A w \in Loops :
    /\ Waiting(w) => task[w] = "working"
    /\ task[w] = "resting" /\ Holds(w) => leads
    /\ leads => Holds(w)

\* What each step does to the places.
LEMMA ReleasePlaces ==
  ASSUME PlaceInv, NEW u \in Users, Release(u), UNCHANGED limit
  PROVE  /\ PlaceInv'
         /\ \A p \in Places : \A v \in Users : InHand(p, v)' <=> InHand(p, v) /\ v # u
         /\ \A p \in Places : place'[p].user = place[p].user /\ place'[p].age = place[p].age
         /\ \A p \in Places : place'[p].returning => place[p].returning \/ InHand(p, u)
<1>1. Places' = Places /\ place \in [Places -> Place]
      BY DEF Places, PlaceInv
<1>2. place' = [p \in Places |->
                  IF InHand(p, u) THEN [place[p] EXCEPT !.returning = TRUE] ELSE place[p]]
      BY DEF Release
<1>3. ASSUME NEW p \in Places
      PROVE  /\ place'[p] \in Place
             /\ place'[p].user = place[p].user /\ place'[p].age = place[p].age
             /\ InHand(p, u) => place'[p].returning
             /\ ~ InHand(p, u) => place'[p].returning = place[p].returning
      <2>1. place[p] \in Place
            BY <1>1
      <2>2. CASE InHand(p, u)
            <3>1. place'[p] = [place[p] EXCEPT !.returning = TRUE]
                  BY <1>2, <2>2
            <3> QED BY <2>1, <2>2, <3>1 DEF Place
      <2>3. CASE ~ InHand(p, u)
            BY <1>2, <2>1, <2>3
      <2> QED BY <2>2, <2>3
<1>4. place' \in [Places -> Place]
      BY <1>2, <1>3
<1>5. ASSUME NEW p \in Places, NEW v \in Users
      PROVE  InHand(p, v)' <=> InHand(p, v) /\ v # u
      <2>1. CASE InHand(p, u)
            BY <1>3, <2>1 DEF InHand
      <2>2. CASE ~ InHand(p, u)
            BY <1>3, <2>2 DEF InHand
      <2> QED BY <2>1, <2>2
<1>6. PlaceInv'
      <2>1. (place \in [Places -> Place])'
            BY <1>1, <1>4 DEF Place
      <2>2. \A v \in Users : \A p, q \in Places : InHand(p, v)' /\ InHand(q, v)' => p = q
            BY <1>5 DEF PlaceInv
      <2>3. ASSUME NEW p \in Places, place'[p].user = None PROVE place'[p] = Free
            <3>1. ~ InHand(p, u)
                  BY <1>3, <2>3, ProcessAssumption DEF InHand, Users, Tasks
            <3> QED BY <1>2, <1>3, <2>3, <3>1 DEF PlaceInv
      <2> QED BY <1>1, <2>1, <2>2, <2>3 DEF PlaceInv, Free
<1> QED BY <1>3, <1>5, <1>6

LEMMA BackInPoolPlaces ==
  ASSUME PlaceInv, NEW r \in Places, BackInPool(r)
  PROVE  /\ PlaceInv'
         /\ \A p \in Places : \A v \in Users : InHand(p, v)' <=> InHand(p, v)
         /\ \A p \in Places : place'[p] = place[p] \/ ~ place'[p].returning
<1>1. Places' = Places /\ place \in [Places -> Place]
      BY DEF Places, PlaceInv, BackInPool
<1>2. Free \in Place /\ ~ Free.returning /\ Free.user \notin Users
      BY ProcessAssumption DEF Free, Place, Users, Tasks
<1>3. place' = [place EXCEPT ![r] = Free] /\ place[r].returning
      BY DEF BackInPool
<1>4. place'[r] = Free /\ \A p \in Places \ {r} : place'[p] = place[p]
      BY <1>1, <1>3
<1>5. place' \in [Places -> Place]
      BY <1>1, <1>2, <1>3
<1>6. ASSUME NEW p \in Places, NEW v \in Users
      PROVE  InHand(p, v)' <=> InHand(p, v)
      BY <1>2, <1>3, <1>4 DEF InHand
<1>7. PlaceInv'
      <2>1. (place \in [Places -> Place])'
            BY <1>1, <1>5 DEF Place
      <2>2. \A v \in Users : \A p, q \in Places : InHand(p, v)' /\ InHand(q, v)' => p = q
            BY <1>6 DEF PlaceInv
      <2>3. \A p \in Places : place'[p].user = None => place'[p] = Free
            BY <1>4 DEF PlaceInv
      <2> QED BY <1>1, <2>1, <2>2, <2>3 DEF PlaceInv, Free
<1> QED BY <1>2, <1>4, <1>6, <1>7

LEMMA GrantPlaces ==
  ASSUME PlaceInv, NEW u \in Users, u = Head(line), ~ Holds(u), Grant
  PROVE  /\ PlaceInv' /\ Holds(u)'
         /\ \A p \in Places : \A v \in Users \ {u} : InHand(p, v)' <=> InHand(p, v)
         /\ \A p \in Places : place'[p] = place[p] \/ ~ place'[p].returning
<1>1. Places' = Places /\ place \in [Places -> Place]
      BY DEF Places, PlaceInv, Grant
<1>2. PICK r \in Places : place[r] = Free /\ place' = [place EXCEPT ![r].user = u]
      BY DEF Grant
<1>3. Free \in Place /\ ~ Free.returning /\ Free.user \notin Users
      BY ProcessAssumption DEF Free, Place, Users, Tasks
<1>4. /\ place'[r] \in Place /\ place'[r].user = u /\ ~ place'[r].returning
      /\ \A p \in Places \ {r} : place'[p] = place[p]
      <2>1. place'[r] = [place[r] EXCEPT !.user = u]
            BY <1>1, <1>2
      <2>2. place[r] \in Place /\ ~ place[r].returning /\ u \in Users
            BY <1>2, <1>3
      <2>3. /\ [place[r] EXCEPT !.user = u] \in Place
            /\ [place[r] EXCEPT !.user = u].user = u
            /\ [place[r] EXCEPT !.user = u].returning = place[r].returning
            BY <2>2 DEF Place
      <2> QED BY <1>1, <1>2, <2>1, <2>2, <2>3
<1>5. place'[r] \in Place
      BY <1>4
<1>6. place' \in [Places -> Place]
      BY <1>1, <1>2, <1>4, <1>5
<1>7. ASSUME NEW p \in Places, NEW v \in Users
      PROVE  InHand(p, v)' <=> InHand(p, v) \/ (p = r /\ v = u)
      <2>1. CASE p = r
            <3>1. place'[p].user = u /\ ~ place'[p].returning /\ place[p].user \notin Users
                  BY <1>2, <1>3, <1>4, <2>1
            <3> QED BY <2>1, <3>1 DEF InHand
      <2>2. CASE p # r
            BY <1>4, <2>2 DEF InHand
      <2> QED BY <2>1, <2>2
<1>8. Holds(u)'
      BY <1>1, <1>7 DEF Holds
<1>9. PlaceInv'
      <2>1. (place \in [Places -> Place])'
            BY <1>1, <1>6 DEF Place
      <2>2. \A v \in Users : \A p, q \in Places : InHand(p, v)' /\ InHand(q, v)' => p = q
            BY <1>7 DEF PlaceInv, Holds
      <2>3. ASSUME NEW p \in Places, place'[p].user = None PROVE place'[p] = Free
            <3>1. p # r
                  BY <1>4, <2>3, ProcessAssumption DEF Users, Tasks
            <3> QED BY <1>4, <2>3, <3>1 DEF PlaceInv
      <2> QED BY <1>1, <2>1, <2>2, <2>3 DEF PlaceInv, Free
<1>10. ~ place'[r].returning
      BY <1>4
<1> QED BY <1>4, <1>7, <1>8, <1>9, <1>10

LEMMA TickPlaces ==
  ASSUME PlaceInv, Tick
  PROVE  /\ PlaceInv'
         /\ \A p \in Places : \A v \in Users : InHand(p, v)' <=> InHand(p, v)
         /\ \A p \in Places :
              /\ place'[p].user = place[p].user /\ place'[p].returning = place[p].returning
              /\ place[p].returning => place'[p].age = place[p].age + 1
<1>1. Places' = Places /\ place \in [Places -> Place]
      BY DEF Places, PlaceInv, Tick
<1>2. place' = [p \in Places |->
                  IF place[p].returning THEN [place[p] EXCEPT !.age = @ + 1] ELSE place[p]]
      BY DEF Tick
<1>3. ASSUME NEW p \in Places
      PROVE  /\ place'[p] \in Place
             /\ place'[p].user = place[p].user /\ place'[p].returning = place[p].returning
             /\ place[p].returning => place'[p].age = place[p].age + 1
      <2>1. place[p] \in Place
            BY <1>1
      <2>2. CASE place[p].returning
            <3>1. place'[p] = [place[p] EXCEPT !.age = @ + 1]
                  BY <1>2, <2>2
            <3>2. ~ (place[p].age >= ReturnTimeout)
                  BY <2>2 DEF Tick, Late
            <3> QED BY <2>1, <3>1, <3>2, ProcessAssumption DEF Place
      <2>3. CASE ~ place[p].returning
            BY <1>2, <2>1, <2>3
      <2> QED BY <2>2, <2>3
<1>4. place' \in [Places -> Place]
      BY <1>2, <1>3
<1>5. \A p \in Places : \A v \in Users : InHand(p, v)' <=> InHand(p, v)
      BY <1>3 DEF InHand
<1>6. PlaceInv'
      <2>1. (place \in [Places -> Place])'
            BY <1>1, <1>4 DEF Place
      <2>2. \A v \in Users : \A p, q \in Places : InHand(p, v)' /\ InHand(q, v)' => p = q
            BY <1>5 DEF PlaceInv
      <2>3. ASSUME NEW p \in Places, place'[p].user = None PROVE place'[p] = Free
            <3>1. place[p] = Free
                  BY <1>3, <2>3 DEF PlaceInv
            <3>2. ~ place[p].returning
                  BY <3>1 DEF Free
            <3> QED BY <1>2, <3>1, <3>2
      <2> QED BY <1>1, <2>1, <2>2, <2>3 DEF PlaceInv, Free
<1> QED BY <1>3, <1>5, <1>6

LEMMA ReleaseKeeps ==
  ASSUME LineInv, NEW u \in Users, Release(u), UNCHANGED limit
  PROVE  /\ LineInv'
         /\ ~ Waiting(u)' /\ ~ Holds(u)'
         /\ \A v \in Users \ {u} : (Waiting(v)' <=> Waiting(v)) /\ (Holds(v)' <=> Holds(v))
<1>0. /\ line \in Seq(Users) /\ Len(line) \in Nat /\ DOMAIN line = 1 .. Len(line)
      /\ age' = [age EXCEPT ![u] = 0]
      /\ line' = Without(u)
      /\ \A i \in DOMAIN line : line[i] \in Users
      /\ \A i, j \in DOMAIN line : line[i] = line[j] => i = j
      BY DEF LineInv, Release, IsInjective
<1>1. /\ line' \in Seq(Users)
      /\ \A i \in DOMAIN line' : line'[i] # u
      /\ \A i \in DOMAIN line' : \E k \in DOMAIN line : line[k] = line'[i]
      /\ \A i, j \in DOMAIN line' : i < j =>
           \E k, l \in DOMAIN line : k < l /\ line[k] = line'[i] /\ line[l] = line'[j]
      /\ \A k \in DOMAIN line : line[k] # u => \E i \in DOMAIN line' : line'[i] = line[k]
      <2>1. CASE ~ Waiting(u)
            BY <1>0, <2>1 DEF Without, Waiting, ToSet
      <2>2. CASE Waiting(u)
            <3> DEFINE k == CHOOSE i \in DOMAIN line : line[i] = u
            <3>1. k \in DOMAIN line /\ line[k] = u
                  BY <1>0, <2>2 DEF Waiting, ToSet
            <3>2. line' = SubSeq(line, 1, k - 1) \o SubSeq(line, k + 1, Len(line))
                  BY <1>0, <2>2 DEF Without, RemoveAt
            <3> HIDE DEF k
            <3>3. /\ line' \in Seq(Users) /\ Len(line') = Len(line) - 1
                  /\ \A i \in 1 .. Len(line) - 1 : line'[i] = line[IF i < k THEN i ELSE i + 1]
                  <4> DEFINE front == SubSeq(line, 1, k - 1)
                             back == SubSeq(line, k + 1, Len(line))
                  <4>1. /\ front \in Seq(Users) /\ Len(front) = k - 1
                        /\ \A i \in 1 .. k - 1 : front[i] = line[i]
                        BY <1>0, <3>1, SubSeqProperties
                  <4>2. /\ back \in Seq(Users) /\ Len(back) = Len(line) - k
                        /\ \A i \in 1 .. Len(line) - k : back[i] = line[k + i]
                        BY <1>0, <3>1, SubSeqProperties
                  <4>3. /\ line' \in Seq(Users) /\ Len(line') = Len(line) - 1
                        /\ \A i \in 1 .. Len(line) - 1 :
                             line'[i] = IF i <= k - 1 THEN front[i] ELSE back[i - (k - 1)]
                        <5>1. line' = front \o back
                              BY <3>2
                        <5> HIDE DEF front, back
                        <5>2. /\ Len(front) + Len(back) = Len(line) - 1
                              /\ front \in Seq(Users) /\ back \in Seq(Users)
                              BY <1>0, <3>1, <4>1, <4>2
                        <5>3. /\ front \o back \in Seq(Users)
                              /\ Len(front \o back) = Len(front) + Len(back)
                              /\ \A i \in 1 .. Len(front) + Len(back) :
                                   (front \o back)[i] =
                                     IF i <= Len(front) THEN front[i] ELSE back[i - Len(front)]
                              BY <5>2, ConcatProperties
                        <5> QED BY <4>1, <5>1, <5>2, <5>3
                  <4> HIDE DEF front, back
                  <4>4. \A i \in 1 .. Len(line) - 1 : ~ (i < k) => back[i - (k - 1)] = line[i + 1]
                        <5> SUFFICES ASSUME NEW i \in 1 .. Len(line) - 1, ~ (i < k)
                                     PROVE  back[i - (k - 1)] = line[i + 1]
                            OBVIOUS
                        <5>1. i - (k - 1) \in 1 .. Len(line) - k /\ k + (i - (k - 1)) = i + 1
                              BY <1>0, <3>1
                        <5> QED BY <4>2, <5>1
                  <4>5. ASSUME NEW i \in 1 .. Len(line) - 1
                        PROVE  line'[i] = line[IF i < k THEN i ELSE i + 1]
                        <5>1. CASE i < k
                              <6>1. i <= k - 1 /\ i \in 1 .. k - 1
                                    BY <1>0, <3>1, <5>1
                              <6> QED BY <4>1, <4>3, <5>1, <6>1
                        <5>2. CASE ~ (i < k)
                              <6>1. ~ (i <= k - 1)
                                    BY <1>0, <3>1, <5>2
                              <6> QED BY <4>3, <4>4, <5>2, <6>1
                        <5> QED BY <5>1, <5>2
                  <4> QED BY <4>3, <4>5
            <3>4. DOMAIN line' = 1 .. Len(line) - 1
                  BY <3>3
            <3>5. \A i \in DOMAIN line' : (IF i < k THEN i ELSE i + 1) \in DOMAIN line \ {k}
                  BY <1>0, <3>1, <3>4
            <3>6. \A i \in DOMAIN line' : line'[i] # u
                  BY <1>0, <3>1, <3>3, <3>4, <3>5
            <3>7. \A i, j \in DOMAIN line' : i < j =>
                    (IF i < k THEN i ELSE i + 1) < (IF j < k THEN j ELSE j + 1)
                  BY <1>0, <3>1, <3>4
            <3>8. \A l \in DOMAIN line : line[l] # u => \E i \in DOMAIN line' : line'[i] = line[l]
                  <4> SUFFICES ASSUME NEW l \in DOMAIN line, line[l] # u
                               PROVE  \E i \in DOMAIN line' : line'[i] = line[l]
                      OBVIOUS
                  <4>1. CASE l < k
                        BY <1>0, <3>1, <3>3, <3>4, <4>1
                  <4>2. CASE l > k
                        <5>1. l - 1 \in DOMAIN line' /\ ~ (l - 1 < k) /\ l - 1 + 1 = l
                              BY <1>0, <3>1, <3>4, <4>2
                        <5> QED BY <3>3, <3>4, <5>1
                  <4> QED BY <1>0, <3>1, <4>1, <4>2
            <3> QED BY <3>3, <3>4, <3>5, <3>6, <3>7, <3>8
      <2> QED BY <2>1, <2>2
<1>p. /\ PlaceInv' /\ Places' = Places /\ place \in [Places -> Place]
      /\ \A p \in Places : \A v \in Users : InHand(p, v)' <=> InHand(p, v) /\ v # u
      /\ \A p \in Places : place'[p].user = place[p].user /\ place'[p].age = place[p].age
      /\ \A p \in Places : place'[p].returning => place[p].returning \/ InHand(p, u)
      BY ReleasePlaces DEF LineInv, Places, PlaceInv
<1>2. \A v \in Users \ {u} : /\ Waiting(v)' <=> Waiting(v)
                             /\ Holds(v)' <=> Holds(v)
                             /\ age'[v] = age[v]
      <2>1. \A v \in Users \ {u} : (Waiting(v)' <=> Waiting(v)) /\ age'[v] = age[v]
            BY <1>0, <1>1 DEF Waiting, ToSet, LineInv
      <2>2. \A v \in Users \ {u} : Holds(v)' <=> Holds(v)
            BY <1>p DEF Holds
      <2> QED BY <2>1, <2>2
<1>3. ~ Waiting(u)' /\ ~ Holds(u)'
      <2>1. ~ Waiting(u)'
            BY <1>0, <1>1 DEF Waiting, ToSet, LineInv
      <2>2. ~ Holds(u)'
            BY <1>p DEF Holds
      <2> QED BY <2>1, <2>2
<1>4. IsInjective(line')
      <2> SUFFICES ASSUME NEW i \in DOMAIN line', NEW j \in DOMAIN line', i < j
                   PROVE  line'[i] # line'[j]
          BY <1>1 DEF IsInjective
      <2> QED BY <1>0, <1>1
<1>5. age' \in [Users -> 0 .. AcquireTimeout]
      BY <1>0, ProcessAssumption DEF LineInv
<1>6. NoHoldAndWait'
      BY <1>2, <1>3 DEF LineInv, NoHoldAndWait
<1>7. ChecksInTime'
      <2> SUFFICES ASSUME NEW c \in Checks, Busy(c)' PROVE age'[c] <= ReadinessTimeout
          BY DEF ChecksInTime
      <2>1. c # u /\ c \in Users
            BY <1>3 DEF Busy, Users
      <2>2. Busy(c) /\ age'[c] = age[c]
            BY <1>2, <2>1 DEF Busy
      <2> QED BY <2>2 DEF LineInv, ChecksInTime
<1>8. ChecksFirst'
      <2> SUFFICES ASSUME NEW w \in Loops, NEW c \in Checks
                   PROVE  /\ Waiting(w)' /\ Holds(c)' => age'[c] >= age'[w]
                          /\ \A i, j \in DOMAIN line' :
                               line'[i] = c /\ line'[j] = w /\ i < j => age'[c] >= age'[w]
          BY DEF ChecksFirst
      <2>1. w \in Users /\ c \in Users
            BY DEF Users
      <2>2. Waiting(w)' /\ Holds(c)' => age'[c] >= age'[w]
            BY <1>2, <1>3, <2>1 DEF LineInv, ChecksFirst
      <2>3. ASSUME NEW i \in DOMAIN line', NEW j \in DOMAIN line', line'[i] = c, line'[j] = w, i < j
            PROVE  age'[c] >= age'[w]
            <3>1. c # u /\ w # u
                  BY <1>1, <2>3
            <3>2. PICK k \in DOMAIN line, l \in DOMAIN line : k < l /\ line[k] = c /\ line[l] = w
                  BY <1>1, <2>3
            <3> QED BY <1>2, <2>1, <3>1, <3>2 DEF LineInv, ChecksFirst
      <2> QED BY <2>2, <2>3
<1>9. ReturnsInTime'
      <2> SUFFICES ASSUME NEW w \in Loops, NEW p \in Places,
                          Waiting(w)', place'[p].returning, place'[p].user \in Checks
                   PROVE  age'[w] <= ReadinessTimeout + place'[p].age
          BY <1>p DEF ReturnsInTime
      <2>1. w # u /\ Waiting(w) /\ age'[w] = age[w] /\ age[w] \in Nat
            BY <1>0, <1>2, <1>3 DEF Users, LineInv
      <2>2. CASE place[p].returning
            BY <1>p, <2>1, <2>2 DEF LineInv, ReturnsInTime
      <2>3. CASE InHand(p, u)
            <3>1. u \in Checks /\ Holds(u)
                  BY <1>p, <2>3 DEF InHand, Holds
            <3>2. age[u] >= age[w] /\ age[u] <= ReadinessTimeout /\ age[u] \in Nat
                  BY <2>1, <3>1 DEF LineInv, ChecksFirst, ChecksInTime, Busy
            <3>3. place'[p].age \in Nat
                  BY <1>p, ProcessAssumption DEF Place
            <3> QED BY <2>1, <3>2, <3>3, ProcessAssumption
      <2> QED BY <1>p, <2>2, <2>3
<1> QED BY <1>p, <1>1, <1>2, <1>3, <1>4, <1>5, <1>6, <1>7, <1>8, <1>9 DEF LineInv

LEMMA JoinKeeps ==
  ASSUME LineInv, NEW u \in Users, ~ Busy(u), Join(u), UNCHANGED limit
  PROVE  /\ LineInv'
         /\ Waiting(u)' /\ ~ Holds(u)'
         /\ \A v \in Users \ {u} : (Waiting(v)' <=> Waiting(v)) /\ (Holds(v)' <=> Holds(v))
<1>0. /\ line \in Seq(Users) /\ Len(line) \in Nat /\ DOMAIN line = 1 .. Len(line)
      /\ place' = place /\ Places' = Places
      /\ age' = [age EXCEPT ![u] = 0] /\ age \in [Users -> 0 .. AcquireTimeout]
      /\ line' = Append(line, u)
      /\ \A i \in DOMAIN line : line[i] \in Users /\ line[i] # u
      /\ \A i, j \in DOMAIN line : line[i] = line[j] => i = j
      BY DEF LineInv, Join, IsInjective, Busy, Waiting, ToSet, Places
<1>1. /\ line' \in Seq(Users) /\ DOMAIN line' = 1 .. Len(line) + 1
      /\ \A i \in DOMAIN line : line'[i] = line[i]
      /\ line'[Len(line) + 1] = u
      BY <1>0
<1>2. /\ Waiting(u)' /\ ~ Holds(u)'
      /\ \A v \in Users \ {u} : (Waiting(v)' <=> Waiting(v)) /\ (Holds(v)' <=> Holds(v))
      <2>1. \A v \in Users : Holds(v)' <=> Holds(v)
            BY <1>0 DEF Holds, InHand
      <2>2. Waiting(u)' /\ \A v \in Users \ {u} : Waiting(v)' <=> Waiting(v)
            BY <1>0, <1>1 DEF Waiting, ToSet
      <2> QED BY <2>1, <2>2 DEF Busy
<1>3. IsInjective(line')
      BY <1>0, <1>1 DEF IsInjective
<1>4. age' \in [Users -> 0 .. AcquireTimeout] /\ NoHoldAndWait' /\ ChecksInTime'
      BY <1>0, <1>2, ProcessAssumption DEF LineInv, NoHoldAndWait, ChecksInTime, Busy, Users
<1>5. ChecksFirst'
      <2> SUFFICES ASSUME NEW w \in Loops, NEW c \in Checks
                   PROVE  /\ Waiting(w)' /\ Holds(c)' => age'[c] >= age'[w]
                          /\ \A i, j \in DOMAIN line' :
                               line'[i] = c /\ line'[j] = w /\ i < j => age'[c] >= age'[w]
          BY DEF ChecksFirst
      <2>1. w \in Users /\ c \in Users /\ w # c /\ age[c] >= 0
            BY <1>0, ProcessAssumption DEF Users, Tasks
      <2>2. CASE u = w
            BY <1>0, <2>1, <2>2
      <2>3. CASE u # w
            <3>1. Waiting(w)' /\ Holds(c)' => age'[c] >= age'[w]
                  BY <1>0, <1>2, <2>1, <2>3 DEF LineInv, ChecksFirst
            <3>2. ASSUME NEW i \in DOMAIN line', NEW j \in DOMAIN line', line'[i] = c, line'[j] = w, i < j
                  PROVE  age'[c] >= age'[w]
                  <4>1. i \in DOMAIN line /\ j \in DOMAIN line /\ line[i] = c /\ line[j] = w
                        BY <1>0, <1>1, <2>3, <3>2
                  <4> QED BY <1>0, <2>1, <2>3, <3>2, <4>1 DEF LineInv, ChecksFirst
            <3> QED BY <3>1, <3>2
      <2> QED BY <2>2, <2>3
<1>6. PlaceInv'
      BY <1>0 DEF LineInv, PlaceInv, InHand, Place, Free
<1>7. ReturnsInTime'
      <2> SUFFICES ASSUME NEW w \in Loops, NEW p \in Places,
                          Waiting(w)', place[p].returning, place[p].user \in Checks
                   PROVE  age'[w] <= ReadinessTimeout + place[p].age
          BY <1>0 DEF ReturnsInTime
      <2>1. w \in Users /\ place[p].age \in Nat
            BY ProcessAssumption DEF Users, LineInv, PlaceInv, Place
      <2>2. CASE w = u
            BY <1>0, <2>1, <2>2, ProcessAssumption
      <2>3. CASE w # u
            <3>1. Waiting(w) /\ age'[w] = age[w]
                  BY <1>0, <1>2, <2>1, <2>3
            <3> QED BY <3>1 DEF LineInv, ReturnsInTime
      <2> QED BY <2>2, <2>3
<1> QED BY <1>0, <1>1, <1>2, <1>3, <1>4, <1>5, <1>6, <1>7 DEF LineInv

LEMMA BackInPoolKeeps ==
  ASSUME LineInv, NEW r \in Places, BackInPool(r)
  PROVE  /\ LineInv'
         /\ \A v \in Users : (Waiting(v)' <=> Waiting(v)) /\ (Holds(v)' <=> Holds(v))
<1>1. /\ PlaceInv' /\ Places' = Places /\ UNCHANGED <<line, age>>
      /\ \A p \in Places : \A v \in Users : InHand(p, v)' <=> InHand(p, v)
      /\ \A p \in Places : place'[p] = place[p] \/ ~ place'[p].returning
      BY BackInPoolPlaces DEF LineInv, BackInPool, Places
<1>2. \A v \in Users : (Waiting(v)' <=> Waiting(v)) /\ (Holds(v)' <=> Holds(v))
      BY <1>1 DEF Waiting, Holds
<1>3. NoHoldAndWait' /\ ChecksInTime'
      BY <1>1, <1>2 DEF LineInv, NoHoldAndWait, ChecksInTime, Busy, Users
<1>4. ChecksFirst'
      BY <1>1, <1>2 DEF LineInv, ChecksFirst, Users
<1>5. ReturnsInTime'
      <2> SUFFICES ASSUME NEW w \in Loops, NEW p \in Places,
                          Waiting(w)', place'[p].returning, place'[p].user \in Checks
                   PROVE  age[w] <= ReadinessTimeout + place'[p].age
          BY <1>1 DEF ReturnsInTime
      <2> QED BY <1>1, <1>2 DEF LineInv, ReturnsInTime, Users
<1> QED BY <1>1, <1>2, <1>3, <1>4, <1>5 DEF LineInv

LEMMA GrantKeeps ==
  ASSUME LineInv, WorkerInv, Grant
  PROVE  LineInv' /\ WorkerInv'
<1>u. PICK u \in Users : u = Head(line)
      BY HeadTailProperties DEF LineInv, Grant
<1>0. /\ line \in Seq(Users) /\ Len(line) \in Nat \ {0} /\ DOMAIN line = 1 .. Len(line)
      /\ u = line[1] /\ u \in Users /\ Waiting(u) /\ ~ Holds(u)
      /\ age' = age /\ line' = Tail(line) /\ Places' = Places
      /\ age \in [Users -> 0 .. AcquireTimeout]
      /\ \A i \in DOMAIN line : line[i] \in Users
      /\ \A i, j \in DOMAIN line : line[i] = line[j] => i = j
      <2>1. line \in Seq(Users) /\ line # <<>> /\ IsInjective(line)
            BY DEF LineInv, Grant
      <2>2. Len(line) \in Nat \ {0} /\ DOMAIN line = 1 .. Len(line) /\ u = line[1] /\ u \in Users
            BY <1>u, <2>1
      <2>3. Waiting(u)
            BY <2>2 DEF Waiting, ToSet
      <2>4. ~ Holds(u)
            BY <2>2, <2>3 DEF LineInv, NoHoldAndWait
      <2>5. age' = age /\ line' = Tail(line) /\ Places' = Places
            BY DEF Grant, Places
      <2> QED BY <2>1, <2>2, <2>3, <2>4, <2>5 DEF LineInv, IsInjective
<1>1. /\ line' \in Seq(Users) /\ DOMAIN line' = 1 .. Len(line) - 1
      /\ \A i \in DOMAIN line' : i + 1 \in DOMAIN line /\ line'[i] = line[i + 1] /\ line'[i] # u
      BY <1>0
<1>p. /\ PlaceInv' /\ Holds(u)'
      /\ \A p \in Places : \A v \in Users \ {u} : InHand(p, v)' <=> InHand(p, v)
      /\ \A p \in Places : place'[p] = place[p] \/ ~ place'[p].returning
      BY <1>0, <1>u, GrantPlaces DEF LineInv
<1>2. /\ ~ Waiting(u)' /\ Holds(u)'
      /\ \A v \in Users \ {u} : (Waiting(v)' <=> Waiting(v)) /\ (Holds(v)' <=> Holds(v))
      <2>1. ~ Waiting(u)' /\ Holds(u)' /\ \A v \in Users \ {u} : Holds(v)' <=> Holds(v)
            <3>1. ~ Waiting(u)'
                  BY <1>0, <1>1 DEF Waiting, ToSet
            <3>2. \A v \in Users \ {u} : Holds(v)' <=> Holds(v)
                  BY <1>0, <1>p DEF Holds
            <3> QED BY <1>p, <3>1, <3>2
      <2>2. ASSUME NEW v \in Users \ {u} PROVE Waiting(v)' <=> Waiting(v)
            <3>1. Waiting(v)' => Waiting(v)
                  BY <1>1 DEF Waiting, ToSet
            <3>2. ASSUME NEW i \in DOMAIN line, line[i] = v PROVE Waiting(v)'
                  <4>1. i - 1 \in DOMAIN line' /\ i - 1 + 1 = i
                        BY <1>0, <1>1, <3>2
                  <4> QED BY <1>1, <3>2, <4>1 DEF Waiting, ToSet
            <3> QED BY <3>1, <3>2 DEF Waiting, ToSet
      <2> QED BY <2>1, <2>2
<1>3. IsInjective(line')
      BY <1>0, <1>1 DEF IsInjective
<1>4. age' \in [Users -> 0 .. AcquireTimeout]
      BY <1>0
<1>5. NoHoldAndWait' /\ ChecksInTime'
      BY <1>0, <1>2 DEF LineInv, NoHoldAndWait, ChecksInTime, Busy, Users
<1>6. ChecksFirst'
      <2> SUFFICES ASSUME NEW w \in Loops, NEW c \in Checks
                   PROVE  /\ Waiting(w)' /\ Holds(c)' => age'[c] >= age'[w]
                          /\ \A i, j \in DOMAIN line' :
                               line'[i] = c /\ line'[j] = w /\ i < j => age'[c] >= age'[w]
          BY DEF ChecksFirst
      <2>1. w \in Users /\ c \in Users /\ w # c
            BY ProcessAssumption DEF Users, Tasks
      <2>2. ASSUME Waiting(w)', Holds(c)' PROVE age[c] >= age[w]
            <3>1. w # u /\ Waiting(w)
                  BY <1>2, <2>1, <2>2
            <3>2. CASE c # u
                  BY <1>2, <2>1, <2>2, <3>1, <3>2 DEF LineInv, ChecksFirst
            <3>3. CASE c = u
                  <4>1. PICK j \in DOMAIN line : line[j] = w
                        BY <3>1 DEF Waiting, ToSet
                  <4>2. 1 \in DOMAIN line /\ line[1] = c /\ 1 < j
                        BY <1>0, <2>1, <3>3, <4>1
                  <4> QED BY <4>1, <4>2 DEF LineInv, ChecksFirst
            <3> QED BY <3>2, <3>3
      <2>3. ASSUME NEW i \in DOMAIN line', NEW j \in DOMAIN line', line'[i] = c, line'[j] = w, i < j
            PROVE  age[c] >= age[w]
            <3>1. i + 1 \in DOMAIN line /\ j + 1 \in DOMAIN line /\ i + 1 < j + 1
                  /\ line[i + 1] = c /\ line[j + 1] = w
                  BY <1>0, <1>1, <2>3
            <3> QED BY <3>1 DEF LineInv, ChecksFirst
      <2> QED BY <1>0, <2>2, <2>3
<1>7. WorkerInv'
      <2> SUFFICES ASSUME NEW w \in Loops
                   PROVE  /\ Waiting(w)' => task'[w] = "working"
                          /\ task'[w] = "resting" /\ Holds(w)' => leads'
                          /\ leads' => Holds(w)'
          BY DEF WorkerInv
      <2>1. task' = task /\ leads' = leads /\ w \in Users
            BY DEF Grant, vars, Users
      <2>2. CASE w = u
            BY <1>0, <1>2, <2>1, <2>2 DEF WorkerInv
      <2>3. CASE w # u
            BY <1>2, <2>1, <2>3 DEF WorkerInv
      <2> QED BY <2>2, <2>3
<1>8. ReturnsInTime'
      <2> SUFFICES ASSUME NEW w \in Loops, NEW p \in Places,
                          Waiting(w)', place'[p].returning, place'[p].user \in Checks
                   PROVE  age[w] <= ReadinessTimeout + place'[p].age
          BY <1>0 DEF ReturnsInTime
      <2>1. Waiting(w) /\ place'[p] = place[p]
            BY <1>0, <1>p, <1>2 DEF Users
      <2> QED BY <2>1 DEF LineInv, ReturnsInTime
<1> QED BY <1>p, <1>1, <1>3, <1>4, <1>5, <1>6, <1>7, <1>8 DEF LineInv

LEMMA TickKeeps ==
  ASSUME LineInv, Tick
  PROVE  /\ LineInv'
         /\ \A v \in Users : (Waiting(v)' <=> Waiting(v)) /\ (Holds(v)' <=> Holds(v))
<1>0. /\ UNCHANGED line /\ Places' = Places
      /\ age \in [Users -> 0 .. AcquireTimeout] /\ AcquireTimeout \in Nat /\ ReadinessTimeout \in Nat
      /\ age' = [u \in Users |-> IF Timed(u) /\ age[u] < AcquireTimeout THEN age[u] + 1 ELSE age[u]]
      BY ProcessAssumption DEF LineInv, Tick, Places
<1>p. /\ PlaceInv'
      /\ \A v \in Users : (Waiting(v)' <=> Waiting(v)) /\ (Holds(v)' <=> Holds(v))
      /\ \A p \in Places :
           /\ place'[p].user = place[p].user /\ place'[p].returning = place[p].returning
           /\ place[p].returning => place'[p].age = place[p].age + 1
      <2>1. /\ PlaceInv' /\ \A p \in Places : \A v \in Users : InHand(p, v)' <=> InHand(p, v)
            /\ \A p \in Places :
                 /\ place'[p].user = place[p].user /\ place'[p].returning = place[p].returning
                 /\ place[p].returning => place'[p].age = place[p].age + 1
            BY TickPlaces DEF LineInv
      <2> QED BY <1>0, <2>1 DEF Holds, Waiting
<1>1. age' \in [Users -> 0 .. AcquireTimeout]
      BY <1>0
<1>2. ASSUME NEW c \in Checks, Busy(c)
      PROVE  /\ age[c] < ReadinessTimeout /\ age[c] \in Nat /\ age'[c] = age[c] + 1
      <2>1. age[c] < ReadinessTimeout /\ age[c] \in 0 .. AcquireTimeout /\ c \in Users /\ Timed(c)
            BY <1>0, <1>2 DEF Tick, Overdue, Users, Timed, Busy
      <2> QED BY <1>0, <2>1, ProcessAssumption
<1>3. ASSUME NEW w \in Loops
      PROVE  age[w] \in Nat /\ age'[w] \in Nat /\ age'[w] <= age[w] + 1
      BY <1>0 DEF Users
<1>4. ChecksInTime'
      <2> SUFFICES ASSUME NEW c \in Checks, Busy(c) PROVE age'[c] <= ReadinessTimeout
          BY <1>p DEF ChecksInTime, Busy, Users
      <2> QED BY <1>0, <1>2
<1>5. ChecksFirst'
      <2> SUFFICES ASSUME NEW w \in Loops, NEW c \in Checks
                   PROVE  /\ Waiting(w) /\ Holds(c) => age'[c] >= age'[w]
                          /\ \A i, j \in DOMAIN line :
                               line[i] = c /\ line[j] = w /\ i < j => age'[c] >= age'[w]
          BY <1>0, <1>p DEF ChecksFirst, Users
      <2>1. ASSUME Busy(c), age[c] >= age[w] PROVE age'[c] >= age'[w]
            BY <1>2, <1>3, <2>1
      <2>2. Waiting(w) /\ Holds(c) => age'[c] >= age'[w]
            BY <2>1 DEF LineInv, ChecksFirst, Busy
      <2>3. ASSUME NEW i \in DOMAIN line, NEW j \in DOMAIN line, line[i] = c, line[j] = w, i < j
            PROVE  age'[c] >= age'[w]
            <3>1. Busy(c)
                  BY <2>3 DEF Busy, Waiting, ToSet
            <3>2. age[c] >= age[w]
                  BY <2>3 DEF LineInv, ChecksFirst
            <3> QED BY <2>1, <3>1, <3>2
      <2> QED BY <2>2, <2>3
<1>6. ReturnsInTime'
      <2> SUFFICES ASSUME NEW w \in Loops, NEW p \in Places,
                          Waiting(w), place[p].returning, place[p].user \in Checks
                   PROVE  age'[w] <= ReadinessTimeout + place'[p].age
          BY <1>0, <1>p DEF ReturnsInTime, Users
      <2>1. age[w] <= ReadinessTimeout + place[p].age /\ place[p].age \in Nat
            BY ProcessAssumption DEF LineInv, ReturnsInTime, PlaceInv, Place
      <2> QED BY <1>0, <1>p, <1>3, <2>1
<1>7. NoHoldAndWait'
      BY <1>p DEF LineInv, NoHoldAndWait
<1> QED BY <1>0, <1>p, <1>1, <1>4, <1>5, <1>6, <1>7 DEF LineInv

LEMMA KeepKeeps ==
  ASSUME LineInv, UNCHANGED <<limit, line, place, age>>
  PROVE  LineInv' /\ \A u \in Users : (Waiting(u)' <=> Waiting(u)) /\ (Holds(u)' <=> Holds(u))
<1>1. Places' = Places /\ \A p \in Places : place'[p] = place[p]
      BY DEF Places
<1>2. PlaceInv' /\ ReturnsInTime'
      BY <1>1 DEF LineInv, PlaceInv, ReturnsInTime, InHand, Place, Free, Waiting
<1>3. \A u \in Users : (Waiting(u)' <=> Waiting(u)) /\ (Holds(u)' <=> Holds(u))
      BY <1>1 DEF Waiting, Holds, InHand
<1>4. NoHoldAndWait' /\ ChecksFirst' /\ ChecksInTime'
      BY <1>3 DEF LineInv, NoHoldAndWait, ChecksFirst, ChecksInTime, Busy, Users
<1> QED BY <1>2, <1>3, <1>4 DEF LineInv

LEMMA InitPool == ProcessInit => LineInv /\ WorkerInv
<1> SUFFICES ASSUME ProcessInit PROVE LineInv /\ WorkerInv
    OBVIOUS
<1>1. PICK w \in Loops : Loops = {w}
      BY OneWorkerAssumption
<1>2. SetToSeq(Loops) \in [1 .. 1 -> {w}]
      <2>1. Cardinality({w}) = 1
            BY FS_Singleton
      <2>2. [i \in 1 .. 1 |-> w] \in [1 .. Cardinality({w}) -> {w}]
            /\ IsInjective([i \in 1 .. 1 |-> w])
            BY <2>1 DEF IsInjective
      <2> QED BY <1>1, <2>1, <2>2 DEF SetToSeq
<1>3. line \in [1 .. 1 -> {w}] /\ w \in Users
      BY <1>1, <1>2 DEF ProcessInit, Users
<1>4. line \in Seq(Users) /\ Len(line) = 1 /\ DOMAIN line = 1 .. 1
      <2>1. line \in [1 .. 1 -> Users] /\ DOMAIN line = 1 .. 1
            BY <1>3
      <2>2. line \in Seq(Users)
            BY <2>1, SeqDef
      <2>3. Len(line) \in Nat /\ DOMAIN line = 1 .. Len(line)
            BY <2>2, LenProperties
      <2> QED BY <2>1, <2>2, <2>3
<1>5. IsInjective(line)
      BY <1>4 DEF IsInjective
<1>6. /\ place = [p \in Places |-> Free] /\ age = [u \in Users |-> 0] /\ leads = FALSE
      /\ \A v \in Loops : task[v] = "working"
      BY TasksAssumption DEF ProcessInit, Init, Tasks
<1>p. /\ place \in [Places -> Place] /\ \A p \in Places : place[p] = Free /\ ~ place[p].returning
      /\ \A p \in Places, u \in Users : ~ InHand(p, u)
      <2>1. Free \in Place /\ ~ Free.returning /\ Free.user \notin Users
            BY ProcessAssumption DEF Free, Place, Users, Tasks
      <2> QED BY <1>6, <2>1 DEF InHand
<1>h. \A u \in Users : ~ Holds(u)
      BY <1>p DEF Holds
<1>7. \A c \in Checks : c \in Users /\ ~ Busy(c)
      BY <1>h, <1>1, <1>3, <1>4, <1>6, ProcessAssumption DEF Busy, Waiting, ToSet, Users, Tasks
<1>8. LineInv
      <2>1. PlaceInv /\ ReturnsInTime
            BY <1>p DEF PlaceInv, ReturnsInTime
      <2>2. age \in [Users -> 0 .. AcquireTimeout] /\ NoHoldAndWait /\ ChecksInTime
            BY <1>6, <1>7, <1>h, ProcessAssumption DEF NoHoldAndWait, ChecksInTime
      <2>3. ChecksFirst
            BY <1>1, <1>4, <1>6, <1>7, <1>h, ProcessAssumption DEF ChecksFirst, Users
      <2> QED BY <1>4, <1>5, <2>1, <2>2, <2>3 DEF LineInv
<1> QED BY <1>6, <1>8, <1>h DEF WorkerInv, Users

LEMMA WorkerStep ==
  ASSUME LineInv, WorkerInv, SuperInv, NEW w \in Loops,
         StartBatch(w) \/ FinishBatch(w) \/ BecomeLeader(w) \/ AcquireFails(w) \/ DropTask(w)
  PROVE  LineInv' /\ WorkerInv'
<1>0. /\ Loops = {w} /\ w \in Users /\ w \in Tasks
      /\ task \in [Tasks -> {"working", "resting", "serving", "stopping"} \cup Ends]
      /\ Waiting(w) => task[w] = "working" /\ ~ Holds(w)
      /\ task[w] = "resting" /\ Holds(w) => leads
      /\ leads => Holds(w)
      BY OneWorkerAssumption DEF Users, Tasks, SuperInv, WorkerInv, LineInv, NoHoldAndWait
<1>l. UNCHANGED limit
      BY DEF StartBatch, FinishBatch, BecomeLeader, AcquireFails, DropTask
<1>1. CASE StartBatch(w)
      <2>1. task[w] = "resting" /\ task'[w] = "working" /\ leads' = leads
            BY <1>0, <1>1 DEF StartBatch, BeginBatch, Put
      <2>2. CASE leads
            BY <1>0, <1>l, <1>1, <2>1, <2>2, KeepKeeps DEF StartBatch, Keep, WorkerInv
      <2>3. CASE ~ leads
            <3>1. ~ Busy(w) /\ Join(w)
                  BY <1>0, <1>1, <2>1, <2>3 DEF StartBatch, Busy
            <3> QED BY <1>0, <1>l, <2>1, <2>3, <3>1, JoinKeeps DEF WorkerInv
      <2> QED BY <2>2, <2>3
<1>2. CASE FinishBatch(w)
      <2>1. Holds(w) /\ ~ Waiting(w)
            BY <1>0, <1>2 DEF FinishBatch
      <2>2. CASE leads /\ UNCHANGED <<limit, line, place, age, leads>>
            BY <1>0, <2>1, <2>2, KeepKeeps DEF WorkerInv
      <2>3. CASE Release(w) /\ leads' = FALSE
            BY <1>0, <1>l, <2>3, ReleaseKeeps DEF WorkerInv
      <2> QED BY <1>2, <1>l, <2>2, <2>3 DEF FinishBatch, Keep
<1>3. CASE BecomeLeader(w)
      <2>1. Holds(w) /\ ~ Waiting(w) /\ UNCHANGED <<limit, line, place, age>> /\ leads' = TRUE
            BY <1>0, <1>l, <1>3 DEF BecomeLeader, Keep
      <2> QED BY <1>0, <2>1, KeepKeeps DEF WorkerInv
<1>4. CASE AcquireFails(w)
      <2>1. ~ leads' /\ Release(w)
            BY <1>0, <1>4 DEF AcquireFails
      <2> QED BY <1>0, <1>l, <2>1, ReleaseKeeps DEF WorkerInv
<1>5. CASE DropTask(w)
      <2>1. leads' = FALSE /\ Release(w)
            BY <1>5 DEF DropTask
      <2> QED BY <1>0, <1>l, <2>1, ReleaseKeeps DEF WorkerInv
<1> QED BY <1>1, <1>2, <1>3, <1>4, <1>5

LEMMA CheckStep ==
  ASSUME LineInv, WorkerInv, NEW c \in Checks, BeginCheck(c) \/ EndCheck(c)
  PROVE  LineInv' /\ WorkerInv'
<1>0. c \in Users /\ UNCHANGED <<task, leads, limit>> /\ \A w \in Loops : w \in Users \ {c}
      BY ProcessAssumption DEF Users, Tasks, BeginCheck, EndCheck, vars
<1>1. CASE BeginCheck(c)
      <2>1. ~ Busy(c) /\ Join(c)
            BY <1>1 DEF BeginCheck
      <2> QED BY <1>0, <2>1, JoinKeeps DEF WorkerInv
<1>2. CASE EndCheck(c)
      <2>1. Release(c)
            BY <1>2 DEF EndCheck
      <2> QED BY <1>0, <2>1, ReleaseKeeps DEF WorkerInv
<1> QED BY <1>1, <1>2

\* Steps of the supervisor and of the management server touch neither the pool
\* nor the worker.
LEMMA OtherStep ==
  ASSUME LineInv, WorkerInv, SuperInv,
         \/ ManagementStep
         \/ (SignalArrives \/ Supervise) /\ UNCHANGED poolVars
         \/ Close \/ Closed
         \/ UNCHANGED processVars
  PROVE  LineInv' /\ WorkerInv'
<1>1. UNCHANGED <<limit, line, place, age, leads>>
      BY DEF ManagementStep, Close, Closed, processVars, poolVars
<1>2. \A w \in Loops : task'[w] = task[w]
      <2>1. CASE ManagementStep
            <3>1. PICK s \in Servers : StopServer(s) \/ EndServer(s) \/ Abort(s)
                  BY <2>1 DEF ManagementStep
            <3>2. \E state : task' = [task EXCEPT ![s] = state]
                  BY <3>1 DEF StopServer, EndServer, Abort, Put
            <3> QED BY <3>2, TasksAssumption DEF SuperInv, Tasks
      <2>2. CASE SignalArrives \/ Supervise
            BY <2>2 DEF SignalArrives, Supervise, SelectSignal, Cancel, UnexpectedWorkerExit,
                        Drain, Drained, Return, Timeout, Aborted
      <2>3. CASE Close \/ Closed \/ UNCHANGED processVars
            BY <2>3 DEF Close, Closed, processVars, vars
      <2> QED BY <2>1, <2>2, <2>3
<1>3. LineInv' /\ \A u \in Users : (Waiting(u)' <=> Waiting(u)) /\ (Holds(u)' <=> Holds(u))
      BY <1>1, KeepKeeps
<1> QED BY <1>1, <1>2, <1>3 DEF WorkerInv, Users

LEMMA PoolStep ==
  LineInv /\ WorkerInv /\ SuperInv /\ [ProcessNext]_processVars => LineInv' /\ WorkerInv'
<1> SUFFICES ASSUME LineInv, WorkerInv, SuperInv, [ProcessNext]_processVars
             PROVE  LineInv' /\ WorkerInv'
    OBVIOUS
<1>1. CASE Tick
      <2>1. UNCHANGED <<leads, task>>
            BY <1>1 DEF Tick, vars
      <2> QED BY <1>1, <2>1, TickKeeps DEF WorkerInv, Users
<1>2. CASE Grant
      BY <1>2, GrantKeeps
<1>3. ASSUME NEW p \in Places, BackInPool(p)
      PROVE  LineInv' /\ WorkerInv'
      <2>1. UNCHANGED <<leads, task>>
            BY <1>3 DEF BackInPool, vars
      <2> QED BY <1>3, <2>1, BackInPoolKeeps DEF WorkerInv, Users
<1> QED BY <1>1, <1>2, <1>3, WorkerStep, CheckStep, OtherStep DEF ProcessNext

\* The line and the pool, and what the worker has of them: who holds a connection,
\* who waits for one and for how long, in every reachable state.
THEOREM PoolInvariant == ProcessSpec => [](LineInv /\ WorkerInv)
<1>1. ProcessSpec => []SuperInv
      BY ProcessIsSupervised, SuperInvariant, PTL
<1> QED BY <1>1, InitPool, PoolStep, PTL DEF ProcessSpec

\* Nobody waits for a connection with one in hand, the leading collector
\* included: it cannot lock itself out of the pool its lease has taken from.
THEOREM NobodyHoldsAndWaits == ProcessSpec => []NoHoldAndWait
<1>1. LineInv => NoHoldAndWait
      BY DEF LineInv
<1> QED BY <1>1, PoolInvariant, PTL

\* However many readiness checks come and whatever hangs, a batch runs into its
\* acquire timeout only with no check in front of it and none in possession of a
\* connection; and with none on its way back from a check either, where the
\* acquire timeout is longer than the other two together.
THEOREM BatchesNotStarved == ProcessSpec => []ChecksNeverStarveBatch
<1>1. LineInv => ChecksNeverStarveBatch
      <2> SUFFICES ASSUME LineInv, NEW w \in Loops, Waiting(w), age[w] = AcquireTimeout
                   PROVE  /\ Head(line) = w
                          /\ \A p \in Places : place[p].user \in Checks =>
                               /\ place[p].returning
                               /\ ReadinessTimeout + ReturnTimeout >= AcquireTimeout
          BY DEF ChecksNeverStarveBatch
      <2>1. ASSUME NEW c \in Checks, Busy(c) PROVE ~ (age[c] >= age[w])
            <3>1. age[c] \in Nat /\ age[c] <= ReadinessTimeout
                  BY <2>1 DEF LineInv, ChecksInTime, Users
            <3> QED BY <3>1, ProcessAssumption
      <2>2. \A c \in Checks : ~ Holds(c)
            BY <2>1 DEF LineInv, ChecksFirst, Busy
      <2>p. ASSUME NEW p \in Places, place[p].user \in Checks
            PROVE  /\ place[p].returning
                   /\ ReadinessTimeout + ReturnTimeout >= AcquireTimeout
            <3>1. place[p].returning
                  BY <2>2, <2>p DEF Holds, InHand
            <3>2. AcquireTimeout <= ReadinessTimeout + place[p].age
                  BY <2>p, <3>1 DEF LineInv, ReturnsInTime
            <3>3. place[p].age \in 0 .. ReturnTimeout
                  BY DEF LineInv, PlaceInv, Place
            <3> QED BY <3>1, <3>2, <3>3, ProcessAssumption
      <2>3. PICK j \in DOMAIN line : line[j] = w
            BY DEF Waiting, ToSet
      <2>4. /\ line \in Seq(Users) /\ Len(line) \in Nat /\ DOMAIN line = 1 .. Len(line)
            /\ 1 \in DOMAIN line /\ Head(line) = line[1] /\ line[1] \in Users
            BY <2>3 DEF LineInv
      <2>5. CASE j = 1
            BY <2>p, <2>3, <2>4, <2>5
      <2>6. CASE j # 1
            <3>1. CASE line[1] \in Checks
                  <4>1. Busy(line[1])
                        BY <2>4 DEF Busy, Waiting, ToSet
                  <4>2. 1 < j
                        BY <2>3, <2>4, <2>6
                  <4>3. age[line[1]] >= age[w]
                        BY <2>3, <2>4, <3>1, <4>2 DEF LineInv, ChecksFirst
                  <4> QED BY <2>1, <3>1, <4>1, <4>3
            <3>2. CASE line[1] \in Loops
                  BY <2>p, <2>4, <3>2, OneWorkerAssumption
            <3> QED BY <2>4, <3>1, <3>2 DEF Users
      <2> QED BY <2>5, <2>6
<1> QED BY <1>1, PoolInvariant, PTL

-----------------------------------------------------------------------------
(* The types, and the capacity of the pool.                                *)

LEMMA SupervisorTypes == Spec => []TypeOK
<1>1. Init => TypeOK
      BY DEF Init, TypeOK, Ends
<1>2. TypeOK /\ [Next]_vars => TypeOK'
      <2> SUFFICES ASSUME TypeOK, [Next]_vars PROVE TypeOK'
          OBVIOUS
      <2>1. ASSUME NEW t \in Tasks, NEW state \in {"working", "resting", "serving", "stopping"} \cup Ends,
                   Put(t, state)
            PROVE  TypeOK'
            BY <2>1 DEF TypeOK, Put
      <2>2. ASSUME NEW w \in Loops, BeginBatch(w) \/ EndBatch(w) \/ LeaveLoop(w) PROVE TypeOK'
            BY <2>1, <2>2 DEF BeginBatch, EndBatch, LeaveLoop, Tasks, Ends
      <2>3. ASSUME NEW s \in Servers, StopServer(s) \/ EndServer(s) PROVE TypeOK'
            BY <2>1, <2>3 DEF StopServer, EndServer, Tasks, Ends
      <2>4. ASSUME NEW t \in Tasks, Abort(t) PROVE TypeOK'
            BY <2>1, <2>4 DEF Abort, Ends
      <2>5. CASE SignalArrives
            BY <2>5 DEF SignalArrives, TypeOK
      <2>6. CASE Supervise
            <3>1. CASE SelectSignal
                  BY <3>1 DEF SelectSignal, Cancel, TypeOK
            <3>2. CASE UnexpectedWorkerExit
                  BY <3>2 DEF UnexpectedWorkerExit, Cancel, TypeOK
            <3>3. CASE Drain
                  BY <3>3 DEF Drain, TypeOK
            <3>4. CASE Drained
                  BY <3>4 DEF Drained, Return, TypeOK
            <3>5. CASE Timeout
                  BY <3>5 DEF Timeout, TypeOK
            <3>6. CASE Aborted
                  BY <3>6 DEF Aborted, Return, TypeOK
            <3> QED BY <2>6, <3>1, <3>2, <3>3, <3>4, <3>5, <3>6 DEF Supervise
      <2>7. CASE UNCHANGED vars
            BY <2>7 DEF vars, TypeOK
      <2> QED BY <2>2, <2>3, <2>4, <2>5, <2>6, <2>7 DEF Next
<1> QED BY <1>1, <1>2, PTL DEF Spec

PoolTypes ==
  /\ limit \in PoolSizes
  /\ leads \in BOOLEAN
  /\ pool \in {"open", "closing", "closed"}

LEMMA PoolTypesInvariant == ProcessSpec => []PoolTypes
<1>1. ProcessInit => PoolTypes
      BY DEF ProcessInit, PoolTypes
<1>2. PoolTypes /\ [ProcessNext]_processVars => PoolTypes'
      BY DEF PoolTypes, ProcessNext, StartBatch, FinishBatch, BecomeLeader, AcquireFails, DropTask,
             BeginCheck, EndCheck, ManagementStep, BackInPool, Grant, Tick, Close, Closed,
             processVars, poolVars
<1> QED BY <1>1, <1>2, PTL DEF ProcessSpec

\* Nobody is in the pool's line twice, and no connection is out for longer than
\* the library's timeout once its user has given it up: a worker or a check that
\* gives up leaves no place behind that would be served for nobody.
THEOREM ProcessTypesCorrect == ProcessSpec => []ProcessTypeOK
<1>1. ProcessSpec => []TypeOK
      BY ProcessIsSupervised, SupervisorTypes, PTL
<1>2. TypeOK /\ LineInv /\ PoolTypes => ProcessTypeOK
      BY DEF LineInv, PlaceInv, PoolTypes, ProcessTypeOK
<1> QED BY <1>1, <1>2, PoolInvariant, PoolTypesInvariant, PTL

\* With two connections or more the one worker never has all of them: where a
\* check waits and none is free, another check has one, or one is on its way
\* back, and only for as long as the timeouts of a check and of the return allow.
THEOREM ReadinessNotBlocked == ProcessSpec => []RestNeverBlocksReadiness
<1>1. LineInv /\ PoolTypes => RestNeverBlocksReadiness
      <2> SUFFICES ASSUME LineInv, PoolTypes, limit > 1, \A p \in Places : place[p] # Free,
                          \A p \in Places : ~ place[p].returning /\ place[p].user \notin Checks
                   PROVE  FALSE
          BY DEF RestNeverBlocksReadiness
      <2>1. 1 \in Places /\ 2 \in Places
            BY ProcessAssumption DEF PoolTypes, Places
      <2>2. PICK w \in Loops : Loops = {w}
            BY OneWorkerAssumption
      <2>3. ASSUME NEW p \in Places PROVE InHand(p, w)
            <3>1. place[p].user \in Users \cup {None} /\ place[p].user # None
                  BY DEF LineInv, PlaceInv, Place
            <3>2. place[p].user = w
                  BY <2>2, <3>1 DEF Users
            <3> QED BY <3>2 DEF InHand
      <2> QED BY <2>1, <2>2, <2>3 DEF LineInv, PlaceInv, Users
<1> QED BY <1>1, PoolInvariant, PoolTypesInvariant, PTL
=============================================================================
