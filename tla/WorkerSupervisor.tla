-------------------------- MODULE WorkerSupervisor --------------------------
(***************************************************************************)
(* One worker process: the supervisor (worker::serve) and the tasks it     *)
(* registers, the one worker the command line names and the management     *)
(* HTTP server.  A signal or the end of any task cancels all of them; the  *)
(* supervisor then waits for them, for as long as the shutdown timeout at  *)
(* most, and returns what the process exits with.                          *)
(***************************************************************************)
CONSTANTS
  Loops,    \* tasks that run a batch, rest, and run the next: the worker
  Servers,  \* the management server
  None

ASSUME TasksAssumption == Loops \cap Servers = {}

VARIABLES
  task,       \* [Tasks -> where each task is, or how it ended]
  joined,     \* the tasks whose end the supervisor has seen
  signal,     \* what became of the signal listeners
  cancelled,  \* the token every task holds a child of
  phase,      \* where the supervisor is
  result,     \* what ended the wait: "ok" for a signal
  failed,     \* drain's first_error is set
  outcome     \* what serve returns

vars == <<task, joined, signal, cancelled, phase, result, failed, outcome>>

Tasks == Loops \cup Servers
Ends == {"succeeded", "failed", "panicked", "aborted"}
Ended(t) == task[t] \in Ends

Put(t, state) ==
  /\ task' = [task EXCEPT ![t] = state]
  /\ UNCHANGED <<joined, signal, cancelled, phase, result, failed, outcome>>

-----------------------------------------------------------------------------
(* The tasks.                                                              *)

\* A poll of the loop looks at the token before anything else.
BeginBatch(w) == task[w] = "resting" /\ ~ cancelled /\ Put(w, "working")

\* A batch that fails ends the task.
EndBatch(w) ==
  /\ task[w] = "working"
  /\ \E state \in {"resting", "failed", "panicked"} : Put(w, state)

\* The future of the batch in progress is dropped; a statement already sent may
\* still take effect at the server.
LeaveLoop(w) == cancelled /\ task[w] \in {"working", "resting"} /\ Put(w, "succeeded")

\* handle.stop(true) waits for the requests that are being answered.
StopServer(s) == cancelled /\ task[s] = "serving" /\ Put(s, "stopping")

\* By itself, or when the last request is answered.
EndServer(s) ==
  /\ task[s] \in {"serving", "stopping"}
  /\ \E state \in {"succeeded", "failed", "panicked"} : Put(s, state)

-----------------------------------------------------------------------------
(* The supervisor.                                                         *)

SignalArrives ==
  /\ signal = "none"
  /\ signal' \in {"received", "closed"}
  /\ UNCHANGED <<task, joined, cancelled, phase, result, failed, outcome>>

\* Whatever ends the wait, every task is cancelled.
Cancel(r) ==
  /\ phase = "waiting"
  /\ phase' = "draining"
  /\ cancelled' = TRUE
  /\ result' = r
  /\ UNCHANGED <<task, signal, failed, outcome>>

\* Mutant: the tasks are left running while the supervisor waits for them.
SelectSignal_NotCancelled ==
  /\ signal # "none" /\ phase = "waiting"
  /\ phase' = "draining"
  /\ result' = IF signal = "received" THEN "ok" ELSE "error"
  /\ UNCHANGED <<task, joined, signal, cancelled, failed, outcome>>

SelectSignal ==
  /\ signal # "none"
  /\ Cancel(IF signal = "received" THEN "ok" ELSE "error")
  /\ UNCHANGED joined

\* A task that ends before the shutdown is an error, also when it succeeds.
UnexpectedWorkerExit ==
  \E t \in Tasks \ joined :
    /\ Ended(t)
    /\ joined' = joined \cup {t}
    /\ Cancel("error")

\* Mutant: drain only logs the failures.
Drain_LogOnly ==
  \E t \in Tasks \ joined :
    /\ phase = "draining"
    /\ Ended(t)
    /\ joined' = joined \cup {t}
    /\ UNCHANGED <<task, signal, cancelled, phase, result, failed, outcome>>

Drain ==
  \E t \in Tasks \ joined :
    /\ phase = "draining"
    /\ Ended(t)
    /\ joined' = joined \cup {t}
    /\ failed' = (failed \/ task[t] # "succeeded")
    /\ UNCHANGED <<task, signal, cancelled, phase, result, outcome>>

Return(r) ==
  /\ phase' = "returned"
  /\ outcome' = r
  /\ UNCHANGED <<task, joined, signal, cancelled, result, failed>>

\* The error that ended the wait comes before those of the drain.
Drained ==
  /\ phase = "draining"
  /\ joined = Tasks
  /\ Return(IF result = "ok" /\ ~ failed THEN "ok" ELSE "error")

\* Mutant: serve returns without a wait for the tasks it aborts.
Timeout_NoWait == phase = "draining" /\ joined # Tasks /\ Return(result)

\* Mutant: drain is not given a time limit.
Timeout_Never == FALSE

\* The drain is given up, and with it the errors it had collected.
Timeout ==
  /\ phase = "draining"
  /\ joined # Tasks
  /\ phase' = "aborting"
  /\ UNCHANGED <<task, joined, signal, cancelled, result, failed, outcome>>

\* An aborted task ends at its next suspension point.
Abort(t) == phase = "aborting" /\ ~ Ended(t) /\ Put(t, "aborted")

Aborted ==
  /\ phase = "aborting"
  /\ \A t \in Tasks : Ended(t)
  /\ Return(result)

Init ==
  /\ task = [t \in Tasks |-> IF t \in Servers THEN "serving" ELSE "working"]
  /\ joined = {}
  /\ signal = "none"
  /\ cancelled = FALSE
  /\ phase = "waiting"
  /\ result = None
  /\ failed = FALSE
  /\ outcome = None

Supervise ==
  SelectSignal \/ UnexpectedWorkerExit \/ Drain \/ Drained \/ Timeout \/ Aborted

Next ==
  \/ \E w \in Loops : BeginBatch(w) \/ EndBatch(w) \/ LeaveLoop(w)
  \/ \E s \in Servers : StopServer(s) \/ EndServer(s)
  \/ \E t \in Tasks : Abort(t)
  \/ SignalArrives
  \/ Supervise

Spec == Init /\ [][Next]_vars

\* The supervisor's own steps, its timer and the runtime's aborts happen.  Of
\* the tasks nothing is assumed: a batch or a request may hang.
FairSpec == Spec /\ WF_vars(Supervise) /\ \A t \in Tasks : WF_vars(Abort(t))

-----------------------------------------------------------------------------
(* Properties. *)

TypeOK ==
  /\ task \in [Tasks -> {"working", "resting", "serving", "stopping"} \cup Ends]
  /\ joined \subseteq Tasks
  /\ signal \in {"none", "received", "closed"}
  /\ {cancelled, failed} \subseteq BOOLEAN
  /\ phase \in {"waiting", "draining", "aborting", "returned"}
  /\ result \in {"ok", "error"} \/ (result = None /\ phase = "waiting")
  /\ outcome \in {"ok", "error"} \/ (outcome = None /\ phase # "returned")
  /\ cancelled <=> phase # "waiting"

\* When serve returns, and the database pool is closed after it, no task can
\* touch the database any more or take a connection from the listener, whichever
\* way it ended.  (Threads of an HTTP server whose task was aborted are no tasks.)
NoTaskOutlivesServe == phase = "returned" => \A t \in Tasks : Ended(t)

\* Exit code 0 means that a signal stopped the process and, unless the timeout
\* cut the drain short, that every task succeeded: no order of failures, panics
\* and the signal hides one from the deployment that would restart the process.
SuccessIsClean ==
  phase = "returned" /\ outcome = "ok" =>
    /\ signal = "received"
    /\ \/ \A t \in Tasks : task[t] = "succeeded"
       \/ joined # Tasks

\* A signal, or the end of any one task, ends the process, though a batch or a
\* request of the management server hangs.
ServeReturns ==
  (signal # "none" \/ \E t \in Tasks : Ended(t)) ~> phase = "returned"

\* workers.md says that workers that receive a shutdown signal allow the current
\* task to finish within the shutdown timeout.  The loops drop their batch as
\* soon as they are cancelled.
CurrentBatchFinishes ==
  [][result = "ok" => \A w \in Loops : task[w] = "working" => task'[w] # "succeeded"]_vars
=============================================================================
