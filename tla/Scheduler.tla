------------------------------ MODULE Scheduler ------------------------------
(***************************************************************************)
(* run_wave (runtime/lab/scheduler.py): one asyncio task per assignment,   *)
(* at most max_parallel_readonly_workers of them inside the semaphore; the *)
(* first brief that calls the wave off cancels the siblings; whatever      *)
(* happens, the coroutine leaves only after every task is over.            *)
(*                                                                         *)
(* The event loop runs one callback at a time, so a step here is what a    *)
(* coroutine does between two awaits.  cancel() does not stop a task: it   *)
(* is delivered when the task next runs, and it wins over a result that    *)
(* is already there.                                                       *)
(***************************************************************************)
EXTENDS Naturals, FiniteSets

CONSTANTS
    Workers,    \* the tasks of the wave, one per assignment
    Permits     \* max_parallel_readonly_workers

\* _execute_and_judge starts a wave only for a non-empty list of assignments.
ASSUME WaveAssumption ==
    /\ IsFiniteSet(Workers) /\ Workers # {}
    /\ Permits \in Nat \ {0}

VARIABLES
    task,       \* where the coroutine one(worker) is
    result,     \* the brief runner(worker) ended with, until it is committed
    cancelled,  \* the tasks cancel() was called on
    value,      \* the semaphore
    briefs,     \* results: what on_result committed
    main,       \* where run_wave is
    error,      \* the exception run_wave is leaving with
    stop        \* the lab's task was cancelled

vars == <<task, result, cancelled, value, briefs, main, error, stop>>

NoBrief == "none"
Plain == "plain"
CallsOff == "calls_off"
Blocked == "blocked"
WorkerBriefs == {Plain, CallsOff}

Holding == {"running", "ready"}     \* inside async with sem
Over == {"committed", "failed", "gone"}

AllOver == \A w \in Workers : task[w] \in Over

Init ==
    /\ task = [w \in Workers |-> "queued"]
    /\ result = [w \in Workers |-> NoBrief]
    /\ cancelled = {}
    /\ value = Permits
    /\ briefs = [w \in Workers |-> NoBrief]
    /\ main = "waiting"
    /\ error = "none"
    /\ stop = FALSE

-----------------------------------------------------------------------------
(* one(worker) *)

Free(permits) == permits > 0

\* Slip: the permit of a task that ends is lost.
NotReleased(permits) == permits

Released(permits) == permits + 1

Acquire(w) ==
    /\ task[w] = "queued" /\ w \notin cancelled
    /\ Free(value)
    /\ value' = value - 1
    /\ task' = [task EXCEPT ![w] = "running"]
    /\ UNCHANGED <<result, cancelled, briefs, main, error, stop>>

\* runner(worker) ends, by itself or by an exception, which becomes a failed
\* brief; the task has still to be resumed.
RunnerEnds(w, brief) ==
    /\ task[w] = "running"
    /\ task' = [task EXCEPT ![w] = "ready"]
    /\ result' = [result EXCEPT ![w] = brief]
    /\ UNCHANGED <<cancelled, value, briefs, main, error, stop>>

Resumes(w) == w \notin cancelled

\* The task is resumed: on_result, results, release of the semaphore.
Commit(w) ==
    /\ task[w] = "ready" /\ Resumes(w)
    /\ task' = [task EXCEPT ![w] = "committed"]
    /\ briefs' = [briefs EXCEPT ![w] = result[w]]
    /\ value' = Released(value)
    /\ UNCHANGED <<result, cancelled, main, error, stop>>

\* on_result raises (the journal cannot be written): the task ends with it.
CommitFails(w) ==
    /\ task[w] = "ready" /\ Resumes(w)
    /\ task' = [task EXCEPT ![w] = "failed"]
    /\ value' = Released(value)
    /\ UNCHANGED <<result, cancelled, briefs, main, error, stop>>

\* CancelledError at the await of the semaphore or of the runner; a brief that
\* was already there is lost.
Cancelled(w) ==
    /\ task[w] \notin Over /\ w \in cancelled
    /\ task' = [task EXCEPT ![w] = "gone"]
    /\ value' = IF task[w] \in Holding THEN Released(value) ELSE value
    /\ UNCHANGED <<result, cancelled, briefs, main, error, stop>>

-----------------------------------------------------------------------------
(* run_wave *)

CalledOff == \E w \in Workers : briefs[w] = CallsOff

\* finally: every task that is not over is cancelled.
LeaveWith(e) ==
    /\ error' = e
    /\ main' = "joining"
    /\ cancelled' = cancelled \cup {w \in Workers : task[w] \notin Over}
    /\ UNCHANGED <<task, result, value, briefs, stop>>

\* asyncio.wait returns with the tasks that are over by now; a failed one is
\* raised before the briefs are looked at.
MainWakes ==
    /\ main = "waiting" /\ ~stop
    /\ \E w \in Workers : task[w] \in Over
    /\ \/ (\E w \in Workers : task[w] = "failed") /\ LeaveWith("commit_failed")
       \/ (\A w \in Workers : task[w] # "failed") /\ (CalledOff \/ AllOver) /\ LeaveWith("none")

\* request_stop, or a cancelled caller, cancels the lab's task.
Stop ==
    /\ main \in {"waiting", "joining"} /\ ~stop
    /\ stop' = TRUE
    /\ UNCHANGED <<task, result, cancelled, value, briefs, main, error>>

MainCancelled ==
    /\ main = "waiting" /\ stop
    /\ LeaveWith("cancelled")

\* Slip: gather is not awaited.
NobodyLeft == TRUE

Joined == AllOver

\* gather returns: with CancelledError if the stop came meanwhile.
Join ==
    /\ main = "joining" /\ Joined
    /\ error' = IF stop THEN "cancelled" ELSE error
    /\ main' = IF error' = "none" THEN "filling" ELSE "left"
    /\ UNCHANGED <<task, result, cancelled, value, briefs, stop>>

\* A synthetic brief for every worker without one; on_result may raise here too.
Fill(w) ==
    /\ main = "filling" /\ briefs[w] = NoBrief
    /\ briefs' = [briefs EXCEPT ![w] = Blocked]
    /\ UNCHANGED <<task, result, cancelled, value, main, error, stop>>

FillFails ==
    /\ main = "filling"
    /\ \E w \in Workers : briefs[w] = NoBrief
    /\ main' = "left"
    /\ error' = "commit_failed"
    /\ UNCHANGED <<task, result, cancelled, value, briefs, stop>>

\* Slip: the wave returns what it has.
Whatever == TRUE

Complete == \A w \in Workers : briefs[w] # NoBrief

Return ==
    /\ main = "filling" /\ Complete
    /\ main' = "returned"
    /\ UNCHANGED <<task, result, cancelled, value, briefs, error, stop>>

-----------------------------------------------------------------------------
TaskStep(w) ==
    \/ Acquire(w)
    \/ \E brief \in WorkerBriefs : RunnerEnds(w, brief)
    \/ Commit(w) \/ CommitFails(w) \/ Cancelled(w)

MainStep ==
    \/ MainWakes \/ MainCancelled \/ Join
    \/ \E w \in Workers : Fill(w)
    \/ FillFails \/ Return

Next == (\E w \in Workers : TaskStep(w)) \/ MainStep \/ Stop

Spec == Init /\ [][Next]_vars

-----------------------------------------------------------------------------
(* Properties *)

Places == {"queued", "running", "ready"} \cup Over
Exits == {"returned", "left"}

\* Every variable keeps its type.
TypeOK ==
    /\ task \in [Workers -> Places]
    /\ result \in [Workers -> WorkerBriefs \cup {NoBrief}]
    /\ cancelled \in SUBSET Workers
    /\ value \in 0 .. Permits
    /\ briefs \in [Workers -> WorkerBriefs \cup {NoBrief, Blocked}]
    /\ main \in {"waiting", "joining", "filling"} \cup Exits
    /\ error \in {"none", "commit_failed", "cancelled"}
    /\ stop \in BOOLEAN

\* At most max_parallel_readonly_workers workers are between the acquisition
\* and the release of the semaphore, through every kind of exit.
BoundedConcurrency == Cardinality({w \in Workers : task[w] \in Holding}) <= Permits

\* No task of the wave outlives run_wave: neither a normal return nor an
\* exception nor a cancellation leaves a worker behind that could still write.
NobodyOutlivesTheWave == main \in Exits => AllOver

\* A blocked brief is made up only for a wave that a committed brief called
\* off: a stop or a failed commit leaves no made-up briefs for a resume to find.
BlockedOnlyWhenCalledOff == (\E w \in Workers : briefs[w] = Blocked) => CalledOff

\* A stop that reached run_wave lets no further brief be committed.
StopCommitsNothing ==
    [][error = "cancelled" => briefs' = briefs]_vars

\* The wave as its caller sees it.
Caller == INSTANCE Wave WITH
    wave <- IF main \in Exits THEN main ELSE "open"

KeepsWavePromises == Caller!Spec

\* A wave ends, whatever its workers return.
WaveEnds == <>(main \in Exits)
=============================================================================
