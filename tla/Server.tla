------------------------------- MODULE Server -------------------------------
(***************************************************************************)
(* The web server of one process (server/app.py) and its LabSession        *)
(* (runtime/session.py): the requests that start, resume, decline, stop    *)
(* and archive a lab, and the one task that runs it.                       *)
(*                                                                         *)
(* The event loop runs a handler from one await to the next; what happens  *)
(* at an await of another handler may come in between.  asyncio.to_thread  *)
(* runs its function beside the loop.  task and resume take _task_lock,    *)
(* done and stop do not.  What a lab does is the subject of LabFlow: here  *)
(* it is running until it closes its session, pauses or fails.             *)
(***************************************************************************)
EXTENDS Naturals, FiniteSets

CONSTANTS
    Labs,       \* thread ids; a bound of the model
    Dones       \* requests to /api/done that may be open at a time

NoLab == "none"

ASSUME ServerAssumption == IsFiniteSet(Labs) /\ NoLab \notin Labs

VARIABLES
    dir,        \* where the session directory of a lab is
    closed,     \* labs whose journal has session_closed
    task,       \* _current_task and the lab it runs
    last,       \* the lab whose cards _session.last_result holds
    archived,   \* labs whose cards are in the archive
    holder,     \* the handler that holds _task_lock
    done,       \* the handlers of /api/done
    upload,     \* the handler of an upload
    env         \* serial: the client waits for each answer before it asks
                \* again; reliable: the archive never raises

vars == <<dir, closed, task, last, archived, holder, done, upload, env>>

NoTask == [at |-> "none", lab |-> NoLab, orphan |-> FALSE, stopping |-> FALSE, told |-> FALSE]
NoHolder == [at |-> "idle", op |-> "none", found |-> NoLab]
NoDone == [at |-> "idle"]

Init ==
    /\ dir = [l \in Labs |-> "none"]
    /\ closed = {}
    /\ task = NoTask
    /\ last = NoLab
    /\ archived = {}
    /\ holder = NoHolder
    /\ done = [d \in Dones |-> NoDone]
    /\ upload = "idle"
    /\ env \in [serial : BOOLEAN, reliable : BOOLEAN]

\* _is_running
IsRunning == task.at # "none"

\* runner.running of the runner the session holds: done() may have replaced it
\* under a lab that runs on the old one.
InRun == {"running", "ended"}
RunnerRuns == task.at \in InRun /\ ~task.orphan

\* The next request comes when the last was answered.  By then the event loop
\* has given the new task its first step.
MayRequest ==
    env.serial =>
          /\ holder = NoHolder /\ upload = "idle" /\ task.at # "created"
          /\ \A d \in Dones : done[d] = NoDone

-----------------------------------------------------------------------------
(* The lab *)

\* Slips: closed sessions are found as well; the scan looks in another directory.
AnySession == {l \in Labs : dir[l] = "workspace"}
WrongRoot == {}

\* latest_incomplete; directories are equally recent if their times are.
Incomplete == {l \in Labs : dir[l] = "workspace" /\ l \notin closed}

\* First step of _run_lab for a new lab: LabSession.run.
NewLabBegins(l) ==
    /\ task.at = "created" /\ task.lab = NoLab
    /\ dir[l] = "none"
    /\ dir' = [dir EXCEPT ![l] = "workspace"]
    /\ last' = NoLab
    /\ task' = [task EXCEPT !.at = "running", !.lab = l]
    /\ UNCHANGED <<closed, archived, holder, done, upload, env>>

\* LabSession.resume.  A session that is not resumable any more fails the task.
LabResumes ==
    /\ task.at = "created" /\ task.lab # NoLab
    /\ last' = NoLab
    /\ task' = [task EXCEPT !.at = IF dir[task.lab] = "workspace" /\ task.lab \notin closed
                                   THEN "running" ELSE "finishing"]
    /\ UNCHANGED <<dir, closed, archived, holder, done, upload, env>>

\* run_lab returns; the runner that waits for it is told in a later step of the
\* event loop.
LabEnds ==
    /\ task.at = "running" /\ ~task.stopping
    /\ task' = [task EXCEPT !.at = "ended"]
    /\ UNCHANGED <<dir, closed, last, archived, holder, done, upload, env>>

\* session_closed, and the result with its cards reaches the session.
LabCloses ==
    /\ task.at = "ended" /\ dir[task.lab] = "workspace"
    /\ closed' = closed \cup {task.lab}
    /\ last' = task.lab
    /\ task' = [task EXCEPT !.at = "finishing"]
    /\ UNCHANGED <<dir, archived, holder, done, upload, env>>

\* run_paused; the result has no cards.
LabPauses ==
    /\ task.at = "running" /\ dir[task.lab] = "workspace"
    /\ last' = NoLab
    /\ task' = [task EXCEPT !.at = "finishing"]
    /\ UNCHANGED <<dir, closed, archived, holder, done, upload, env>>

\* An exception of run_lab, also of an append to a journal that was moved away.
LabFails ==
    /\ task.at \in InRun
    /\ task' = [task EXCEPT !.at = "finishing"]
    /\ UNCHANGED <<dir, closed, last, archived, holder, done, upload, env>>

\* The final event was put; requests that wait for the task wake up.
TaskEnds ==
    /\ task.at = "finishing"
    /\ task' = NoTask
    /\ done' = [d \in Dones |-> IF done[d].at = "waiting" THEN [done[d] EXCEPT !.at = "woken"]
                                ELSE done[d]]
    /\ UNCHANGED <<dir, closed, last, archived, holder, upload, env>>

-----------------------------------------------------------------------------
(* /api/task and /api/resume, under the lock *)

\* Slip: an early return keeps the lock.
Kept == holder

Released == NoHolder

RequestBegins(op) ==
    /\ MayRequest /\ holder = NoHolder /\ ~IsRunning
    /\ holder' = [at |-> "reading", op |-> op, found |-> NoLab]
    /\ UNCHANGED <<dir, closed, task, last, archived, done, upload, env>>

\* The thread reads the journals of the workspace.
RequestReads ==
    /\ holder.at = "reading"
    /\ \E l \in (IF Incomplete = {} THEN {NoLab} ELSE Incomplete) :
          holder' = [holder EXCEPT !.at = "read", !.found = l]
    /\ UNCHANGED <<dir, closed, task, last, archived, done, upload, env>>

\* 409 for a paused lab in the way, 404 for nothing to resume.
RequestIsRefused ==
    /\ holder.at = "read"
    /\ (holder.op = "task") = (holder.found # NoLab)
    /\ holder' = Released
    /\ UNCHANGED <<dir, closed, task, last, archived, done, upload, env>>

RequestCreatesTask ==
    /\ holder.at = "read"
    /\ \/ holder.op = "task" /\ holder.found = NoLab
       \/ holder.op = "resume" /\ holder.found # NoLab
    /\ task' = [NoTask EXCEPT !.at = "created", !.lab = holder.found]
    /\ holder' = NoHolder
    /\ UNCHANGED <<dir, closed, last, archived, done, upload, env>>

-----------------------------------------------------------------------------
(* LabSession.done *)

\* Slip: nothing is archived.
Forgotten(ok) == archived

\* _archive_create: the cards of last_result, unless the archive raises.
ArchivedCards(ok) == IF ok THEN archived \cup ({last} \ {NoLab}) ELSE archived

\* clear_workspace moves what is in the workspace, whoever uses it.
Cleared == [l \in Labs |-> IF dir[l] = "workspace" THEN "trash" ELSE dir[l]]

\* After the sandbox was recreated: no result, and a new runner.
Reset ==
    /\ last' = NoLab
    /\ task' = [task EXCEPT !.orphan = @ \/ task.at \in InRun]

\* decline_resume in a thread, with the archive() that waits for its index.
DeclineArchives(ok) ==
    /\ holder.at = "read" /\ holder.op = "decline" /\ holder.found # NoLab
    /\ ok \/ ~env.reliable
    /\ IF RunnerRuns
       THEN holder' = NoHolder /\ UNCHANGED archived
       ELSE holder' = [holder EXCEPT !.at = "archived"] /\ archived' = ArchivedCards(ok)
    /\ UNCHANGED <<dir, closed, task, last, done, upload, env>>

DeclineClears ==
    /\ holder.at = "archived"
    /\ dir' = Cleared
    /\ holder' = [holder EXCEPT !.at = "cleared"]
    /\ UNCHANGED <<closed, task, last, archived, done, upload, env>>

DeclineResets ==
    /\ holder.at = "cleared"
    /\ Reset
    /\ holder' = NoHolder
    /\ UNCHANGED <<dir, closed, archived, done, upload, env>>

-----------------------------------------------------------------------------
(* /api/done, without the lock *)

\* Slip: the stop is not passed on.
NotStopped(t) == t

\* request_stop; a coroutine that has returned is not cancelled any more.
StoppedTask(t) ==
    IF RunnerRuns /\ task.at = "running" THEN [t EXCEPT !.stopping = TRUE] ELSE t

At(d, place) == done' = [done EXCEPT ![d].at = place]

DoneStops(d) ==
    /\ done[d] = NoDone /\ MayRequest /\ IsRunning
    /\ task' = StoppedTask(task)
    /\ At(d, "waiting")
    /\ UNCHANGED <<dir, closed, last, archived, holder, upload, env>>

\* 409 after 15 seconds.
DoneGivesUp(d) ==
    /\ done[d].at = "waiting"
    /\ done' = [done EXCEPT ![d] = NoDone]
    /\ UNCHANGED <<dir, closed, task, last, archived, holder, upload, env>>

\* archive_async: cards that were made are indexed before the thread starts.
DoneArchives(d, ok) ==
    /\ \/ done[d] = NoDone /\ MayRequest /\ ~IsRunning
       \/ done[d].at = "woken"
    /\ ok \/ ~env.reliable
    /\ archived' = ArchivedCards(ok)
    /\ At(d, IF ok /\ last \notin archived \cup {NoLab} THEN "indexing" ELSE "thread")
    /\ UNCHANGED <<dir, closed, task, last, holder, upload, env>>

DoneIndexes(d) ==
    /\ done[d].at = "indexing"
    /\ At(d, "thread")
    /\ UNCHANGED <<dir, closed, task, last, archived, holder, upload, env>>

\* The thread: done() refuses while its runner runs.
DoneChecks(d) ==
    /\ done[d].at = "thread"
    /\ IF RunnerRuns THEN done' = [done EXCEPT ![d] = NoDone] ELSE At(d, "checked")
    /\ UNCHANGED <<dir, closed, task, last, archived, holder, upload, env>>

DoneClears(d) ==
    /\ done[d].at = "checked"
    /\ dir' = Cleared
    /\ At(d, "cleared")
    /\ UNCHANGED <<closed, task, last, archived, holder, upload, env>>

DoneResets(d) ==
    /\ done[d].at = "cleared"
    /\ Reset
    /\ done' = [done EXCEPT ![d] = NoDone]
    /\ UNCHANGED <<dir, closed, archived, holder, upload, env>>

-----------------------------------------------------------------------------
(* /api/stop, /api/files *)

\* Answers stopped whenever a task is there.
StopRequest ==
    /\ MayRequest /\ IsRunning
    /\ task' = [StoppedTask(task) EXCEPT !.told = TRUE]
    /\ UNCHANGED <<dir, closed, last, archived, holder, done, upload, env>>

UploadBegins ==
    /\ upload = "idle" /\ MayRequest /\ ~IsRunning
    /\ upload' = "body"
    /\ UNCHANGED <<dir, closed, task, last, archived, holder, done, env>>

\* A file was read, in a thread of its own when it is large, and is written.
UploadWrites ==
    /\ upload = "body"
    /\ upload' = "idle"
    /\ UNCHANGED <<dir, closed, task, last, archived, holder, done, env>>

\* The process dies and is started again.
Restart ==
    /\ task' = NoTask /\ last' = NoLab
    /\ holder' = NoHolder /\ done' = [d \in Dones |-> NoDone] /\ upload' = "idle"
    /\ UNCHANGED <<dir, closed, archived, env>>

-----------------------------------------------------------------------------
LabStep ==
    \/ \E l \in Labs : NewLabBegins(l)
    \/ LabResumes \/ LabEnds \/ LabCloses \/ LabPauses \/ LabFails \/ TaskEnds

HolderStep ==
    \/ RequestReads \/ RequestIsRefused \/ RequestCreatesTask
    \/ \E ok \in BOOLEAN : DeclineArchives(ok)
    \/ DeclineClears \/ DeclineResets

DoneStep(d) ==
    \/ DoneStops(d) \/ DoneGivesUp(d) \/ \E ok \in BOOLEAN : DoneArchives(d, ok)
    \/ DoneIndexes(d) \/ DoneChecks(d) \/ DoneClears(d) \/ DoneResets(d)

Next ==
    \/ LabStep \/ HolderStep
    \/ \E d \in Dones : DoneStep(d)
    \/ \E op \in {"task", "resume", "decline"} : RequestBegins(op)
    \/ StopRequest \/ UploadBegins \/ UploadWrites \/ Restart

Spec == Init /\ [][Next]_vars

\* Threads end; a request that was accepted goes on.  Nobody has to ask.
FairSpec ==
    /\ Spec
    /\ WF_vars(HolderStep)
    /\ \A d \in Dones : WF_vars(done[d] # NoDone /\ DoneStep(d))

-----------------------------------------------------------------------------
(* Properties *)

\* Every variable keeps its type.
TypeOK ==
    /\ dir \in [Labs -> {"none", "workspace", "trash"}]
    /\ closed \in SUBSET Labs /\ archived \in SUBSET Labs
    /\ task \in [at : {"none", "created", "running", "ended", "finishing"},
                  lab : Labs \cup {NoLab},
                  orphan : BOOLEAN, stopping : BOOLEAN, told : BOOLEAN]
    /\ last \in Labs \cup {NoLab}
    /\ holder \in [at : {"idle", "reading", "read", "archived", "cleared"},
                    op : {"none", "task", "resume", "decline"}, found : Labs \cup {NoLab}]
    /\ done \in [Dones -> [at : {"idle", "waiting", "woken", "indexing", "thread",
                                  "checked", "cleared"}]]
    /\ upload \in {"idle", "body"}
    /\ env \in [serial : BOOLEAN, reliable : BOOLEAN]

\* There is at most one lab to resume, whatever requests come together: a paused
\* lab is never passed over by a new one.
OneOpenLab == Cardinality({l \in Labs : dir[l] = "workspace"} \ closed) <= 1

\* A request that took the lock, and one to archive, is answered.
RequestsEnd ==
    /\ holder # NoHolder ~> holder = NoHolder
    /\ \A d \in Dones : done[d] # NoDone ~> done[d] = NoDone

\* The workspace is not cleared under a lab that runs in it (session.py: wait
\* for the running lab to stop before clearing workspace).
ClearedOnlyIdle ==
    [][\A l \in Labs : dir[l] = "workspace" /\ dir'[l] = "trash"
          => ~(task.at = "running" /\ task.lab = l)]_vars

\* The cards of a result are in the archive before the reset drops the result
\* (app.py: cards go into the archive first, then done resets), if the archive
\* works and the requests come one after the other.
CardsFirst ==
    env.serial /\ env.reliable =>
    (holder.at = "cleared" \/ (\E d \in Dones : done[d].at = "cleared")
        => last \in archived \cup {NoLab})

\* A lab whose stop was answered with stopped does not run on unharmed, if the
\* requests come one after the other.  A stop that comes when run_lab has returned
\* stops nothing.
StopReachesLab == env.serial /\ task.at = "running" /\ task.told => task.stopping

\* What a resume was accepted for is still there when the lab starts, if the
\* requests come one after the other.
ResumeFindsItsLab ==
    [][env.serial /\ task.at = "created" => task'.at # "finishing"]_vars
=============================================================================
