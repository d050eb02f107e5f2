---------------------------- MODULE Server_proofs ----------------------------
(***************************************************************************)
(* Proofs about module Server, for any number of labs and of requests that *)
(* come together, and any client.                                          *)
(***************************************************************************)
EXTENDS Server, FiniteSetTheorems, TLAPS

\* The fields that the number of open labs depends on.
LooseTypes ==
    /\ DOMAIN dir = Labs
    /\ {"at", "lab"} \subseteq DOMAIN task
    /\ {"at", "op", "found"} \subseteq DOMAIN holder

\* While a request holds the lock no task is there; what it found holds until
\* it creates the task, and what the task was created for until its lab begins.
LockInv ==
    /\ holder.at # "idle" => task.at = "none"
    /\ holder.at = "read" /\ holder.found = NoLab => Incomplete = {}
    /\ task.at = "created" /\ task.lab = NoLab => Incomplete = {}

OneInv == \A l, m \in Incomplete : l = m

ServerInv == LooseTypes /\ LockInv /\ OneInv

LEMMA ServerInit == Init => ServerInv
BY DEF Init, ServerInv, LooseTypes, LockInv, OneInv, NoTask, NoHolder, Incomplete

\* Nothing but the first step of a new lab adds an open lab.
LEMMA ServerStep == ServerInv /\ [Next]_vars => ServerInv'
<1> SUFFICES ASSUME ServerInv, [Next]_vars PROVE ServerInv'
    OBVIOUS
<1> USE ServerAssumption DEF ServerInv, LooseTypes, LockInv, OneInv
<1>1. ASSUME NEW l \in Labs, NewLabBegins(l) PROVE ServerInv'
    <2>1. Incomplete' \subseteq {l}
        BY <1>1 DEF NewLabBegins, Incomplete
    <2>2. QED
        BY <1>1, <2>1 DEF NewLabBegins
<1>2. CASE LabResumes
    BY <1>2 DEF LabResumes, Incomplete
<1>3. CASE LabCloses
    <2>1. Incomplete' \subseteq Incomplete
        BY <1>3 DEF LabCloses, Incomplete
    <2>2. QED
        BY <1>3, <2>1 DEF LabCloses
<1>4. CASE LabEnds \/ LabPauses \/ LabFails
    BY <1>4 DEF LabEnds, LabPauses, LabFails, Incomplete, InRun
<1>5. CASE TaskEnds
    BY <1>5 DEF TaskEnds, Incomplete, NoTask
<1>6. ASSUME NEW op, RequestBegins(op) PROVE ServerInv'
    BY <1>6 DEF RequestBegins, IsRunning, Incomplete
<1>7. CASE RequestReads
    <2>1. PICK l \in (IF Incomplete = {} THEN {NoLab} ELSE Incomplete) :
              holder' = [holder EXCEPT !.at = "read", !.found = l]
        BY <1>7 DEF RequestReads
    <2>2. l = NoLab => Incomplete = {}
        BY <2>1 DEF Incomplete
    <2>3. Incomplete' = Incomplete
        BY <1>7 DEF RequestReads, Incomplete
    <2>4. QED
        BY <1>7, <2>1, <2>2, <2>3 DEF RequestReads
<1>8. CASE RequestIsRefused
    BY <1>8 DEF RequestIsRefused, Released, NoHolder, Incomplete
<1>9. CASE RequestCreatesTask
    <2>1. Incomplete' = Incomplete
        BY <1>9 DEF RequestCreatesTask, Incomplete
    <2>2. QED
        BY <1>9, <2>1 DEF RequestCreatesTask, NoTask, NoHolder
<1>10. ASSUME NEW ok, DeclineArchives(ok) PROVE ServerInv'
    BY <1>10 DEF DeclineArchives, NoHolder, Incomplete
<1>11. ASSUME dir' = Cleared, closed' = closed, task' = task,
              holder' = holder \/ (holder.at = "archived" /\ DeclineClears)
       PROVE  ServerInv'
    <2>1. Incomplete' = {}
        BY <1>11 DEF Cleared, Incomplete
    <2>2. QED
        BY <1>11, <2>1 DEF DeclineClears, Cleared
<1>12. ASSUME Reset, UNCHANGED <<dir, closed>>, holder' = holder \/ DeclineResets
       PROVE  ServerInv'
    BY <1>12 DEF Reset, DeclineResets, NoHolder, Incomplete
<1>13. ASSUME NEW d, DoneStep(d) PROVE ServerInv'
    <2>1. CASE DoneStops(d)
        BY <2>1 DEF DoneStops, StoppedTask, At, Incomplete
    <2>2. CASE DoneGivesUp(d) \/ DoneIndexes(d) \/ DoneChecks(d)
        BY <2>2 DEF DoneGivesUp, DoneIndexes, DoneChecks, At, Incomplete
    <2>3. ASSUME NEW ok, DoneArchives(d, ok) PROVE ServerInv'
        BY <2>3 DEF DoneArchives, At, Incomplete
    <2>4. CASE DoneClears(d)
        BY <1>11, <2>4 DEF DoneClears
    <2>5. CASE DoneResets(d)
        BY <1>12, <2>5 DEF DoneResets
    <2>6. QED
        BY <1>13, <2>1, <2>2, <2>3, <2>4, <2>5 DEF DoneStep
<1>14. CASE StopRequest
    BY <1>14 DEF StopRequest, StoppedTask, Incomplete
<1>15. CASE UploadBegins \/ UploadWrites \/ UNCHANGED vars
    BY <1>15 DEF UploadBegins, UploadWrites, vars, Incomplete
<1>16. CASE Restart
    BY <1>16 DEF Restart, NoTask, NoHolder, Incomplete
<1>17. CASE DeclineClears
    BY <1>11, <1>17 DEF DeclineClears
<1>18. CASE DeclineResets
    BY <1>12, <1>18 DEF DeclineResets
<1>19. QED
    BY <1>1, <1>2, <1>3, <1>4, <1>5, <1>6, <1>7, <1>8, <1>9, <1>10, <1>13, <1>14,
       <1>15, <1>16, <1>17, <1>18 DEF Next, LabStep, HolderStep

\* There is at most one lab to resume, whatever requests come together and
\* whenever the process dies.
THEOREM OneLabIsOpen == Spec => []OneOpenLab
<1>1. ServerInv => OneOpenLab
    <2> SUFFICES ASSUME ServerInv PROVE OneOpenLab
        OBVIOUS
    <2> DEFINE open == {l \in Labs : dir[l] = "workspace"} \ closed
    <2>1. open = Incomplete
        BY DEF Incomplete
    <2>2. Cardinality(open) <= 1
        <3>1. CASE open = {}
            BY <3>1, FS_EmptySet
        <3>2. ASSUME NEW l \in open PROVE Cardinality(open) <= 1
            <4>1. open = {l}
                BY <2>1, <3>2 DEF ServerInv, OneInv
            <4>2. Cardinality(open) = 1
                BY <4>1, FS_Singleton
            <4>3. QED
                BY <4>2
        <3>3. QED
            BY <3>1, <3>2
    <2>3. QED
        BY <2>2 DEF OneOpenLab
<1>2. QED
    BY <1>1, ServerInit, ServerStep, PTL DEF Spec

-----------------------------------------------------------------------------
(* Types *)

TaskRecords ==
    [at : {"none", "created", "running", "ended", "finishing"}, lab : Labs \cup {NoLab},
     orphan : BOOLEAN, stopping : BOOLEAN, told : BOOLEAN]

LEMMA StoppedTaskType ==
    ASSUME TypeOK,
           NEW t, t = StoppedTask(task) \/ t = [StoppedTask(task) EXCEPT !.told = TRUE]
    PROVE  /\ t \in TaskRecords
           /\ t.at = task.at /\ t.lab = task.lab /\ t.orphan = task.orphan
           /\ task.stopping \/ (RunnerRuns /\ task.at = "running") => t.stopping
           /\ t = StoppedTask(task) => t.told = task.told
BY ZenonT(60) DEF TypeOK, TaskRecords, StoppedTask, RunnerRuns, InRun

LEMMA ResetType ==
    ASSUME TypeOK, Reset
    PROVE  /\ last' = NoLab
           /\ task'.at = task.at /\ task'.lab = task.lab /\ task'.told = task.told
           /\ task'.stopping = task.stopping
           /\ task'.orphan = (task.orphan \/ task.at \in InRun)
           /\ task' \in TaskRecords
BY DEF TypeOK, TaskRecords, Reset, InRun

LEMMA ClearedType ==
    TypeOK => Cleared \in [Labs -> {"none", "workspace", "trash"}]
BY DEF TypeOK, Cleared

\* A lab that runs has a directory: closed holds labs only.
ServerTypes == TypeOK /\ (task.at \in InRun => task.lab # NoLab)

LEMMA ServerTypesInit == Init => ServerTypes
BY DEF Init, ServerTypes, TypeOK, InRun, NoTask, NoHolder, NoDone

LEMMA TypeStep == ServerTypes /\ [Next]_vars => ServerTypes'
<1> SUFFICES ASSUME ServerTypes, [Next]_vars PROVE ServerTypes'
    OBVIOUS
<1> USE DEF ServerTypes, TypeOK, TaskRecords, InRun
<1>1. CASE LabStep
    <2>1. ASSUME NEW l \in Labs, NewLabBegins(l) PROVE ServerTypes'
        BY <2>1, ServerAssumption DEF NewLabBegins
    <2>2. CASE LabResumes
        BY <2>2 DEF LabResumes
    <2>3. CASE LabEnds \/ LabCloses
        BY <2>3 DEF LabEnds, LabCloses
    <2>4. CASE LabPauses \/ LabFails
        BY <2>4 DEF LabPauses, LabFails
    <2>5. CASE TaskEnds
        BY <2>5 DEF TaskEnds, NoTask
    <2>6. QED
        BY <1>1, <2>1, <2>2, <2>3, <2>4, <2>5 DEF LabStep
<1>2. ASSUME NEW op \in {"task", "resume", "decline"}, RequestBegins(op) PROVE ServerTypes'
    BY <1>2 DEF RequestBegins
<1>3. CASE RequestReads \/ RequestIsRefused \/ RequestCreatesTask
    <2>1. Incomplete \subseteq Labs
        BY DEF Incomplete
    <2>2. CASE RequestReads
        BY ZenonT(60), <2>1, <2>2 DEF RequestReads
    <2>3. CASE RequestIsRefused
        BY <2>3 DEF RequestIsRefused, Released, NoHolder
    <2>4. CASE RequestCreatesTask
        BY <2>4 DEF RequestCreatesTask, NoHolder, NoTask
    <2>5. QED
        BY <1>3, <2>2, <2>3, <2>4
<1>4. ASSUME NEW ok, DeclineArchives(ok) PROVE ServerTypes'
    BY <1>4 DEF DeclineArchives, ArchivedCards, NoHolder
<1>5. CASE DeclineClears \/ DeclineResets
    <2>1. CASE DeclineClears
        BY <2>1, ClearedType DEF DeclineClears
    <2>2. CASE DeclineResets
        <3>1. UNCHANGED <<dir, closed, archived, done, upload, env>> /\ holder' = NoHolder
            BY <2>2 DEF DeclineResets
        <3>2. QED
            BY <2>2, <3>1, ResetType DEF DeclineResets, NoHolder
    <2>3. QED
        BY <1>5, <2>1, <2>2
<1>6. ASSUME NEW d \in Dones, DoneStep(d) PROVE ServerTypes'
    <2>1. CASE DoneStops(d)
        BY <2>1, StoppedTaskType DEF DoneStops, At
    <2>2. CASE DoneGivesUp(d) \/ DoneIndexes(d) \/ DoneChecks(d)
        BY <2>2 DEF DoneGivesUp, DoneIndexes, DoneChecks, At, NoDone
    <2>3. ASSUME NEW ok, DoneArchives(d, ok) PROVE ServerTypes'
        BY <2>3 DEF DoneArchives, ArchivedCards, At
    <2>4. CASE DoneClears(d)
        BY <2>4, ClearedType DEF DoneClears, At
    <2>5. CASE DoneResets(d)
        <3>1. /\ UNCHANGED <<dir, closed, archived, holder, upload, env>>
              /\ done' = [done EXCEPT ![d] = NoDone]
            BY <2>5 DEF DoneResets
        <3>2. task' \in TaskRecords /\ task'.at = task.at /\ task'.lab = task.lab /\ last' = NoLab
            BY <2>5, ResetType DEF DoneResets
        <3>3. QED
            BY <3>1, <3>2 DEF NoDone
    <2>6. QED
        BY <1>6, <2>1, <2>2, <2>3, <2>4, <2>5 DEF DoneStep
<1>7. CASE StopRequest
    <2>1. task' \in TaskRecords /\ task'.at = task.at /\ task'.lab = task.lab
        BY <1>7, StoppedTaskType DEF StopRequest
    <2>2. QED
        BY <1>7, <2>1 DEF StopRequest
<1>8. CASE UploadBegins \/ UploadWrites \/ UNCHANGED vars
    BY <1>8 DEF UploadBegins, UploadWrites, vars
<1>9. CASE Restart
    BY <1>9 DEF Restart, NoTask, NoHolder, NoDone
<1>10. QED
    BY <1>1, <1>2, <1>3, <1>4, <1>5, <1>6, <1>7, <1>8, <1>9 DEF Next, HolderStep

\* Every variable of the server keeps its type.
THEOREM TypesHold == Spec => []TypeOK
<1>1. ServerTypes => TypeOK
    BY DEF ServerTypes
<1>2. QED
    BY <1>1, ServerTypesInit, TypeStep, PTL DEF Spec

-----------------------------------------------------------------------------
(* A client that waits for its answers *)

\* One request is open at a time, and none while a task has yet to begin.
OneRequest ==
    /\ \A d, e \in Dones : done[d] # NoDone /\ done[e] # NoDone => d = e
    /\ holder.at # "idle" => \A d \in Dones : done[d] = NoDone
    /\ task.at = "created" => holder.at = "idle" /\ \A d \in Dones : done[d] = NoDone

\* Whoever archives and clears does it while no task is there.
Past == {"woken", "indexing", "thread", "checked", "cleared"}

ClearsAlone ==
    /\ holder.at # "idle" => task.at = "none"
    /\ \A d \in Dones : done[d].at \in Past => task.at = "none"
    /\ ~task.orphan

\* A stop is passed on, and none is asked for before the lab begins.
StopPassedOn ==
    /\ task.at \in {"none", "created"} => ~task.told
    /\ task.at = "running" /\ task.told => task.stopping

\* What a request found, and what its task was created for, is there.
FoundIsThere ==
    /\ holder.at = "read" /\ holder.found # NoLab => holder.found \in Incomplete
    /\ task.at = "created" /\ task.lab # NoLab => task.lab \in Incomplete

\* From the archive to the reset.
CardsAreKept ==
    (\/ holder.at \in {"archived", "cleared"}
     \/ \E d \in Dones : done[d].at \in Past \ {"woken"}) => last \in archived \cup {NoLab}

SerialInv ==
    env.serial => /\ OneRequest /\ ClearsAlone /\ StopPassedOn /\ FoundIsThere
                  /\ env.reliable => CardsAreKept
LEMMA SerialInit == Init => SerialInv
BY DEF Init, SerialInv, OneRequest, ClearsAlone, StopPassedOn, FoundIsThere, CardsAreKept,
       Past, NoTask, NoHolder, NoDone

LEMMA LabStepFields ==
    ASSUME TypeOK, LabStep
    PROVE  /\ task.at # "none" /\ task'.at # "created"
           /\ task'.orphan => task.orphan
           /\ task'.told => task.told /\ task'.at # "none"
           /\ task'.stopping = task.stopping \/ ~task'.told
           /\ task'.at = "running" => task.at = "created"
<1> USE DEF TypeOK
<1>1. ASSUME NEW l \in Labs, NewLabBegins(l)
      PROVE  /\ task.at = "created" /\ task'.at = "running" /\ task'.orphan = task.orphan
             /\ task'.told = task.told /\ task'.stopping = task.stopping
    BY <1>1 DEF NewLabBegins
<1>2. CASE LabResumes
    BY <1>2 DEF LabResumes
<1>3. CASE LabEnds \/ LabCloses \/ LabPauses \/ LabFails
    BY <1>3 DEF LabEnds, LabCloses, LabPauses, LabFails, InRun
<1>4. CASE TaskEnds
    BY <1>4 DEF TaskEnds, NoTask
<1>5. QED
    BY <1>1, <1>2, <1>3, <1>4 DEF LabStep

\* The steps of a task find no request past its wait, and clear nothing.
LEMMA SerialLabStep ==
    ASSUME TypeOK, TypeOK', SerialInv, LabStep
    PROVE  SerialInv'
<1> SUFFICES ASSUME env.serial' PROVE SerialInv'
    BY DEF SerialInv
<1>0. UNCHANGED <<env, holder, archived>> /\ env.serial
    BY DEF LabStep, NewLabBegins, LabResumes, LabEnds, LabCloses, LabPauses, LabFails, TaskEnds
<1> USE <1>0 DEF TypeOK
<1>a. OneRequest /\ ClearsAlone /\ StopPassedOn /\ FoundIsThere
      /\ (env.reliable => CardsAreKept)
    BY DEF SerialInv
<1>b. task.at # "none" /\ task'.at # "created"
    BY LabStepFields
<1>c. holder.at = "idle" /\ \A d \in Dones : done[d].at \notin Past
    BY <1>a, <1>b DEF ClearsAlone
<1>d. CASE TaskEnds
    <2>1. \A d \in Dones : /\ done'[d] = NoDone <=> done[d] = NoDone
                           /\ done'[d].at \notin Past \ {"woken"}
        BY <1>c, <1>d DEF TaskEnds, Past, NoDone
    <2>2. task' = NoTask /\ UNCHANGED last
        BY <1>d DEF TaskEnds
    <2>3. QED
        BY <1>a, <1>c, <2>1, <2>2
           DEF SerialInv, OneRequest, ClearsAlone, StopPassedOn, FoundIsThere, CardsAreKept, NoTask
<1>e. CASE UNCHANGED done
    <2>1. StopPassedOn'
        BY <1>a, LabStepFields DEF StopPassedOn
    <2>2. OneRequest' /\ ClearsAlone' /\ FoundIsThere' /\ (env.reliable' => CardsAreKept')
        BY <1>a, <1>b, <1>c, <1>e, LabStepFields
           DEF OneRequest, ClearsAlone, FoundIsThere, CardsAreKept
    <2>3. QED
        BY <2>1, <2>2 DEF SerialInv
<1>f. QED
    BY <1>d, <1>e DEF LabStep, NewLabBegins, LabResumes, LabEnds, LabCloses, LabPauses, LabFails

\* The request that holds the lock is the only one.
LEMMA SerialHolderStep ==
    ASSUME TypeOK, TypeOK', SerialInv, HolderStep
    PROVE  SerialInv'
<1> SUFFICES ASSUME env.serial' PROVE SerialInv'
    BY DEF SerialInv
<1>0. UNCHANGED <<env, done>> /\ env.serial /\ holder.at # "idle"
    BY DEF HolderStep, RequestReads, RequestIsRefused, RequestCreatesTask, DeclineArchives,
           DeclineClears, DeclineResets
<1> USE <1>0 DEF TypeOK
<1>a. OneRequest /\ ClearsAlone /\ StopPassedOn /\ FoundIsThere
      /\ (env.reliable => CardsAreKept)
    BY DEF SerialInv
<1>b. task.at = "none" /\ ~task.told /\ ~task.orphan /\ \A d \in Dones : done[d] = NoDone
    BY <1>a DEF ClearsAlone, OneRequest, StopPassedOn
<1>c. \A d \in Dones : done[d].at = "idle"
    BY <1>b DEF NoDone
<1>1. CASE RequestReads
    <2>1. PICK l \in (IF Incomplete = {} THEN {NoLab} ELSE Incomplete) :
              holder' = [holder EXCEPT !.at = "read", !.found = l]
        BY <1>1 DEF RequestReads
    <2>2. Incomplete' = Incomplete
        BY <1>1 DEF RequestReads, Incomplete
    <2>3. holder'.at = "read" /\ holder'.found = l /\ UNCHANGED <<task, last, archived>>
        BY <1>1, <2>1 DEF RequestReads
    <2>4. l # NoLab => l \in Incomplete
        OBVIOUS
    <2>5. QED
        BY <1>a, <1>b, <1>c, <2>2, <2>3, <2>4
           DEF SerialInv, OneRequest, ClearsAlone, StopPassedOn, FoundIsThere, CardsAreKept, Past
<1>2. CASE RequestIsRefused
    BY <1>a, <1>b, <1>c, <1>2 DEF RequestIsRefused, Released, NoHolder, Incomplete,
       SerialInv, OneRequest, ClearsAlone, StopPassedOn, FoundIsThere, CardsAreKept, Past
<1>3. CASE RequestCreatesTask
    BY <1>a, <1>b, <1>c, <1>3 DEF RequestCreatesTask, NoHolder, NoTask, Incomplete,
       SerialInv, OneRequest, ClearsAlone, StopPassedOn, FoundIsThere, CardsAreKept, Past
<1>4. ASSUME NEW ok \in BOOLEAN, DeclineArchives(ok) PROVE SerialInv'
    <2>1. env.reliable => last \in ArchivedCards(ok) \cup {NoLab}
        BY <1>4 DEF DeclineArchives, ArchivedCards
    <2>2. ~RunnerRuns
        BY <1>b DEF RunnerRuns, InRun
    <2>3. holder'.at = "archived" /\ archived' = ArchivedCards(ok) /\ UNCHANGED <<task, last>>
        BY <1>4, <2>2 DEF DeclineArchives
    <2>4. QED
        BY <1>a, <1>b, <1>c, <2>1, <2>3
           DEF SerialInv, OneRequest, ClearsAlone, StopPassedOn, FoundIsThere, CardsAreKept, Past
<1>5. CASE DeclineClears
    <2>1. holder.at = "archived" /\ holder'.at = "cleared" /\ UNCHANGED <<task, last, archived>>
        BY <1>5 DEF DeclineClears
    <2>2. QED
        BY <1>a, <1>b, <1>c, <2>1
           DEF SerialInv, OneRequest, ClearsAlone, StopPassedOn, FoundIsThere, CardsAreKept, Past
<1>6. CASE DeclineResets
    <2>1. holder'.at = "idle" /\ last' = NoLab /\ UNCHANGED archived
        BY <1>6 DEF DeclineResets, Reset, NoHolder
    <2>2. task'.at = "none" /\ ~task'.told /\ ~task'.orphan
        BY <1>b, <1>6, ResetType DEF DeclineResets, InRun
    <2>3. QED
        BY <1>a, <1>b, <1>c, <2>1, <2>2
           DEF SerialInv, OneRequest, ClearsAlone, StopPassedOn, FoundIsThere, CardsAreKept, Past
<1>7. QED
    BY <1>1, <1>2, <1>3, <1>4, <1>5, <1>6 DEF HolderStep

\* A step of the one request to /api/done that is open, or its beginning.
LEMMA SerialDoneStep ==
    ASSUME TypeOK, SerialInv, NEW d \in Dones, DoneStep(d)
    PROVE  SerialInv'
<1> SUFFICES ASSUME env.serial' PROVE SerialInv'
    BY DEF SerialInv
<1>0. UNCHANGED <<env, holder, closed>> /\ env.serial
    BY DEF DoneStep, DoneStops, DoneGivesUp, DoneArchives, DoneIndexes, DoneChecks, DoneClears,
           DoneResets, At
<1> USE <1>0
<1>a. OneRequest /\ ClearsAlone /\ StopPassedOn /\ FoundIsThere
      /\ (env.reliable => CardsAreKept)
    BY DEF SerialInv
<1>b. MayRequest \/ done[d] # NoDone
    BY DEF DoneStep, DoneStops, DoneGivesUp, DoneArchives, DoneIndexes, DoneChecks, DoneClears,
           DoneResets, NoDone
<1>c. /\ holder.at = "idle" /\ task.at # "created"
      /\ \A e \in Dones \ {d} : done[e] = NoDone /\ done[e].at = "idle"
    BY <1>a, <1>b DEF MayRequest, OneRequest, NoHolder, NoDone
<1>d. \A e \in Dones \ {d} : done'[e] = done[e]
    BY DEF DoneStep, DoneStops, DoneGivesUp, DoneArchives, DoneIndexes, DoneChecks, DoneClears,
           DoneResets, At, TypeOK
<1>1. task'.at = task.at => OneRequest' /\ FoundIsThere'
    BY <1>c, <1>d DEF OneRequest, FoundIsThere
<1>2. CASE DoneStops(d)
    <2>1. /\ task' = StoppedTask(task) /\ done'[d].at = "waiting" /\ UNCHANGED <<last, archived>>
        BY <1>2 DEF DoneStops, At, TypeOK
    <2>2. QED
        BY <1>a, <1>c, <1>d, <1>1, <2>1, StoppedTaskType
           DEF SerialInv, ClearsAlone, StopPassedOn, CardsAreKept, Past
<1>3. CASE DoneGivesUp(d)
    <2>1. done'[d].at = "idle" /\ UNCHANGED <<task, last, archived>>
        BY <1>3 DEF DoneGivesUp, TypeOK, NoDone
    <2>2. QED
        BY <1>a, <1>c, <1>d, <1>1, <2>1
           DEF SerialInv, ClearsAlone, StopPassedOn, CardsAreKept, Past
<1>4. ASSUME NEW ok \in BOOLEAN, DoneArchives(d, ok) PROVE SerialInv'
    <2>1. task.at = "none" /\ UNCHANGED <<task, last>>
        BY <1>a, <1>4 DEF DoneArchives, IsRunning, ClearsAlone, Past
    <2>2. env.reliable => last \in archived' \cup {NoLab}
        BY <1>4 DEF DoneArchives, ArchivedCards
    <2>3. QED
        BY <1>a, <1>c, <1>d, <1>1, <2>1, <2>2
           DEF SerialInv, ClearsAlone, StopPassedOn, CardsAreKept, Past
<1>5. CASE DoneIndexes(d) \/ DoneChecks(d) \/ DoneClears(d)
    <2>1. done[d].at \in Past \ {"woken"} /\ UNCHANGED <<task, last, archived>>
        BY <1>5 DEF DoneIndexes, DoneChecks, DoneClears, Past, At
    <2>2. task.at = "none" /\ (env.reliable => last \in archived \cup {NoLab})
        BY <1>a, <2>1 DEF ClearsAlone, CardsAreKept
    <2>3. QED
        BY <1>a, <1>c, <1>d, <1>1, <2>1, <2>2
           DEF SerialInv, ClearsAlone, StopPassedOn, CardsAreKept
<1>6. CASE DoneResets(d)
    <2>1. task.at = "none" /\ last' = NoLab /\ UNCHANGED archived
        BY <1>a, <1>6, ResetType DEF DoneResets, ClearsAlone, Past
    <2>2. task'.at = "none" /\ task'.told = task.told /\ ~task'.orphan
        BY <1>a, <1>6, <2>1, ResetType DEF DoneResets, ClearsAlone, InRun
    <2>3. QED
        BY <1>a, <1>c, <1>1, <2>1, <2>2
           DEF SerialInv, ClearsAlone, StopPassedOn, CardsAreKept
<1>7. QED
    BY <1>2, <1>3, <1>4, <1>5, <1>6 DEF DoneStep

LEMMA SerialStep == ServerTypes /\ SerialInv /\ [Next]_vars => SerialInv'
<1> SUFFICES ASSUME ServerTypes, SerialInv, [Next]_vars PROVE SerialInv'
    OBVIOUS
<1>0. TypeOK /\ TypeOK'
    BY TypeStep DEF ServerTypes
<1>1. CASE LabStep \/ HolderStep
    BY <1>0, <1>1, SerialLabStep, SerialHolderStep
<1>2. ASSUME NEW d \in Dones, DoneStep(d) PROVE SerialInv'
    BY <1>0, <1>2, SerialDoneStep
<1>3. ASSUME NEW op \in {"task", "resume", "decline"}, RequestBegins(op) PROVE SerialInv'
    <2>1. /\ holder'.at = "reading" /\ task.at = "none"
          /\ UNCHANGED <<dir, closed, task, last, archived, done, env>>
        BY <1>3 DEF RequestBegins, IsRunning
    <2>2. env.serial => \A d \in Dones : done[d] = NoDone /\ done[d].at = "idle"
        BY <1>3 DEF RequestBegins, MayRequest, NoDone
    <2>3. QED
        BY <2>1, <2>2 DEF SerialInv, OneRequest, ClearsAlone, StopPassedOn, FoundIsThere,
           CardsAreKept, Past
<1>4. CASE StopRequest
    <2>1. UNCHANGED <<dir, closed, last, archived, holder, done, env>> /\ task.at # "none"
          /\ (env.serial => task.at # "created")
        BY <1>4 DEF StopRequest, IsRunning, MayRequest
    <2>2. /\ task'.at = task.at /\ task'.lab = task.lab /\ task'.orphan = task.orphan
          /\ task.stopping \/ (RunnerRuns /\ task.at = "running") => task'.stopping
        BY <1>0, <1>4, StoppedTaskType DEF StopRequest
    <2>3. QED
        BY <2>1, <2>2 DEF SerialInv, OneRequest, ClearsAlone, StopPassedOn, FoundIsThere,
           CardsAreKept, RunnerRuns, InRun, Incomplete
<1>5. CASE UploadBegins \/ UploadWrites \/ UNCHANGED vars
    <2>1. UNCHANGED <<dir, closed, task, last, archived, holder, done, env>>
        BY <1>5 DEF UploadBegins, UploadWrites, vars
    <2>2. QED
        BY <2>1 DEF SerialInv, OneRequest, ClearsAlone, StopPassedOn, FoundIsThere,
           CardsAreKept, Incomplete
<1>6. CASE Restart
    BY <1>6 DEF Restart, NoTask, NoHolder, NoDone, SerialInv, OneRequest, ClearsAlone,
       StopPassedOn, FoundIsThere, CardsAreKept, Past
<1>7. QED
    BY <1>1, <1>2, <1>3, <1>4, <1>5, <1>6 DEF Next

\* Cards are archived before the result is dropped.
THEOREM CardsComeFirst == Spec => []CardsFirst
<1>1. SerialInv => CardsFirst
    BY DEF SerialInv, CardsAreKept, CardsFirst, Past
<1>2. QED
    BY <1>1, ServerTypesInit, TypeStep, SerialInit, SerialStep, PTL DEF Spec

\* A lab whose stop was answered is stopping.
THEOREM StopsReachTheLab == Spec => []StopReachesLab
<1>1. SerialInv => StopReachesLab
    BY DEF SerialInv, StopPassedOn, StopReachesLab
<1>2. QED
    BY <1>1, ServerTypesInit, TypeStep, SerialInit, SerialStep, PTL DEF Spec

\* The lab a resume was accepted for is there when its task begins.
THEOREM ResumesFindTheirLab == Spec => ResumeFindsItsLab
<1>1. ServerTypes /\ SerialInv /\ [Next]_vars
      => [env.serial /\ task.at = "created" => task'.at # "finishing"]_vars
    <2> SUFFICES ASSUME ServerTypes, SerialInv, Next, env.serial, task.at = "created"
                 PROVE  task'.at # "finishing"
        OBVIOUS
    <2> USE DEF ServerTypes, TypeOK
    <2>1. CASE LabStep
        <3>1. ASSUME NEW l \in Labs, NewLabBegins(l) PROVE task'.at = "running"
            BY <3>1 DEF NewLabBegins
        <3>2. CASE LabResumes
            BY <3>2 DEF LabResumes, SerialInv, FoundIsThere, Incomplete
        <3>3. QED
            BY <2>1, <3>1, <3>2 DEF LabStep, LabEnds, LabCloses, LabPauses, LabFails, TaskEnds, InRun
    <2>2. CASE HolderStep \/ \E d \in Dones : DoneStep(d)
        <3>1. task'.at \in {task.at, "created"}
            BY <2>2, StoppedTaskType, ResetType
               DEF HolderStep, RequestReads, RequestIsRefused, RequestCreatesTask, DeclineArchives,
                   DeclineClears, DeclineResets, DoneStep, DoneStops, DoneGivesUp, DoneArchives,
                   DoneIndexes, DoneChecks, DoneClears, DoneResets, NoTask
        <3>2. QED
            BY <3>1
    <2>3. CASE StopRequest \/ Restart
        BY <2>3, StoppedTaskType DEF StopRequest, Restart, NoTask
    <2>4. QED
        BY <2>1, <2>2, <2>3 DEF Next, RequestBegins, UploadBegins, UploadWrites
<1>2. QED
    BY <1>1, ServerTypesInit, TypeStep, SerialInit, SerialStep, PTL
       DEF Spec, ResumeFindsItsLab

\* What server_clear shows can go wrong takes requests that overlap: a client that
\* waits for its answers clears no workspace under a lab that runs in it.
THEOREM WaitingClientsClearIdle ==
    Spec => [][env.serial => \A l \in Labs : dir[l] = "workspace" /\ dir'[l] = "trash"
                                 => ~(task.at = "running" /\ task.lab = l)]_vars
<1>1. ServerTypes /\ SerialInv /\ [Next]_vars
      => [env.serial => \A l \in Labs : dir[l] = "workspace" /\ dir'[l] = "trash"
                            => ~(task.at = "running" /\ task.lab = l)]_vars
    <2> SUFFICES ASSUME ServerTypes, SerialInv, Next, env.serial, task.at = "running"
                 PROVE  \A l \in Labs : dir[l] = "workspace" => dir'[l] # "trash"
        OBVIOUS
    <2>1. holder.at = "idle" /\ \A d \in Dones : done[d].at \notin Past
        BY DEF SerialInv, ClearsAlone
    <2>2. CASE UNCHANGED dir
        BY <2>2
    <2>3. ASSUME NEW l \in Labs, NewLabBegins(l) PROVE FALSE
        BY <2>3 DEF NewLabBegins
    <2>4. CASE DeclineClears \/ \E d \in Dones : DoneClears(d)
        BY <2>1, <2>4 DEF DeclineClears, DoneClears, Past
    <2>5. CASE HolderStep
        BY <2>2, <2>4, <2>5 DEF HolderStep, RequestReads, RequestIsRefused, RequestCreatesTask,
           DeclineArchives, DeclineResets
    <2>6. CASE \E d \in Dones : DoneStep(d)
        BY <2>2, <2>4, <2>6 DEF DoneStep, DoneStops, DoneGivesUp, DoneArchives, DoneIndexes,
           DoneChecks, DoneResets
    <2>7. QED
        BY <2>2, <2>3, <2>5, <2>6 DEF Next, LabStep, LabResumes, LabEnds, LabCloses, LabPauses, LabFails,
           TaskEnds, RequestBegins, StopRequest, UploadBegins, UploadWrites, Restart
<1>2. QED
    BY <1>1, ServerTypesInit, TypeStep, SerialInit, SerialStep, PTL DEF Spec
=============================================================================
