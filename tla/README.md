# Verification of labHandler

labHandler runs *labs*: a person uploads materials, a planning model (Pro) writes a SPEC, dispatches
assignments to worker models (Flash), judges what their acceptance gates say, and closes with a
summary. A lab takes long, spends money on every step, and is meant to survive a stop or a dead
process at any point ("崩在任意一轮可续", `README.md:101`). This directory holds TLA+ modules of the
parts where that is decided, TLC configurations that check them on small instances, and proofs of
their properties for every value of the constants.

Line numbers refer to `src/`. `PROJECT.json` maps every definition to its lines.

## 1. Inventory

| Component | Source | State it keeps | Operations | Talks to |
|---|---|---|---|---|
| Lab flow | `runtime/lab/flow.py`, `step.py`, `effects.py`, `persist.py` | `LabState`: stage, step, halt, sandbox lost, executed and resumable ids, gate and retry count per id, gate of the last step, effect ledger, revisions; files REMEMBER.json, SPEC.md, SUMMARY.md | Remember, SPEC, dispatch, wave, gate replay, judge, takeover, revision, Summary | journal (append), Pro drives, worker waves, gates |
| Lab runner | `runtime/lab/runner.py` | the live run coroutine | run, resume, stop, close | lab flow, journal |
| Session journal | `runtime/lab/journal.py` | `JOURNAL.jsonl`, the length of the durable transcript | append with fsync, open (cuts a torn tail), replay, tx_delta / tx_snapshot | everything that resumes |
| Decision helpers | `runtime/lab/helpers.py` | none | worst_gate, step_gate, partition, sanitize_decision | lab flow |
| Worker waves | `runtime/lab/scheduler.py` | tasks, semaphore, collected briefs | run_wave | lab flow calls it; commits through a callback |
| Agent loop | `runtime/loop/cycle.py`, `control.py`, `calls.py`, `stagnation.py`, `runtime/task.py` | step count, streaks of errors, nudges, stagnation window | a turn, its calls in waves, decide | model, tools, its task's budget |
| Pro thread | `cycle.py`, `flow.py` (drive_pro), `context/*` | one conversation of all Pro phases, its durable copy | drive, turn, compaction, flush, repair of unanswered calls | journal |
| Web server, session | `server/app.py`, `runtime/session.py` | current task, task lock, last result, session directory in the workspace | task, resume, decline, stop, done, files | runner, archive, file system |
| LLM gateway | `runtime/llm.py`, `errors.py` | count of consecutive failures (breaker) | chat, classification, breaker | shared by all loops of the process |
| Memory | `memory/*` | card files, index of cards and vectors, archive of tasks | archive, retrieve, reconcile, forget, dream | session, memory tools |
| Skills | `skills/*`, `tools/skill_tool.py` | skill files, one pending edit, the skill a lab has bound | propose, confirm, cancel, land, load | server, Pro, journal (stage lines) |
| Profile and rules | `memory/profile.py`, `remember.py` | one YAML file of rules; REMEMBER.json of a session, the rules in memory | append, edit, rule on them once, inject | server, Remember phase, judge |
| Gates, ingest, SPEC texts | `accept.py`, `ingest.py`, `spec.py` | none | run pytest in a container; read materials; parse and render | lab flow |
| Tool registry | `runtime/loop/registry.py`, `handlers.py`, `schema.py`, `runtime/phase.py` | none | bind a phase's tools, check and run a call under its deadline, group calls that may run together | agent loop, tools |
| Tools, policy, sandbox clients | `tools/*`, `mcp_client/*`, `infra/*` | one session of the process and its lock, counts of failures per tool, the container | file and shell operations, retry on a new session, start and recreate | registry, gates, skill editor |
| Tracing, prompts, settings, evaluation | `observe/*`, `config/*`, `eval/*` | none that a decision reads | | |

What is hard, and the properties that make each part correct:

- **Lab flow and journal: crashes.** `LabState` is a projection of the journal
  (`flow.py:83`): every change in memory has a line, and a crash may fall between any two lines. What
  is restored must equal what was in memory (`ProjectionIsDurable`), a plan must
  be the current one (`SpecIsCurrent`), committed work must not be repeated or forgotten
  (`BriefsAreFinal`, `SubmitsAreReused`, `JudgedStepIsComplete`, `NoPolishing`),
  files changed meanwhile must not be trusted (`StartsOnIntactProducts`), an end must stay an end
  (`NoWorkAfterTheEnd`), a verdict must be what the gates say (`VerdictIsTheWorstGate`,
  `FinishIsEarnedAtOnce`, `FinishIsEarned`), the loop over steps must end (`RunsEnd`), and a session must keep the promises of
  `doc/LIFECYCLE.md` (`KeepsItsPromises`).
- **Waves: interleavings and exits.** Workers return, raise, are cancelled by a sibling or from
  outside, and their commit may fail. Bounded concurrency, nobody left behind, no brief committed
  after a stop, made-up briefs only in a wave that was called off.
- **Agent loop: interacting counters.** Retries, nudges, validation streaks, budget, deadline and
  stagnation share one loop. It must end, not outlive a fatal error, not drop an accepted submit, and
  not be stopped as looping before the model was told.
- **Pro thread: durability in increments.** Length counters, snapshots after a compaction and the
  repair of unanswered calls have to agree, or the provider refuses the restored conversation.
- **Server: requests between awaits.** `/api/task` and `/api/resume` hold a lock, `/api/done`,
  `/api/stop` and uploads do not.
- **Gateway: one count for everybody.** The loops of a wave share a semaphore and a breaker whose
  count their answers fill and clear in any order; when the provider is down it has to end all of
  them before they have burnt their budgets, and a request that is cancelled must give its permit back.
- **Memory: files are the facts.** An index follows them in jobs that wait for an embedding while
  files change; ids are given out by a table that is written after the file; dream decides on a
  snapshot, works for minutes beside everything else and retires cards at its end.
- **Skills: confirmed later, landed elsewhere.** A proposal waits for a model and then for a person, one
  is pending, its id may be used late or twice, and it lands file by file in a thread beside other
  requests (`OnlyWhatWasConfirmed`). A lab binds one skill and must find it again over stops and crashes
  (`KeptSkillIsBound`).
- **Rules: named by index.** A judge answers by the index in a list it was shown, while the list on disk
  changes, also into something unreadable; a resumed lab must keep its first ruling (`RulingHolds`).
- **Tools: one session for everybody.** Workers, Pro, gates and a skill edit share one session of the
  sandbox. Calls time out while they wait for its lock, a failed call is made again on a new session, a
  container hangs, stops and is recreated without the lock, and a count of failures ends the lab: a
  sandbox that works must not be given up (`HealthyBoxAnswers`), a conversion without a deadline must not
  starve (`EditsEnd`), and what writes must run alone, although waves and phases decide that in different
  places (`WritesRunAlone`).

The list of hazards, each at its line with the properties that cover it, is in `PROJECT.json`.

## 2. Plan

Order and status of the modules (abstract specifications in italics):

1. `LabHelpers`, `Journal`, `LabFlow`, *`Lifecycle`* - done; the core: what a resumed lab does.
2. `Scheduler`, *`Wave`* - done. `LabFlow` uses of a wave what `Wave` says.
3. `Transcript` - done, with the compaction. 4. `AgentLoop` - done. Both with proofs of all their
   properties.
5. `Server` - done without `/api/dream`; its types and the properties of a client that waits are proved.
6. `Gateway`, `WaveOnGateway` (a wave whose loops share the gateway) - done without `embed`, with proofs.
7. `MemoryIndex` (vectors and searches), `Cards` (files, ids, archive, dream), `Skills`, `Rules`, and
   `Stores` that composes the four - done, with proofs.
8. `ToolTable`, `ToolCalls` - done, with proofs.
9. `LabFlow_proofs` (promises, and that a lab can be resumed from what it has committed) and
   `LabRuns_proofs` (what its runs do at most once) - done.
10. Left: `/api/dream` beside a lab and a second dream, and an abstract *card store* that `MemoryIndex`
   and `Cards` implement together; `Lab`, the server's lab replaced by `LabFlow` through `Lifecycle`, and
   the drives of `LabFlow` through an abstract drive that `Transcript` implements.

## 3. The modules and the code

**`LabHelpers`** holds `helpers.py` as operators over sets: `WorstGate`, `partition` by its three parts,
and `sanitize_decision` as `RulesChecked` followed by `GateChecked`; and the verdict of a gate
(`accept.py`): `GateOf` of the two pytest commands, each of which may install pytest first.

**`Journal`** represents the journal by the `JournalState` that `replay` returns: `Fold(j, e)` is the
effect of one more committed line. `run_paused`, `run_started` and `progress` lines are read by
people only and are not there.

**`LabFlow`** is `LabRunner._run` around `run_lab`. `at` is where the coroutine is, `lab` is
`LabState`, `cur` holds the locals of the step in progress. A stretch between two awaits is one
action; its durable writes go, in program order, to `writes`, and `Persist` makes them durable one
by one. `Crash` may come at any time and loses everything but `journal`, `files` and the products;
`Stop` cancels at an await. The answers of models, workers and gates are free. `BeginRun` is the
whole beginning of a resume, with its check of fingerprints; `AgentEdits` changes products while no
lab runs and while it runs. Types of the actions follow the phases of the code:
Remember, SPEC, advance (dispatch, wave, replay, judge, apply), Summary, close.

**`Lifecycle`** states a session in five actions: created once, executed by at most one live run,
left and resumed while open, closed once by a live run after the report of its current plan.
`LabFlow` implements it under the mapping at the end of the module.

**`Scheduler`** is `run_wave`: `task[w]` is the coroutine `one(worker)`, `main` the caller,
`value` the semaphore. `cancel()` marks a task; the task notices when it runs next.
**`Wave`** is what the caller relies on.

**`Gateway`** is `LLMGateway` with the loops that call it. `free` is its semaphore, `fails` the count
of the breaker; `loop[c]` is `run_loop` as far as the gateway sees it: perhaps a request for a summary
of the history, then one for the turn, until a turn ends it. An answer has one of the classes of
`errors.py`; `Escalated` is the class the caller sees. The deadline or a cancellation leaves a request
without an answer. `row`, which the code does not have, counts the transient failures since an answer
of another class.

**`WaveOnGateway`** composes `Scheduler` and `Gateway`: a running worker is a loop on the gateway, it
returns a brief when its loop is over, and a task that is cancelled drops its request. Every step is
a step of both or of one with the other unchanged (theorem `WaveUsesBoth`).

**`Transcript`** keeps the kinds of messages: `history` of the drive, `pro` between drives, `raw` what
the tx lines add up to, `txLen` the counter of the journal. `Compact` is `compact_history`: turns as
`split_turns` cuts them, the pinned ones left in place, the old ones replaced by one summary.
`Flush`, `Start` with the repair of unanswered calls, and turns with every outcome. `Sendable` has the three
rules of `validate_message_sequence`: `Answered` the first two, `IdsDiffer` the third, no id answered twice.
Ids are the model's own (`ModelNamesCalls`); a call that comes without one gets its number in its message
(`cycle.py:386`), from 0 in each message.

**`AgentLoop`** is `run_loop` for one task: `turn` holds the calls of the turn with how they
ended, `tracker` the stagnation tracker, `task` the `RuntimeTask`. `MayRun` has the waves of
`calls.py`; `TurnEnds` is the rest of `one_turn` and the record, `Decide...` the branches of
`decide`.

**`Server`** has one task, the holder of the lock, the handlers of `/api/done`, an upload, and
where each session directory is. The lab itself is reduced to running, ended (run_lab has returned, the runner
that awaits it has not been told), closing, pausing, failing; `Incomplete` is what `latest_incomplete` finds. `env`, chosen once, says whether the client waits for
each answer, as the page does for most buttons, and whether the archive works.

**`MemoryIndex`** is `memory/retrieve.py` with `vectors.py`: `file[c]` is the text of a card file,
`vector[c]` the text its vector was made of. A search scans the files, embeds what is stale card by
card under the lock, embeds its query, ranks, and lets a model select; `index_card_ids` does the
middle part for the cards of an archive. Between a text that is read and its vector that is written a
job waits for the model: `EmbedWrites` compares the text again. Files are written, edited, broken and
deleted at any moment, `memory_forget` unlinks a file in a thread before it removes the vector, and a
restart may come with another embedding space. A blank query is answered at once with nothing
(`retrieve.py:113`); a vector whose dimension is not that of the query (`misfits` of `SearchRanks`) is
reported and deleted, without the lock. `untouched` serves the properties: the cards nobody
changed since the scan.

**`Cards`** is `archive.py` and `dream.py`: a card is created in a write transaction around the atomic
write of its file (`TxBegins`, `TxWrites`, `TxCommits`, `TxFails`), its id is one more than what the
table and the directory know. A duplicate has the text and the card_type of a card that is there, whatever its
task_type (`IsOnCard`; `SameType` says which groups share a card_type). `dream` holds the snapshot, the groups still to judge, the merges and
retirements of the answer at hand and all retirements so far. Archive, dream, `memory_forget` and a
person who edits files interleave. A card says a set of facts; `owed`, for the properties, are the
facts archived and not dropped on purpose.

**`ToolTable`** is the table of tools of `handlers.py` by the permissions that have them, the phases of
`phase.py` with what each shows (`Advertised`) and executes (`Executable`), as `ToolRegistry.bind` makes
them, and which calls may run beside each other. A tool is its name.

**`ToolCalls`** runs them: `call[c]` is a call of an agent from its wave to its answer, `lock` the
`_call_lock` of `client.py`, `session` the session of the process, known by the start of the container it
was opened to, `failures` the counter of `call_sandbox`. `TimesOut` is the `wait_for` around a handler:
the call is answered and its lock released, but a thread or a command that was sent goes on, and `left`
holds the changing tools that do. `Raises` drops the session and tries once more; `Recreate...` are the
three steps of `recreate_sandbox`, which take no lock. The skill editor's conversion of samples uses
the same session and has no deadline.

**`Skills`** knows the contents of a file by the edit that wrote them. `Asks`, `Proposes`, `Confirms` and
`Cancels` are the two routes, `Opens`, `Writes`, `Deletes` the operations as they land: a plain write
empties a file first. `LabBegins`, `Loads` and `StageIsKept` follow the skill of a lab between
`SkillBind` and the journal.

**`Rules`** has the profile, REMEMBER.json (`saved`), the list in memory (`applied`) and the lab's
judges, which answer with rows of indexes: `AppliedFrom` and `RulesSatisfied` are the folds and sets that
`remember.py` and `helpers.py` make of them. A row without an index names a rule by its text
(`remember.py:41`): it finds a rule of the same list or none, as an index does, and is not told apart.
A lab whose journal says Summary (`over`) is resumed there and is given no rules; an instruction or
changed products take it back to its spec, and through `remember` again (`flow.py:397`).

**`Stores`** composes `Cards`, `MemoryIndex`, `Skills` and `Rules`. They share no state, so a product of
their behaviours shows nothing that a sum does not: a behaviour works on one of them, and is a behaviour
of each (theorem `StoresKeepApart`). `MCStores` is its instance; the facts of `Cards` are symmetric there.

The `MC` modules add model values and symmetry; instances are in the `.cfg` files.

## 4. Runs

Passing runs:

| Run | Bounds | Shows |
|---|---|---|
| `flow_one` | 1 assignment, 2 steps, 2 gate retries, 1 SPEC revision, 2 plans; crash and stop anywhere, fair | `ProjectionIsDurable`, `SpecIsCurrent`, `NoWorkAfterTheEnd`, `SubmitsAreReused`, `StartsOnIntactProducts`, `NoPolishing`, `KeepsItsPromises`, `RunsEnd` |
| `flow_two` | 2 assignments, 1 step, 2 plans; crash and stop | `JudgedStepIsComplete`, `VerdictIsTheWorstGate`, `FinishIsEarnedAtOnce`, `BriefsAreFinal` |
| `waves` | 3 workers, 2 permits; one request at a time on the gateway, breaker at 2, budget 1, fair | `GatewayTypeOK`, `NobodyOutlivesTheWave`, `KeepsWavePromises`, `WaveEnds` of the wave, `DeadGatewayIsLeft` of the gateway |
| `transcript` | 2 turns kept by a compaction, at most 7 messages when a turn starts, calls named by the model | `RestoredIsSendable`, `RequestIsSendable`, `JournalFollowsThread`, `DurableIsKept`, `PinnedAreKept`, a stop falling between turns |
| `agent_turns` | budget 2, 2 calls a turn, threshold 2, grace 1, window of 4 calls | `TurnsAreBounded`, `NoTurnAfterFatal`, `LoopIsWarned` |
| `server` | 2 labs, 2 archive requests at a time; serial or hasty client, reliable or failing archive; restarts, fair | `OneOpenLab`, `CardsFirst`, `StopReachesLab`, `ResumeFindsItsLab`, `RequestsEnd` |
| `tools` | 2 workers, Pro and the editor; 2 calls at once, waves of 1 and 2, the phases worker and summary, one tool that writes and one of the sandbox; 2 failures, 2 starts of the container, fair | `WritesRunAlone`, `HealthyBoxAnswers`, `EditsEnd` |
| `stores` | cards: 4 ids, 1 group (one card_type), 2 facts, 1 new card a lab, 2 merges an answer, 1 edit; vectors: 2 cards with 2 texts, 1 search and 1 index job at a time; skills: 2 skills, 2 edits, one of them renaming, 3 batches; rules: 2 rules, 3 changes of the profile | `FactsSurvive`, `NothingOverwritten`; `CompleteOrSaysSo`, `ReconciledIndexMatches`; `OnlyWhatWasConfirmed`, `KeptSkillIsBound`; `RulingHolds` |

Why the bounds are enough for what they show: an assignment's record is only compared with itself
and, in a step, with one other (two assignments give a mixed wave, a mixed gate and a partial
commit); two steps give a step after a completed one, with a retry, a skip and a replay of what the
first did; two gate retries reach the limit; a second plan makes old submits, old files and old
fingerprints. Three workers for two permits is the smallest wave with a running, a waiting and a
finished worker at once; one request at a time makes them overtake each other at the gateway, and a
breaker at 2 is filled by failures of two of them. Seven messages hold a compaction with pinned
messages and calls before and behind the cut. One search beside one index job is every pair of holders of
the lock; two texts make a text that changed and changed back. Four ids are a card, one that an archive
adds, and the cards of two merges. Two edits are one that is pending and one that replaces it or lands;
two rules in two orders are the least that an index can confuse, and three changes are one before, one
while the judge thinks and one while the lab is stopped. Two calls at once are a holder of the lock and
one that waits, or a call that writes and a neighbour; two starts of the container make a session of an
older one. Three
turns of two calls pass threshold and grace of the stagnation tracker. The real limits
(`flow.py:71-76`, `config/runtime.py:232-242`) are larger; the theorems of section 6 hold for all.

Bounds of the models, not of the code: `MaxPlans` (user instructions and changed products open at
most that many plans), `MaxLen` (no turn starts with a longer history), `HistoryMax` (window of
the tracker, a setting of the code chosen small), `MaxCalls` (calls in a turn), `Labs` (thread
ids), `ToolErrors` (the classes of error an ordinary tool ends with), `MaxId`, `MaxNew`, `MaxMerged`,
`MaxEdits` (in `Cards`), `MaxWave` and `MaxAtOnce` (calls of a wave, calls at a time), `Asked` and `Phases`
(tools and phases that are tried), `MaxStarts` (of the container), `MaxRules` and, in `Rules`, `MaxEdits` (rules
of a profile, its changes), `Batches` (operations a proposal may have). The guards that use them are
`Len(...) < MaxLen`, `journal.plan < MaxPlans`, `dir[l] = "none"` for a new lab, and comparisons with the
constant elsewhere. `TurnsAreBounded` and `RunsEnd` do not rest on such a bound: the
counters they are about are the code's own.

`CHECK_DEADLOCK FALSE` is set because all of these systems may stop: a closed session, a returned
wave, an ended loop, a server or a sandbox that nobody asks, a store that nobody changes.

Runs that end in a counterexample, each a disagreement between the code and what the repository
says of it:

| Run | What happens |
|---|---|
| `flow_finish` | A judge interrupted between two gates run again is, on resume, given the old worst gate: finish over a failed gate. |
| `transcript_cancel` | A stop while tools run leaves unanswered calls in the middle of the durable conversation after the next increment. |
| `agent_submit` | A call that fails its schema for the last time makes the turn drop the submit that was accepted beside it. |
| `server_clear` | `/api/done` clears the workspace under a lab that started after its check. |

Limits of properties that hold, each visible in the module:

- `NoPolishing` speaks of a run that was not resumed, as `FinishIsEarnedAtOnce` does: a crash between
  the lines `dispatch` and `executed` (`flow.py:798`) gives a passed assignment to a worker again.
- `ProjectionIsDurable` leaves out the gate of the last step: gates run again inside judge change
  `st.run_gate` without a line (`flow.py:1020`), and a restart decides an empty dispatch by the older one.
- The verdict of a gate is free, so nothing is claimed of it. `_is_infra_failure` takes any failed
  test whose output says "no such file or directory" for a gate that could not run (`accept.py:201`):
  test_invalid, not fail, and after `_MAX_GATE_RUNS` of them a judge may finish over it.
- `DeadGatewayIsLeft` counts failures with no other answer between them. The breaker
  itself is not reset by an answer that is neither a success nor a transient failure (validation, for
  instance), although its message says "in a row" (`llm.py:176`); requests for summaries count; and the
  count outlives a lab: after a lab that died of the gateway, the first transient failure of the next
  one in the same process is fatal at once.
- `RestoredIsSendable` and `RequestIsSendable` are checked with `ModelNamesCalls = TRUE`. Of two turns whose
  calls come without ids both have a `call_0`, and the third rule of `validate_message_sequence` fails
  (`assemble.py:118`); with `FALSE`, TLC shows it. `cycle.py:298` traces such a list and sends it.
- `ReconciledIndexMatches` counts a vector that another search found of the wrong dimension as changed: that
  search deletes it without the lock (`retrieve.py:138`), also behind a reconciliation that has just passed it.
- `KeptSkillIsBound` is about the skill the journal names. A load whose stage line was not
  written before a crash binds nothing for the run that resumes, which may load another skill: "one skill per
  lab" (`skill_tool.py:3`) then holds for the run and not for the lab.
- `FactsSurvive` is checked with one dream at a time and, by `OrphanForgotten`, with `memory_forget`
  leaving alone, during a dream, cards whose row was lost. What a second dream beside the first does is not
  checked. Otherwise the id of such a card can be given
  out again while the dream still holds it in its snapshot, and the new card is retired in its place
  (`dream.py:159`); with the constant `TRUE`, TLC shows it. `/api/dream` takes no lock against a second
  dream. An edit made during a dream is lost when its card is retired, and a fact forgotten during a dream
  comes back with the merged card: `owed` counts neither as a loss.
- `CompleteOrSaysSo` is about cards that nobody changes during the search; what changes is answered as
  it was at some moment of the search or not at all.
- `LoopIsWarned` excepts a turn that fills the window on its own: the tracker counts its grace by calls
  (`stagnation.py:70`), so equal calls in one turn are a confirmed loop before the model was told.
- `WritesRunAlone` speaks of calls that somebody waits for. A write whose call timed out goes on in its
  thread beside the next one (`registry.py`, the `wait_for` around a handler).
- `HealthyBoxAnswers` is checked with `MarkInFiles = FALSE`. `is_sandbox_unreachable` looks for its mark in
  the text of any tool's answer, so a file that contains the mark ends the work of the lab; with `TRUE`,
  TLC shows it.
- `OnlyWhatWasConfirmed` is about ids and operations, not about texts: the diff a person saw was made from
  files that another edit may have replaced before the landing (`editor.py:129`), and a landing that fails
  half-way leaves what it wrote (`repository.py:194`).
- `RulingHolds` is about what was ruled, not what agents are told: without a readable profile
  `inject_for_agent` tells them nothing, not even the rules of the lab, and the first rule appended to an
  unreadable profile replaces it.
- `StopReachesLab`, `CardsFirst` and `ResumeFindsItsLab` are for a client that waits for its answers,
  and `CardsFirst` for an archive that works. `/api/stop` answers stopped when the run coroutine has
  not made its first step, and when run_lab has returned and the runner was not told: the lab then closes, and
  the property speaks of labs that run. `_archive_create` turns an exception into an answer and the reset follows.
- A lab may start while an upload that passed its check is still being read (`app.py:118`).
- The cards of a lab that closed live only in `last_result`; a new lab started without `/api/done`
  drops them, and nothing in the repository says otherwise.

## 5. Fairness

- `LabFlow!FairSpec`: weak fairness of the steps of the run coroutine. The event loop runs what is
  ready, and every await of the flow (model call, tool, gate, worker) has a deadline in the code. No
  fairness of crashes, stops, edits or of the person who resumes; `RunsEnd` says that a run that is
  there ends, not that somebody starts one.
- `WaveOnGateway!FairWaveSpec`: weak fairness of each worker's coroutine and of `run_wave`. A worker's
  loop ends because a request ends by the timeout of its client (`llm.py:62`) and the loop by its
  deadline; the budget of the loop is in the model, the deadline may come at any moment.
- `AgentLoop` states no fairness. That a loop ends is two safety properties: its turns are bounded,
  and inside a turn a call waits only for calls before it.
- `Server!FairSpec`: weak fairness of the handler that holds the lock and of each open archive
  request: both wait for threads and for an index call with a deadline. The lab's own steps are not
  fair: an archive request gives up after 15 seconds.

- `ToolCalls!FairSpec`: weak fairness of the deadline of whoever holds the lock; strong fairness of the
  lock for the editor's conversion, because the lock of asyncio is given in the order of asking; weak
  fairness of what the sandbox or the client's own timeout does to its request. The client gives its
  requests no deadline of its own (`client.py:69`): for the editor's call that is the timeout of the
  transport in the MCP library. The container promises nothing.
- `Cards`, `MemoryIndex`, `Skills` and `Rules` state no fairness and no liveness.

## 6. Proofs

All by TLAPS, in `*_proofs` modules. Assumptions are only the named ones about constants
(`StepsAssumption`, `MaxGateRunsAssumption`, `FlowAssumption`, `WaveAssumption`, `LoopAssumption`,
`ServerAssumption`, `GatewayAssumption`, `CallersAreWorkers`, `ToolCallsAssumption`, `TranscriptAssumption`,
`CardsAssumption`, `StoresAssumption`), which TLC evaluates in the runs. Some theorems have
a hypothesis about a constant besides, the value it has in their run, because without it they are false:
`CancelInTools = FALSE` those of `Transcript` except its types (`transcript_cancel` shows the counterexample),
`ModelNamesCalls = TRUE` the theorems `RestoredCanBeSent` and `RequestsAreSendable`,
`OrphanForgotten = FALSE` the theorem `FactsAreKept`, `MarkInFiles = FALSE` the theorem `WorkingBoxAnswers`
(limits in section 4).

Every safety property of a passing run is stated by one of the theorems below.

- **`LabFlow_proofs`** begins with what the functions of `helpers.py` compute, for all finite sets of ids:
  the worst gate is the worst and folds over parts; `partition` gives every assignment to exactly one part;
  what passes `sanitize_decision` as finish is earned. Then `TypesHold`, `PromisesAreKept` (LabFlow implements
  `Lifecycle`), `ClosedForGood`. `TypeOK` is not inductive on its own and says nothing about the session; the
  inductive invariant is `FlowInv == TypeOK /\ RegateDecides /\ WritesInv /\ SessionInv`.
  `RegateDecides`: gates run again inside judge have a decision waiting for them.
  `WritesInv`: which durable writes may be pending at which place - without it `Persist` could
  close a session from anywhere. `SessionInv`: an open or closed session, the live run, the plan and
  the report go together; a pending report line follows the report of the same plan. Places
  are grouped in *middle* places, whose steps neither begin nor close a session, and one lemma per phase
  shows its steps stay there; beginning and closing are the few remaining steps.

  Its second half is `MemoryIsDurable`, that a lab can be resumed from what it has committed.
  `ProjectionIsDurable` says nothing while writes are pending, so the invariant `Durable` does: the journal
  *followed by the pending writes* says what the run has in memory. `Leads(j, ws, k)` is that path from
  one journal to another, a function on `0 .. Len(ws)` instead of a fold; it is closed under
  concatenation, and `Persist` walks one step of it. `Becomes(l, ws, m)` says that the writes `ws` take
  every journal that agrees with the memory `l` to one that agrees with `m`. There is one lemma for each
  line of the journal (stage, halt, gate, ledger, ...), and one for each phase that puts the lines of its
  steps together. What follows uses it and two groupings of the steps of a run. A `QuietStep` hands over no
  submit, keeps to its plan, changes neither journal nor files itself and begins no work in a lab that is over;
  the `Handovers` are the few steps that do hand over a submit or end the session, and the two commits inside a
  step, of a dispatch and of a decision, are named. Then, for all ids and limits:
  - `NoWorkIsStarted` (`NoWorkAfterTheEnd`) from `NoWorkYet`, which does not wait for the writes to be made;
  - `SpecStaysCurrent` (`SpecIsCurrent`) from `CurrentInv`: between the steps the pending writes may still
    *bring* the current SPEC, its submit first and SPEC.md next (`Brings`);
  - `VerdictIsWorstOfAll` (`VerdictIsTheWorstGate`) from `VerdictInv`: the verdict is computed from memory,
    so it needs `DurableInv` to be one about the gates in the journal, and `WorstGateIsWorst`.
- **`LabRuns_proofs`**: what a run, and the runs that resume it, do at most once.
  - `SubmitsAreFound` (`SubmitsAreReused`) and `ProductsAreIntact` (`StartsOnIntactProducts`) from `FreshInv`:
    a run that was not resumed does not look submits up and compares no fingerprints, which is right only
    because nothing can be there: nothing was submitted in a session that has not begun;
  - `JudgedStepsAreComplete` (`JudgedStepIsComplete`) from `JudgedInv`: while the wave and the replayed gates
    run, either the commit of the dispatch is pending as a whole, or each assignment that is not to do any
    more has its brief in the journal or among the pending writes (`BriefsFollow`), so the drive of the
    judge starts on a complete step and only its line can decide one;
  - `BriefsAreKept` (`BriefsAreFinal`) from `OnceInv`: a step has one dispatch, whose number follows that
    of the completed steps. A step that an earlier run dispatched is taken up as pending, and what is left to
    do of it are the assignments without a brief in the journal;
  - `PassedWorkIsLeft` (`NoPolishing`) from `PolishInv`: the run that opened the session skips and replays
    only what it ran itself, so an id it has executed with a passed gate is skipped or replayed, never
    given to a worker;
  - `FinishIsEarnedByItsRun` (`FinishIsEarnedAtOnce`) from `EarnedInv`. `Gathers`: the gate a run judges by is
    no better than each gate of the step that is in, while some are run again inside judge; `Decides`: a
    decision on its way to the journal is the one that is applied, and is finish only over gates that
    earned it; `Finishes` says what may follow the line. The first is what a resume loses, and
    `flow_finish` shows the finish over a failed gate that comes of it.
- **`WaveOnGateway_proofs`** has the proofs of the wave, of the gateway and of both together.
  Of `Scheduler`, for any number of workers and permits: types, bounded concurrency, nobody outlives the wave,
  made-up briefs are justified, a stop is quiet, and the wave implements `Wave`.
  The invariant ties the value of the semaphore to the number of tasks that hold a permit; a cardinality that
  a step changes by one is the heart of it.
  `BoundedConcurrency`, `BlockedOnlyWhenCalledOff` and `StopCommitsNothing` are proved and in no run.
  Of `Gateway`: `BreakerEndsTheLoops`: however many loops share the gateway and whatever its
  permits, at most `BreakerMax + 2 * Cardinality(Callers) - 1` transient failures come in a row. Once
  the breaker is full every failed turn is fatal and ends its loop, so a loop still has at most the
  summary and the turn of one round before it. `WasteInv` bounds the row by
  `BreakerMax` and one for each loop that is past its summary and for each that is over. `PermitsAreCounted`:
  a permit is out for each request in flight and no other, however it ends (the semaphore of a process that
  lives for many labs). `WaveUsesBoth` carries all of this over to `WaveOnGateway`.
- **`AgentLoop_proofs`**: `LoopTurnsAreBounded` from `CountInv` (the recorded steps of the task are
  the turns begun, less the one in progress); `LoopStopsOnFatal` from `ErrorInv` (the worst error
  remembered is at least as severe as that of every call of the turn); `LoopsAreWarned` from `WarnInv`: when
  a turn begins, the model of a tracker that has nudged was told (`NudgesAreTold`), and a turn that is found to be
  a loop without that has at least `Grace + 2` calls. `decide` sees the tracker only after the last call of a turn,
  so the proof follows it through the fold, call by call.
- **`Transcript_proofs`**: the types, and with `TxInv` everything the run checks. Between the drives the journal
  is the thread (`IdleInv`); within one it is the history as it was before the calls that are not answered yet, and
  `txLen` its length (`TurnInv`, `ToolsInv`), unless a compaction has replaced the list: then the next flush is a
  snapshot.
  That a compaction keeps what may be sent is a fact about cutting: `split_turns` cuts nowhere between a call
  and its answers, so a history that can be sent falls into turns that can, and what is put together from whole
  turns can be sent. `Places` says which element of a flattened sequence comes from which part. Pinned messages are
  counted, not compared: a compaction must not have fewer of them. The proofs are about `Answered`; that no
  id is answered twice is the hypothesis about the model, not a result.
- **`Stores_proofs`**: `StoresKeepApart`, and then each store by itself.
  - `SearchesAreComplete` (`CompleteOrSaysSo`) and `ReconciledIndexIsTrue` (`ReconciledIndexMatches`) from
    `IndexInv`: one job reads cards and writes vectors at a time (`LockInv`), the text it has embedded is the one
    of the file unless somebody changed that (`TextInv`), and each untouched card has its vector, or waits for
    its turn, or is the one at hand (`MatchInv`), so that all are ranked (`RankInv`).
  - `EditsAreConfirmed` (`OnlyWhatWasConfirmed`) from `LandInv`: nothing of an edit lands before its id was
    confirmed, and then once; what is pending is still shown, and every operation of a batch is valid; and from
    `MainInv`: no skill is without its SKILL.md. `SkillStaysBound`
    (`KeptSkillIsBound`).
  - `RulingIsKept` (`RulingHolds`) from `RulingInv`: REMEMBER.json is there once the lab has its ruling, and
    holds it; a lab at work has the same list in memory; one that judges has no ruling yet.
  - `CardTypesHold` and `NewCardsReplaceNothing` (`NothingOverwritten`) from `NewCardsInv`: the id of a write
    transaction is in no row, and until its file is written there is none.
  - `FactsAreKept` (`FactsSurvive`). A fact that is owed is on a card the dream does not touch (`Outside`), or on
    *all* cards of its snapshot that said it (`InSnapshot`), or in a merge that is still to be made, one of whose
    sources still has it (`InMerge`).
    `DreamInv` keeps the three apart: a merge takes none of the cards that are still judged or that were done with
    before, and the ids of all of these are in a row or have a file, so that none is given out again, which is where
    `OrphanForgotten` is needed; `MergeInv` says that the card of a merge has its
    facts when it is written.
- **`Server_proofs`**: `OneLabIsOpen` from `LockInv`: while a handler holds the lock no task is
  there, and what its thread found stays true until the task it creates has begun its lab. `TypesHold`.
  `CardsComeFirst`, `StopsReachTheLab`, `ResumesFindTheirLab` and `WaitingClientsClearIdle` from
  `SerialInv`: a client that waits has at most one request in flight, so whatever a handler read
  before an await is still so after it. The last one is the property that `server_clear` refutes for a
  client that does not wait.
- **`ToolCalls_proofs`**: about the tables, for every phase and permission: the exit tool of a phase
  can be called (`ExitToolRuns`), the check of the role refuses nothing that `bind` left
  (`RoleIsChecked`), Pro writes no file on the main line (`MainLineWritesNoFile`), calls that may run
  together change nothing (`ParallelChangesNothing`), and where submit_halt is accepted
  (`HaltIsOffered`). About the calls, for any number of workers, tools and failures: `TypesHold`,
  `SessionIsUsedByOne` (with the types in one invariant: the lock is held exactly by the call between
  its session and its answer), `WritersRunAlone`, which needs that several agents are at work only as
  workers with read-only tools (`TeamInv`) and that a wave of several calls is parallelizable, and
  `SecondAttemptsHeal` with `WorkingBoxAnswers` (`HealthyBoxAnswers`) from `HealthInv`: a call that has had no
  trouble since it took the lock has a container that is up, and its second attempt the session of this start.
  That needs the lock: only the call that holds it can be hurt by a container that stops, hangs or is recreated.

How data is reasoned about. The library's induction theorems cannot be used, because they take an operator as
a parameter; but a set of natural numbers that is not empty has a smallest one (`SmallestExists`, from
`NatLessThanWellFounded`), and an argument by the smallest counterexample needs no more. `IterationExists` gets a
function on `Nat` from a step by it, and with that the folds of the community modules and the recursive functions
of `Transcript`, `AgentLoop` and the stores are followed element by element. The few lemmas are repeated in
`AgentLoop_proofs`, `Transcript_proofs` and `Stores_proofs`. `Texts` in `Cards` and `Next` in `MemoryIndex` put
parentheses around `SUBSET X`: `SUBSET X \ {{}}` is read as a difference of sets by one of the two tools and as
the subsets of a difference by the other.

Only model-checked: liveness (`RunsEnd`, `WaveEnds`, `RequestsEnd`, `EditsEnd`), which rests on fairness and
ENABLED, and the counterexamples. The types that the runs do not list are proved too: those of `LabFlow`, `Server`,
`Scheduler`, `Gateway`, `ToolCalls`, `Transcript`, `AgentLoop` and `Cards` as theorems, those of `MemoryIndex`,
`Skills` and `Rules` as parts of the invariants `IndexInv`, `SkillInv` and `RuleInv`.

## 7. Not modelled

Texts (prompts, rendering, wording of nudges), token estimates, scores of a search, parsing of provider
errors and of pytest's report, JSON schemas and the repair of arguments, the policy on paths and commands,
reading and writing of files by tools, tracing, the evaluation harness. Models take any
answer of these, or the class of answers the code tells apart. The atomic replacement of a file and
the fsync of a journal line are assumed: a line is there or not, and what `open` cuts off as a torn
tail never counted.

Modelled, but with no property, because the repository promises nothing of it:

- `spec_invalid` and `takeover` of the briefs are known in memory only (`flow.py:866`): a step that a
  resume completes is judged without them.
- A crash after the revised SPEC was submitted and before the step is counted revises it a second time
  (`flow.py:1100`).
- `resumable` is taken once for a run (`flow.py:573`): an assignment skipped by its fingerprint is skipped
  again later in the run.
- A worker that raises has a brief without a gate, which counts as no gate at all (`helpers.py:107`), so
  that a judge may finish over it.
- The gate of a worker is recorded before its brief (`step.py:84`): a crash in between runs the worker
  again and counts its gate twice.
- Gates run after a takeover are recorded nowhere (`flow.py:1076`): the verdict of the session
  shows what was recorded before.
- A call of the sandbox that failed after it had begun is made a second time (`client.py:73`).
