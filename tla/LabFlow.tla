------------------------------- MODULE LabFlow -------------------------------
(***************************************************************************)
(* One lab session: LabRunner._run around run_lab, with the phases         *)
(* Remember / SPEC / dispatch steps / Summary (runtime/lab/flow.py), the   *)
(* commits of a wave of workers (step.py), the effect ledger (effects.py)  *)
(* and the journal every run is resumed from (journal.py).                 *)
(*                                                                         *)
(* A step of the coroutine between two awaits changes LabState and appends *)
(* events and writes files in program order.  The action of such a step    *)
(* computes the new LabState and puts its durable writes, in order, into   *)
(* writes; Persist makes them durable one at a time, and the coroutine     *)
(* does not go on before all are.  A crash loses LabState and every write  *)
(* that was not reached.                                                   *)
(*                                                                         *)
(* What models and tools answer is chosen freely: a Pro drive ends with    *)
(* its submit, with submit_halt where the phase allows it, with the        *)
(* sandbox unreachable or without a submit; a worker with any brief; a     *)
(* gate with any state.                                                    *)
(***************************************************************************)
EXTENDS Journal, Sequences

CONSTANTS
    MaxRevisions,   \* _MAX_SPEC_REVISIONS
    MaxPlans        \* bound of the model: plan revisions opened in a behaviour

ASSUME FlowAssumption ==
    /\ MaxRevisions \in Nat
    /\ MaxPlans \in Nat
    /\ Ids # {} /\ IsFiniteSet(Ids)

VARIABLES
    journal,    \* what replay of the committed lines returns
    writes,     \* durable writes the coroutine has still to make, in order
    files,      \* REMEMBER.json, SPEC.md and SUMMARY.md of the session
    drift,      \* ids whose recorded files differ from their fingerprints
    at,         \* where the run coroutine is; "off" when there is none
    lab,        \* LabState
    cur         \* local variables of the step in progress

vars == <<journal, writes, files, drift, at, lab, cur>>

-----------------------------------------------------------------------------
Idle == \* a LabState before anything ran
    [ resume |-> FALSE, stage |-> "remember", step |-> 0, halt |-> FALSE,
      down |-> FALSE, executed |-> {}, resumable |-> {},
      gates |-> [i \in Ids |-> NoGate], tries |-> [i \in Ids |-> 0],
      runGate |-> NoHard, ledger |-> {}, revisions |-> 0, pending |-> 0 ]

NoStep ==
    [ asg |-> {}, todo |-> {}, replay |-> {}, write |-> FALSE, worst |-> NoGate,
      flags |-> {}, specInvalid |-> FALSE, decision |-> "none",
      regate |-> {}, signal |-> "continue" ]

Flags == {"spec_invalid", "takeover", "sandbox"}

Drives == {"remember_judge", "spec", "dispatch", "judge", "takeover",
           "revise_spec", "summary"}

Places == Drives \cup
    {"off", "opening", "replayed", "remember", "write_spec", "advance", "step",
     "wave", "blocking", "replay_gates", "regate", "apply", "step_end",
     "wrap_up", "summarize", "write_summary", "close", "leave", "pause"}

\* Places where the coroutine may be suspended in an await: a model or tool
\* call, a worker, a gate.
Suspended == Drives \cup {"opening", "write_spec", "wave", "replay_gates", "regate"}

Ready == writes = <<>>

\* The coroutine reaches a place after making some durable writes.
Goto(place, ws) == at' = place /\ writes' = ws

Init ==
    /\ journal = EmptyJournal
    /\ writes = <<>>
    /\ files = [applied |-> FALSE, spec |-> "none", summary |-> NoPlan]
    /\ drift = {}
    /\ at = "off"
    /\ lab = Idle
    /\ cur = NoStep

-----------------------------------------------------------------------------
(* Durable writes. *)

\* SPEC.md is the latest submitted SPEC of the current plan, an older one, or
\* not there; SUMMARY.md is known by the plan revision it reports on.
WriteFile(f, j, e) ==
    CASE e.kind = "REMEMBER.json" -> [f EXCEPT !.applied = TRUE]
      [] e.kind = "SPEC.md"       -> [f EXCEPT !.spec = "latest"]
      [] e.kind = "SUMMARY.md"    -> [f EXCEPT !.summary = j.plan]
      [] e.kind \in {"submit_spec", "user_instruction", "artifact_mismatch"}
           -> [f EXCEPT !.spec = IF @ = "none" THEN "none" ELSE "old"]
      [] OTHER -> f

\* Journal.append (one line, fsync) or write_text (atomic replacement).  A
\* record of fingerprints is taken from the files as they are.
Persist ==
    /\ writes # <<>>
    /\ LET e == Head(writes)
       IN  /\ journal' = Fold(journal, e)
           /\ files' = WriteFile(files, journal, e)
           /\ drift' = (IF e.kind = "effect_record" THEN drift \ {e.id} ELSE drift)
                          \cap Fold(journal, e).effects
    /\ writes' = Tail(writes)
    /\ UNCHANGED <<at, lab, cur>>

\* The run coroutine is gone; LabState goes with it.
GoOff == at' = "off" /\ writes' = <<>> /\ lab' = Idle /\ cur' = NoStep

\* The process dies, possibly between two writes of one step.
Crash ==
    /\ at # "off"
    /\ GoOff
    /\ UNCHANGED <<journal, files, drift>>

\* request_stop or a cancelled caller: the cancellation is delivered where the
\* coroutine awaits; run_paused is appended and the runner has no run.
Stop ==
    /\ at \in Suspended /\ Ready
    /\ GoOff
    /\ UNCHANGED <<journal, files, drift>>

\* The files of a recorded assignment change: by the user, or by an agent with
\* write permission.  Bounded, because the next resume opens a new plan.
UserEdits(i) ==
    /\ at = "off" /\ Resumable(journal) /\ journal.plan < MaxPlans
    /\ i \in journal.effects \ drift
    /\ drift' = drift \cup {i}
    /\ UNCHANGED <<journal, writes, files, at, lab, cur>>

AgentEdits(i) ==
    /\ Ready /\ journal.plan < MaxPlans
    /\ (at = "wave" /\ cur.write) \/ at = "takeover"
    /\ i \in journal.effects \ drift
    /\ drift' = drift \cup {i}
    /\ UNCHANGED <<journal, writes, files, at, lab, cur>>

-----------------------------------------------------------------------------
(* LabRunner._run and _begin. *)

NewRun ==
    /\ at = "off" /\ ~journal.begun
    /\ Goto("opening", <<EvBegin>>)
    /\ UNCHANGED <<journal, files, drift, lab, cur>>

\* A resume with a non-blank instruction appends it before anything else.
ResumeRun(instruction) ==
    /\ at = "off" /\ Resumable(journal)
    /\ instruction => journal.plan < MaxPlans
    /\ Goto("opening", IF instruction THEN <<EvInstruction>> ELSE <<>>)
    /\ lab' = [lab EXCEPT !.resume = TRUE]
    /\ UNCHANGED <<journal, files, drift, cur>>

\* Slip: the fingerprints are not compared on resume.
IgnoreMismatches(effects) == {}

\* The recorded assignments whose files do not match their fingerprints.
Mismatches(effects) == effects \cap drift

\* _begin: changed artifacts invalidate the plan before anything is restored.
BeginRun ==
    /\ at = "opening" /\ Ready
    /\ Goto("replayed",
            IF lab.resume /\ Mismatches(journal.effects) # {} THEN <<EvMismatch>> ELSE <<>>)
    /\ UNCHANGED <<journal, files, drift, lab, cur>>

\* Slip: the gate records are not put back into memory.
RestoredWithoutGates(j, resume) ==
    [ Idle EXCEPT !.resume = resume, !.stage = j.stage, !.step = j.step,
                  !.halt = j.halt, !.down = j.down, !.executed = j.executed,
                  !.runGate = IF j.runGate = NoGate THEN NoHard ELSE j.runGate,
                  !.ledger = j.effects ]

\* LabState.restore, and the ledger of _begin.
Restored(j, resume) ==
    [ Idle EXCEPT !.resume = resume, !.stage = j.stage, !.step = j.step,
                  !.halt = j.halt, !.down = j.down, !.executed = j.executed,
                  !.gates = j.gates, !.tries = j.tries,
                  !.runGate = IF j.runGate = NoGate THEN NoHard ELSE j.runGate,
                  !.ledger = j.effects ]

\* The head of run_lab: a session already in its summary goes straight there.
EnterLab ==
    /\ at = "replayed" /\ Ready
    /\ lab' = Restored(journal, lab.resume)
    /\ Goto(IF journal.stage = "summary" THEN "wrap_up" ELSE "remember", <<>>)
    /\ UNCHANGED <<journal, files, drift, cur>>

-----------------------------------------------------------------------------
(* What every Pro drive may end with besides its submit. *)

\* mark_sandbox_down: journalled once, and the stage goes to summary.
Downed(l) == IF l.down THEN l ELSE [l EXCEPT !.down = TRUE, !.stage = "summary"]
DownWrites(l) == IF l.down THEN <<>> ELSE <<EvDown, EvStage("summary", l.step)>>

Break == cur' = [cur EXCEPT !.signal = "break"]

\* No submit (auth, budget, deadline, ...): RunPaused leaves the run.
DriveFails ==
    /\ at \in Drives /\ Ready
    /\ GoOff
    /\ UNCHANGED <<journal, files, drift>>

-----------------------------------------------------------------------------
(* remember *)

\* The rules of this session are already decided (resume), or none are listed.
RememberSkips ==
    /\ at = "remember" /\ Ready
    /\ \/ lab.resume /\ files.applied /\ Goto("write_spec", <<>>)
       \/ ~(lab.resume /\ files.applied) /\ Goto("write_spec", <<FileApplied>>)
    /\ UNCHANGED <<journal, files, drift, lab, cur>>

RememberDrives ==
    /\ at = "remember" /\ Ready
    /\ ~(lab.resume /\ files.applied)
    /\ Goto("remember_judge", <<>>)
    /\ UNCHANGED <<journal, files, drift, lab, cur>>

RememberSubmits ==
    /\ at = "remember_judge" /\ Ready
    /\ lab' = [lab EXCEPT !.stage = "spec"]
    /\ Goto("write_spec", <<FileApplied, EvStage("spec", lab.step)>>)
    /\ UNCHANGED <<journal, files, drift, cur>>

RememberHalts ==
    /\ at = "remember_judge" /\ Ready
    /\ lab' = [lab EXCEPT !.halt = TRUE, !.stage = "summary"]
    /\ Goto("write_spec", <<EvHalt, FileApplied, EvStage("summary", lab.step)>>)
    /\ UNCHANGED <<journal, files, drift, cur>>

\* The drive returns an empty submit: no rule applies, and the stage moves on
\* to spec although the sandbox is down.
RememberLosesSandbox ==
    /\ at = "remember_judge" /\ Ready
    /\ lab' = [Downed(lab) EXCEPT !.stage = "spec"]
    /\ Goto("write_spec",
            DownWrites(lab) \o <<FileApplied, EvStage("spec", lab.step)>>)
    /\ UNCHANGED <<journal, files, drift, cur>>

-----------------------------------------------------------------------------
(* write_spec *)

\* _mark_resumable: recorded products that are intact will not be made again.
Resumables(l) == IF l.resume /\ ~l.halt /\ ~l.down THEN l.ledger \ drift ELSE l.resumable

\* Slip: a lab that halted or lost its sandbox goes on.
NeverOver(l) == FALSE

\* Nothing but the Summary is left for a lab that halted or lost its sandbox.
Over(l) == l.halt \/ l.down

SpecSkips ==
    /\ at = "write_spec" /\ Ready
    /\ Over(lab)
    /\ Goto("wrap_up", <<>>)
    /\ UNCHANGED <<journal, files, drift, lab, cur>>

\* Resume with a SPEC submitted in this plan: render it again, do not ask again.
SpecReused ==
    /\ at = "write_spec" /\ Ready
    /\ ~Over(lab) /\ lab.resume /\ HasSubmit(journal, journal.spec)
    /\ LET early == lab.stage \in {"remember", "spec"}
       IN  /\ lab' = [lab EXCEPT !.resumable = Resumables(lab),
                                 !.stage = IF early THEN "advance" ELSE @]
           /\ Goto("advance", IF early THEN <<FileSpec, EvStage("advance", lab.step)>>
                                       ELSE <<FileSpec>>)
    /\ UNCHANGED <<journal, files, drift, cur>>

SpecDrives ==
    /\ at = "write_spec" /\ Ready
    /\ ~Over(lab) /\ ~(lab.resume /\ HasSubmit(journal, journal.spec))
    /\ Goto("spec", <<>>)
    /\ UNCHANGED <<journal, files, drift, lab, cur>>

SpecSubmits ==
    /\ at = "spec" /\ Ready
    /\ lab' = [lab EXCEPT !.resumable = Resumables(lab), !.stage = "advance"]
    /\ Goto("advance", <<EvSpec, FileSpec, EvStage("advance", lab.step)>>)
    /\ UNCHANGED <<journal, files, drift, cur>>

SpecHalts ==
    /\ at = "spec" /\ Ready
    /\ lab' = [lab EXCEPT !.halt = TRUE, !.stage = "summary"]
    /\ Goto("wrap_up", <<EvHalt, EvStage("summary", lab.step)>>)
    /\ UNCHANGED <<journal, files, drift, cur>>

SpecLosesSandbox ==
    /\ at = "spec" /\ Ready
    /\ lab' = [Downed(lab) EXCEPT !.stage = "summary"]
    /\ Goto("wrap_up", DownWrites(lab) \o <<EvStage("summary", lab.step)>>)
    /\ UNCHANGED <<journal, files, drift, cur>>

-----------------------------------------------------------------------------
(* advance: the loop over steps *)

AdvanceStarts ==
    /\ at = "advance" /\ Ready
    /\ IF Over(lab) \/ lab.stage = "summary"
         THEN /\ Goto("wrap_up", <<>>) /\ UNCHANGED lab
         ELSE /\ Goto("step", <<>>)
              /\ lab' = [lab EXCEPT !.revisions = 0,
                    \* has_step_markers: the step was dispatched by an earlier run
                    !.pending = IF journal.dispatched = lab.step + 1 THEN lab.step + 1 ELSE 0]
    /\ cur' = NoStep
    /\ UNCHANGED <<journal, files, drift>>

\* The loop condition fails: nothing left but the Summary.
AdvanceEnds ==
    /\ at = "step" /\ Ready
    /\ lab.step >= MaxSteps \/ Over(lab)
    /\ Goto("wrap_up", <<>>)
    /\ UNCHANGED <<journal, files, drift, lab, cur>>

StepGoesOn == at = "step" /\ Ready /\ lab.step < MaxSteps /\ ~Over(lab)

StepDrivesDispatch ==
    /\ StepGoesOn /\ lab.step + 1 # lab.pending
    /\ Goto("dispatch", <<>>)
    /\ UNCHANGED <<journal, files, drift, lab, cur>>

\* The state of a wave of workers about to start.  A wave of one may write.
Wave(step, todo) ==
    [step EXCEPT !.todo = todo, !.write = (Cardinality(todo) = 1)]

WhereWave(todo) == IF todo = {} THEN "replay_gates" ELSE "wave"

\* Slip: a resumed step runs its whole wave again.
MissingIgnoringBriefs(ids, briefs) == ids

\* The assignments of a committed dispatch that have no brief yet.
Missing(ids, briefs) == {i \in ids : briefs[i] = NoBrief}

\* _resume_step with a committed decision: only its branch is left, without
\* the spec_invalid of the briefs.
StepResumesDecision ==
    /\ StepGoesOn /\ lab.step + 1 = lab.pending /\ journal.judge # "none"
    /\ cur' = [NoStep EXCEPT !.asg = journal.asg, !.decision = journal.judge]
    /\ Goto("apply", <<>>)
    /\ UNCHANGED <<journal, files, drift, lab>>

\* _resume_step without a decision: run what has no brief; the briefs that are
\* there count with their gates only.
StepResumesWork ==
    /\ StepGoesOn /\ lab.step + 1 = lab.pending /\ journal.judge = "none"
    /\ LET done == {i \in journal.asg : journal.briefs[i] # NoBrief}
           todo == Missing(journal.run, journal.briefs)
       IN  /\ cur' = Wave([NoStep EXCEPT
                            !.asg = journal.asg,
                            !.replay = Missing(journal.replay, journal.briefs),
                            !.worst = IF done = {} THEN NoGate
                                      ELSE WorstGate({BriefGate(journal.briefs[i]) : i \in done})],
                          todo)
           /\ Goto(WhereWave(todo), <<>>)
    /\ UNCHANGED <<journal, files, drift, lab>>

-----------------------------------------------------------------------------
(* _dispatch_phase *)

DispatchHalts ==
    /\ at = "dispatch" /\ Ready
    /\ lab' = [lab EXCEPT !.halt = TRUE]
    /\ Break
    /\ Goto("step_end", <<EvHalt>>)
    /\ UNCHANGED <<journal, files, drift>>

DispatchLosesSandbox ==
    /\ at = "dispatch" /\ Ready
    /\ lab' = Downed(lab)
    /\ Break
    /\ Goto("step_end", DownWrites(lab))
    /\ UNCHANGED <<journal, files, drift>>

\* An empty dispatch ends the steps, unless the last gate is bad and can run.
DispatchEmpty ==
    /\ at = "dispatch" /\ Ready
    /\ cur' = [cur EXCEPT !.signal =
                 IF lab.runGate \in {Fail, TestInvalid} /\ ~Unrunnable(lab.gates, lab.tries)
                 THEN "continue" ELSE "break"]
    /\ Goto("step_end", <<>>)
    /\ UNCHANGED <<journal, files, drift, lab>>

\* missing_gate: a testable assignment without acceptance file is refused.
DispatchRefused ==
    /\ at = "dispatch" /\ Ready
    /\ Goto("step_end", <<>>)
    /\ UNCHANGED <<journal, files, drift, lab, cur>>

\* The commit point of a dispatch: two appends.
DispatchWrites(step, asg, run, replay, executed) ==
    <<EvDispatch(step, asg, run, replay), EvExecuted(executed)>>

DispatchSubmits(asg) ==
    /\ at = "dispatch" /\ Ready /\ asg # {}
    /\ LET run == RunOf(asg, lab.resumable, lab.executed, lab.gates, lab.tries)
           replay == ReplayedOf(asg, lab.resumable, lab.executed, lab.gates, lab.tries)
           executed == lab.executed \cup (asg \ lab.resumable)
       IN  /\ lab' = [lab EXCEPT !.resumable = @ \ asg, !.executed = executed]
           /\ IF run = {} /\ replay = {}
                THEN Goto("step_end", <<>>) /\ UNCHANGED cur
                ELSE /\ cur' = Wave([NoStep EXCEPT !.asg = asg, !.replay = replay], run)
                     /\ Goto(WhereWave(run),
                             DispatchWrites(lab.step + 1, asg, run, replay, executed))
    /\ UNCHANGED <<journal, files, drift>>

-----------------------------------------------------------------------------
(* run_step: the commits of a wave *)

\* record_gate; the count stops at the limit, above which it means the same.
Recorded(l, i, gate) ==
    [l EXCEPT !.gates[i] = gate,
              !.tries[i] = IF gate # TestInvalid THEN 0
                           ELSE IF @ < MaxGateRuns THEN @ + 1 ELSE @]

GateWrites(l, i, gate) == <<EvGate(i, gate, Recorded(l, i, gate).tries[i])>>

\* commit of a worker's brief: ledger, gate, brief.  A brief without files
\* leaves the ledger as it is.
Ledgered(l, i, good, prints) ==
    IF good THEN [l EXCEPT !.ledger = IF prints THEN @ \cup {i} ELSE @]
    ELSE [l EXCEPT !.ledger = @ \ {i}]

LedgerWrites(l, i, good, prints) ==
    IF good THEN (IF prints THEN <<EvRecord(i)>> ELSE <<>>)
    ELSE IF i \in l.ledger THEN <<EvDrop(i)>> ELSE <<>>

Committed(l, i, good, prints, gate) ==
    LET m == Ledgered(l, i, good, prints)
    IN  IF gate = NoGate THEN m ELSE Recorded(m, i, gate)

CommitWrites(l, i, good, prints, gate) ==
    LedgerWrites(l, i, good, prints)
    \o (IF gate = NoGate THEN <<>> ELSE GateWrites(l, i, gate))
    \o <<EvBrief(i, gate)>>

Worse(g, h) == WorstGate({g, h})

\* A worker returns: an ordinary brief (done, failed, blocked), one that calls
\* the SPEC invalid, one after exhausted schema retries, or one from a lost
\* sandbox; without a gate when the worker raised.
WorkerOutcomes ==
    [flag : {"none"}, done : BOOLEAN, gate : GateResults]
    \cup [flag : {"spec_invalid", "takeover"}, done : {FALSE}, gate : GateResults]
    \cup [flag : {"sandbox"}, done : BOOLEAN, gate : {TestInvalid}]
    \cup [flag : {"none"}, done : {FALSE}, gate : {NoGate}]

WorkerReturns(i, o, prints) ==
    /\ at = "wave" /\ Ready /\ i \in cur.todo
    /\ LET good == o.done /\ o.gate \in GoodGates
       IN  /\ prints => good
           /\ lab' = Committed(lab, i, good, prints, o.gate)
           /\ cur' = [cur EXCEPT !.todo = @ \ {i},
                                 !.worst = Worse(@, BriefGate(o.gate)),
                                 !.flags = @ \cup ({o.flag} \cap Flags)]
           /\ Goto("wave", CommitWrites(lab, i, good, prints, o.gate))
    /\ UNCHANGED <<journal, files, drift>>

\* run_wave is broken off by a spec_invalid or sandbox brief: the siblings are
\* cancelled and get blocked briefs without a gate.
Blocks(i) ==
    /\ at \in {"wave", "blocking"} /\ Ready /\ i \in cur.todo
    /\ cur.flags \cap {"spec_invalid", "sandbox"} # {}
    /\ lab' = Committed(lab, i, FALSE, FALSE, NoGate)
    /\ cur' = [cur EXCEPT !.todo = @ \ {i}, !.worst = Worse(@, NoHard)]
    /\ Goto("blocking", CommitWrites(lab, i, FALSE, FALSE, NoGate))
    /\ UNCHANGED <<journal, files, drift>>

\* Slip: the step goes on before every worker has a brief.
SomeBriefs(todo) == TRUE

AllBriefs(todo) == todo = {}

WaveEnds ==
    /\ at \in {"wave", "blocking"} /\ Ready
    /\ AllBriefs(cur.todo)
    /\ IF "sandbox" \in cur.flags
         THEN /\ lab' = Downed(lab)
              /\ Break
              /\ Goto("step_end", DownWrites(lab))
         ELSE /\ UNCHANGED lab
              /\ cur' = [cur EXCEPT !.specInvalid = "spec_invalid" \in cur.flags,
                                    !.write = FALSE]
              /\ Goto(IF "takeover" \in cur.flags THEN "takeover" ELSE "replay_gates", <<>>)
    /\ UNCHANGED <<journal, files, drift>>

-----------------------------------------------------------------------------
(* _replay_gates *)

ReplayReturns(i, gate) ==
    /\ at = "replay_gates" /\ Ready /\ i \in cur.replay
    /\ lab' = Recorded(lab, i, gate)
    /\ cur' = [cur EXCEPT !.replay = @ \ {i}, !.worst = Worse(@, gate)]
    /\ Goto("replay_gates", GateWrites(lab, i, gate) \o <<EvBrief(i, gate)>>)
    /\ UNCHANGED <<journal, files, drift>>

ReplayLosesSandbox(i) ==
    /\ at = "replay_gates" /\ Ready /\ i \in cur.replay
    /\ LET l == Recorded(lab, i, TestInvalid)
       IN  /\ lab' = Downed(l)
           /\ Goto("step_end", GateWrites(lab, i, TestInvalid)
                               \o <<EvBrief(i, TestInvalid)>> \o DownWrites(l))
    /\ Break
    /\ UNCHANGED <<journal, files, drift>>

\* set_run_gate, then the judge drive.
ReplayEnds ==
    /\ at = "replay_gates" /\ Ready /\ cur.replay = {}
    /\ LET gate == WorstGate({cur.worst})
       IN  /\ lab' = [lab EXCEPT !.runGate = gate]
           /\ cur' = [cur EXCEPT !.worst = gate]
           /\ Goto("judge", <<EvRunGate(gate)>>)
    /\ UNCHANGED <<journal, files, drift>>

-----------------------------------------------------------------------------
(* _judge *)

JudgeHalts ==
    /\ at = "judge" /\ Ready
    /\ lab' = [lab EXCEPT !.halt = TRUE]
    /\ Break
    /\ Goto("step_end", <<EvHalt>>)
    /\ UNCHANGED <<journal, files, drift>>

JudgeLosesSandbox ==
    /\ at = "judge" /\ Ready
    /\ lab' = Downed(lab)
    /\ Break
    /\ Goto("step_end", DownWrites(lab))
    /\ UNCHANGED <<journal, files, drift>>

\* The decision as it is applied, from the gate the judge turn ended with.
Decided(l, decision, gate) ==
    GateChecked(decision, gate, Unrunnable(l.gates, l.tries))

\* The rules are checked here and the gate once it is known: the order of the
\* two checks does not matter to the result.
JudgeSubmits(submitted, rulesOk) ==
    /\ at = "judge" /\ Ready
    /\ LET decision == RulesChecked(submitted, rulesOk) IN
       IF cur.worst = TestInvalid /\ ~Unrunnable(lab.gates, lab.tries)
         THEN \* the turn may have rewritten the acceptance files: run the gates again
              /\ cur' = [cur EXCEPT !.decision = decision, !.regate = cur.asg,
                                    !.worst = NoGate]
              /\ Goto("regate", <<>>)
         ELSE LET d == Decided(lab, decision, cur.worst)
              IN  /\ cur' = [cur EXCEPT !.decision = d]
                  /\ Goto("apply", <<EvJudge(d)>>)
    /\ UNCHANGED <<journal, files, drift, lab>>

RegateReturns(i, gate) ==
    /\ at = "regate" /\ Ready /\ i \in cur.regate
    /\ lab' = Recorded(lab, i, gate)
    /\ cur' = [cur EXCEPT !.regate = @ \ {i}, !.worst = Worse(@, gate)]
    /\ Goto("regate", GateWrites(lab, i, gate))
    /\ UNCHANGED <<journal, files, drift>>

RegateLosesSandbox(i) ==
    /\ at = "regate" /\ Ready /\ i \in cur.regate
    /\ LET l == Recorded(lab, i, TestInvalid)
       IN  /\ lab' = Downed(l)
           /\ Goto("step_end", GateWrites(lab, i, TestInvalid) \o DownWrites(l))
    /\ Break
    /\ UNCHANGED <<journal, files, drift>>

\* st.run_gate is assigned; set_run_gate, which journals, is not called.
RegateEnds ==
    /\ at = "regate" /\ Ready /\ cur.regate = {}
    /\ LET gate == WorstGate({cur.worst})
           d == Decided(lab, cur.decision, gate)
       IN  /\ lab' = [lab EXCEPT !.runGate = gate]
           /\ cur' = [cur EXCEPT !.decision = d, !.worst = gate]
           /\ Goto("apply", <<EvJudge(d)>>)
    /\ UNCHANGED <<journal, files, drift>>

-----------------------------------------------------------------------------
(* _apply_decision, _takeover, _revise_spec *)

ApplyFinish ==
    /\ at = "apply" /\ Ready /\ cur.decision = "finish"
    /\ Break
    /\ Goto("step_end", <<>>)
    /\ UNCHANGED <<journal, files, drift, lab>>

ApplyTakeover ==
    /\ at = "apply" /\ Ready /\ cur.decision = "takeover"
    /\ Goto("takeover", <<>>)
    /\ UNCHANGED <<journal, files, drift, lab, cur>>

WantsRevision == cur.decision = "revise_spec" \/ (cur.specInvalid /\ cur.decision = "continue")

\* The revisions of one run are counted; beyond the limit the steps end.
ApplyRevision ==
    /\ at = "apply" /\ Ready /\ WantsRevision
    /\ IF lab.revisions >= MaxRevisions
         THEN Break /\ Goto("step_end", <<>>) /\ UNCHANGED lab
         ELSE /\ lab' = [lab EXCEPT !.revisions = @ + 1]
              /\ Goto("revise_spec", <<>>)
              /\ UNCHANGED cur
    /\ UNCHANGED <<journal, files, drift>>

ApplyContinue ==
    /\ at = "apply" /\ Ready /\ cur.decision = "continue" /\ ~WantsRevision
    /\ Goto("step_end", <<>>)
    /\ UNCHANGED <<journal, files, drift, lab, cur>>

\* The drive of the turn, or a gate run after it, finds the sandbox gone.
BranchLosesSandbox ==
    /\ at \in {"takeover", "revise_spec"} /\ Ready
    /\ lab' = Downed(lab)
    /\ Break
    /\ Goto("step_end", DownWrites(lab))
    /\ UNCHANGED <<journal, files, drift>>

BranchHalts ==
    /\ at \in {"takeover", "revise_spec"} /\ Ready
    /\ lab' = [lab EXCEPT !.halt = TRUE]
    /\ Break
    /\ Goto("step_end", <<EvHalt>>)
    /\ UNCHANGED <<journal, files, drift>>

\* The gates run after a takeover are not recorded anywhere.
TakeoverSubmits ==
    /\ at = "takeover" /\ Ready
    /\ Goto("step_end", <<>>)
    /\ UNCHANGED <<journal, files, drift, lab, cur>>

ReviseSubmits ==
    /\ at = "revise_spec" /\ Ready
    /\ Goto("step_end", <<EvSpec, FileSpec>>)
    /\ UNCHANGED <<journal, files, drift, lab, cur>>

\* Slip: the completed step is not counted.
StepUncounted(l) == l

\* set_step: only completed steps are counted.
StepCounted(l) == [l EXCEPT !.step = @ + 1]

StepEnds ==
    /\ at = "step_end" /\ Ready
    /\ LET l == StepCounted(lab)
       IN  IF cur.signal = "break"
             THEN /\ lab' = [l EXCEPT !.stage = "summary"]
                  /\ Goto("wrap_up", <<EvStage(l.stage, l.step), EvStage("summary", l.step)>>)
             ELSE /\ lab' = l
                  /\ Goto("step", <<EvStage(l.stage, l.step)>>)
    /\ cur' = NoStep
    /\ UNCHANGED <<journal, files, drift>>

-----------------------------------------------------------------------------
(* summarize, and the end of LabRunner._run *)

WrapUp ==
    /\ at = "wrap_up" /\ Ready
    /\ lab' = [lab EXCEPT !.stage = "summary"]
    /\ Goto("summarize", <<EvStage("summary", lab.step)>>)
    /\ UNCHANGED <<journal, files, drift, cur>>

SummaryReused ==
    /\ at = "summarize" /\ Ready
    /\ lab.resume /\ HasSubmit(journal, journal.summary)
    /\ Goto("write_summary", <<>>)
    /\ UNCHANGED <<journal, files, drift, lab, cur>>

SummaryDrives ==
    /\ at = "summarize" /\ Ready
    /\ ~(lab.resume /\ HasSubmit(journal, journal.summary))
    /\ Goto("summary", <<>>)
    /\ UNCHANGED <<journal, files, drift, lab, cur>>

SummarySubmits ==
    /\ at = "summary" /\ Ready
    /\ Goto("write_summary", <<EvSummary>>)
    /\ UNCHANGED <<journal, files, drift, lab, cur>>

\* No text to write: RunPaused("summary_failed") after mark_sandbox_down.
SummaryLosesSandbox ==
    /\ at = "summary" /\ Ready
    /\ lab' = Downed(lab)
    /\ Goto("pause", DownWrites(lab))
    /\ UNCHANGED <<journal, files, drift, cur>>

\* SUMMARY.md is written; an error of the file system leaves the run (Crash).
WriteSummary ==
    /\ at = "write_summary" /\ Ready
    /\ Goto("close", <<FileSummary>>)
    /\ UNCHANGED <<journal, files, drift, lab, cur>>

\* _summary_gate
SummaryGate(l) ==
    LET recorded == {l.gates[i] : i \in Ids} \ {NoGate}
    IN  IF recorded = {} THEN l.runGate ELSE WorstGate(recorded)

Verdict(l) ==
    IF l.halt THEN "need_user"
    ELSE IF l.down THEN "sandbox_unreachable"
    ELSE SummaryGate(l)

CloseSession ==
    /\ at = "close" /\ Ready
    /\ Goto("leave", <<EvClosed(Verdict(lab))>>)
    /\ UNCHANGED <<journal, files, drift, lab, cur>>

LeaveRun ==
    /\ at \in {"leave", "pause"} /\ Ready
    /\ GoOff
    /\ UNCHANGED <<journal, files, drift>>

-----------------------------------------------------------------------------
Phases ==
    \/ BeginRun \/ EnterLab \/ DriveFails
    \/ RememberSkips \/ RememberDrives \/ RememberSubmits \/ RememberHalts
    \/ RememberLosesSandbox
    \/ SpecSkips \/ SpecReused \/ SpecDrives \/ SpecSubmits \/ SpecHalts \/ SpecLosesSandbox
    \/ WrapUp \/ SummaryReused \/ SummaryDrives \/ SummarySubmits \/ SummaryLosesSandbox
    \/ WriteSummary \/ CloseSession \/ LeaveRun

Steps ==
    \/ AdvanceStarts \/ AdvanceEnds
    \/ StepDrivesDispatch \/ StepResumesDecision \/ StepResumesWork
    \/ DispatchHalts \/ DispatchLosesSandbox \/ DispatchEmpty \/ DispatchRefused
    \/ \E asg \in SUBSET Ids : DispatchSubmits(asg)
    \/ \E i \in Ids, o \in WorkerOutcomes, prints \in BOOLEAN : WorkerReturns(i, o, prints)
    \/ \E i \in Ids : Blocks(i)
    \/ WaveEnds
    \/ \E i \in Ids, gate \in GateResults : ReplayReturns(i, gate)
    \/ \E i \in Ids : ReplayLosesSandbox(i)
    \/ ReplayEnds
    \/ JudgeHalts \/ JudgeLosesSandbox
    \/ \E decision \in Decisions, rulesOk \in BOOLEAN : JudgeSubmits(decision, rulesOk)
    \/ \E i \in Ids, gate \in GateResults : RegateReturns(i, gate)
    \/ \E i \in Ids : RegateLosesSandbox(i)
    \/ RegateEnds
    \/ ApplyFinish \/ ApplyTakeover \/ ApplyRevision \/ ApplyContinue
    \/ BranchLosesSandbox \/ BranchHalts \/ TakeoverSubmits \/ ReviseSubmits
    \/ StepEnds

\* What the run coroutine does by itself.
LabStep == Persist \/ Phases \/ Steps

\* What nobody has to do: start and resume runs, stop them, change files.
Surroundings ==
    \/ Crash \/ Stop \/ NewRun
    \/ \E instruction \in BOOLEAN : ResumeRun(instruction)
    \/ \E i \in Ids : UserEdits(i) \/ AgentEdits(i)

Next == LabStep \/ Surroundings

Spec == Init /\ [][Next]_vars

\* The event loop runs a coroutine that is not waiting, and every await of the
\* lab ends: models and tools are called under deadlines.
FairSpec == Spec /\ WF_vars(LabStep)

-----------------------------------------------------------------------------
(* Properties *)

LabStates ==
    [ resume : BOOLEAN, stage : Stages, step : Nat, halt : BOOLEAN, down : BOOLEAN,
      executed : SUBSET Ids, resumable : SUBSET Ids,
      gates : [Ids -> GateStates \cup {NoGate}], tries : [Ids -> Nat],
      runGate : GateStates, ledger : SUBSET Ids, revisions : Nat, pending : Nat ]

StepStates ==
    [ asg : SUBSET Ids, todo : SUBSET Ids, replay : SUBSET Ids, write : BOOLEAN,
      worst : GateStates \cup {NoGate}, flags : SUBSET Flags, specInvalid : BOOLEAN,
      decision : Decisions \cup {"none"}, regate : SUBSET Ids,
      signal : {"continue", "break"} ]

\* Every variable keeps its type.
TypeOK ==
    /\ journal \in JournalStates
    /\ writes \in Seq(Events)
    /\ files \in [applied : BOOLEAN, spec : {"none", "old", "latest"}, summary : Int]
    /\ drift \in SUBSET Ids
    /\ at \in Places
    /\ lab \in LabStates
    /\ cur \in StepStates

\* LabState is a projection of the journal (flow.py, LabState): whenever the
\* coroutine is about to do something, a crash would restore what it has in
\* memory.  The gate of the last step is left out: RegateEnds changes it
\* without an event, and a resume decides an empty dispatch by the older one.
Running == at \notin {"off", "opening", "replayed"}

ProjectionIsDurable ==
    Running /\ Ready =>
        /\ lab.stage = journal.stage /\ lab.step = journal.step
        /\ lab.halt = journal.halt /\ lab.down = journal.down
        /\ lab.executed = journal.executed /\ lab.ledger = journal.effects
        /\ lab.gates = journal.gates /\ lab.tries = journal.tries

\* Nothing is dispatched, executed, judged or taken over unless a SPEC was
\* submitted for the current plan and SPEC.md renders it.
SpecIsCurrent ==
    at \in {"step", "dispatch", "wave", "blocking", "replay_gates", "judge",
            "regate", "apply", "takeover", "revise_spec"}
        => journal.spec = journal.plan /\ files.spec = "latest"

\* A committed decision of the judge was taken over a complete step: every
\* assignment of the committed dispatch has its brief.
JudgedStepIsComplete ==
    journal.judge # "none" =>
        \A i \in journal.run \cup journal.replay : journal.briefs[i] # NoBrief

\* After submit_halt or the loss of the sandbox no further work is started.
NoWorkAfterTheEnd ==
    Ready /\ (lab.halt \/ lab.down) =>
        at \notin {"spec", "dispatch", "wave", "replay_gates", "judge",
                   "regate", "apply", "takeover", "revise_spec"}

\* The verdict of a session that neither halted nor lost its sandbox is the
\* worst of its recorded gates by the ranks of _GATE_RANK: pass is never
\* reported over a gate that did not pass, and passing gates are reported.
VerdictIsTheWorstGate ==
    LET recorded == {journal.gates[i] : i \in Ids} \ {NoGate}
    IN  journal.result \in GateStates /\ recorded # {} =>
            /\ journal.result \in recorded
            /\ \A g \in recorded : GateRank(g) <= GateRank(journal.result)

\* finish is only decided when no gate run in the step is in the way: none
\* failed, and one that could not run has been given up (sanitize_decision).
\* Assignments whose worker raised have a brief without a gate and are not asked.
FinishIsEarned ==
    journal.judge = "finish" =>
        \A i \in journal.run \cup journal.replay :
            journal.briefs[i] # NoGate =>
                /\ journal.gates[i] # Fail
                /\ journal.gates[i] = TestInvalid => i \in Broken(journal.tries)

\* The run that opened the session keeps to that: it judges what it saw itself.
FinishIsEarnedAtOnce == Running /\ ~lab.resume => FinishIsEarned

\* The brief of an assignment is committed once in its step, however often the
\* run is interrupted.
BriefsAreFinal ==
    [][\A i \in Ids :
          journal.briefs[i] # NoBrief /\ journal'.plan = journal.plan
              /\ journal'.dispatched = journal.dispatched
          => journal'.briefs[i] = journal.briefs[i]]_journal

\* An assignment whose gate passed is not given to a worker again by the run that
\* ran it (partition: no polishing loop).
NoPolishing ==
    [][~lab.resume /\ journal'.plan = journal.plan /\ journal'.dispatched # journal.dispatched
       => \A i \in journal'.run : journal.gates[i] # Pass]_<<journal, lab>>

\* Pro is not asked again for a SPEC or a Summary that was submitted in the
\* current plan: a resume renders the submit it finds.
SubmitsAreReused ==
    [][/\ at # "spec" /\ at' = "spec" => journal.spec # journal.plan
       /\ at # "summary" /\ at' = "summary" => journal.summary # journal.plan]_at

\* No phase starts on products that changed while no run was there: they open a
\* new plan, in which their fingerprints skip nothing.
StartsOnIntactProducts ==
    [][at = "replayed" /\ at' \notin {"replayed", "off"}
       => journal.effects \cap drift = {}]_at

\* A run that nobody interrupts again comes to an end.
RunsEnd == at # "off" ~> at = "off"

-----------------------------------------------------------------------------
\* The promises of a session, read off the journal and the run coroutine.
Life == INSTANCE Lifecycle WITH
    session <- IF ~journal.begun THEN "none"
               ELSE IF journal.result = NoResult THEN "open" ELSE "closed",
    live <- at \notin {"off", "opening"},
    plan <- journal.plan,
    reported <- files.summary = journal.plan

KeepsItsPromises == Life!Spec

=============================================================================
