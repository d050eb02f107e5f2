------------------------------- MODULE Journal -------------------------------
(***************************************************************************)
(* The session journal JOURNAL.jsonl as a state: every event kind that     *)
(* decides where a resumed lab continues, and the fold Journal.replay      *)
(* makes of them.  Replay is a left fold over the committed lines, so the  *)
(* journal is represented by the JournalState its replay would return, and *)
(* one append is one application of Fold.                                  *)
(*                                                                         *)
(* Abstractions: texts are left out; run_started, run_paused and progress  *)
(* events only change what is shown to people or models and are not        *)
(* events here; the step markers (dispatch, brief, judge) are kept for the *)
(* last dispatched step only, since replayed markers are read for the step *)
(* after the last completed one and each step commits at most one          *)
(* dispatch.  The transcript events are the subject of module Transcript.  *)
(***************************************************************************)
EXTENDS LabHelpers, Integers

CONSTANTS
    Ids,        \* assignment ids
    MaxSteps    \* _MAX_STEPS of runtime/lab/flow.py

ASSUME StepsAssumption == MaxSteps \in Nat \ {0}

Stages == {"remember", "spec", "advance", "summary"}
Verdicts == GateStates \cup {"need_user", "sandbox_unreachable"}
NoResult == "none"
NoBrief == "no_brief"   \* no brief committed for an assignment of the step
NoPlan == -1            \* no such submit in any plan revision

JournalStates ==
    [ begun      : BOOLEAN,
      result     : Verdicts \cup {NoResult},
      plan       : Nat,
      spec       : Int,     \* plan revision of the latest submit_spec
      summary    : Int,     \* plan revision of the latest submit_summary
      stage      : Stages,
      step       : Nat,
      executed   : SUBSET Ids,
      gates      : [Ids -> GateStates \cup {NoGate}],
      tries      : [Ids -> Nat],
      runGate    : GateStates \cup {NoGate},
      halt       : BOOLEAN,
      down       : BOOLEAN,
      dispatched : Nat,     \* step of the last dispatch event, 0 for none
      asg        : SUBSET Ids,
      run        : SUBSET Ids,
      replay     : SUBSET Ids,
      briefs     : [Ids -> GateStates \cup {NoGate, NoBrief}],
      judge      : Decisions \cup {"none"},
      effects    : SUBSET Ids ]

EmptyJournal ==
    [ begun |-> FALSE, result |-> NoResult, plan |-> 0, spec |-> NoPlan,
      summary |-> NoPlan, stage |-> "remember", step |-> 0, executed |-> {},
      gates |-> [i \in Ids |-> NoGate], tries |-> [i \in Ids |-> 0],
      runGate |-> NoGate, halt |-> FALSE, down |-> FALSE, dispatched |-> 0,
      asg |-> {}, run |-> {}, replay |-> {},
      briefs |-> [i \in Ids |-> NoBrief], judge |-> "none", effects |-> {} ]

-----------------------------------------------------------------------------
\* The events, and the two files whose writes are ordered against them.
EvBegin == [kind |-> "begin"]
EvInstruction == [kind |-> "user_instruction"]
EvMismatch == [kind |-> "artifact_mismatch"]
EvSpec == [kind |-> "submit_spec"]          \* attempt_ended of a SPEC drive
EvSummary == [kind |-> "submit_summary"]    \* attempt_ended of a SUMMARY drive
EvStage(stage, step) == [kind |-> "stage", stage |-> stage, step |-> step]
EvExecuted(ids) == [kind |-> "executed", ids |-> ids]
EvGate(id, state, tries) == [kind |-> "gate", id |-> id, state |-> state, tries |-> tries]
EvRunGate(state) == [kind |-> "run_gate", state |-> state]
EvHalt == [kind |-> "halt"]
EvDown == [kind |-> "sandbox_down"]
EvDispatch(step, asg, run, replay) ==
    [kind |-> "dispatch", step |-> step, asg |-> asg, run |-> run, replay |-> replay]
EvBrief(id, gate) == [kind |-> "brief", id |-> id, gate |-> gate]
EvJudge(decision) == [kind |-> "judge", decision |-> decision]
EvRecord(id) == [kind |-> "effect_record", id |-> id]
EvDrop(id) == [kind |-> "effect_drop", id |-> id]
EvClosed(result) == [kind |-> "session_closed", result |-> result]
FileApplied == [kind |-> "REMEMBER.json"]
FileSpec == [kind |-> "SPEC.md"]
FileSummary == [kind |-> "SUMMARY.md"]

Events ==
    [kind : {"begin", "user_instruction", "artifact_mismatch", "submit_spec",
             "submit_summary", "halt", "sandbox_down",
             "REMEMBER.json", "SPEC.md", "SUMMARY.md"}]
    \cup [kind : {"stage"}, stage : Stages, step : Nat]
    \cup [kind : {"executed"}, ids : SUBSET Ids]
    \cup [kind : {"gate"}, id : Ids, state : GateStates, tries : Nat]
    \cup [kind : {"run_gate"}, state : GateStates]
    \cup [kind : {"dispatch"}, step : Nat, asg : SUBSET Ids, run : SUBSET Ids,
          replay : SUBSET Ids]
    \cup [kind : {"brief"}, id : Ids, gate : GateStates \cup {NoGate}]
    \cup [kind : {"judge"}, decision : Decisions]
    \cup [kind : {"effect_record", "effect_drop"}, id : Ids]
    \cup [kind : {"session_closed"}, result : Verdicts]

-----------------------------------------------------------------------------
\* A new plan revision: plan_revision + 1, and _invalidate_plan resets all but
\* what is known of the session and of its submits.
NewPlan(j) ==
    [EmptyJournal EXCEPT !.begun = j.begun, !.result = j.result, !.plan = j.plan + 1,
                         !.spec = j.spec, !.summary = j.summary, !.stage = "spec"]

FoldGate(j, e) == [j EXCEPT !.gates[e.id] = e.state, !.tries[e.id] = e.tries]

FoldDispatch(j, e) ==
    [j EXCEPT !.dispatched = e.step, !.asg = e.asg, !.run = e.run,
              !.replay = e.replay, !.briefs = [i \in Ids |-> NoBrief],
              !.judge = "none"]

\* One iteration of the loop in Journal.replay; a file write is no event.
Fold(j, e) ==
    CASE e.kind = "begin"             -> [j EXCEPT !.begun = TRUE]
      [] e.kind = "user_instruction"  -> NewPlan(j)
      [] e.kind = "artifact_mismatch" -> NewPlan(j)
      [] e.kind = "submit_spec"       -> [j EXCEPT !.spec = j.plan]
      [] e.kind = "submit_summary"    -> [j EXCEPT !.summary = j.plan]
      [] e.kind = "stage"             -> [j EXCEPT !.stage = e.stage, !.step = e.step]
      [] e.kind = "executed"          -> [j EXCEPT !.executed = e.ids]
      [] e.kind = "gate"              -> FoldGate(j, e)
      [] e.kind = "run_gate"          -> [j EXCEPT !.runGate = e.state]
      [] e.kind = "halt"              -> [j EXCEPT !.halt = TRUE]
      [] e.kind = "sandbox_down"      -> [j EXCEPT !.down = TRUE]
      [] e.kind = "dispatch"          -> FoldDispatch(j, e)
      [] e.kind = "brief"             -> [j EXCEPT !.briefs[e.id] = e.gate]
      [] e.kind = "judge"             -> [j EXCEPT !.judge = e.decision]
      [] e.kind = "effect_record"     -> [j EXCEPT !.effects = @ \cup {e.id}]
      [] e.kind = "effect_drop"       -> [j EXCEPT !.effects = @ \ {e.id}]
      [] e.kind = "session_closed"    -> [j EXCEPT !.result = e.result]
      [] OTHER                        -> j

\* Slip: a closed session can be resumed.
ResumableOnceBegun(j) == j.begun

\* JournalState.resumable.
Resumable(j) == j.begun /\ j.result = NoResult

\* Slip: a submit of an older plan revision counts.
HasAnySubmit(j, submitPlan) == submitPlan # NoPlan

\* Slip: only submits of the present run are looked up.
ForgetsSubmits(j, submitPlan) == FALSE

\* latest_submit: the submit was made in the current plan revision.
HasSubmit(j, submitPlan) == submitPlan = j.plan
=============================================================================
