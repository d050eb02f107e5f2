----------------------------- MODULE LabHelpers -----------------------------
(***************************************************************************)
(* The pure functions the lab flow decides with: the verdict of a gate     *)
(* (runtime/lab/accept.py) and, from runtime/lab/helpers.py, the worst of  *)
(* several gates, the split of a dispatch into work, skips and gate        *)
(* replays, and the correction of a judge decision.                        *)
(***************************************************************************)
EXTENDS Naturals, FiniteSets

CONSTANT MaxGateRuns    \* _MAX_GATE_RUNS: test_invalid results before a gate is given up

ASSUME MaxGateRunsAssumption == MaxGateRuns \in Nat \ {0}

Pass == "pass"
NoHard == "no_hard_criteria"
TestInvalid == "test_invalid"
Fail == "fail"
NoGate == "no_gate"     \* nothing recorded, or a brief that carries no gate result

GateStates == {Pass, NoHard, TestInvalid, Fail}
GoodGates == {Pass, NoHard}
Decisions == {"continue", "finish", "takeover", "revise_spec"}

-----------------------------------------------------------------------------
\* What a pytest command in the sandbox says.  "infra": the sandbox is not
\* reachable, pytest crashed or timed out, or the log reads as if it had.
Reports == {"passed", "failed", "no_pytest", "infra"}

\* _pytest: where pytest is missing it is installed once, and the command is
\* repeated if that worked.
Trials == [first : Reports, installed : BOOLEAN, second : Reports]

ReportOf(trial) ==
    IF trial.first = "no_pytest" /\ trial.installed THEN trial.second ELSE trial.first

\* sanity_and_run: the tests are collected first, and only a run of tests that
\* could be collected is held against the assignment.
GateOf(collect, run) ==
    CASE ReportOf(collect) # "passed" -> TestInvalid
      [] ReportOf(collect) = "passed" /\ ReportOf(run) = "passed" -> Pass
      [] ReportOf(collect) = "passed" /\ ReportOf(run) = "infra" -> TestInvalid
      [] OTHER -> Fail

\* An assignment without acceptance files has no gate; one whose files are not
\* in the workspace cannot be tried.
GateResults == {NoHard, TestInvalid} \cup {GateOf(collect, run) : collect, run \in Trials}

-----------------------------------------------------------------------------
\* _GATE_RANK, best to worst.
GateRank(g) ==
    CASE g = Pass -> 1
      [] g = NoHard -> 2
      [] g = TestInvalid -> 3
      [] g = Fail -> 4
      [] OTHER -> 0

\* A plausible slip the comment of worst_gate warns of: no_hard_criteria as
\* the value the fold starts from, so that passing gates are never reported.
WorstGateFoldedFromNoHard(S) ==
    IF Fail \in S THEN Fail
    ELSE IF TestInvalid \in S THEN TestInvalid
    ELSE NoHard

\* worst_gate: the worst state of a group; an empty group has no gate.
WorstGate(S) ==
    IF Fail \in S THEN Fail
    ELSE IF TestInvalid \in S THEN TestInvalid
    ELSE IF NoHard \in S THEN NoHard
    ELSE IF Pass \in S THEN Pass
    ELSE NoHard

\* The gates of step briefs: a brief without a gate result counts as no_hard_criteria.
BriefGate(g) == IF g = NoGate THEN NoHard ELSE g

\* broken_gates, which record_gate keeps equal to the gates whose count of
\* consecutive test_invalid results has reached the limit.
Broken(tries) == {g \in DOMAIN tries : tries[g] >= MaxGateRuns}

\* gate_unrunnable: every test_invalid gate has been given up.
Unrunnable(gates, tries) ==
    LET stuck == {g \in DOMAIN gates : gates[g] = TestInvalid}
    IN  stuck # {} /\ stuck \subseteq Broken(tries)

-----------------------------------------------------------------------------
\* partition, for assignments whose gate is named by their own id.
SkippedOf(asg, resumable, executed, gates, tries) ==
    (asg \cap resumable) \cup
    {a \in (asg \cap executed) \ resumable :
        ~ (gates[a] = TestInvalid /\ a \notin Broken(tries)) /\ gates[a] # Fail}

ReplayedOf(asg, resumable, executed, gates, tries) ==
    {a \in (asg \cap executed) \ resumable :
        gates[a] = TestInvalid /\ a \notin Broken(tries)}

\* Slip: an id that was executed is run again whatever its gate said.
RunOfAll(asg, resumable, executed, gates, tries) == asg \ resumable

RunOf(asg, resumable, executed, gates, tries) ==
    {a \in asg \ resumable : a \notin executed \/ gates[a] = Fail}

\* sanitize_decision, in its two halves: finish needs every applied rule
\* satisfied, and no gate in its way; a takeover does not help a gate that
\* cannot run.
RulesChecked(decision, rulesOk) ==
    IF decision = "finish" /\ ~rulesOk THEN "continue" ELSE decision

\* Slip: a gate that failed does not stand in the way of finish.
GateCheckedForInvalidOnly(decision, gate, unrunnable) ==
    IF decision \in {"finish", "takeover"} /\ gate = TestInvalid /\ ~unrunnable
    THEN "continue" ELSE decision

GateChecked(decision, gate, unrunnable) ==
    IF \/ decision = "finish" /\ gate = Fail
       \/ decision = "finish" /\ gate = TestInvalid /\ ~unrunnable
       \/ decision = "takeover" /\ gate = TestInvalid
    THEN "continue" ELSE decision
=============================================================================
